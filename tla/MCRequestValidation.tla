------------------------ MODULE MCRequestValidation ------------------------
(* Instances of RequestValidation for TLC.  The clock reads 10; the dates   *)
(* are before it, equal to it, after it and later still, so that each date  *)
(* rule alone, each pair and all three together are broken by some request. *)
EXTENDS RequestValidation

MCNow == 10

CreateRequest(start, end, max, min, price) ==
    [kind |-> "create", user |-> TRUE, id |-> Nil, name |-> "given",
     start |-> start, end |-> end, max |-> max, min |-> min, price |-> price]

UpdateRequest(id, name, start, end, max, min, price) ==
    [kind |-> "update", user |-> TRUE, id |-> id, name |-> name,
     start |-> start, end |-> end, max |-> max, min |-> min, price |-> price]

(* Creates: every combination of broken rules, and two the binding refuses. *)
MCCreates ==
    {CreateRequest(s, e, m, 3, p) : s \in {9, 10, 12}, e \in {9, 10, 13}, m \in {2, 3},
                                    p \in {0, 1}}
      \union {CreateRequest(12, 13, 1, 1, 1),
              [CreateRequest(12, 13, 3, 3, 1) EXCEPT !.user = FALSE]}

(* Updates: dates and limits given together, alone or not at all.           *)
MCUpdates ==
    {UpdateRequest(id, name, d[1], d[2], l[1], l[2], p) :
        id \in Ids, name \in Names \union {Nil},
        d \in {<<Nil, Nil>>, <<9, 9>>, <<12, 13>>, <<Nil, 11>>},
        l \in {<<2, 3>>, <<3, 3>>, <<Nil, 9>>},
        p \in {Nil, 0, 1}}
      \union {UpdateRequest(Nil, "given", Nil, Nil, Nil, Nil, Nil)}

(* Everything.                                                              *)
MCRequests == MCCreates \union MCUpdates
=============================================================================
