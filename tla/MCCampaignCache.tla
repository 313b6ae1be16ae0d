-------------------------- MODULE MCCampaignCache --------------------------
(* Instances of CampaignCache for TLC: the configurations give the          *)
(* campaigns, the filters and the bounds.                                   *)
EXTENDS CampaignCache

CONSTANTS C1

ASSUME C1 \in Ids

(* A campaign fails a filter if the first write set its name, or if it     *)
(* did not: the texts of two filters are the same.                         *)
MCFilters == {"first", "notFirst", "other"}
MCHides == [f \in Filters |-> {m \in Row : m["name"] = 1 <=> f # "first"}]
MCKeyText == [f \in Filters |-> IF f = "other" THEN "y" ELSE "x"]

(* All campaigns and those that match a filter; with one campaign as well. *)
MCLists == [id: {None}, filter: Filters \union {None}]
MCQueries == MCLists \union [id: {C1}, filter: {None}]

(* Updates that name one column, and the other.                            *)
MCChanges == {{c} : c \in Fields}

UsedGets == {g \in Gets : get[g].stage # "idle"}
UsedWrites == {w \in Writes : write[w].stage # "idle"}

(* What meets: two GETs and a write, or any two of these and a failure; or *)
(* two writes alone.  Actions that are fair start no request, and can      *)
(* succeed: they can always be taken.                                      *)
Meets ==
    /\ faults = 0 \/ Cardinality(UsedGets) + Cardinality(UsedWrites) <= 2
    /\ UsedWrites \subseteq {1} \/ (faults = 0 /\ UsedGets = {})

MCSpec == Init /\ [][Next /\ Meets']_vars /\ Fairness
=============================================================================
