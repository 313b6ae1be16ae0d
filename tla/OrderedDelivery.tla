-------------------------- MODULE OrderedDelivery --------------------------
(***************************************************************************)
(* What one topic and its only consumer promise together: every message    *)
(* appended is resolved at most once, in the order of the topic, as stored *)
(* or dropped; subscribing again gives up whatever is still pending.       *)
(* Nothing is promised of a message that is never appended.                *)
(***************************************************************************)
EXTENDS Naturals, Sequences

CONSTANT Messages  \* what is sent: a message or a name for it

VARIABLES sent, outcome

vars == <<sent, outcome>>

Outcomes == {"pending", "stored", "dropped", "skipped"}

TypeOK ==
    /\ sent \in Seq(Messages)
    /\ outcome \in Seq(Outcomes)
    /\ Len(outcome) = Len(sent)

Init == sent = << >> /\ outcome = << >>

Pending(o) == outcome[o] = "pending"

(* The first pending offset: everything before it is resolved.             *)
IsHead(o) == Pending(o) /\ \A p \in 1 .. o - 1 : ~Pending(p)

Publish ==
    \E m \in Messages :
        /\ sent' = Append(sent, m)
        /\ outcome' = Append(outcome, "pending")

Resolve ==
    \E o \in DOMAIN outcome, result \in {"stored", "dropped"} :
        /\ IsHead(o)
        /\ outcome' = [outcome EXCEPT ![o] = result]
        /\ UNCHANGED sent

Resubscribe ==
    /\ outcome' = [o \in DOMAIN outcome |-> IF Pending(o) THEN "skipped" ELSE outcome[o]]
    /\ UNCHANGED sent

Next == Publish \/ Resolve \/ Resubscribe

Spec == Init /\ [][Next]_vars
=============================================================================
