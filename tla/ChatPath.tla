------------------------------ MODULE ChatPath ------------------------------
(***************************************************************************)
(* What the connector promises about chat messages, seen from outside: a   *)
(* message that was said may arrive at the compute servers once, or be     *)
(* lost, and never both; what one sender says in one room arrives in the   *)
(* order it was said.                                                      *)
(***************************************************************************)
EXTENDS Naturals, Sequences

VARIABLES said,    \* messages the handlers have numbered
          arrived, \* messages a compute server has received, in that order
          lost     \* messages given up

vars == <<said, arrived, lost>>

Elements(s) == {s[i] : i \in 1..Len(s)}

\* No message twice, and the messages of one sender to one room in order.
Orderly(s) ==
    \A i, j \in 1..Len(s) :
        i < j => /\ s[i] # s[j]
                 /\ s[i].from = s[j].from /\ s[i].room = s[j].room => s[i].id < s[j].id

Init ==
    /\ said = {}
    /\ arrived = <<>>
    /\ lost = {}

Say ==
    /\ \E m \in said' \ said : said' = said \cup {m}
    /\ UNCHANGED <<arrived, lost>>

\* A batch arrives.
Arrive ==
    /\ Len(arrived') > Len(arrived)
    /\ SubSeq(arrived', 1, Len(arrived)) = arrived
    /\ Orderly(arrived')
    /\ Elements(arrived') \subseteq said \ lost
    /\ UNCHANGED <<said, lost>>

\* Messages are given up: by a full queue, or with a batch.
Lose ==
    /\ lost \subseteq lost'
    /\ lost' \subseteq said \ Elements(arrived)
    /\ UNCHANGED <<said, arrived>>

Next == Say \/ Arrive \/ Lose

Spec == Init /\ [][Next]_vars
=============================================================================
