------------------------------ MODULE MCTimers ------------------------------
(***************************************************************************)
(* The two timers that close sessions, for TLC.  Heartbeats and Expiry     *)
(* share no variable, and every property speaks of one of them: each is    *)
(* explored with the other at rest, which their interleavings add nothing  *)
(* to.                                                                     *)
(***************************************************************************)
EXTENDS Heartbeats, Expiry

VARIABLE subject  \* the module that is explored

TimersInit == Init /\ ExpiryInit /\ subject \in {"heartbeats", "expiry"}

TimersNext ==
    \/ subject = "heartbeats" /\ Next /\ UNCHANGED <<subject, expiryVars>>
    \/ subject = "expiry" /\ ExpiryNext /\ UNCHANGED <<subject, vars>>

TimersSpec == TimersInit /\ [][TimersNext]_<<subject, vars, expiryVars>>
=============================================================================
