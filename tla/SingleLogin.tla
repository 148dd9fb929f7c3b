----------------------------- MODULE SingleLogin -----------------------------
(***************************************************************************)
(* What ClientManager promises: a user id is held by one connection at a   *)
(* time.  A new login takes the user over and tells the previous holder to *)
(* stop in the same step; a holder gives the user up only after it was     *)
(* told to stop; a connection logs in at most once.                        *)
(***************************************************************************)
CONSTANTS Conns, Users, None

VARIABLES holder, \* the connection that speaks for each user
          used,   \* connections that have logged in
          over    \* connections that were told to stop

vars == <<holder, used, over>>

Init ==
    /\ holder = [u \in Users |-> None]
    /\ used = {}
    /\ over = {}

LogIn(u, c) ==
    /\ c \notin used
    /\ holder' = [holder EXCEPT ![u] = c]
    /\ used' = used \cup {c}
    /\ over' = over \cup ({holder[u]} \ {None})

LogOut(u) ==
    /\ holder[u] \in over
    /\ holder' = [holder EXCEPT ![u] = None]
    /\ UNCHANGED <<used, over>>

End(S) ==
    /\ over' = over \cup S
    /\ UNCHANGED <<holder, used>>

Next ==
    \/ \E u \in Users, c \in Conns : LogIn(u, c)
    \/ \E u \in Users : LogOut(u)
    \/ \E S \in SUBSET Conns : End(S)

Spec == Init /\ [][Next]_vars

\* The consequence callers rely on: a connection that has logged in and was
\* not told to stop holds a user.
LiveHolds ==
    \A c \in used \ over : \E u \in Users : holder[u] = c
=============================================================================
