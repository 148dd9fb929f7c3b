------------------------------ MODULE Shutdown ------------------------------
(***************************************************************************)
(* What the shutdown sequence of main waits for.  Sessions has the steps   *)
(* (Stop, CloseAll, WaitClients); this module remembers which connections  *)
(* registered after CloseAll had looked at the table, and states the       *)
(* fairness of main, of the pumpers and of bdmsg's handshake timer.        *)
(***************************************************************************)
EXTENDS Sessions

VARIABLE late  \* history: connections that registered after CloseAll

SInit == Init /\ late = {}

\* A registration after CloseAll is remembered.
Remember ==
    late' = late \cup {c \in Conns : /\ server = "closed"
                                     /\ uid[c] = None
                                     /\ uid'[c] # None}

SNext == Next /\ Remember

svars == <<vars, late>>

\* Every goroutine that can run does run: handlers and teardowns in progress,
\* and main after the signal.  The pumper's select is random, so a stop
\* request that stays pending is taken even while messages keep coming (strong
\* fairness).  A connection that never completes the handshake is stopped by
\* bdmsg's timer.  Peers and the session timers owe nothing.
SSpec ==
    /\ SInit
    /\ [][SNext]_svars
    /\ WF_svars(CloseAll /\ Remember)
    /\ WF_svars(WaitClients /\ Remember)
    /\ \A c \in Conns :
        /\ SF_svars(PumperStops(c) /\ Remember)
        /\ WF_svars(HandshakeTimeout(c) /\ Remember)
        /\ WF_svars((Handshake(c) \/ FinishEnter(c)) /\ Remember)
        /\ WF_svars((MonitorLeavesRoom(c) \/ MonitorRemoves(c) \/ MonitorQuits(c))
                        /\ Remember)

-----------------------------------------------------------------------------
\* Once CloseAll has returned, every connection nobody has told to stop
\* either has not registered (the handshake timer watches it) or registered
\* after CloseAll looked at the table: a registration that overlaps CloseAll,
\* and a connection superseded by one, are not forgotten.
OnlyLateRemain ==
    server \in {"closed", "exited"} =>
        \A c \in Conns : conn[c] = "open" => uid[c] = None \/ c \in late

\* A connection that registered after CloseAll and is still served.
LateServed == \E c \in late : conn[c] = "open"

\* After Server.Stop main exits, WaitClients included, unless some connection
\* that registered after CloseAll is served for ever: no other connection,
\* whatever its handlers are doing, keeps main waiting.
ShutdownEnds ==
    (<>[]LateServed) \/ (server = "stopped" ~> server = "exited")
=============================================================================
