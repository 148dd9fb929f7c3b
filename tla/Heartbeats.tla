----------------------------- MODULE Heartbeats -----------------------------
(***************************************************************************)
(* The heartbeat sweep: every second initHeartBeat closes the clients of   *)
(* the table whose last heartbeat is more than three seconds old, while    *)
(* the handlers of those clients record heartbeats without a lock.         *)
(*                                                                         *)
(* heartBeat reads the clock and stores what it read (two steps; Chat,     *)
(* HeartBeat and RefreshToken call it, EnterRoom does not).  The sweep     *)
(* reads the clock, waits for the read lock of the table, and then loads   *)
(* heartBeatTime client by client; a client found late is closed in a step *)
(* of its own, behind Statis and a line of the log, and a heartbeat stored *)
(* in between does not save it.  Registrations and removals wait for the   *)
(* lock.  Clients below protocol version 100 send no heartbeats and are    *)
(* spared.                                                                 *)
(*                                                                         *)
(* Delay bounds how late a sweep may end after its timer was due.  It is   *)
(* an assumption on scheduling, not something the code enforces; only      *)
(* SilenceBounded depends on it.                                           *)
(***************************************************************************)
EXTENDS Integers

CONSTANTS Clients,  \* Client objects
          Timeout,  \* 3000 ms
          Period,   \* 1000 ms
          Delay,    \* lateness of a sweep
          MaxTime   \* bound: the clock

ASSUME HeartbeatAssumption ==
    /\ Timeout \in Nat
    /\ Period \in Nat \ {0}
    /\ Delay \in Nat
    /\ MaxTime \in Nat

None == -1

VARIABLES
    now,            \* the clock
    state,          \* each client: "none", "tabled", "closing" or "gone"
    versioned,      \* client.version >= 100
    heartBeatTime,  \* client.heartBeatTime
    hand,           \* what heartBeat has read and not yet stored
    spc,            \* place of initHeartBeat: "wait", "lock" or "sweep"
    due,            \* when heartBeatTimer fires
    from,           \* the limit of the sweep in progress
    left,           \* clients it has not visited
    judged,         \* the client the sweep found late and has not yet closed
    beaten          \* history: a heartbeat of it was stored since it was found late

clientVars == <<state, versioned, heartBeatTime, hand>>
visitVars == <<left, judged, beaten>>
sweepVars == <<spc, due, from, visitVars>>
vars == <<now, clientVars, sweepVars>>

TypeOK ==
    /\ now \in Nat
    /\ state \in [Clients -> {"none", "tabled", "closing", "gone"}]
    /\ versioned \in [Clients -> BOOLEAN]
    /\ heartBeatTime \in [Clients -> Nat]
    /\ hand \in [Clients -> Nat \cup {None}]
    /\ spc \in {"wait", "lock", "sweep"}
    /\ due \in Nat
    /\ from \in Int
    /\ left \in SUBSET Clients
    /\ judged \in SUBSET Clients
    /\ beaten \in BOOLEAN

Init ==
    /\ now = 0
    /\ state = [c \in Clients |-> "none"]
    /\ versioned = [c \in Clients |-> FALSE]
    /\ heartBeatTime = [c \in Clients |-> 0]
    /\ hand = [c \in Clients |-> None]
    /\ spc = "wait"
    /\ due = Period
    /\ from = 0
    /\ left = {}
    /\ judged = {}
    /\ beaten = FALSE

-----------------------------------------------------------------------------
\* Time passes, but a sweep ends at most Delay after it was due.
Tick ==
    /\ now < MaxTime
    /\ now < due + Delay
    /\ now' = now + 1
    /\ UNCHANGED <<clientVars, sweepVars>>

\* clientIn under the table's lock: createClient stores the time of birth.
Register(c, v) ==
    /\ state[c] = "none"
    /\ spc # "sweep"
    /\ state' = [state EXCEPT ![c] = "tabled"]
    /\ versioned' = [versioned EXCEPT ![c] = v]
    /\ heartBeatTime' = [heartBeatTime EXCEPT ![c] = now]
    /\ UNCHANGED <<now, hand, sweepVars>>

\* Client.heartBeat reads the clock ...
BeatReads(c) ==
    /\ state[c] \in {"tabled", "closing"}
    /\ hand[c] = None
    /\ hand' = [hand EXCEPT ![c] = now]
    /\ UNCHANGED <<now, state, versioned, heartBeatTime, sweepVars>>

\* ... and stores what it read.
BeatStores(c) ==
    /\ hand[c] # None
    /\ heartBeatTime' = [heartBeatTime EXCEPT ![c] = hand[c]]
    /\ hand' = [hand EXCEPT ![c] = None]
    /\ beaten' = (beaten \/ c \in judged)
    /\ UNCHANGED <<now, state, versioned, spc, due, from, left, judged>>

\* The client is stopped for another reason, or superseded, or removed from
\* the table by its own teardown (under the table's lock).
Leaves(c) ==
    /\ state[c] \in {"tabled", "closing"}
    /\ spc # "sweep"
    /\ state' = [state EXCEPT ![c] = "gone"]
    /\ UNCHANGED <<now, versioned, heartBeatTime, hand, sweepVars>>

\* The timer fires; now and from are computed before the lock is taken.
SweepStarts ==
    /\ spc = "wait"
    /\ due <= now
    /\ from' = now - Timeout
    /\ spc' = "lock"
    /\ UNCHANGED <<now, clientVars, due, visitVars>>

SweepLocks ==
    /\ spc = "lock"
    /\ left' = {c \in Clients : state[c] \in {"tabled", "closing"}}
    /\ spc' = "sweep"
    /\ UNCHANGED <<now, clientVars, due, from, judged, beaten>>

\* A limit that is met too early, and one that is met too late.
Mutant_LateAtLimit(c) == versioned[c] /\ heartBeatTime[c] <= from
Mutant_LateBeyondLimit(c) == versioned[c] /\ heartBeatTime[c] + 1 < from

\* client.version >= 100 && heartBeatTime < from.
Late(c) == versioned[c] /\ heartBeatTime[c] < from

\* One client of the iteration: its heartBeatTime is loaded and judged ...
SweepLoads(c) ==
    /\ spc = "sweep"
    /\ judged = {}
    /\ c \in left
    /\ left' = left \ {c}
    /\ judged' = IF Late(c) THEN {c} ELSE {}
    /\ beaten' = FALSE
    /\ UNCHANGED <<now, clientVars, spc, due, from>>

\* ... and, when it was late, the client is closed.
SweepCloses(c) ==
    /\ c \in judged
    /\ judged' = {}
    /\ state' = [state EXCEPT ![c] = "closing"]
    /\ UNCHANGED <<now, versioned, heartBeatTime, hand, spc, due, from, left, beaten>>

SweepEnds ==
    /\ spc = "sweep"
    /\ left = {}
    /\ judged = {}
    /\ spc' = "wait"
    /\ due' = now + Period
    /\ UNCHANGED <<now, clientVars, from, visitVars>>

Next ==
    \/ Tick
    \/ \E c \in Clients, v \in BOOLEAN : Register(c, v)
    \/ \E c \in Clients : BeatReads(c) \/ BeatStores(c) \/ Leaves(c)
    \/ \E c \in Clients : SweepLoads(c) \/ SweepCloses(c)
    \/ SweepStarts
    \/ SweepLocks
    \/ SweepEnds

Spec == Init /\ [][Next]_vars

-----------------------------------------------------------------------------
\* The sweep finds a client late only when the heartbeat on record is really
\* older than the three seconds at the moment of the load, however long the
\* sweep waited for the lock after it read the clock.  It closes nobody else,
\* and when it does, the record is still that old, with one exception that
\* the code leaves open: a heartbeat stored between the load and the Close.
OnlySilentClosed ==
    [][\A c \in Clients :
        /\ c \in judged' \ judged => now - heartBeatTime[c] > Timeout
        /\ state[c] = "tabled" /\ state'[c] = "closing"
              => c \in judged /\ (beaten \/ now - heartBeatTime[c] > Timeout)]_vars

\* A client that speaks a version with heartbeats and has fallen silent is
\* closed within the three seconds, one period of the sweep and the lateness
\* of two sweeps: no order of registrations, heartbeats that store a time
\* read earlier, and sweeps lets one slip through.
SilenceBounded ==
    \A c \in Clients :
        state[c] = "tabled" /\ versioned[c]
            => now - heartBeatTime[c] <= Timeout + Period + 2 * Delay
=============================================================================
