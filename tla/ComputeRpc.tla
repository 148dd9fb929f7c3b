----------------------------- MODULE ComputeRpc -----------------------------
(***************************************************************************)
(* rpcClient: the consumer goroutine sends each batch of chat messages to  *)
(* a compute server (deliver, trySend, send), while the discovery          *)
(* goroutine replaces the list of servers and closes connections to        *)
(* servers that disappeared.                                               *)
(*                                                                         *)
(* deliver, trySend and send have a value receiver, so each call works on  *)
(* a copy of the rpc struct: its own connLocker, its own slice header, its *)
(* own callCounter (0 in rpcClient for ever, so send always uses index 1), *)
(* but the same connectionMap.  Consequences the model keeps:              *)
(*   - a copy taken while discovery holds connLocker is locked for ever,   *)
(*     and with it the consumer (cpc = "stuck");                           *)
(*   - the copied slice header may be torn between the old and the new;    *)
(*   - nothing excludes the two goroutines from each other: a write to     *)
(*     the map during discovery's iteration may kill the process, and      *)
(*     discovery may close a connection between two writes of send.        *)
(*                                                                         *)
(* Abstracted: redis (any answer), the network (any dial or write may      *)
(* fail, after a part of the data or none), marshalling and compression.   *)
(* All writes of a frame are two parts: the length and the bytes.          *)
(***************************************************************************)
EXTENDS Integers, Sequences, FiniteSets

CONSTANTS Addrs,      \* addresses of compute servers, ordered numbers
          Conns,      \* connections that may ever be dialled
          None,       \* nil
          MaxBatches, \* bound: batches delivered
          MaxTicks    \* bound: successful ticks of discovery

ASSUME RpcAssumption ==
    /\ Addrs \subseteq Nat
    /\ IsFiniteSet(Addrs)
    /\ None \notin Conns \cup Addrs
    /\ MaxBatches \in Nat
    /\ MaxTicks \in Nat

VARIABLES
    avail,    \* rpcClient.availableAddresses
    pending,  \* the slice discovery is storing
    known,    \* keys of discovery's last query result
    dpc,      \* place of discovery: "idle", "assign" and "close" hold the lock
    left,     \* entries of connectionMap its iteration has still to visit
    ticks,    \* ticks so far
    connMap,  \* rpcClient.connectionMap
    peer,     \* address each connection was dialled to
    up,       \* connections that are not closed
    stream,   \* history: the parts written on each connection
    cpc,      \* place of the consumer
    view,     \* the copied slice header: the array and the length
    addr,     \* address of the attempt
    k,        \* attempts of trySend that have failed
    batch,    \* number of the batch being delivered
    outcome,  \* history: what deliver logged for each batch
    excuses,  \* history: failures of the network, and closes by discovery,
              \* since the batch was started
    crashed   \* the runtime has killed the process

discoveryVars == <<avail, pending, known, dpc, left, ticks>>
netVars == <<peer, up, stream>>
sendVars == <<view, addr, k, batch>>
vars == <<discoveryVars, connMap, netVars, cpc, sendVars, outcome, excuses,
          crashed>>

\* What sort.Strings makes of a set of addresses.
Slices ==
    {s \in UNION {[1..n -> Addrs] : n \in 0..Cardinality(Addrs)} :
        \A i, j \in DOMAIN s : i < j => s[i] < s[j]}

TypeOK ==
    /\ avail \in Slices
    /\ pending \in Slices
    /\ known \in SUBSET Addrs
    /\ dpc \in {"idle", "assign", "close"}
    /\ left \in SUBSET Addrs
    /\ ticks \in 0..MaxTicks
    /\ connMap \in [Addrs -> Conns \cup {None}]
    /\ peer \in [Conns -> Addrs \cup {None}]
    /\ up \in SUBSET Conns
    /\ stream \in [Conns -> Seq({"length", "bytes"} \X Nat)]
    /\ cpc \in {"idle", "copy", "attempt", "length", "bytes", "stuck"}
    /\ view \in Slices \X Nat
    /\ addr \in Addrs \cup {None}
    /\ k \in 0..2
    /\ batch \in 0..MaxBatches
    /\ outcome \in [1..MaxBatches -> {"none", "sent", "failed", "panic"}]
    /\ excuses \in Nat
    /\ crashed \in BOOLEAN

Init ==
    /\ avail = <<>>
    /\ pending = <<>>
    /\ known = {}
    /\ dpc = "idle"
    /\ left = {}
    /\ ticks = 0
    /\ connMap = [a \in Addrs |-> None]
    /\ peer = [c \in Conns |-> None]
    /\ up = {}
    /\ stream = [c \in Conns |-> <<>>]
    /\ cpc = "idle"
    /\ view = << <<>>, 0 >>
    /\ addr = None
    /\ k = 0
    /\ batch = 0
    /\ outcome = [b \in 1..MaxBatches |-> "none"]
    /\ excuses = 0
    /\ crashed = FALSE

-----------------------------------------------------------------------------
(***************************************************************************)
(* initRpcServerDiscovery.                                                 *)
(***************************************************************************)

\* The query succeeded: its keys are res, those registered lately are s.  f
\* then takes rpcClient.connLocker.  (A failed query changes nothing.)
DiscoveryLocks(res, s) ==
    /\ ~crashed
    /\ dpc = "idle"
    /\ ticks < MaxTicks
    /\ \A i \in DOMAIN s : s[i] \in res
    /\ ticks' = ticks + 1
    /\ known' = res
    /\ pending' = s
    /\ dpc' = "assign"
    /\ UNCHANGED <<avail, left, connMap, netVars, cpc, sendVars, outcome,
                   excuses, crashed>>

\* The store of the slice header is complete; the iteration starts.
DiscoveryAssigns ==
    /\ ~crashed
    /\ dpc = "assign"
    /\ avail' = pending
    /\ left' = {a \in Addrs : connMap[a] # None}
    /\ dpc' = "close"
    /\ UNCHANGED <<pending, known, ticks, connMap, netVars, cpc, sendVars,
                   outcome, excuses, crashed>>

\* One round of the iteration: a connection to a server that is gone is
\* closed and stays in the map.  An entry the consumer deleted meanwhile is
\* not visited.
DiscoveryVisits(a) ==
    LET c == connMap[a]
        closes == c # None /\ a \notin known /\ c \in up
    IN  /\ ~crashed
        /\ dpc = "close"
        /\ a \in left
        /\ left' = left \ {a}
        /\ up' = IF closes THEN up \ {c} ELSE up
        /\ excuses' = IF closes THEN excuses + 1 ELSE excuses
        /\ UNCHANGED <<avail, pending, known, dpc, ticks, connMap, peer,
                       stream, cpc, sendVars, outcome, crashed>>

DiscoveryUnlocks ==
    /\ ~crashed
    /\ dpc = "close"
    /\ left = {}
    /\ dpc' = "idle"
    /\ UNCHANGED <<avail, pending, known, left, ticks, connMap, netVars, cpc,
                   sendVars, outcome, excuses, crashed>>

-----------------------------------------------------------------------------
(***************************************************************************)
(* deliver, trySend and send.                                              *)
(***************************************************************************)

\* consumeEvent calls rpcClient.deliver with a batch: the receiver is copied,
\* connLocker first.  A copied locked mutex is never unlocked.
DeliverCopies ==
    /\ ~crashed
    /\ cpc = "idle"
    /\ batch < MaxBatches
    /\ batch' = batch + 1
    /\ k' = 0
    /\ excuses' = 0
    /\ cpc' = IF dpc = "idle" THEN "copy" ELSE "stuck"
    /\ UNCHANGED <<discoveryVars, connMap, netVars, view, addr, outcome,
                   crashed>>

\* ... and the slice header next: torn when discovery is storing it.
SliceCopies ==
    /\ ~crashed
    /\ cpc = "copy"
    /\ LET seen == IF dpc = "assign" THEN {avail, pending} ELSE {avail}
       IN  \E array \in seen, s \in seen : view' = <<array, Len(s)>>
    /\ cpc' = "attempt"
    /\ UNCHANGED <<discoveryVars, connMap, netVars, addr, k, batch, outcome,
                   excuses, crashed>>

\* deliver ends for this batch; consumeEvent recovers a panic.
Ends(what) ==
    /\ outcome' = [outcome EXCEPT ![batch] = what]
    /\ cpc' = "idle"
    /\ addr' = None
    /\ UNCHANGED <<view, k, batch>>

\* send returned an error: trySend tries again, three times in all.
Fails ==
    IF k < 2
    THEN /\ k' = k + 1
         /\ cpc' = "attempt"
         /\ addr' = None
         /\ UNCHANGED <<view, batch, outcome>>
    ELSE Ends("failed")

\* send writes connectionMap: unguarded, so during discovery's iteration the
\* runtime may detect it and kill the process.
MapWrite(a, c) ==
    /\ connMap' = [connMap EXCEPT ![a] = c]
    /\ crashed' \in IF dpc = "close" THEN BOOLEAN ELSE {FALSE}

\* callCounter is 1 in every copy.
Index(len) == (1 % len) + 1

\* The list can be indexed: it is not empty, and no torn length exceeds the
\* copied array.
Readable == IF view[2] = 0 THEN FALSE ELSE Index(view[2]) <= Len(view[1])

\* The address of this attempt.
Target(a) == Readable /\ a = view[1][Index(view[2])]

\* The modulus is zero, or the read behind the array is a fault.
SendPanics ==
    /\ ~crashed
    /\ cpc = "attempt"
    /\ ~Readable
    /\ Ends("panic")
    /\ crashed' \in IF view[2] = 0 THEN {FALSE} ELSE BOOLEAN
    /\ UNCHANGED <<discoveryVars, connMap, netVars, excuses>>

\* The read behind the array finds something, to which no dial succeeds.
SendMisreads ==
    /\ ~crashed
    /\ cpc = "attempt"
    /\ view[2] # 0
    /\ ~Readable
    /\ crashed' \in IF dpc = "close" THEN BOOLEAN ELSE {FALSE}
    /\ excuses' = excuses + 1
    /\ Fails
    /\ UNCHANGED <<discoveryVars, connMap, netVars>>

\* send finds a connection in the map, open or not.
SendReuses(a) ==
    /\ ~crashed
    /\ cpc = "attempt"
    /\ Target(a)
    /\ connMap[a] # None
    /\ addr' = a
    /\ cpc' = "length"
    /\ UNCHANGED <<discoveryVars, connMap, netVars, view, k, batch, outcome,
                   excuses, crashed>>

\* send dials.  An entry added during discovery's iteration is visited by it
\* or not.
SendDials(a, c) ==
    /\ ~crashed
    /\ cpc = "attempt"
    /\ Target(a)
    /\ connMap[a] = None
    /\ peer[c] = None
    /\ MapWrite(a, c)
    /\ left' \in IF dpc = "close" THEN {left \ {a}, left \cup {a}} ELSE {left}
    /\ peer' = [peer EXCEPT ![c] = a]
    /\ up' = up \cup {c}
    /\ addr' = a
    /\ cpc' = "length"
    /\ UNCHANGED <<avail, pending, known, dpc, ticks, stream, view, k, batch,
                   outcome, excuses>>

SendDialFails(a) ==
    /\ ~crashed
    /\ cpc = "attempt"
    /\ Target(a)
    /\ connMap[a] = None
    /\ MapWrite(a, None)
    /\ excuses' = excuses + 1
    /\ Fails
    /\ UNCHANGED <<discoveryVars, netVars>>

\* A send that returns an error although the bytes were written.
Mutant_SendWritesUnsure ==
    LET c == connMap[addr]
    IN  /\ ~crashed
        /\ cpc \in {"length", "bytes"}
        /\ c \in up
        /\ stream' = [stream EXCEPT ![c] = Append(@, <<cpc, batch>>)]
        /\ \/ /\ cpc = "length"
              /\ cpc' = "bytes"
              /\ UNCHANGED <<sendVars, outcome>>
           \/ cpc = "bytes" /\ Fails
        /\ UNCHANGED <<discoveryVars, connMap, peer, up, excuses, crashed>>

\* conn.Write of one part succeeds: the length, then the bytes.
SendWrites ==
    LET c == connMap[addr]
    IN  /\ ~crashed
        /\ cpc \in {"length", "bytes"}
        /\ c \in up
        /\ stream' = [stream EXCEPT ![c] = Append(@, <<cpc, batch>>)]
        /\ \/ /\ cpc = "length"
              /\ cpc' = "bytes"
              /\ UNCHANGED <<sendVars, outcome>>
           \/ cpc = "bytes" /\ Ends("sent")
        /\ UNCHANGED <<discoveryVars, connMap, peer, up, excuses, crashed>>

\* An error path that neither closes nor deletes.
Mutant_SendWriteFailsKeepsOpen ==
    LET c == connMap[addr]
    IN  /\ ~crashed
        /\ cpc \in {"length", "bytes"}
        /\ excuses' = IF c \in up THEN excuses + 1 ELSE excuses
        /\ Fails
        /\ UNCHANGED <<discoveryVars, connMap, netVars, crashed>>

\* An error path that deletes without closing.
Mutant_SendWriteFailsLeaks ==
    LET c == connMap[addr]
    IN  /\ ~crashed
        /\ cpc \in {"length", "bytes"}
        /\ excuses' = IF c \in up THEN excuses + 1 ELSE excuses
        /\ MapWrite(addr, None)
        /\ Fails
        /\ UNCHANGED <<discoveryVars, netVars>>

\* An error path that closes without deleting.
Mutant_SendWriteFailsKeepsEntry ==
    LET c == connMap[addr]
    IN  /\ ~crashed
        /\ cpc \in {"length", "bytes"}
        /\ up' = up \ {c}
        /\ excuses' = IF c \in up THEN excuses + 1 ELSE excuses
        /\ Fails
        /\ UNCHANGED <<discoveryVars, connMap, peer, stream, crashed>>

\* conn.Write fails, on a closed connection always: send closes the
\* connection and deletes it.  (What a failed write transmitted is the last
\* of the connection and cannot complete a frame.)
SendWriteFails ==
    LET c == connMap[addr]
    IN  /\ ~crashed
        /\ cpc \in {"length", "bytes"}
        /\ up' = up \ {c}
        /\ excuses' = IF c \in up THEN excuses + 1 ELSE excuses
        /\ MapWrite(addr, None)
        /\ Fails
        /\ UNCHANGED <<discoveryVars, peer, stream>>

Discovery ==
    \/ \E res \in SUBSET Addrs, s \in Slices : DiscoveryLocks(res, s)
    \/ DiscoveryAssigns
    \/ \E a \in Addrs : DiscoveryVisits(a)
    \/ DiscoveryUnlocks

Attempt ==
    \/ SliceCopies
    \/ SendPanics
    \/ SendMisreads
    \/ \E a \in Addrs : SendReuses(a) \/ SendDialFails(a)
    \/ \E a \in Addrs, c \in Conns : SendDials(a, c)
    \/ SendWrites
    \/ SendWriteFails

Next == Discovery \/ DeliverCopies \/ Attempt

Spec == Init /\ [][Next]_vars

-----------------------------------------------------------------------------
(***************************************************************************)
(* Properties.                                                             *)
(***************************************************************************)

\* Every connection carries whole frames only, each length followed by its
\* own batch, except perhaps for the last: a retry never continues a frame
\* on the connection where it failed, nor starts one behind a partial frame.
FramesWhole ==
    \A c \in Conns :
        \A i \in 1..Len(stream[c]) :
            /\ stream[c][i][1] = IF i % 2 = 1 THEN "length" ELSE "bytes"
            /\ i % 2 = 0 => stream[c][i][2] = stream[c][i - 1][2]

\* The connections on which batch b was written completely.
Carriers(b) ==
    {c \in Conns : \E i \in 1..Len(stream[c]) : stream[c][i] = <<"bytes", b>>}

\* A batch is written completely at most once, whatever was retried, and
\* exactly when deliver reports success.
AtMostOnce ==
    \A b \in 1..MaxBatches :
        Cardinality(Carriers(b)) = IF outcome[b] = "sent" THEN 1 ELSE 0

\* No connection is leaked: one that is not closed is in connectionMap under
\* its address, where discovery finds it.
OpenIsMapped == \A c \in up : connMap[peer[c]] = c

\* A connection that discovery closed and left in the map costs one attempt
\* only: of the failed attempts of a batch all but one are failures of the
\* network, or connections closed while the batch was under way.
OneStaleAttempt == k <= excuses + 1
=============================================================================
