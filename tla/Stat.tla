-------------------------------- MODULE Stat --------------------------------
(***************************************************************************)
(* The figures a connector publishes about itself: ConnectedClients, which *)
(* the wrapped listener and connections count, and InData and OutData, the *)
(* differences between two samples of the byte counters of the clients in  *)
(* the table.                                                              *)
(*                                                                         *)
(* A sample walks the table under the read lock, so the table stands still *)
(* but the counters do not.  The bytes of a client that has left the table *)
(* drop out of the total.  Each connection is closed by its pumper and     *)
(* perhaps once more by Stop; only the first Close of a net.Conn succeeds. *)
(***************************************************************************)
EXTENDS Integers, FiniteSets, FiniteSetsExt

CONSTANTS Clients,    \* connections
          MaxBytes,   \* bound: bytes of a connection in one direction
          MaxSamples  \* bound: samples taken

ASSUME StatAssumption ==
    /\ IsFiniteSet(Clients)
    /\ MaxBytes \in Nat
    /\ MaxSamples \in Nat

Directions == {"in", "out"}

VARIABLES
    sock,      \* the net.Conn of each connection
    closers,   \* calls of Close that have reached it (at most two)
    connected, \* info.ConnectedClients
    stage,     \* each connection: "new", "tabled" (in the table) or "gone"
    bytes,     \* Pumper.Statis(): BytesReaded and BytesWritten
    left,      \* clients the sample in progress has not visited
    total,     \* totalIn and totalOut
    sampling,  \* f is between its first lock and the publication
    info,      \* info.InData and info.OutData
    delta,     \* the figures published last
    samples,   \* bound
    sum,       \* history: all the figures published, added up
    sampled,   \* history: the table the last sample walked
    excuse     \* history: some of the sample before it have left since

sockVars == <<sock, closers, connected>>
sampleVars == <<left, total, sampling, samples>>
figureVars == <<info, delta, sum>>
historyVars == <<sampled, excuse>>
statVars == <<sockVars, stage, bytes, sampleVars, figureVars, historyVars>>

Zero == [d \in Directions |-> 0]

StatTypeOK ==
    /\ sock \in [Clients -> {"none", "accepted", "open", "closing", "closed"}]
    /\ closers \in [Clients -> 0..2]
    /\ connected \in Int
    /\ stage \in [Clients -> {"new", "tabled", "gone"}]
    /\ bytes \in [Clients -> [Directions -> 0..MaxBytes]]
    /\ left \in SUBSET Clients
    /\ total \in [Directions -> Nat]
    /\ sampling \in BOOLEAN
    /\ samples \in 0..MaxSamples
    /\ info \in [Directions -> Nat]
    /\ delta \in [Directions -> Int]
    /\ sum \in [Directions -> Int]
    /\ sampled \in SUBSET Clients
    /\ excuse \in BOOLEAN

StatInit ==
    /\ sock = [c \in Clients |-> "none"]
    /\ closers = [c \in Clients |-> 0]
    /\ connected = 0
    /\ stage = [c \in Clients |-> "new"]
    /\ bytes = [c \in Clients |-> Zero]
    /\ left = {}
    /\ total = Zero
    /\ sampling = FALSE
    /\ samples = 0
    /\ info = Zero
    /\ delta = Zero
    /\ sum = Zero
    /\ sampled = {}
    /\ excuse = FALSE

-----------------------------------------------------------------------------
\* The inner Accept returns a connection ...
Accepts(c) ==
    /\ sock[c] = "none"
    /\ sock' = [sock EXCEPT ![c] = "accepted"]
    /\ UNCHANGED <<closers, connected, stage, bytes, sampleVars, figureVars,
                   historyVars>>

\* ... and listener.Accept counts it before anybody can close it.
AcceptCounts(c) ==
    /\ sock[c] = "accepted"
    /\ sock' = [sock EXCEPT ![c] = "open"]
    /\ connected' = connected + 1
    /\ UNCHANGED <<closers, stage, bytes, sampleVars, figureVars, historyVars>>

\* A Close that counts whatever the inner Close returned.
Mutant_CloseCountsAlways(err) == -1

\* What myConn.Close adds to the counter.
CloseCounts(err) == IF err THEN 0 ELSE -1

\* myConn.Close: the inner Close succeeds.
Closes(c) ==
    /\ sock[c] = "open"
    /\ sock' = [sock EXCEPT ![c] = "closing"]
    /\ closers' = [closers EXCEPT ![c] = 1]
    /\ UNCHANGED <<connected, stage, bytes, sampleVars, figureVars, historyVars>>

CloseReturns(c) ==
    /\ sock[c] = "closing"
    /\ sock' = [sock EXCEPT ![c] = "closed"]
    /\ connected' = connected + CloseCounts(FALSE)
    /\ UNCHANGED <<closers, stage, bytes, sampleVars, figureVars, historyVars>>

\* A second Close of the same connection.
ClosesAgain(c) ==
    /\ sock[c] \in {"closing", "closed"}
    /\ closers[c] = 1
    /\ closers' = [closers EXCEPT ![c] = 2]
    /\ connected' = connected + CloseCounts(TRUE)
    /\ UNCHANGED <<sock, stage, bytes, sampleVars, figureVars, historyVars>>

-----------------------------------------------------------------------------
\* Bytes are read or written (external: bdmsg counts them).
Transfers(c, d) ==
    /\ sock[c] = "open"
    /\ bytes[c][d] < MaxBytes
    /\ bytes' = [bytes EXCEPT ![c][d] = @ + 1]
    /\ UNCHANGED <<sockVars, stage, sampleVars, figureVars, historyVars>>

Table == {c \in Clients : stage[c] = "tabled"}  \* ClientManager.clients

\* The read lock of the table is held by f.
Locked == sampling /\ left # {}

\* The client registers.
Joins(c) ==
    /\ ~Locked
    /\ sock[c] = "open"
    /\ stage[c] = "new"
    /\ bytes[c]["in"] > 0
    /\ stage' = [stage EXCEPT ![c] = "tabled"]
    /\ UNCHANGED <<sockVars, bytes, sampleVars, figureVars, historyVars>>

\* removeClient, or the registration of a successor.
Departs(c) ==
    /\ ~Locked
    /\ stage[c] = "tabled"
    /\ stage' = [stage EXCEPT ![c] = "gone"]
    /\ UNCHANGED <<sockVars, bytes, sampleVars, figureVars, historyVars>>

-----------------------------------------------------------------------------
\* f starts: the clients in the table are to be visited.
SampleStarts ==
    /\ ~sampling
    /\ samples < MaxSamples
    /\ samples' = samples + 1
    /\ sampling' = TRUE
    /\ left' = Table
    /\ total' = Zero
    /\ sampled' = Table
    /\ excuse' = (sampled \ Table # {})
    /\ UNCHANGED <<sockVars, stage, bytes, figureVars>>

\* The counters of one client are added.
SampleVisits(c) ==
    /\ sampling
    /\ c \in left
    /\ left' = left \ {c}
    /\ total' = [d \in Directions |-> total[d] + bytes[c][d]]
    /\ UNCHANGED <<sockVars, stage, bytes, sampling, samples, figureVars,
                   historyVars>>

\* Totals that are not kept for the next sample, and totals that are crossed.
Mutant_KeptNothing == Zero
Mutant_KeptCrossed == [d \in Directions |-> IF d = "in" THEN total["out"] ELSE total["in"]]

\* What is stored in info.InData and info.OutData.
Kept == total

\* The figures are computed and the totals kept.  (Whether redis takes the
\* figures makes no difference to the process.)
SamplePublishes ==
    /\ sampling
    /\ left = {}
    /\ delta' = [d \in Directions |-> total[d] - info[d]]
    /\ sum' = [d \in Directions |-> sum[d] + delta'[d]]
    /\ info' = Kept
    /\ sampling' = FALSE
    /\ UNCHANGED <<sockVars, stage, bytes, left, total, samples, historyVars>>

StatNext ==
    \/ \E c \in Clients :
        \/ Accepts(c)
        \/ AcceptCounts(c)
        \/ Closes(c)
        \/ CloseReturns(c)
        \/ ClosesAgain(c)
        \/ \E d \in Directions : Transfers(c, d)
        \/ Joins(c)
        \/ Departs(c)
        \/ SampleVisits(c)
    \/ SampleStarts
    \/ SamplePublishes

StatSpec == StatInit /\ [][StatNext]_statVars

-----------------------------------------------------------------------------
\* No Accept or Close is between its system call and its counting.
Settled == \A c \in Clients : sock[c] \notin {"accepted", "closing"}

\* ConnectedClients is never negative, and is the number of open connections
\* whenever no Accept or Close is in progress, however often and by however
\* many goroutines a connection is closed.
ConnectedExact ==
    /\ connected >= 0
    /\ Settled => connected = Cardinality({c \in Clients : sock[c] = "open"})

\* Added up, the published traffic never exceeds the bytes really carried:
\* no byte is reported twice, although samples overlap the transfers and
\* clients come and go.  (Bytes of clients that left are taken back.)
NeverOverReported ==
    \A d \in Directions :
        sum[d] <= MapThenSumSet(LAMBDA c : bytes[c][d], Clients)

\* A negative figure is published only when a client that the sample before
\* had counted has left the table since.
NegativeOnlyAfterDeparture ==
    [][sampling /\ ~sampling' =>
        \A d \in Directions : delta'[d] < 0 => excuse]_statVars
=============================================================================
