-------------------------- MODULE ComputeRpcProofs --------------------------
(***************************************************************************)
(* The compute rpc client, for any servers, connections, batches and ticks *)
(* of discovery.                                                           *)
(***************************************************************************)
EXTENDS ComputeRpc, FiniteSetTheorems, TLAPS

(***************************************************************************)
(* Types.                                                                  *)
(***************************************************************************)

\* A slice of addresses has a length, and the empty one is a slice.
LEMMA SliceFacts == << >> \in Slices /\ \A s \in Slices : Len(s) \in Nat
<1>1. Cardinality(Addrs) \in Nat
  BY RpcAssumption, FS_CardinalityType
<1>2. << >> \in [1..0 -> Addrs]
  OBVIOUS
<1>3. << >> \in Slices
  BY <1>1, <1>2 DEF Slices
<1>4. ASSUME NEW s \in Slices PROVE Len(s) \in Nat
  <2>1. PICK n \in 0..Cardinality(Addrs) : s \in [1..n -> Addrs]
    BY DEF Slices
  <2> QED
    BY <1>1, <2>1
<1> QED
  BY <1>3, <1>4

\* One round of trySend's loop keeps the types of what it assigns.
LEMMA EndsTypes ==
    ASSUME TypeOK, cpc # "idle" => batch \in 1..MaxBatches, cpc # "idle",
           NEW what \in {"none", "sent", "failed", "panic"},
           Ends(what) \/ Fails
    PROVE  /\ outcome' \in [1..MaxBatches -> {"none", "sent", "failed", "panic"}]
           /\ cpc' \in {"idle", "attempt"}
           /\ addr' = None
           /\ view' = view
           /\ batch' = batch
           /\ k' \in 0..2
BY DEF TypeOK, Ends, Fails

\* A batch is under way only when there is one.
BatchStarted == cpc # "idle" => batch \in 1..MaxBatches

\* A write is made to the address indexed from the copied slice, on the
\* connection the map has for it.
Addressed ==
    cpc \in {"length", "bytes"} =>
        addr \in Addrs /\ Target(addr) /\ connMap[addr] # None

RpcTypes == TypeOK /\ BatchStarted /\ Addressed

\* Every step of the two goroutines keeps the types.
LEMMA RpcTypesStep == RpcTypes /\ [Next]_vars => RpcTypes'
<1> SUFFICES ASSUME RpcTypes, [Next]_vars PROVE RpcTypes'
  OBVIOUS
<1> USE RpcAssumption DEF RpcTypes, BatchStarted, Addressed
<1>1. ASSUME NEW res \in SUBSET Addrs, NEW s \in Slices, DiscoveryLocks(res, s)
      PROVE RpcTypes'
  BY <1>1 DEF DiscoveryLocks, TypeOK, netVars, sendVars, Target, Readable, Index
<1>2. CASE DiscoveryAssigns
  BY <1>2 DEF DiscoveryAssigns, TypeOK, netVars, sendVars, Target, Readable, Index
<1>3. ASSUME NEW a \in Addrs, DiscoveryVisits(a) PROVE RpcTypes'
  BY <1>3 DEF DiscoveryVisits, TypeOK, netVars, sendVars, Target, Readable, Index
<1>4. CASE DiscoveryUnlocks
  BY <1>4 DEF DiscoveryUnlocks, TypeOK, netVars, sendVars, Target, Readable, Index
<1>5. CASE DeliverCopies
  BY <1>5 DEF DeliverCopies, TypeOK, netVars, discoveryVars
<1>6. CASE SliceCopies
  BY <1>6, SliceFacts DEF SliceCopies, TypeOK, netVars, discoveryVars
<1>7. CASE SendPanics
  <2>1. Ends("panic")
    BY <1>7 DEF SendPanics
  <2>2. crashed' \in BOOLEAN
    BY <1>7 DEF SendPanics, TypeOK
  <2> QED
    BY <1>7, <2>1, <2>2, EndsTypes DEF SendPanics, TypeOK, netVars, discoveryVars
<1>8. CASE SendMisreads
  <2>1. crashed' \in BOOLEAN
    BY <1>8 DEF SendMisreads, TypeOK
  <2> QED
    BY <1>8, <2>1, EndsTypes DEF SendMisreads, TypeOK, netVars, discoveryVars
<1>9. ASSUME NEW a \in Addrs, SendReuses(a) PROVE RpcTypes'
  BY <1>9 DEF SendReuses, TypeOK, netVars, discoveryVars, Target, Readable, Index
<1>10. ASSUME NEW a \in Addrs, SendDialFails(a) PROVE RpcTypes'
  <2>1. crashed' \in BOOLEAN
    BY <1>10 DEF SendDialFails, MapWrite, TypeOK
  <2> QED
    BY <1>10, <2>1, EndsTypes DEF SendDialFails, MapWrite, TypeOK, netVars, discoveryVars
<1>11. ASSUME NEW a \in Addrs, NEW c \in Conns, SendDials(a, c) PROVE RpcTypes'
  BY <1>11 DEF SendDials, MapWrite, TypeOK, netVars, discoveryVars, Target, Readable, Index
<1>12. CASE SendWrites
  <2>1. connMap[addr] \in Conns
    BY <1>12 DEF SendWrites, TypeOK
  <2>2. <<cpc, batch>> \in {"length", "bytes"} \X Nat
    BY <1>12 DEF SendWrites, TypeOK
  <2>3. stream' \in [Conns -> Seq({"length", "bytes"} \X Nat)]
    <3> DEFINE Part == {"length", "bytes"} \X Nat
    <3>1. Append(stream[connMap[addr]], <<cpc, batch>>) \in Seq(Part)
      <4> HIDE DEF Part
      <4> QED
        BY <2>1, <2>2 DEF TypeOK, Part
    <3>2. stream \in [Conns -> Seq(Part)]
      BY DEF TypeOK
    <3>3. stream' = [stream EXCEPT ![connMap[addr]] = Append(@, <<cpc, batch>>)]
      BY <1>12 DEF SendWrites
    <3> HIDE DEF Part
    <3>4. stream' \in [Conns -> Seq(Part)]
      BY <2>1, <3>1, <3>2, <3>3
    <3> QED
      BY <3>4 DEF Part
  <2>4. CASE cpc = "length" /\ cpc' = "bytes" /\ UNCHANGED <<sendVars, outcome>>
    BY <1>12, <2>3, <2>4 DEF SendWrites, TypeOK, netVars, discoveryVars, sendVars, Target, Readable, Index
  <2>5. CASE cpc = "bytes" /\ Ends("sent")
    BY <1>12, <2>3, <2>5, EndsTypes DEF SendWrites, TypeOK, netVars, discoveryVars
  <2> QED
    BY <1>12, <2>4, <2>5 DEF SendWrites
<1>13. CASE SendWriteFails
  <2>1. crashed' \in BOOLEAN
    BY <1>13 DEF SendWriteFails, MapWrite, TypeOK
  <2> QED
    BY <1>13, <2>1, EndsTypes, SMTT(30) DEF SendWriteFails, MapWrite, TypeOK, netVars, discoveryVars
<1>14. CASE UNCHANGED vars
  BY <1>14 DEF vars, TypeOK, netVars, discoveryVars, sendVars, Target, Readable, Index
<1> QED
  BY <1>1, <1>2, <1>3, <1>4, <1>5, <1>6, <1>7, <1>8, <1>9, <1>10, <1>11, <1>12,
     <1>13, <1>14 DEF Next, Discovery, Attempt
-----------------------------------------------------------------------------
(***************************************************************************)
(* The inductive invariant.                                                *)
(***************************************************************************)

\* A connection that was never dialled is not open and carries nothing.
Undialled == \A c \in Conns : peer[c] = None => c \notin up /\ stream[c] = << >>

\* An open connection ends with a whole frame, except the one send is writing
\* to: there the length of the current batch is the last part.
OpenEnds ==
    \A c \in up :
        IF cpc = "bytes" /\ c = connMap[addr]
        THEN /\ Len(stream[c]) % 2 = 1
             /\ stream[c][Len(stream[c])] = <<"length", batch>>
        ELSE Len(stream[c]) % 2 = 0

\* The batch under way, and those to come, have not been reported as sent.
NotYetSent ==
    \A b \in 1..MaxBatches :
        b > batch \/ (b = batch /\ cpc # "idle") => outcome[b] # "sent"

\* Without cardinalities: a batch reported as sent is on one connection, any
\* other on none.
SentOnce ==
    \A b \in 1..MaxBatches :
        IF outcome[b] = "sent" THEN \E c \in Conns : Carriers(b) = {c}
                               ELSE Carriers(b) = {}

\* The attempt that the excuses do not cover has been spent: the entry of the
\* target is gone, or is a connection that is open.
StaleSpent ==
    /\ OneStaleAttempt
    /\ cpc = "copy" => k <= excuses
    /\ cpc \in {"attempt", "length", "bytes"} /\ k = excuses + 1 =>
          \A a \in Addrs : Target(a) => connMap[a] \in up \cup {None}

RpcInv == /\ RpcTypes
          /\ Undialled
          /\ OpenIsMapped
          /\ FramesWhole
          /\ OpenEnds
          /\ NotYetSent
          /\ SentOnce
          /\ StaleSpent

-----------------------------------------------------------------------------
(***************************************************************************)
(* What the steps do to the connections.                                   *)
(***************************************************************************)

\* Steps that touch no connection: discovery outside its iteration, the copy
\* of the receiver, the choice of an entry of the map, a failed dial.
Untouched == UNCHANGED <<connMap, peer, up, stream>>

\* Every step is one of five kinds, as far as connections are concerned.
LEMMA StepKinds ==
    ASSUME RpcTypes, [Next]_vars
    PROVE  \/ Untouched
           \/ \E a \in Addrs : DiscoveryVisits(a)
           \/ \E a \in Addrs, c \in Conns : SendDials(a, c)
           \/ SendWrites
           \/ SendWriteFails
<1> USE DEF Untouched, netVars
<1>1. ASSUME NEW res \in SUBSET Addrs, NEW s \in Slices, DiscoveryLocks(res, s)
      PROVE Untouched
  BY <1>1 DEF DiscoveryLocks
<1>2. ASSUME DiscoveryAssigns \/ DiscoveryUnlocks PROVE Untouched
  BY <1>2 DEF DiscoveryAssigns, DiscoveryUnlocks
<1>3. ASSUME DeliverCopies \/ SliceCopies \/ SendPanics \/ SendMisreads PROVE Untouched
  BY <1>3 DEF DeliverCopies, SliceCopies, SendPanics, SendMisreads
<1>4. ASSUME NEW a \in Addrs, SendReuses(a) PROVE Untouched
  BY <1>4 DEF SendReuses
<1>5. ASSUME NEW a \in Addrs, SendDialFails(a) PROVE Untouched
  BY <1>5 DEF SendDialFails, MapWrite, RpcTypes, TypeOK
<1>6. CASE UNCHANGED vars
  BY <1>6 DEF vars
<1> QED
  BY <1>1, <1>2, <1>3, <1>4, <1>5, <1>6 DEF Next, Discovery, Attempt

\* Every step of the two goroutines keeps the map and the open connections
\* in agreement.
LEMMA ConnStep ==
    ASSUME RpcInv, [Next]_vars
    PROVE  Undialled' /\ OpenIsMapped'
<1> USE RpcAssumption DEF RpcInv, RpcTypes, TypeOK, Undialled, OpenIsMapped
<1>1. CASE Untouched
  BY <1>1 DEF Untouched
<1>2. ASSUME NEW a \in Addrs, DiscoveryVisits(a) PROVE Undialled' /\ OpenIsMapped'
  BY <1>2 DEF DiscoveryVisits
<1>3. ASSUME NEW a \in Addrs, NEW c \in Conns, SendDials(a, c)
      PROVE Undialled' /\ OpenIsMapped'
  <2>1. Undialled'
    BY <1>3 DEF SendDials
  <2>2. ASSUME NEW d \in up' PROVE (connMap[peer[d]] = d)'
    <3>1. CASE d = c
      BY <1>3, <3>1 DEF SendDials, MapWrite
    <3>2. CASE d # c
      BY <1>3, <2>2, <3>2 DEF SendDials, MapWrite
    <3> QED
      BY <3>1, <3>2
  <2> QED
    BY <2>1, <2>2
<1>4. CASE SendWrites
  BY <1>4 DEF SendWrites
<1>5. CASE SendWriteFails
  BY <1>5 DEF SendWriteFails, MapWrite, Addressed
<1> QED
  BY <1>1, <1>2, <1>3, <1>4, <1>5, StepKinds

\* The consumer goes on from a write only through the write itself.
LEMMA UntouchedPlaces ==
    ASSUME RpcTypes, [Next]_vars, Untouched,
           ~SendWrites, ~SendWriteFails
    PROVE  \/ cpc' = "bytes" /\ cpc = "bytes" /\ addr' = addr /\ batch' = batch
           \/ cpc' # "bytes" /\ cpc # "bytes"
<1> USE DEF RpcTypes, TypeOK, sendVars
<1>1. ASSUME NEW res \in SUBSET Addrs, NEW s \in Slices, DiscoveryLocks(res, s)
      PROVE UNCHANGED <<cpc, addr, batch>>
  BY <1>1 DEF DiscoveryLocks
<1>2. ASSUME DiscoveryAssigns \/ DiscoveryUnlocks \/ UNCHANGED vars
      PROVE UNCHANGED <<cpc, addr, batch>>
  BY <1>2 DEF DiscoveryAssigns, DiscoveryUnlocks, vars
<1>3. ASSUME NEW a \in Addrs, DiscoveryVisits(a) PROVE UNCHANGED <<cpc, addr, batch>>
  BY <1>3 DEF DiscoveryVisits
<1>4. ASSUME DeliverCopies \/ SliceCopies \/ SendPanics \/ SendMisreads
      PROVE cpc' # "bytes" /\ cpc # "bytes"
  BY <1>4 DEF DeliverCopies, SliceCopies, SendPanics, SendMisreads, Ends, Fails
<1>5. ASSUME NEW a \in Addrs, SendReuses(a) \/ SendDialFails(a)
      PROVE cpc' # "bytes" /\ cpc # "bytes"
  BY <1>5 DEF SendReuses, SendDialFails, Ends, Fails
<1>6. ASSUME NEW a \in Addrs, NEW c \in Conns, SendDials(a, c)
      PROVE cpc' # "bytes" /\ cpc # "bytes"
  BY <1>6 DEF SendDials
<1> QED
  BY <1>1, <1>2, <1>3, <1>4, <1>5, <1>6 DEF Next, Discovery, Attempt

\* A part appended to one connection leaves the others, and what was already
\* written, as they were.
LEMMA AppendFacts ==
    ASSUME RpcTypes, SendWrites
    PROVE  /\ connMap[addr] \in Conns
           /\ \A c \in Conns : c # connMap[addr] => stream'[c] = stream[c]
           /\ LET c == connMap[addr]
              IN  /\ Len(stream[c]) \in Nat
                  /\ Len(stream'[c]) = Len(stream[c]) + 1
                  /\ \A i \in 1..Len(stream[c]) : stream'[c][i] = stream[c][i]
                  /\ stream'[c][Len(stream[c]) + 1] = <<cpc, batch>>
<1>1. connMap[addr] \in Conns
  BY DEF RpcTypes, TypeOK, SendWrites
<1> DEFINE Part == {"length", "bytes"} \X Nat
<1>2. stream[connMap[addr]] \in Seq(Part) /\ stream \in [Conns -> Seq(Part)]
  BY <1>1 DEF RpcTypes, TypeOK
<1>3. <<cpc, batch>> \in Part
  BY DEF RpcTypes, TypeOK, SendWrites
<1>4. stream' = [stream EXCEPT ![connMap[addr]] = Append(@, <<cpc, batch>>)]
  BY DEF SendWrites
<1> HIDE DEF Part
<1> QED
  BY <1>1, <1>2, <1>3, <1>4

\* Parts of frames alternate.
LEMMA NextParity ==
    ASSUME NEW n \in Nat
    PROVE  /\ n % 2 = 0 => (n + 1) % 2 = 1
           /\ n % 2 = 1 => (n + 1) % 2 = 0 /\ n \in 1..n
OBVIOUS

\* Every step keeps whole frames: the consumer writes the length on a
\* connection that ends with a whole frame, the bytes on one that ends with
\* their length.
LEMMA FramesStep ==
    ASSUME RpcInv, [Next]_vars
    PROVE  FramesWhole' /\ OpenEnds'
<1> USE RpcAssumption DEF RpcInv
<1>1. CASE SendWrites
  <2> DEFINE w == connMap[addr]
             n == Len(stream[w])
  <2>1. w \in Conns /\ n \in Nat /\ w \in up
    BY <1>1, AppendFacts DEF SendWrites
  <2>2. /\ up' = up /\ connMap' = connMap
        /\ \/ cpc = "length" /\ cpc' = "bytes" /\ addr' = addr /\ batch' = batch
           \/ cpc = "bytes" /\ cpc' = "idle"
    BY <1>1 DEF SendWrites, sendVars, Ends
  <2>3. n % 2 = (IF cpc = "length" THEN 0 ELSE 1)
    BY <2>1, <2>2 DEF OpenEnds
  <2>4. cpc = "bytes" => stream[w][n] = <<"length", batch>> /\ n # 0
    <3>1. cpc = "bytes" => stream[w][n] = <<"length", batch>>
      BY <2>1 DEF OpenEnds
    <3>2. cpc = "bytes" => n \in 1..n
      BY <2>1, <2>3, NextParity
    <3> QED
      BY <2>1, <3>1, <3>2
  <2>5. FramesWhole'
    <3>1. ASSUME NEW c \in Conns, NEW i \in 1..Len(stream'[c])
          PROVE  /\ stream'[c][i][1] = IF i % 2 = 1 THEN "length" ELSE "bytes"
                 /\ i % 2 = 0 => stream'[c][i][2] = stream'[c][i - 1][2]
      <4>1. CASE c # w
        <5>1. stream'[c] = stream[c]
          BY <1>1, <4>1, AppendFacts
        <5> QED
          BY <5>1 DEF FramesWhole
      <4>2. CASE c = w /\ i # n + 1
        <5>1. i \in 1..n /\ (i - 1 # 0 => i - 1 \in 1..n) /\ (i % 2 = 0 => i - 1 # 0)
          BY <1>1, <2>1, <4>2, AppendFacts
        <5>2. /\ stream'[c][i] = stream[c][i]
              /\ i % 2 = 0 => stream'[c][i - 1] = stream[c][i - 1]
          BY <1>1, <2>1, <4>2, <5>1, AppendFacts
        <5> QED
          BY <4>2, <5>1, <5>2 DEF FramesWhole
      <4>3. CASE c = w /\ i = n + 1
        <5>1. stream'[c][i] = <<cpc, batch>> /\ i - 1 = n
          BY <1>1, <2>1, <4>3, AppendFacts
        <5>2. cpc = "length" => i % 2 = 1
          BY <2>1, <2>3, <4>3, NextParity
        <5>3. cpc = "bytes" => i % 2 = 0 /\ n \in 1..n
          BY <2>1, <2>3, <4>3, NextParity
        <5>4. cpc = "bytes" => stream'[c][i - 1] = <<"length", batch>>
          BY <1>1, <2>1, <2>4, <4>3, <5>1, <5>3, AppendFacts
        <5> QED
          BY <2>2, <5>1, <5>2, <5>3, <5>4
      <4> QED
        BY <4>1, <4>2, <4>3
    <3> QED
      BY <3>1 DEF FramesWhole
  <2>6. ASSUME NEW c \in up
        PROVE  IF cpc' = "bytes" /\ c = connMap'[addr']
               THEN /\ Len(stream'[c]) % 2 = 1
                    /\ stream'[c][Len(stream'[c])] = <<"length", batch'>>
               ELSE Len(stream'[c]) % 2 = 0
    <3>1. CASE c # w
      BY <1>1, <2>2, <3>1, AppendFacts DEF OpenEnds, RpcTypes, TypeOK
    <3>2. CASE c = w
      <4>1. Len(stream'[c]) = n + 1 /\ stream'[c][n + 1] = <<cpc, batch>>
        BY <1>1, <3>2, AppendFacts
      <4>2. (n + 1) % 2 = IF cpc = "length" THEN 1 ELSE 0
        BY <2>1, <2>2, <2>3, NextParity
      <4> QED
        BY <2>2, <3>2, <4>1, <4>2
    <3> QED
      BY <3>1, <3>2
  <2> QED
    BY <2>2, <2>5, <2>6 DEF OpenEnds
<1>2. CASE SendWriteFails
  <2>1. /\ stream' = stream /\ up' = up \ {connMap[addr]}
        /\ cpc' \in {"idle", "attempt"}
    BY <1>2 DEF SendWriteFails, Fails, Ends
  <2> QED
    BY <2>1 DEF FramesWhole, OpenEnds
<1>3. ASSUME NEW a \in Addrs, NEW c \in Conns, SendDials(a, c)
      PROVE FramesWhole' /\ OpenEnds'
  <2>1. /\ stream' = stream /\ up' = up \cup {c} /\ cpc # "bytes"
        /\ cpc' = "length" /\ stream[c] = << >>
    BY <1>3 DEF SendDials, Undialled
  <2>2. Len(<< >>) % 2 = 0
    OBVIOUS
  <2> QED
    BY <2>1, <2>2 DEF FramesWhole, OpenEnds
<1>4. ASSUME NEW a \in Addrs, DiscoveryVisits(a) PROVE FramesWhole' /\ OpenEnds'
  <2>1. /\ stream' = stream /\ up' \subseteq up
        /\ UNCHANGED <<cpc, connMap, addr, batch>>
    BY <1>4 DEF DiscoveryVisits, sendVars
  <2> QED
    BY <2>1 DEF FramesWhole, OpenEnds
<1>5. CASE Untouched /\ ~SendWrites /\ ~SendWriteFails
  <2>1. \/ cpc' = "bytes" /\ cpc = "bytes" /\ addr' = addr /\ batch' = batch
        \/ cpc' # "bytes" /\ cpc # "bytes"
    BY <1>5, UntouchedPlaces
  <2> QED
    BY <1>5, <2>1 DEF Untouched, FramesWhole, OpenEnds
<1> QED
  BY <1>1, <1>2, <1>3, <1>4, <1>5, StepKinds

\* Only the second write of send reports a batch as sent, and it is the only
\* one that completes it on a connection.
LEMMA SentStep ==
    ASSUME RpcInv, [Next]_vars
    PROVE  NotYetSent' /\ SentOnce'
<1> USE RpcAssumption DEF RpcInv
<1>1. CASE SendWrites
  <2> DEFINE w == connMap[addr]
             n == Len(stream[w])
  <2>1. w \in Conns /\ n \in Nat /\ batch \in 1..MaxBatches
    BY <1>1, AppendFacts DEF SendWrites, RpcTypes, BatchStarted
  <2>2. ASSUME NEW b \in 1..MaxBatches, cpc = "length" \/ b # batch
        PROVE  Carriers(b)' = Carriers(b)
    <3>1. <<cpc, batch>> # <<"bytes", b>>
      BY <2>2
    <3>2. ASSUME NEW c \in Conns
          PROVE  (\E i \in 1..Len(stream'[c]) : stream'[c][i] = <<"bytes", b>>)
                 <=> (\E i \in 1..Len(stream[c]) : stream[c][i] = <<"bytes", b>>)
      <4>1. CASE c # w
        BY <1>1, <4>1, AppendFacts
      <4>2. CASE c = w
        <5>1. Len(stream'[c]) = n + 1 /\ stream'[c][n + 1] # <<"bytes", b>>
          BY <1>1, <3>1, <4>2, AppendFacts
        <5>2. \A i \in 1..n : stream'[c][i] = stream[c][i]
          BY <1>1, <4>2, AppendFacts
        <5>3. \A i \in 1..(n + 1) : i \in 1..n \/ i = n + 1
          BY <2>1
        <5>4. \A i \in 1..n : i \in 1..(n + 1)
          BY <2>1
        <5> QED
          BY <4>2, <5>1, <5>2, <5>3, <5>4
      <4> QED
        BY <4>1, <4>2
    <3> QED
      BY <3>2 DEF Carriers
  <2>3. CASE cpc = "length"
    <3>1. UNCHANGED <<outcome, batch>> /\ cpc' = "bytes"
      BY <1>1, <2>3 DEF SendWrites, sendVars
    <3> QED
      BY <2>2, <2>3, <3>1 DEF NotYetSent, SentOnce
  <2>4. CASE cpc = "bytes"
    <3>1. /\ outcome' = [outcome EXCEPT ![batch] = "sent"]
          /\ cpc' = "idle" /\ batch' = batch
      BY <1>1, <2>4 DEF SendWrites, Ends
    <3>2. outcome'[batch] = "sent" /\ \A b \in 1..MaxBatches : b # batch => outcome'[b] = outcome[b]
      BY <2>1, <3>1 DEF RpcTypes, TypeOK
    <3>3. Carriers(batch) = {}
      BY <2>1, <2>4 DEF NotYetSent, SentOnce
    <3>4. Carriers(batch)' = {w}
      <4>1. stream'[w][n + 1] = <<"bytes", batch>> /\ n + 1 \in 1..Len(stream'[w])
        BY <1>1, <2>1, <2>4, AppendFacts
      <4>2. ASSUME NEW c \in Conns, c # w, NEW i \in 1..Len(stream'[c]),
                   stream'[c][i] = <<"bytes", batch>>
            PROVE  FALSE
        <5>1. stream'[c] = stream[c]
          BY <1>1, <4>2, AppendFacts
        <5> QED
          BY <3>3, <4>2, <5>1 DEF Carriers
      <4>3. Carriers(batch)' = {c \in Conns : \E i \in 1..Len(stream'[c]) :
                                               stream'[c][i] = <<"bytes", batch>>}
        BY <3>1 DEF Carriers
      <4> QED
        BY <2>1, <4>1, <4>2, <4>3
    <3>5. NotYetSent'
      BY <2>1, <3>1, <3>2 DEF NotYetSent
    <3>6. ASSUME NEW b \in 1..MaxBatches
          PROVE  IF outcome'[b] = "sent" THEN \E c \in Conns : Carriers(b)' = {c}
                                         ELSE Carriers(b)' = {}
      <4>1. CASE b = batch
        BY <2>1, <3>1, <3>2, <3>4, <4>1 DEF Carriers
      <4>2. CASE b # batch
        BY <2>2, <3>2, <4>2 DEF SentOnce
      <4> QED
        BY <4>1, <4>2
    <3> QED
      BY <3>5, <3>6 DEF SentOnce, Carriers
  <2> QED
    BY <1>1, <2>3, <2>4 DEF SendWrites
<1>2. CASE
      /\ stream' = stream
      /\ \A b \in 1..MaxBatches : outcome'[b] = "sent" <=> outcome[b] = "sent"
      /\ \A b \in 1..MaxBatches : b > batch' \/ (b = batch' /\ cpc' # "idle")
             => b > batch \/ (b = batch /\ cpc # "idle")
  <2>1. NotYetSent'
    BY <1>2 DEF NotYetSent
  <2>2. \A b \in 1..MaxBatches : Carriers(b)' = Carriers(b)
    BY <1>2 DEF Carriers
  <2>3. ASSUME NEW b \in 1..MaxBatches
        PROVE  IF outcome'[b] = "sent" THEN \E c \in Conns : Carriers(b)' = {c}
                                       ELSE Carriers(b)' = {}
    BY <1>2, <2>2 DEF SentOnce
  <2>4. SentOnce'
    BY <2>3 DEF SentOnce, Carriers
  <2> QED
    BY <2>1, <2>4
<1>3. ASSUME \/ Discovery \/ UNCHANGED vars \/ DeliverCopies \/ SliceCopies
             \/ \E a \in Addrs : SendReuses(a)
             \/ \E a \in Addrs, c \in Conns : SendDials(a, c)
      PROVE  NotYetSent' /\ SentOnce'
  <2>1. stream' = stream /\ outcome' = outcome
    BY <1>3 DEF Discovery, DiscoveryLocks, DiscoveryAssigns, DiscoveryVisits,
                DiscoveryUnlocks, DeliverCopies, SliceCopies, SendReuses,
                SendDials, vars, netVars
  <2>2. \/ batch' = batch /\ (cpc = "idle" <=> cpc' = "idle")
        \/ batch' = batch + 1
    BY <1>3 DEF Discovery, DiscoveryLocks, DiscoveryAssigns, DiscoveryVisits,
                DiscoveryUnlocks, DeliverCopies, SliceCopies, SendReuses,
                SendDials, vars, sendVars
  <2>3. \A b \in 1..MaxBatches : b > batch' \/ (b = batch' /\ cpc' # "idle")
             => b > batch \/ (b = batch /\ cpc # "idle")
    BY <2>2 DEF RpcTypes, TypeOK
  <2> QED
    BY <1>2, <2>1, <2>3
<1>4. ASSUME \/ SendPanics \/ SendMisreads \/ SendWriteFails
             \/ \E a \in Addrs : SendDialFails(a)
      PROVE  NotYetSent' /\ SentOnce'
  <2>1. stream' = stream /\ cpc # "idle" /\ batch \in 1..MaxBatches
    BY <1>4 DEF SendPanics, SendMisreads, SendWriteFails, SendDialFails, netVars,
                RpcTypes, BatchStarted
  <2>2. Ends("panic") \/ Fails
    BY <1>4 DEF SendPanics, SendMisreads, SendWriteFails, SendDialFails
  <2>3. /\ batch' = batch
        /\ outcome' = outcome \/ \E o \in {"panic", "failed"} : outcome' = [outcome EXCEPT ![batch] = o]
    BY <2>2 DEF Ends, Fails
  <2>4. outcome[batch] # "sent"
    BY <2>1 DEF NotYetSent
  <2>5. \A b \in 1..MaxBatches : outcome'[b] = "sent" <=> outcome[b] = "sent"
    BY <2>1, <2>3, <2>4 DEF RpcTypes, TypeOK
  <2> QED
    BY <1>2, <2>1, <2>3, <2>5
<1> QED
  BY <1>1, <1>3, <1>4 DEF Next, Attempt

\* A failed attempt without an excuse was made on a connection that was
\* already closed, and takes it out of the map.
LEMMA StaleStep ==
    ASSUME RpcInv, [Next]_vars
    PROVE  StaleSpent'
<1> USE RpcAssumption DEF RpcInv, StaleSpent, OneStaleAttempt
<1>t. k \in 0..2 /\ excuses \in Nat
  BY DEF RpcTypes, TypeOK
<1>1. ASSUME NEW res \in SUBSET Addrs, NEW s \in Slices, DiscoveryLocks(res, s)
      PROVE StaleSpent'
  BY <1>1 DEF DiscoveryLocks, netVars, sendVars, Target, Readable, Index
<1>2. ASSUME DiscoveryAssigns \/ DiscoveryUnlocks \/ UNCHANGED vars PROVE StaleSpent'
  BY <1>2 DEF DiscoveryAssigns, DiscoveryUnlocks, vars, netVars, sendVars, Target,
              Readable, Index
<1>3. ASSUME NEW a \in Addrs, DiscoveryVisits(a) PROVE StaleSpent'
  <2>1. /\ UNCHANGED <<cpc, k, view, connMap>>
        /\ \/ excuses' = excuses + 1
           \/ excuses' = excuses /\ up' = up
    BY <1>3 DEF DiscoveryVisits, sendVars
  <2>2. CASE excuses' = excuses + 1
    BY <1>t, <2>1, <2>2
  <2>3. CASE excuses' = excuses /\ up' = up
    BY <2>1, <2>3 DEF Target, Readable, Index
  <2> QED
    BY <2>1, <2>2, <2>3
<1>4. CASE DeliverCopies
  BY <1>4, <1>t DEF DeliverCopies
<1>5. CASE SliceCopies
  BY <1>5, <1>t DEF SliceCopies
<1>6. CASE SendPanics
  BY <1>6 DEF SendPanics, Ends
<1>7. CASE SendMisreads
  <2>1. ~Readable' /\ cpc' # "copy"
    BY <1>7 DEF SendMisreads, Readable, Index, Fails, Ends
  <2>2. excuses' = excuses + 1 /\ k' \in {k, k + 1}
    BY <1>7 DEF SendMisreads, Fails, Ends
  <2> QED
    BY <1>t, <2>1, <2>2 DEF Target
<1>8. ASSUME NEW a \in Addrs, SendReuses(a) PROVE StaleSpent'
  BY <1>8 DEF SendReuses, netVars, Target, Readable, Index
<1>9. ASSUME NEW a \in Addrs, SendDialFails(a) PROVE StaleSpent'
  <2>1. UNCHANGED <<view, up>> /\ connMap'[a] = None /\ Target(a) /\ cpc' # "copy"
    BY <1>9 DEF SendDialFails, MapWrite, netVars, Fails, Ends, RpcTypes, TypeOK
  <2>2. excuses' = excuses + 1 /\ k' \in {k, k + 1}
    BY <1>9 DEF SendDialFails, Fails, Ends
  <2>3. \A b \in Addrs : Target(b)' => b = a
    BY <2>1 DEF Target, Readable, Index
  <2> QED
    BY <1>t, <2>1, <2>2, <2>3
<1>10. ASSUME NEW a \in Addrs, NEW c \in Conns, SendDials(a, c) PROVE StaleSpent'
  <2>1. UNCHANGED <<view, k, excuses>> /\ connMap'[a] = c /\ c \in up' /\ Target(a) /\ cpc' = "length"
    BY <1>10 DEF SendDials, MapWrite, RpcTypes, TypeOK
  <2>2. \A b \in Addrs : Target(b)' => b = a
    BY <2>1 DEF Target, Readable, Index
  <2> QED
    BY <2>1, <2>2
<1>11. CASE SendWrites
  <2>1. UNCHANGED <<view, k, excuses, connMap, up>> /\ cpc' \in {"bytes", "idle"}
    BY <1>11 DEF SendWrites, sendVars, Ends
  <2> QED
    BY <1>11, <2>1 DEF SendWrites, Target, Readable, Index
<1>12. CASE SendWriteFails
  <2>1. /\ UNCHANGED view /\ connMap'[addr] = None /\ addr \in Addrs /\ Target(addr)
        /\ cpc' # "copy" /\ cpc \in {"length", "bytes"}
    BY <1>12 DEF SendWriteFails, MapWrite, Fails, Ends, RpcTypes, TypeOK, Addressed
  <2>2. k' \in {k, k + 1} /\ excuses' = IF connMap[addr] \in up THEN excuses + 1 ELSE excuses
    BY <1>12 DEF SendWriteFails, Fails, Ends
  <2>3. \A b \in Addrs : Target(b)' => b = addr
    BY <2>1 DEF Target, Readable, Index
  <2>4. connMap[addr] \notin up => k <= excuses
    BY <1>t, <2>1 DEF RpcTypes, Addressed
  <2> QED
    BY <1>t, <2>1, <2>2, <2>3, <2>4
<1> QED
  BY <1>1, <1>2, <1>3, <1>4, <1>5, <1>6, <1>7, <1>8, <1>9, <1>10, <1>11, <1>12
  DEF Next, Discovery, Attempt

-----------------------------------------------------------------------------
(***************************************************************************)
(* The theorems.                                                           *)
(***************************************************************************)

\* The invariant holds before discovery has run and before any batch.
LEMMA RpcInvInit == Init => RpcInv
<1> SUFFICES ASSUME Init PROVE RpcInv
  OBVIOUS
<1> USE RpcAssumption DEF Init
<1>1. TypeOK
  <2>1. stream \in [Conns -> Seq({"length", "bytes"} \X Nat)]
    OBVIOUS
  <2>2. view \in Slices \X Nat /\ crashed \in BOOLEAN
    BY SliceFacts
  <2> QED
    BY <2>1, <2>2, SliceFacts DEF TypeOK
<1>2. BatchStarted /\ Addressed /\ Undialled /\ OpenIsMapped /\ OpenEnds /\ NotYetSent
  BY DEF BatchStarted, Addressed, Undialled, OpenIsMapped, OpenEnds, NotYetSent
<1>3. FramesWhole /\ SentOnce
  BY DEF FramesWhole, SentOnce, Carriers
<1>4. StaleSpent
  BY DEF StaleSpent, OneStaleAttempt
<1> QED
  BY <1>1, <1>2, <1>3, <1>4 DEF RpcInv, RpcTypes

\* Discovery and the consumer, interleaved in any way, preserve it.
LEMMA RpcInvStep == RpcInv /\ [Next]_vars => RpcInv'
BY RpcTypesStep, ConnStep, FramesStep, SentStep, StaleStep DEF RpcInv

\* initRpcServerDiscovery and deliver keep the types of rpcClient, and the
\* whole inductive invariant, for ever.
THEOREM RpcInvariant == Spec => []RpcInv
<1> QED
  BY RpcInvInit, RpcInvStep, PTL DEF Spec

\* send leaves no partial frame in front of another one: every connection
\* carries whole frames, except perhaps for the last.
THEOREM FramesWholeTheorem == Spec => []FramesWhole
<1>1. RpcInv => FramesWhole
  BY DEF RpcInv
<1> QED
  BY <1>1, RpcInvariant, PTL

\* trySend repeats a batch only when it was not written: a batch is complete
\* on one connection when deliver reports success and on none otherwise.
THEOREM AtMostOnceTheorem == Spec => []AtMostOnce
<1>1. RpcInv => AtMostOnce
  <2> SUFFICES ASSUME RpcInv, NEW b \in 1..MaxBatches
               PROVE  Cardinality(Carriers(b)) = IF outcome[b] = "sent" THEN 1 ELSE 0
    BY DEF AtMostOnce
  <2>1. CASE outcome[b] = "sent"
    <3>1. PICK c \in Conns : Carriers(b) = {c}
      BY <2>1 DEF RpcInv, SentOnce
    <3> QED
      BY <2>1, <3>1, FS_Singleton
  <2>2. CASE outcome[b] # "sent"
    BY <2>2, FS_EmptySet DEF RpcInv, SentOnce
  <2> QED
    BY <2>1, <2>2
<1> QED
  BY <1>1, RpcInvariant, PTL

\* send and discovery leak no connection: one that is open is in the map.
THEOREM OpenIsMappedTheorem == Spec => []OpenIsMapped
<1>1. RpcInv => OpenIsMapped
  BY DEF RpcInv
<1> QED
  BY <1>1, RpcInvariant, PTL

\* A connection that discovery closed and left in the map costs trySend one of
\* its three attempts at most.
THEOREM OneStaleAttemptTheorem == Spec => []OneStaleAttempt
<1>1. RpcInv => OneStaleAttempt
  BY DEF RpcInv, StaleSpent
<1> QED
  BY <1>1, RpcInvariant, PTL
=============================================================================
