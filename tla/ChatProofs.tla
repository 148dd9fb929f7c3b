----------------------------- MODULE ChatProofs ------------------------------
(***************************************************************************)
(* Proofs about RoomQueues and ChatSystem, for every set of connections    *)
(* and rooms, every queue size, every batch size, any number of messages   *)
(* and whatever compute servers there are: the invariants of the queues,   *)
(* and that queues and rpc client together implement ChatPath.             *)
(***************************************************************************)
EXTENDS ChatSystem, SequenceTheorems, TLAPS

\* What is left of a sequence after its first n elements, and these.
LEMMA Split ==
    ASSUME NEW s \in Seq(Message), NEW n \in Nat, n <= Len(s)
    PROVE  /\ SubSeq(s, n + 1, Len(s)) \in Seq(Message)
           /\ Len(SubSeq(s, n + 1, Len(s))) = Len(s) - n
           /\ \A i \in 1..(Len(s) - n) : SubSeq(s, n + 1, Len(s))[i] = s[n + i]
           /\ SubSeq(s, 1, n) \in Seq(Message)
           /\ Len(SubSeq(s, 1, n)) = n
OBVIOUS

\* The length of a concatenation.
LEMMA ConcatLen ==
    ASSUME NEW s \in Seq(Message), NEW t \in Seq(Message)
    PROVE  s \o t \in Seq(Message) /\ Len(s \o t) = Len(s) + Len(t)
OBVIOUS

\* Adding at the end of both keeps the newest part the newest part.
LEMMA NewestAppend ==
    ASSUME NEW rest \in Seq(Message), NEW all \in Seq(Message), NEW m \in Message,
           IsNewest(rest, all)
    PROVE  IsNewest(Append(rest, m), Append(all, m))
<1> DEFINE rest1 == Append(rest, m)
           all1 == Append(all, m)
<1>0. Len(rest) \in Nat /\ Len(all) \in Nat /\ Len(rest) <= Len(all)
  BY DEF IsNewest
<1>1. /\ Len(rest1) = Len(rest) + 1 /\ Len(all1) = Len(all) + 1
      /\ rest1[Len(rest) + 1] = m /\ all1[Len(all) + 1] = m
      /\ \A i \in 1..Len(rest) : rest1[i] = rest[i]
      /\ \A i \in 1..Len(all) : all1[i] = all[i]
  OBVIOUS
<1> HIDE DEF rest1, all1
<1>2. ASSUME NEW i \in 1..Len(rest1) PROVE rest1[i] = all1[Len(all1) - Len(rest1) + i]
  <2>0. Len(all1) - Len(rest1) + i = Len(all) - Len(rest) + i
    BY <1>0, <1>1
  <2>1. CASE i = Len(rest) + 1
    BY <1>0, <1>1, <2>0, <2>1
  <2>2. CASE i # Len(rest) + 1
    <3>1. i \in 1..Len(rest) /\ Len(all) - Len(rest) + i \in 1..Len(all)
      BY <1>0, <1>1, <2>2
    <3>2. rest[i] = all[Len(all) - Len(rest) + i]
      BY <3>1 DEF IsNewest
    <3> QED
      BY <1>1, <2>0, <3>1, <3>2
  <2> QED
    BY <2>1, <2>2
<1>3. Len(rest1) <= Len(all1)
  BY <1>0, <1>1
<1>4. IsNewest(rest1, all1)
  BY <1>2, <1>3 DEF IsNewest
<1> QED
  BY <1>4 DEF rest1, all1

\* Dropping the first n elements of the newest part leaves the newest part.
LEMMA NewestCut ==
    ASSUME NEW rest \in Seq(Message), NEW all \in Seq(Message), NEW n \in Nat,
           n <= Len(rest), IsNewest(rest, all)
    PROVE  IsNewest(SubSeq(rest, n + 1, Len(rest)), all)
<1> DEFINE cut == SubSeq(rest, n + 1, Len(rest))
<1>1. Len(cut) = Len(rest) - n /\ \A i \in 1..(Len(rest) - n) : cut[i] = rest[n + i]
  BY Split
<1> HIDE DEF cut
<1>2. Len(rest) \in Nat /\ Len(all) \in Nat /\ Len(rest) <= Len(all)
  BY DEF IsNewest
<1>3. ASSUME NEW i \in 1..Len(cut) PROVE cut[i] = all[Len(all) - Len(cut) + i]
  <2>1. n + i \in 1..Len(rest) /\ cut[i] = rest[n + i]
    BY <1>1, <1>2
  <2>2. rest[n + i] = all[Len(all) - Len(rest) + (n + i)]
    BY <2>1 DEF IsNewest
  <2>3. Len(all) - Len(rest) + (n + i) = Len(all) - Len(cut) + i
    BY <1>1, <1>2
  <2> QED
    BY <2>1, <2>2, <2>3
<1>4. Len(cut) <= Len(all)
  BY <1>1, <1>2
<1>5. IsNewest(cut, all)
  BY <1>3, <1>4 DEF IsNewest
<1> QED
  BY <1>5 DEF cut

\* MessageQueue.Add leaves at most maxSize elements.
LEMMA ExcessFacts ==
    ASSUME NEW n \in Nat
    PROVE  Excess(n) \in Nat /\ Excess(n) <= n /\ n - Excess(n) <= MaxSize
BY QueuesAssumption DEF Excess

\* MessageQueue.DrainTo copies no more than there is and no more than fits.
LEMMA DrainCountFacts ==
    ASSUME NEW n \in Nat, NEW b \in Nat, b <= MaxLength
    PROVE  /\ DrainCount(n, b) \in Nat
           /\ DrainCount(n, b) <= n
           /\ b + DrainCount(n, b) <= MaxLength
BY QueuesAssumption DEF DrainCount

\* The rest of the invariant, conjunct by conjunct.
PointersOK ==
    /\ \A s \in Senders : pc[s] # "idle" => msg[s] \in Message
    /\ \A r \in Rooms : group[r] # None => group[r] \in made
    /\ \A r, t \in Rooms : group[r] = group[t] /\ group[r] # None => r = t
    /\ \A r \in todo : group[r] # None
    /\ \A k \in Queues \ made : queue[k] = <<>>

\* Steps that change no queue, no key and no log keep the queue properties.
LEMMA QueuesKept ==
    ASSUME QueuesInv, UNCHANGED <<group, queue, added, discarded, taken>>
    PROVE  NewestRemain' /\ NothingVanishes' /\ (\A k \in Queues : Len(queue[k]) <= MaxSize)'
BY DEF QueuesInv, NewestRemain, NothingVanishes, Bounds, RoomQueue

-----------------------------------------------------------------------------
\* A handler draws an id.
LEMMA HandleMsgStep ==
    ASSUME QueuesInv, NEW s \in Senders, NEW r \in Rooms, HandleMsg(s, r)
    PROVE  QueuesInv'
<1> USE DEF HandleMsg, groupVars, consumerVars, logVars
<1>1. [id |-> counter + 1, from |-> s, room |-> r] \in Message
  BY DEF QueuesInv, TypeOK, Message
<1>2. TypeOK'
  BY <1>1 DEF QueuesInv, TypeOK
<1>3. NoOrphanQueue' /\ PointersOK'
  BY <1>1 DEF QueuesInv, TypeOK, NoOrphanQueue, PointersOK
<1> QED
  BY <1>2, <1>3, QueuesKept DEF QueuesInv, PointersOK, Bounds

\* A handler looks its queue up.
LEMMA LookupStep ==
    ASSUME QueuesInv, NEW s \in Senders, Lookup(s)
    PROVE  QueuesInv'
<1> USE DEF Lookup, groupVars, consumerVars, logVars
<1>1. msg[s] \in Message /\ msg[s].room \in Rooms
  BY DEF QueuesInv, TypeOK, Message
<1>2. TypeOK'
  BY <1>1 DEF QueuesInv, TypeOK
<1>3. NoOrphanQueue' /\ PointersOK'
  BY <1>1 DEF QueuesInv, TypeOK, NoOrphanQueue, PointersOK
<1> QED
  BY <1>2, <1>3, QueuesKept DEF QueuesInv, PointersOK, Bounds

\* A handler creates the queue of its room, or finds it made meanwhile.
LEMMA CreateStep ==
    ASSUME QueuesInv, NEW s \in Senders, Create(s)
    PROVE  QueuesInv'
<1> DEFINE r == msg[s].room
<1> USE DEF consumerVars, logVars
<1>1. msg[s] \in Message /\ r \in Rooms
  BY DEF Create, QueuesInv, TypeOK, Message
<1>0. /\ pc' = [pc EXCEPT ![s] = "add"] /\ mq' = [mq EXCEPT ![s] = group'[r]]
      /\ UNCHANGED <<counter, msg, cpc, todo, batch, packed, taken, added, discarded, queue>>
  BY DEF Create
<1>2. CASE group[r] # None /\ UNCHANGED groupVars
  <2>1. TypeOK'
    BY <1>0, <1>1, <1>2 DEF QueuesInv, TypeOK, groupVars
  <2>2. NoOrphanQueue' /\ PointersOK'
    BY <1>0, <1>1, <1>2 DEF QueuesInv, TypeOK, NoOrphanQueue, PointersOK, groupVars
  <2>3. UNCHANGED <<group, queue, added, discarded, taken>>
    BY <1>0, <1>2 DEF groupVars
  <2> QED
    BY <1>0, <2>1, <2>2, <2>3, QueuesKept DEF QueuesInv, PointersOK, Bounds
<1>3. ASSUME group[r] = None, NEW k \in Queues, NewQueue(r, k)
      PROVE  QueuesInv'
  <2> USE <1>3 DEF NewQueue
  <2>1. TypeOK'
    BY <1>0, <1>1 DEF QueuesInv, TypeOK
  <2>2. k # None /\ k \notin made /\ queue[k] = <<>>
    BY QueuesAssumption DEF QueuesInv
  <2>3. group' = [group EXCEPT ![r] = k] /\ made' = made \cup {k}
    OBVIOUS
  <2>4. \A t \in Rooms : RoomQueue(t)' = RoomQueue(t)
    BY <1>0, <1>1, <2>2, <2>3 DEF RoomQueue, QueuesInv, TypeOK
  <2>5. NewestRemain' /\ NothingVanishes'
    BY <1>0, <2>4 DEF QueuesInv, NewestRemain, NothingVanishes
  <2>6. NoOrphanQueue'
    <3> SUFFICES ASSUME NEW z \in Senders, pc'[z] = "add"
                 PROVE  mq'[z] # None /\ mq'[z] = group'[msg[z].room]
      BY <1>0 DEF NoOrphanQueue
    <3>1. CASE z = s
      BY <1>0, <1>1, <2>2, <2>3, <3>1 DEF QueuesInv, TypeOK
    <3>2. CASE z # s
      <4>1. pc[z] = "add" /\ mq'[z] = mq[z] /\ msg[z].room \in Rooms
        BY <1>0, <3>2 DEF QueuesInv, TypeOK, Message
      <4>2. mq[z] # None /\ mq[z] = group[msg[z].room]
        BY <4>1 DEF QueuesInv, NoOrphanQueue
      <4> QED
        BY <4>1, <4>2, <2>3, <1>1, <1>3 DEF QueuesInv, TypeOK
    <3> QED
      BY <3>1, <3>2
  <2>7. PointersOK'
    BY <1>0, <1>1, <2>2, <2>3 DEF QueuesInv, TypeOK, PointersOK
  <2> QED
    BY <1>0, <2>1, <2>5, <2>6, <2>7 DEF QueuesInv, PointersOK, Bounds
<1> QED
  BY <1>2, <1>3 DEF Create

-----------------------------------------------------------------------------
\* A handler adds its message, discarding from the front.
LEMMA AddMessageStep ==
    ASSUME QueuesInv, NEW s \in Senders, AddMessage(s)
    PROVE  QueuesInv'
<1> DEFINE k == mq[s]
           r == msg[s].room
           longer == Append(queue[k], msg[s])
           n == Excess(Len(longer))
           rest == SubSeq(longer, n + 1, Len(longer))
           gone == SubSeq(longer, 1, n)
<1>0. /\ queue' = [queue EXCEPT ![k] = rest]
      /\ added' = [added EXCEPT ![r] = Append(added[r], msg[s])]
      /\ discarded' = [discarded EXCEPT ![r] = discarded[r] \o gone]
      /\ msg' = [msg EXCEPT ![s] = None]
      /\ pc[s] = "add" /\ pc' = [pc EXCEPT ![s] = "idle"]
      /\ UNCHANGED <<counter, mq, group, made, cpc, todo, batch, packed, taken>>
  BY DEF AddMessage, groupVars, consumerVars
<1>1. msg[s] \in Message /\ r \in Rooms
  BY <1>0 DEF QueuesInv, TypeOK, Message
<1>2. k \in Queues /\ k = group[r] /\ k # None /\ k \in made
  BY <1>0, <1>1 DEF QueuesInv, TypeOK, NoOrphanQueue
<1>3. queue[k] \in Seq(Message) /\ added[r] \in Seq(Message)
  BY <1>1, <1>2 DEF QueuesInv, TypeOK
<1>4. longer \in Seq(Message) /\ Len(longer) = Len(queue[k]) + 1 /\ Len(longer) \in Nat
  BY <1>1, <1>3
<1>10. RoomQueue(r) = queue[k]
  BY <1>2 DEF RoomQueue
<1>15. IsNewest(longer, Append(added[r], msg[s]))
  <2>1. IsNewest(queue[k], added[r])
    BY <1>1, <1>10 DEF QueuesInv, NewestRemain
  <2> QED
    BY <1>1, <1>3, <2>1, NewestAppend
<1> HIDE DEF longer
<1>16. n \in Nat /\ n <= Len(longer) /\ Len(longer) - n <= MaxSize
  BY <1>4, ExcessFacts
<1> HIDE DEF n
<1>5. /\ rest \in Seq(Message) /\ Len(rest) = Len(longer) - n
      /\ gone \in Seq(Message) /\ Len(gone) = n
  BY <1>4, <1>16, Split
<1>17. Append(added[r], msg[s]) \in Seq(Message)
  BY <1>1, <1>3
<1>18. IsNewest(rest, Append(added[r], msg[s]))
  BY <1>4, <1>15, <1>16, <1>17, NewestCut
<1> HIDE DEF rest, gone
<1>6. TypeOK'
  <2>1. Append(added[r], msg[s]) \in Seq(Message) /\ discarded[r] \o gone \in Seq(Message)
    BY <1>1, <1>5 DEF QueuesInv, TypeOK
  <2>2. added' \in [Rooms -> Seq(Message)] /\ discarded' \in [Rooms -> Seq(Message)]
    BY <1>0, <2>1 DEF QueuesInv, TypeOK
  <2> QED
    BY <1>0, <1>5, <2>2 DEF QueuesInv, TypeOK
<1>7. \A t \in Rooms : RoomQueue(t)' = IF t = r THEN rest ELSE RoomQueue(t)
  BY <1>0, <1>1, <1>2 DEF RoomQueue, QueuesInv, TypeOK
<1>8. \A t \in Rooms \ {r} : added'[t] = added[t] /\ discarded'[t] = discarded[t]
  BY <1>0 DEF QueuesInv, TypeOK
<1>9. /\ added'[r] = Append(added[r], msg[s])
      /\ Len(added'[r]) = Len(added[r]) + 1
      /\ Len(discarded'[r]) = Len(discarded[r]) + n
      /\ Len(added[r]) \in Nat /\ Len(discarded[r]) \in Nat /\ Len(queue[k]) \in Nat
  <2>1. discarded[r] \in Seq(Message) /\ discarded'[r] = discarded[r] \o gone
    BY <1>0, <1>1 DEF QueuesInv, TypeOK
  <2>2. Len(discarded'[r]) = Len(discarded[r]) + n
    BY <1>5, <2>1, ConcatLen
  <2>3. added'[r] = Append(added[r], msg[s])
    BY <1>0, <1>1 DEF QueuesInv, TypeOK
  <2>4. Len(added'[r]) = Len(added[r]) + 1
    BY <1>1, <1>3, <2>3
  <2> QED
    BY <1>3, <2>1, <2>2, <2>3, <2>4
<1>11. NewestRemain'
  <2> SUFFICES ASSUME NEW t \in Rooms
               PROVE  IsNewest(RoomQueue(t)', added'[t])
    BY DEF NewestRemain, IsNewest
  <2>1. CASE t # r
    BY <1>7, <1>8, <2>1 DEF QueuesInv, NewestRemain
  <2>2. CASE t = r
    BY <1>7, <1>9, <1>18, <2>2
  <2> QED
    BY <2>1, <2>2
<1>12. NothingVanishes'
  <2> SUFFICES ASSUME NEW t \in Rooms
               PROVE  Len(added'[t]) = taken'[t] + Len(discarded'[t]) + Len(RoomQueue(t)')
    BY DEF NothingVanishes
  <2>1. CASE t # r
    BY <1>0, <1>7, <1>8, <2>1 DEF QueuesInv, NothingVanishes
  <2>2. CASE t = r
    <3>1. Len(added[r]) = taken[r] + Len(discarded[r]) + Len(queue[k])
      BY <1>1, <1>10 DEF QueuesInv, NothingVanishes
    <3>2. taken[r] \in Nat /\ taken' = taken
      BY <1>0, <1>1 DEF QueuesInv, TypeOK
    <3> QED
      <4>1. RoomQueue(t)' = rest
        BY <1>7, <2>2
      <4>2. Len(rest) = Len(queue[k]) + 1 - n
        BY <1>4, <1>5, <1>9, <1>16
      <4>3. /\ Len(added'[r]) = Len(added[r]) + 1
            /\ Len(discarded'[r]) = Len(discarded[r]) + n
            /\ Len(discarded[r]) \in Nat /\ Len(queue[k]) \in Nat
        BY <1>9
      <4>4. Len(added'[r]) = taken[r] + Len(discarded'[r]) + Len(rest)
        <5> DEFINE a == Len(added[r])
                   t0 == taken[r]
                   d == Len(discarded[r])
                   l == Len(queue[k])
        <5>1. t0 \in Nat /\ n \in Nat /\ d \in Nat /\ l \in Nat /\ a = t0 + d + l
          BY <1>16, <3>1, <3>2, <4>3
        <5> HIDE DEF a, t0, d, l
        <5>2. a + 1 = t0 + (d + n) + (l + 1 - n)
          BY <5>1
        <5> QED
          BY <4>2, <4>3, <5>2 DEF a, t0, d, l
      <4> QED
        BY <2>2, <3>2, <4>1, <4>4
  <2> QED
    BY <2>1, <2>2
<1>13. Bounds'
  BY <1>0, <1>5, <1>16 DEF QueuesInv, Bounds, TypeOK
<1>14. NoOrphanQueue' /\ PointersOK'
  BY <1>0, <1>2 DEF QueuesInv, TypeOK, NoOrphanQueue, PointersOK
<1> QED
  BY <1>6, <1>11, <1>12, <1>13, <1>14 DEF QueuesInv, PointersOK

-----------------------------------------------------------------------------
\* The consumer moves the front of one room's queue into the batch.
LEMMA DrainQueueStep ==
    ASSUME QueuesInv, NEW r \in Rooms, DrainQueue(r)
    PROVE  QueuesInv'
<1> DEFINE k == group[r]
           n == DrainCount(Len(queue[k]), Len(batch))
           rest == SubSeq(queue[k], n + 1, Len(queue[k]))
           front == SubSeq(queue[k], 1, n)
<1>0. /\ batch' = batch \o front
      /\ queue' = [queue EXCEPT ![k] = rest]
      /\ todo' = todo \ {r} /\ r \in todo
      /\ taken' = [taken EXCEPT ![r] = taken[r] + n]
      /\ UNCHANGED <<counter, pc, msg, mq, group, made, added, discarded, cpc, packed>>
  BY DEF DrainQueue, handlerVars, groupVars, logVars
<1>1. k \in Queues /\ k # None /\ k \in made
  BY <1>0 DEF QueuesInv, TypeOK
<1>2. queue[k] \in Seq(Message) /\ Len(queue[k]) \in Nat /\ Len(batch) \in Nat
  BY <1>1 DEF QueuesInv, TypeOK
<1>3. n \in Nat /\ n <= Len(queue[k]) /\ Len(batch) + n <= MaxLength
  BY <1>2, DrainCountFacts DEF QueuesInv, Bounds
<1> HIDE DEF n
<1>4. /\ rest \in Seq(Message) /\ Len(rest) = Len(queue[k]) - n
      /\ front \in Seq(Message) /\ Len(front) = n
  BY <1>2, <1>3, Split
<1>13. IsNewest(rest, added[r])
  <2>1. IsNewest(queue[k], added[r]) /\ added[r] \in Seq(Message)
    BY <1>1 DEF QueuesInv, NewestRemain, RoomQueue, TypeOK
  <2> QED
    BY <1>2, <1>3, <2>1, NewestCut
<1> HIDE DEF rest, front
<1>5. batch' \in Seq(Message) /\ Len(batch') = Len(batch) + n
  <2>1. batch \in Seq(Message) /\ batch' = batch \o front
    BY <1>0 DEF QueuesInv, TypeOK
  <2> QED
    BY <1>4, <2>1, ConcatLen
<1>6. TypeOK'
  <2>1. taken' \in [Rooms -> Nat]
    BY <1>0, <1>3 DEF QueuesInv, TypeOK
  <2> QED
    BY <1>0, <1>4, <1>5, <2>1 DEF QueuesInv, TypeOK
<1>7. \A t \in Rooms : RoomQueue(t)' = IF t = r THEN rest ELSE RoomQueue(t)
  BY <1>0, <1>1 DEF RoomQueue, QueuesInv, TypeOK
<1>8. RoomQueue(r) = queue[k] /\ Len(added[r]) \in Nat
  BY <1>1 DEF RoomQueue, QueuesInv, TypeOK
<1>9. NewestRemain'
  <2> SUFFICES ASSUME NEW t \in Rooms
               PROVE  IsNewest(RoomQueue(t)', added[t])
    BY <1>0 DEF NewestRemain, IsNewest
  <2>1. CASE t # r
    BY <1>7, <2>1 DEF QueuesInv, NewestRemain
  <2>2. CASE t = r
    BY <1>7, <1>13, <2>2
  <2> QED
    BY <2>1, <2>2
<1>10. NothingVanishes'
  <2> SUFFICES ASSUME NEW t \in Rooms
               PROVE  Len(added[t]) = taken'[t] + Len(discarded[t]) + Len(RoomQueue(t)')
    BY <1>0 DEF NothingVanishes
  <2>1. CASE t # r
    BY <1>0, <1>7, <2>1 DEF QueuesInv, NothingVanishes, TypeOK
  <2>2. CASE t = r
    <3>1. Len(added[r]) = taken[r] + Len(discarded[r]) + Len(queue[k])
      BY <1>8 DEF QueuesInv, NothingVanishes
    <3>2. taken[r] \in Nat /\ taken'[r] = taken[r] + n /\ Len(discarded[r]) \in Nat
      BY <1>0 DEF QueuesInv, TypeOK
    <3> QED
      <4>1. RoomQueue(r)' = rest
        BY <1>7
      <4> DEFINE a == Len(added[r])
                 q == Len(queue[k])
                 d == Len(discarded[r])
                 l == Len(rest)
                 x == taken[r]
                 y == taken'[r]
      <4>2. /\ a = x + d + q /\ y = x + n /\ l = q - n
            /\ x \in Nat /\ d \in Nat /\ q \in Nat /\ n \in Nat
        BY <1>2, <1>3, <1>4, <3>1, <3>2
      <4> HIDE DEF a, q, d, l, x, y
      <4>3. a = y + d + l
        BY <4>2
      <4> QED
        BY <2>2, <4>1, <4>3 DEF a, d, l, y
  <2> QED
    BY <2>1, <2>2
<1>11. Bounds'
  <2>1. Len(rest) <= MaxSize
    BY <1>1, <1>2, <1>3, <1>4, QueuesAssumption DEF QueuesInv, Bounds
  <2> QED
    BY <1>0, <1>3, <1>5, <2>1 DEF QueuesInv, Bounds, TypeOK
<1>12. NoOrphanQueue' /\ PointersOK'
  BY <1>0, <1>1 DEF QueuesInv, TypeOK, NoOrphanQueue, PointersOK
<1> QED
  BY <1>6, <1>9, <1>10, <1>11, <1>12 DEF QueuesInv, PointersOK

\* The consumer starts a drain, or gives the batch away.
LEMMA ConsumerStep ==
    ASSUME QueuesInv, ConsumeStart \/ Deliver
    PROVE  QueuesInv'
<1> USE DEF ConsumeStart, Deliver, handlerVars, groupVars, logVars
<1>0. /\ UNCHANGED <<counter, pc, msg, mq, group, made, queue, added, discarded, taken>>
      /\ batch' = <<>>
      /\ cpc' \in {"tick", "drain"}
      /\ packed' = packed \o batch \/ packed' = packed
      /\ todo' = {r \in Rooms : group[r] # None} \/ todo' = todo
  OBVIOUS
<1>1. TypeOK'
  <2>1. packed' \in Seq(Message) /\ batch' \in Seq(Message)
    <3>1. packed \o batch \in Seq(Message) /\ <<>> \in Seq(Message)
      BY DEF QueuesInv, TypeOK
    <3> QED
      BY <1>0, <3>1 DEF QueuesInv, TypeOK
  <2>2. todo' \in SUBSET Rooms
    BY <1>0 DEF QueuesInv, TypeOK
  <2> QED
    BY <1>0, <2>1, <2>2 DEF QueuesInv, TypeOK
<1>2. NoOrphanQueue' /\ PointersOK'
  BY <1>0 DEF QueuesInv, NoOrphanQueue, PointersOK
<1>3. Len(batch') <= MaxLength
  BY <1>0, QueuesAssumption
<1> QED
  BY <1>0, <1>1, <1>2, <1>3, QueuesKept DEF QueuesInv, PointersOK, Bounds

-----------------------------------------------------------------------------
\* The invariant holds before the first message.
LEMMA QueuesInvInit == Init => QueuesInv
<1> SUFFICES ASSUME Init PROVE QueuesInv
  OBVIOUS
<1> USE QueuesAssumption DEF Init
<1>1. TypeOK
  <2>1. <<>> \in Seq(Message)
    OBVIOUS
  <2> QED
    BY <2>1 DEF TypeOK
<1>2. NoOrphanQueue /\ PointersOK
  BY DEF NoOrphanQueue, PointersOK
<1>3. NewestRemain /\ NothingVanishes /\ Bounds
  <2>1. \A r \in Rooms : RoomQueue(r) = <<>> /\ IsNewest(<<>>, <<>>)
    BY DEF RoomQueue, IsNewest
  <2>2. NewestRemain
    BY <2>1 DEF NewestRemain
  <2>3. NothingVanishes
    BY <2>1 DEF NothingVanishes
  <2> QED
    BY <2>2, <2>3 DEF Bounds
<1> QED
  BY <1>1, <1>2, <1>3 DEF QueuesInv, PointersOK

\* Every step of the handlers and of the consumer preserves it.
LEMMA QueuesInvStep == QueuesInv /\ [Next]_vars => QueuesInv'
<1> SUFFICES ASSUME QueuesInv, [Next]_vars PROVE QueuesInv'
  OBVIOUS
<1>1. ASSUME NEW s \in Senders, Handler(s) PROVE QueuesInv'
  BY <1>1, HandleMsgStep, LookupStep, CreateStep, AddMessageStep DEF Handler
<1>2. CASE Consumer
  BY <1>2, DrainQueueStep, ConsumerStep DEF Consumer
<1>3. CASE UNCHANGED vars
  <2>1. UNCHANGED <<counter, pc, msg, mq, group, made, cpc, todo, batch, packed,
                    taken, added, discarded, queue>>
    BY <1>3 DEF vars, handlerVars, groupVars, consumerVars, logVars
  <2> QED
    BY <2>1, QueuesKept DEF QueuesInv, TypeOK, NoOrphanQueue, Bounds
<1> QED
  BY <1>1, <1>2, <1>3 DEF Next

\* The inductive invariant of the chat queues.
THEOREM QueuesInvariant == Spec => []QueuesInv
BY QueuesInvInit, QueuesInvStep, PTL DEF Spec

\* No message is ever added to a queue the consumer does not read.
THEOREM QueuesReachable == Spec => []NoOrphanQueue
<1>1. QueuesInv => NoOrphanQueue
  BY DEF QueuesInv
<1> QED
  BY <1>1, QueuesInvariant, PTL

\* Drains and discards remove the oldest messages of a room only.
THEOREM OldestFirst == Spec => []NewestRemain
<1>1. QueuesInv => NewestRemain
  BY DEF QueuesInv
<1> QED
  BY <1>1, QueuesInvariant, PTL

\* Every message added to a room is drained, discarded or still queued.
THEOREM AllAccounted == Spec => []NothingVanishes
<1>1. QueuesInv => NothingVanishes
  BY DEF QueuesInv
<1> QED
  BY <1>1, QueuesInvariant, PTL

\* The memory held by a queue and by a batch is bounded.
THEOREM QueuesBounded == Spec => []Bounds
<1>1. QueuesInv => Bounds
  BY DEF QueuesInv
<1> QED
  BY <1>1, QueuesInvariant, PTL

-----------------------------------------------------------------------------
(***************************************************************************)
(* The order of the messages of one connection to one room.                *)
(***************************************************************************)

\* m was sent before w, if the same connection sent both to the same room.
Earlier(m, w) == m.from = w.from /\ m.room = w.room => m.id < w.id

\* A sequence in the order of sending, and one that precedes another.
InOrder(q) == \A i, j \in 1..Len(q) : i < j => Earlier(q[i], q[j])
Precedes(p, q) == \A i \in 1..Len(p), j \in 1..Len(q) : Earlier(p[i], q[j])

\* The messages that have reached the consumer.
Out == packed \o batch

\* m was numbered, and before the message its connection is handling now.
Past(m) == m.id <= counter /\ (pc[m.from] # "idle" => m.id < msg[m.from].id)

\* The inductive invariant: what has reached the consumer precedes what is
\* queued, which precedes what is being handled.
OrderInv ==
    /\ cpc = "tick" => batch = << >>
    /\ \A s \in Senders : pc[s] # "idle" => msg[s].from = s /\ msg[s].id <= counter
    /\ \A k \in Queues : \A i \in 1..Len(queue[k]) :
          Past(queue[k][i]) /\ group[queue[k][i].room] = k
    /\ \A i \in 1..Len(Out) : Past(Out[i])
    /\ \A k \in Queues : InOrder(queue[k]) /\ Precedes(Out, queue[k])
    /\ InOrder(Out)

\* The beginning and the end of an ordered sequence are ordered, and the one
\* precedes the other.
LEMMA OrderSplit ==
    ASSUME NEW q \in Seq(Message), NEW n \in Nat, n <= Len(q), InOrder(q)
    PROVE  /\ InOrder(SubSeq(q, 1, n))
           /\ InOrder(SubSeq(q, n + 1, Len(q)))
           /\ Precedes(SubSeq(q, 1, n), SubSeq(q, n + 1, Len(q)))
<1>1. /\ Len(SubSeq(q, 1, n)) = n
      /\ Len(SubSeq(q, n + 1, Len(q))) = Len(q) - n
      /\ \A i \in 1..n : SubSeq(q, 1, n)[i] = q[i]
      /\ \A i \in 1..(Len(q) - n) : SubSeq(q, n + 1, Len(q))[i] = q[n + i]
      /\ Len(q) \in Nat
  BY Split
<1>2. /\ \A i \in 1..n : i \in 1..Len(q)
      /\ \A i \in 1..(Len(q) - n) : n + i \in 1..Len(q) /\ n < n + i
      /\ \A i, j \in 1..(Len(q) - n) : i < j => n + i < n + j
      /\ \A i \in 1..n, j \in 1..(Len(q) - n) : i < n + j
  BY <1>1
<1> QED
  BY <1>1, <1>2 DEF InOrder, Precedes

\* A part of a sequence is preceded by what precedes the sequence, and
\* precedes what the sequence precedes.
LEMMA PrecedesPart ==
    ASSUME NEW p \in Seq(Message), NEW q \in Seq(Message), NEW n \in Nat, n <= Len(q),
           Precedes(p, q)
    PROVE  /\ Precedes(p, SubSeq(q, 1, n))
           /\ Precedes(p, SubSeq(q, n + 1, Len(q)))
<1>1. /\ Len(SubSeq(q, 1, n)) = n
      /\ Len(SubSeq(q, n + 1, Len(q))) = Len(q) - n
      /\ \A i \in 1..n : SubSeq(q, 1, n)[i] = q[i]
      /\ \A i \in 1..(Len(q) - n) : SubSeq(q, n + 1, Len(q))[i] = q[n + i]
      /\ Len(q) \in Nat
  BY Split
<1>2. /\ \A i \in 1..n : i \in 1..Len(q)
      /\ \A i \in 1..(Len(q) - n) : n + i \in 1..Len(q)
  BY <1>1
<1> QED
  BY <1>1, <1>2 DEF Precedes

\* Two ordered sequences, one preceding the other, are ordered together.
LEMMA OrderConcat ==
    ASSUME NEW p \in Seq(Message), NEW q \in Seq(Message),
           InOrder(p), InOrder(q), Precedes(p, q)
    PROVE  InOrder(p \o q)
<1>0. Len(p) \in Nat /\ Len(q) \in Nat
  OBVIOUS
<1>1. /\ Len(p \o q) = Len(p) + Len(q)
      /\ \A i \in 1..(Len(p) + Len(q)) :
            (p \o q)[i] = IF i <= Len(p) THEN p[i] ELSE q[i - Len(p)]
  BY ConcatProperties
<1>2. ASSUME NEW i \in 1..Len(p \o q), NEW j \in 1..Len(p \o q), i < j
      PROVE  Earlier((p \o q)[i], (p \o q)[j])
  <2>1. CASE j <= Len(p)
    <3>1. i \in 1..Len(p) /\ j \in 1..Len(p) /\ i <= Len(p)
      BY <1>0, <1>1, <1>2, <2>1
    <3> QED
      BY <1>1, <1>2, <2>1, <3>1 DEF InOrder
  <2>2. CASE i <= Len(p) /\ ~(j <= Len(p))
    <3>1. i \in 1..Len(p) /\ j - Len(p) \in 1..Len(q)
      BY <1>0, <1>1, <1>2, <2>2
    <3> QED
      BY <1>1, <1>2, <2>2, <3>1 DEF Precedes
  <2>3. CASE ~(i <= Len(p))
    <3>1. /\ i - Len(p) \in 1..Len(q) /\ j - Len(p) \in 1..Len(q)
          /\ i - Len(p) < j - Len(p) /\ ~(j <= Len(p))
      BY <1>0, <1>1, <1>2, <2>3
    <3> QED
      BY <1>1, <1>2, <2>3, <3>1 DEF InOrder
  <2> QED
    BY <1>0, <1>1, <2>1, <2>2, <2>3
<1> QED
  BY <1>2 DEF InOrder

\* What precedes r piece by piece precedes it as a whole.
LEMMA PrecedesConcat ==
    ASSUME NEW p \in Seq(Message), NEW q \in Seq(Message), NEW r \in Seq(Message),
           Precedes(p, r), Precedes(q, r)
    PROVE  Precedes(p \o q, r)
<1>0. Len(p) \in Nat /\ Len(q) \in Nat
  OBVIOUS
<1>1. /\ Len(p \o q) = Len(p) + Len(q)
      /\ \A i \in 1..(Len(p) + Len(q)) :
            (p \o q)[i] = IF i <= Len(p) THEN p[i] ELSE q[i - Len(p)]
  BY ConcatProperties
<1>2. ASSUME NEW i \in 1..Len(p \o q), NEW j \in 1..Len(r) PROVE Earlier((p \o q)[i], r[j])
  <2>1. CASE i <= Len(p)
    <3>1. i \in 1..Len(p)
      BY <1>0, <1>1, <2>1
    <3> QED
      BY <1>1, <2>1, <3>1 DEF Precedes
  <2>2. CASE ~(i <= Len(p))
    <3>1. i - Len(p) \in 1..Len(q)
      BY <1>0, <1>1, <2>2
    <3> QED
      BY <1>1, <2>2, <3>1 DEF Precedes
  <2> QED
    BY <2>1, <2>2
<1> QED
  BY <1>2 DEF Precedes

\* The types that the steps below need.
LEMMA OutFacts ==
    ASSUME QueuesInv
    PROVE  /\ Out \in Seq(Message) /\ Len(Out) \in Nat
           /\ \A i \in 1..Len(Out) : Out[i] \in Message
           /\ \A k \in Queues : /\ queue[k] \in Seq(Message) /\ Len(queue[k]) \in Nat
                               /\ \A i \in 1..Len(queue[k]) : queue[k][i] \in Message
           /\ \A s \in Senders : pc[s] # "idle" => msg[s] \in Message
           /\ counter \in Nat
           /\ \A m \in Message : m.id \in Nat /\ m.from \in Senders /\ m.room \in Rooms
<1>1. Out \in Seq(Message) /\ Len(Out) \in Nat
  BY ConcatLen DEF Out, QueuesInv, TypeOK
<1>2. \A k \in Queues : queue[k] \in Seq(Message) /\ Len(queue[k]) \in Nat
  BY DEF QueuesInv, TypeOK
<1>3. \A q \in Seq(Message) : \A i \in 1..Len(q) : q[i] \in Message
  OBVIOUS
<1> QED
  BY <1>1, <1>2, <1>3 DEF QueuesInv, TypeOK, Message

\* A step that moves no message keeps the order; a connection may begin to
\* handle a message with a new number.
LEMMA OrderKept ==
    ASSUME QueuesInv, OrderInv,
           UNCHANGED <<queue, packed, batch>>,
           cpc' = "tick" => batch = << >>,
           counter' \in Nat, counter <= counter',
           \A s \in Senders : pc'[s] # "idle" =>
               \/ pc[s] # "idle" /\ msg'[s] = msg[s]
               \/ msg'[s].from = s /\ msg'[s].id = counter' /\ counter < counter',
           \A r \in Rooms : group[r] # None => group'[r] = group[r]
    PROVE  OrderInv'
<1> USE OutFacts DEF OrderInv
<1>1. Out' = Out
  BY DEF Out
<1>2. ASSUME NEW m \in Message, Past(m) PROVE Past(m)'
  <2>1. m.id \in Nat /\ m.from \in Senders /\ m.id <= counter'
    BY <1>2 DEF Past
  <2>2. ASSUME pc'[m.from] # "idle" PROVE m.id < msg'[m.from].id
    BY <1>2, <2>1, <2>2 DEF Past
  <2> QED
    BY <2>1, <2>2 DEF Past
<1>3. \A s \in Senders : pc'[s] # "idle" => msg'[s].from = s /\ msg'[s].id <= counter'
  <2> TAKE s \in Senders
  <2> SUFFICES ASSUME pc'[s] # "idle" PROVE msg'[s].from = s /\ msg'[s].id <= counter'
    OBVIOUS
  <2>1. CASE pc[s] # "idle" /\ msg'[s] = msg[s]
    <3>1. msg[s].id \in Nat /\ msg[s].id <= counter
      BY <2>1
    <3> QED
      BY <2>1, <3>1
  <2>2. CASE msg'[s].from = s /\ msg'[s].id = counter'
    BY <2>2
  <2> QED
    BY <2>1, <2>2
<1>4. \A k \in Queues : \A i \in 1..Len(queue[k]) :
          Past(queue[k][i])' /\ group'[queue[k][i].room] = k
  BY <1>2, QueuesAssumption
<1>5. \A i \in 1..Len(Out) : Past(Out[i])'
  BY <1>1, <1>2
<1>6. queue' = queue /\ (cpc' = "tick" => batch' = << >>)
  OBVIOUS
<1>7. \A k \in Queues : InOrder(queue[k])' /\ Precedes(Out, queue[k])'
  BY <1>1, <1>6 DEF InOrder, Precedes
<1>8. InOrder(Out)'
  BY <1>1 DEF InOrder
<1>9. \A k \in Queues : \A i \in 1..Len(queue'[k]) :
          Past(queue[k][i])' /\ group'[queue'[k][i].room] = k
  BY <1>4, <1>6 DEF Past
<1>10. \A i \in 1..Len(Out') : Past(Out[i])'
  BY <1>5, <1>1 DEF Past
<1> QED
  BY <1>3, <1>6, <1>7, <1>8, <1>9, <1>10 DEF Past, InOrder, Precedes

\* Past, of a given message in the next state.
PastNext(m) == m.id <= counter' /\ (pc'[m.from] # "idle" => m.id < msg'[m.from].id)

\* MessageQueue.Add: the message is the newest of its connection.
LEMMA OrderAdd ==
    ASSUME QueuesInv, OrderInv, NEW s \in Senders, AddMessage(s)
    PROVE  OrderInv'
<1> DEFINE k == mq[s]
           m == msg[s]
           longer == Append(queue[k], m)
           n == Excess(Len(longer))
           rest == SubSeq(longer, n + 1, Len(longer))
<1>1. /\ pc[s] = "add" /\ m \in Message /\ k \in Queues /\ k = group[m.room]
      /\ m.from = s /\ m.id \in Nat /\ m.id <= counter /\ m.room \in Rooms
  BY OutFacts DEF AddMessage, QueuesInv, TypeOK, NoOrphanQueue, OrderInv
<1>2. /\ queue[k] \in Seq(Message) /\ longer \in Seq(Message)
      /\ Len(queue[k]) \in Nat /\ Len(longer) = Len(queue[k]) + 1
      /\ \A i \in 1..Len(queue[k]) : longer[i] = queue[k][i]
      /\ longer[Len(queue[k]) + 1] = m
  BY <1>1, AppendProperties DEF QueuesInv, TypeOK
<1>4. /\ queue' = [queue EXCEPT ![k] = rest]
      /\ UNCHANGED <<counter, group, cpc, packed, batch>>
      /\ pc' = [pc EXCEPT ![s] = "idle"] /\ msg' = [msg EXCEPT ![s] = None]
  BY DEF AddMessage, groupVars, consumerVars
<1> HIDE DEF k, m, longer
<1>3. n \in Nat /\ n <= Len(longer)
  <2>1. Len(longer) \in Nat
    BY <1>2
  <2> QED
    BY <2>1, ExcessFacts
<1> HIDE DEF n
<1>5. /\ rest \in Seq(Message) /\ Len(rest) = Len(longer) - n
      /\ \A i \in 1..Len(rest) : rest[i] = longer[n + i] /\ n + i \in 1..Len(longer)
  <2>1. /\ rest \in Seq(Message) /\ Len(rest) = Len(longer) - n
        /\ \A i \in 1..(Len(longer) - n) : rest[i] = longer[n + i]
    BY <1>2, <1>3, Split
  <2> HIDE DEF rest
  <2> QED
    BY <1>2, <1>3, <2>1
<1>6. queue'[k] = rest /\ \A j \in Queues : j # k => queue'[j] = queue[j]
  BY <1>1, <1>4 DEF QueuesInv, TypeOK
<1>7. pc'[s] = "idle" /\ \A t \in Senders : t # s => pc'[t] = pc[t] /\ msg'[t] = msg[t]
  BY <1>4 DEF QueuesInv, TypeOK
<1>o. Out' = Out
  BY <1>4 DEF Out
<1> HIDE DEF rest
<1>8. ASSUME NEW w \in Message, Past(w) \/ w = m PROVE PastNext(w)
  BY <1>1, <1>4, <1>7, <1>8, OutFacts DEF Past, PastNext
<1>9. ASSUME NEW i \in 1..Len(longer)
      PROVE  longer[i] \in Message /\ group[longer[i].room] = k /\ (Past(longer[i]) \/ longer[i] = m)
  <2>1. CASE i = Len(queue[k]) + 1
    BY <1>1, <1>2, <2>1
  <2>2. CASE i \in 1..Len(queue[k])
    BY <1>1, <1>2, <2>2, OutFacts, SMTT(30) DEF OrderInv
  <2> QED
    BY <1>2, <2>1, <2>2
<1>10. ASSUME NEW w \in Message, Past(w) PROVE Earlier(w, m)
  BY <1>1, <1>10 DEF Past, Earlier, m
<1>11. InOrder(longer)
  <2> SUFFICES ASSUME NEW i \in 1..Len(longer), NEW j \in 1..Len(longer), i < j
               PROVE  Earlier(longer[i], longer[j])
    BY DEF InOrder
  <2>1. i \in 1..Len(queue[k]) /\ longer[i] = queue[k][i]
    BY <1>2
  <2>2. CASE j = Len(queue[k]) + 1
    BY <1>1, <1>2, <1>10, <2>1, <2>2, OutFacts DEF OrderInv
  <2>3. CASE j \in 1..Len(queue[k])
    BY <1>1, <1>2, <2>1, <2>3 DEF OrderInv, InOrder
  <2> QED
    BY <1>2, <2>2, <2>3
<1>12. Precedes(Out, longer)
  <2> SUFFICES ASSUME NEW i \in 1..Len(Out), NEW j \in 1..Len(longer)
               PROVE  Earlier(Out[i], longer[j])
    BY DEF Precedes
  <2>1. CASE j = Len(queue[k]) + 1
    BY <1>1, <1>2, <1>10, <2>1, OutFacts DEF OrderInv
  <2>2. CASE j \in 1..Len(queue[k])
    BY <1>1, <1>2, <2>2 DEF OrderInv, Precedes
  <2> QED
    BY <1>2, <2>1, <2>2
<1>13. InOrder(rest) /\ Precedes(Out, rest)
  BY <1>2, <1>3, <1>11, <1>12, OrderSplit, PrecedesPart, OutFacts DEF rest
<1>14. (\A t \in Senders : pc[t] # "idle" => msg[t].from = t /\ msg[t].id <= counter)'
  BY <1>4, <1>7 DEF OrderInv
<1>15. \A j \in Queues : \A i \in 1..Len(queue'[j]) :
          PastNext(queue'[j][i]) /\ group'[queue'[j][i].room] = j
  <2> TAKE j \in Queues
  <2>1. CASE j = k
    <3> TAKE i \in 1..Len(queue'[j])
    <3>1. i \in 1..Len(rest) /\ queue'[j][i] = longer[n + i] /\ n + i \in 1..Len(longer)
      BY <1>5, <1>6, <2>1
    <3>2. /\ longer[n + i] \in Message /\ group[longer[n + i].room] = k
          /\ PastNext(longer[n + i])
      BY <1>8, <1>9, <3>1
    <3> QED
      BY <1>4, <2>1, <3>1, <3>2
  <2>2. CASE j # k
    <3> TAKE i \in 1..Len(queue'[j])
    <3>1. queue[j][i] \in Message /\ Past(queue[j][i]) /\ group[queue[j][i].room] = j
      BY <1>6, <2>2, OutFacts DEF OrderInv
    <3>2. PastNext(queue[j][i])
      BY <1>8, <3>1
    <3> QED
      BY <1>4, <1>6, <2>2, <3>1, <3>2
  <2> QED
    BY <2>1, <2>2
<1>16. \A i \in 1..Len(Out) : PastNext(Out[i])
  BY <1>8, OutFacts DEF OrderInv
<1>17. \A j \in Queues : InOrder(queue'[j]) /\ Precedes(Out, queue'[j])
  BY <1>6, <1>13 DEF OrderInv
<1> QED
  BY <1>4, <1>o, <1>14, <1>15, <1>16, <1>17 DEF OrderInv, Past, PastNext, InOrder, Precedes

\* MessageQueue.DrainTo: the oldest messages of a queue go to the end of the
\* batch; those of other queues are for other rooms.
LEMMA OrderDrain ==
    ASSUME QueuesInv, OrderInv, NEW r \in Rooms, DrainQueue(r)
    PROVE  OrderInv'
<1> DEFINE k == group[r]
           n == DrainCount(Len(queue[k]), Len(batch))
           first == SubSeq(queue[k], 1, n)
           rest == SubSeq(queue[k], n + 1, Len(queue[k]))
<1>1. k \in Queues /\ batch \in Seq(Message) /\ packed \in Seq(Message) /\ Len(batch) \in Nat
  BY DEF DrainQueue, QueuesInv, TypeOK
<1>2. queue[k] \in Seq(Message) /\ Len(queue[k]) \in Nat
  BY <1>1 DEF QueuesInv, TypeOK
<1>4. /\ queue' = [queue EXCEPT ![k] = rest] /\ batch' = batch \o first
      /\ UNCHANGED <<counter, pc, msg, group, packed, cpc>> /\ cpc = "drain"
  BY DEF DrainQueue, handlerVars, groupVars
<1> HIDE DEF k
<1>3. n \in Nat /\ n <= Len(queue[k])
  BY <1>1, <1>2, DrainCountFacts DEF QueuesInv, Bounds
<1> HIDE DEF n
<1>5. /\ first \in Seq(Message) /\ Len(first) = n
      /\ rest \in Seq(Message) /\ Len(rest) = Len(queue[k]) - n
      /\ \A i \in 1..n : first[i] = queue[k][i]
      /\ \A i \in 1..(Len(queue[k]) - n) : rest[i] = queue[k][n + i]
  <2>1. \A i \in 1..n : first[i] = queue[k][i]
    BY <1>2, <1>3
  <2> QED
    BY <1>2, <1>3, <2>1, Split
<1>6. queue'[k] = rest /\ \A j \in Queues : j # k => queue'[j] = queue[j]
  BY <1>1, <1>4 DEF QueuesInv, TypeOK
<1> HIDE DEF first, rest
<1>7. Out' = Out \o first
  <2>1. (packed \o batch) \o first = packed \o (batch \o first)
    <3>1. packed \in Seq(Message) /\ batch \in Seq(Message) /\ first \in Seq(Message)
      BY <1>1, <1>5
    <3> QED
      BY ONLY <3>1, ConcatAssociative
  <2> QED
    BY <1>4, <2>1 DEF Out
<1>8. /\ InOrder(first) /\ InOrder(rest) /\ Precedes(first, rest)
  BY <1>1, <1>2, <1>3, OrderSplit DEF OrderInv, first, rest
<1>9. Precedes(Out, first) /\ Precedes(Out, rest)
  BY <1>1, <1>2, <1>3, PrecedesPart, OutFacts DEF OrderInv, first, rest
<1>10. InOrder(Out \o first)
  BY <1>5, <1>8, <1>9, OrderConcat, OutFacts DEF OrderInv
<1>11. \A i \in 1..n : i \in 1..Len(queue[k])
  BY <1>2, <1>3
<1>12. \A i \in 1..(Len(queue[k]) - n) : n + i \in 1..Len(queue[k])
  BY <1>2, <1>3
<1>p. /\ \A i \in 1..n : Past(first[i]) /\ group[first[i].room] = k
      /\ \A i \in 1..(Len(queue[k]) - n) : Past(rest[i]) /\ group[rest[i].room] = k
  <2>1. \A i \in 1..Len(queue[k]) : Past(queue[k][i]) /\ group[queue[k][i].room] = k
    BY <1>1 DEF OrderInv
  <2>2. ASSUME NEW i \in 1..n PROVE Past(first[i]) /\ group[first[i].room] = k
    <3>1. first[i] = queue[k][i] /\ i \in 1..Len(queue[k])
      BY <1>5, <1>11
    <3> QED
      BY <2>1, <3>1
  <2>3. ASSUME NEW i \in 1..(Len(queue[k]) - n) PROVE Past(rest[i]) /\ group[rest[i].room] = k
    <3>1. rest[i] = queue[k][n + i] /\ n + i \in 1..Len(queue[k])
      BY <1>5, <1>12
    <3> QED
      BY <2>1, <3>1
  <2> QED
    BY <2>2, <2>3
<1>13. ASSUME NEW j \in Queues PROVE InOrder(queue'[j]) /\ Precedes(Out \o first, queue'[j])
  <2>1. CASE j = k
    BY <1>5, <1>6, <1>8, <1>9, <2>1, PrecedesConcat, OutFacts
  <2>2. CASE j # k
    <3>1. Precedes(first, queue[j])
      <4>1. \A i \in 1..Len(queue[j]) : group[queue[j][i].room] = j
        BY DEF OrderInv
      <4>2. \A i \in 1..Len(first) : group[first[i].room] = k
        BY <1>5, <1>p
      <4> QED
        BY <2>2, <4>1, <4>2 DEF Precedes, Earlier
    <3>2. Precedes(Out, queue[j]) /\ InOrder(queue[j])
      BY DEF OrderInv
    <3> QED
      BY <1>5, <1>6, <2>2, <3>1, <3>2, PrecedesConcat, OutFacts
  <2> QED
    BY <2>1, <2>2
<1>14. ASSUME NEW j \in Queues, NEW i \in 1..Len(queue'[j])
       PROVE  Past(queue'[j][i]) /\ group[queue'[j][i].room] = j
  <2>1. CASE j = k
    BY <1>5, <1>6, <1>p, <2>1
  <2>2. CASE j # k
    BY <1>6, <2>2 DEF OrderInv
  <2> QED
    BY <2>1, <2>2
<1>15. ASSUME NEW i \in 1..Len(Out \o first) PROVE Past((Out \o first)[i])
  <2>1. /\ Len(Out \o first) = Len(Out) + n
        /\ (Out \o first)[i] = IF i <= Len(Out) THEN Out[i] ELSE first[i - Len(Out)]
    <3>1. Out \in Seq(Message) /\ first \in Seq(Message) /\ Len(first) = n
      BY <1>5, OutFacts
    <3> QED
      BY <3>1, ConcatProperties
  <2>2. CASE i <= Len(Out)
    <3>1. i \in 1..Len(Out)
      BY <2>2, <2>1, <1>3, OutFacts
    <3> QED
      BY <2>1, <2>2, <3>1 DEF OrderInv
  <2>3. CASE ~(i <= Len(Out))
    <3>1. i - Len(Out) \in 1..n
      BY <2>3, <2>1, <1>3, OutFacts
    <3> QED
      BY <1>p, <2>1, <2>3, <3>1
  <2> QED
    BY <2>2, <2>3
<1>16. \A s \in Senders : pc[s] # "idle" => msg[s].from = s /\ msg[s].id <= counter
  BY DEF OrderInv
<1>17. (\A j \in Queues : \A i \in 1..Len(queue[j]) :
            Past(queue[j][i]) /\ group[queue[j][i].room] = j)'
  <2> SUFFICES ASSUME NEW j \in Queues, NEW i \in 1..Len(queue'[j])
               PROVE  (Past(queue[j][i]) /\ group[queue[j][i].room] = j)'
    OBVIOUS
  <2>1. Past(queue'[j][i]) /\ group[queue'[j][i].room] = j
    BY <1>14
  <2> QED
    BY <1>4, <2>1 DEF Past
<1>18. (\A i \in 1..Len(Out) : Past(Out[i]))'
  BY <1>4, <1>7, <1>15 DEF Past
<1>19. (\A j \in Queues : InOrder(queue[j]) /\ Precedes(Out, queue[j]))'
  BY <1>7, <1>13 DEF InOrder, Precedes
<1>20. InOrder(Out)'
  BY <1>7, <1>10 DEF InOrder
<1> QED
  BY <1>4, <1>16, <1>17, <1>18, <1>19, <1>20 DEF OrderInv

\* The consumer starts a batch, or hands it to deliver.
LEMMA OrderConsumer ==
    ASSUME QueuesInv, OrderInv, ConsumeStart \/ Deliver
    PROVE  OrderInv'
<1>1. batch \in Seq(Message) /\ packed \in Seq(Message)
  BY DEF QueuesInv, TypeOK
<1>2. UNCHANGED <<queue, counter, pc, msg, group>> /\ batch' = << >>
  BY DEF ConsumeStart, Deliver, handlerVars, groupVars
<1>3. Out' = Out
  <2>1. CASE ConsumeStart
    BY <2>1 DEF ConsumeStart, OrderInv, Out
  <2>2. CASE Deliver
    <3>1. packed' = packed \o batch
      BY <2>2 DEF Deliver
    <3>2. packed \o batch \in Seq(Message)
      BY <1>1, ConcatLen
    <3> QED
      BY <1>2, <3>1, <3>2, ConcatEmptySeq DEF Out
  <2> QED
    BY <2>1, <2>2
<1> QED
  BY <1>2, <1>3 DEF OrderInv, Past, InOrder, Precedes

\* Every step keeps the order.
LEMMA OrderStep == QueuesInv /\ OrderInv /\ [Next]_vars => OrderInv'
<1> SUFFICES ASSUME QueuesInv, OrderInv, [Next]_vars PROVE OrderInv'
  OBVIOUS
<1> USE DEF groupVars, consumerVars, logVars
<1>0. counter \in Nat /\ (cpc = "tick" => batch = << >>)
  BY DEF QueuesInv, TypeOK, OrderInv
<1>1. ASSUME NEW s \in Senders, NEW r \in Rooms, HandleMsg(s, r) PROVE OrderInv'
  BY <1>0, <1>1, OrderKept DEF HandleMsg, QueuesInv, TypeOK
<1>2. ASSUME NEW s \in Senders, Lookup(s) PROVE OrderInv'
  BY <1>0, <1>2, OrderKept DEF Lookup, QueuesInv, TypeOK
<1>3. ASSUME NEW s \in Senders, Create(s) PROVE OrderInv'
  <2>1. \A t \in Rooms : group[t] # None => group'[t] = group[t]
    BY <1>3 DEF Create, NewQueue, QueuesInv, TypeOK
  <2>2. UNCHANGED <<queue, packed, batch, cpc, counter, msg>>
    BY <1>3 DEF Create
  <2>3. \A t \in Senders : pc'[t] # "idle" => pc[t] # "idle"
    BY <1>3 DEF Create, QueuesInv, TypeOK
  <2> QED
    BY <1>0, <2>1, <2>2, <2>3, OrderKept
<1>4. CASE UNCHANGED vars
  BY <1>0, <1>4, OrderKept DEF vars, handlerVars
<1> QED
  BY <1>1, <1>2, <1>3, <1>4, OrderAdd, OrderDrain, OrderConsumer DEF Next, Handler, Consumer

\* It holds at the start.
LEMMA OrderInit == Init => OrderInv
<1> SUFFICES ASSUME Init PROVE OrderInv
  OBVIOUS
<1>1. Out = << >>
  BY DEF Init, Out
<1> QED
  BY <1>1 DEF Init, OrderInv, InOrder, Precedes

\* Two messages one connection sent to one room reach deliver in the order of
\* their ids, whatever the other connections and the consumer do.
THEOREM SenderOrderTheorem == Spec => []SenderOrder
<1>1. OrderInv => SenderOrder
  BY DEF OrderInv, SenderOrder, Out, InOrder, Earlier
<1> QED
  BY <1>1, OrderInit, OrderStep, QueuesInvariant, PTL DEF Spec

-----------------------------------------------------------------------------
(***************************************************************************)
(* What is discarded stays discarded.                                      *)
(***************************************************************************)

\* The elements of a concatenation.
LEMMA ElementsConcat ==
    ASSUME NEW s \in Seq(Message), NEW t \in Seq(Message)
    PROVE  Elements(s \o t) = Elements(s) \cup Elements(t)
<1>0. Len(s) \in Nat /\ Len(t) \in Nat
  OBVIOUS
<1>1. /\ Len(s \o t) = Len(s) + Len(t)
      /\ \A i \in 1..(Len(s) + Len(t)) :
            (s \o t)[i] = IF i <= Len(s) THEN s[i] ELSE t[i - Len(s)]
  BY ConcatProperties
<1>2. ASSUME NEW x \in Elements(s \o t) PROVE x \in Elements(s) \cup Elements(t)
  <2>1. PICK i \in 1..(Len(s) + Len(t)) : x = (s \o t)[i]
    BY <1>1 DEF Elements
  <2>2. i \in 1..Len(s) \/ i - Len(s) \in 1..Len(t)
    BY <1>0
  <2> QED
    BY <1>0, <1>1, <2>1, <2>2 DEF Elements
<1>3. ASSUME NEW i \in 1..Len(s) PROVE s[i] \in Elements(s \o t)
  <2>1. i \in 1..(Len(s) + Len(t)) /\ i <= Len(s)
    BY <1>0
  <2> QED
    BY <1>1, <2>1 DEF Elements
<1>4. ASSUME NEW i \in 1..Len(t) PROVE t[i] \in Elements(s \o t)
  <2>1. i + Len(s) \in 1..(Len(s) + Len(t)) /\ ~(i + Len(s) <= Len(s))
        /\ (i + Len(s)) - Len(s) = i
    BY <1>0
  <2> QED
    BY <1>1, <2>1 DEF Elements
<1> QED
  BY <1>2, <1>3, <1>4 DEF Elements

\* The elements of a sequence with one more at its end.
LEMMA ElementsAppend ==
    ASSUME NEW s \in Seq(Message), NEW m \in Message
    PROVE  Elements(Append(s, m)) = Elements(s) \cup {m}
<1>1. /\ Len(Append(s, m)) = Len(s) + 1 /\ Append(s, m)[Len(s) + 1] = m
      /\ \A i \in 1..Len(s) : Append(s, m)[i] = s[i]
  OBVIOUS
<1>2. Len(s) \in Nat
  OBVIOUS
<1>3. 1..(Len(s) + 1) = (1..Len(s)) \cup {Len(s) + 1}
  BY <1>2
<1> QED
  BY <1>1, <1>3 DEF Elements

\* The elements of a part of a sequence.
LEMMA ElementsParts ==
    ASSUME NEW s \in Seq(Message), NEW n \in Nat, n <= Len(s)
    PROVE  /\ Elements(s) \subseteq Message
           /\ Elements(SubSeq(s, 1, n)) \subseteq Elements(s)
           /\ Elements(SubSeq(s, n + 1, Len(s))) \subseteq Elements(s)
<1>0. Len(s) \in Nat /\ \A i \in 1..Len(s) : s[i] \in Message
  OBVIOUS
<1>1. Elements(s) \subseteq Message
  BY <1>0 DEF Elements
<1>2. Elements(SubSeq(s, 1, n)) \subseteq Elements(s)
  <2>1. Len(SubSeq(s, 1, n)) = n /\ \A i \in 1..n : SubSeq(s, 1, n)[i] = s[i] /\ i \in 1..Len(s)
    BY <1>0
  <2> QED
    BY <2>1 DEF Elements
<1>3. Elements(SubSeq(s, n + 1, Len(s))) \subseteq Elements(s)
  <2>1. \A i \in 1..(Len(s) - n) : n + i \in 1..Len(s)
    BY <1>0
  <2> QED
    BY <2>1, Split DEF Elements
<1> QED
  BY <1>1, <1>2, <1>3

\* A sequence that precedes another has no message in common with it.
LEMMA PrecedesDisjoint ==
    ASSUME NEW p \in Seq(Message), NEW q \in Seq(Message), Precedes(p, q)
    PROVE  Elements(p) \cap Elements(q) = {}
<1> SUFFICES ASSUME NEW i \in 1..Len(p), NEW j \in 1..Len(q), p[i] = q[j] PROVE FALSE
  BY DEF Elements
<1>1. p[i] \in Message
  OBVIOUS
<1>2. p[i].id < p[i].id
  BY DEF Precedes, Earlier
<1> QED
  BY <1>1, <1>2 DEF Message

\* The messages that were ever added to a queue.
Added == UNION {Elements(added[r]) : r \in Rooms}

\* m was discarded for good.
Gone(m) ==
    /\ m \in Added
    /\ Past(m)
    /\ m \notin Elements(Out)
    /\ \A k \in Queues : m \notin Elements(queue[k])

\* The inductive invariant: only what was added is queued, batched or
\* discarded, and what was discarded is nowhere else.
HandledInv ==
    /\ \A s \in Senders : pc[s] = "idle" <=> msg[s] = None
    /\ \A m \in Added : m.id <= counter
    /\ Elements(Out) \subseteq Added
    /\ \A k \in Queues : Elements(queue[k]) \subseteq Added
    /\ \A r \in Rooms : \A m \in Elements(discarded[r]) : Gone(m)

\* The types that the steps below need.
LEMMA AddedFacts ==
    ASSUME QueuesInv
    PROVE  /\ Added \subseteq Message
           /\ \A r \in Rooms : added[r] \in Seq(Message) /\ discarded[r] \in Seq(Message)
<1>1. \A r \in Rooms : added[r] \in Seq(Message) /\ discarded[r] \in Seq(Message)
  BY DEF QueuesInv, TypeOK
<1>2. \A r \in Rooms : \A i \in 1..Len(added[r]) : added[r][i] \in Message
  BY <1>1
<1> QED
  BY <1>1, <1>2 DEF Added, Elements

\* A step that adds, moves and discards nothing.
LEMMA HandledKept ==
    ASSUME QueuesInv, HandledInv, UNCHANGED <<queue, added, discarded>>, Out' = Out,
           counter' \in Nat, counter <= counter',
           \A s \in Senders : pc'[s] = "idle" <=> msg'[s] = None,
           \A s \in Senders : pc'[s] # "idle" =>
               \/ pc[s] # "idle" /\ msg'[s] = msg[s]
               \/ msg'[s].id = counter' /\ counter < counter'
    PROVE  HandledInv'
<1>0. counter \in Nat /\ \A m \in Message : m.id \in Nat /\ m.from \in Senders
  BY DEF QueuesInv, TypeOK, Message
<1>1. Added' = Added /\ Added \subseteq Message
  BY AddedFacts DEF Added, Elements
<1>2. ASSUME NEW m \in Added PROVE m.id <= counter'
  <2>1. m.id <= counter /\ m.id \in Nat
    BY <1>0, <1>1 DEF HandledInv
  <2> QED
    BY <1>0, <2>1
<1>3. ASSUME NEW m \in Added, Past(m) PROVE PastNext(m)
  <2>1. m.id <= counter /\ m.id \in Nat /\ m.from \in Senders
    BY <1>0, <1>1 DEF HandledInv
  <2>2. ASSUME pc'[m.from] # "idle" PROVE m.id < msg'[m.from].id
    <3>1. CASE pc[m.from] # "idle" /\ msg'[m.from] = msg[m.from]
      BY <1>3, <3>1 DEF Past
    <3>2. CASE msg'[m.from].id = counter' /\ counter < counter'
      BY <1>0, <2>1, <3>2
    <3> QED
      BY <2>1, <2>2, <3>1, <3>2
  <2> QED
    BY <1>2, <2>2 DEF PastNext
<1>4. Elements(Out)' = Elements(Out)
  BY DEF Elements
<1>5. ASSUME NEW r \in Rooms, NEW m \in Elements(discarded'[r]) PROVE Gone(m)'
  <2>1. Gone(m)
    BY <1>5 DEF HandledInv
  <2>2. Past(m)'
    BY <1>3, <2>1 DEF Gone, Past, PastNext
  <2> QED
    BY <1>1, <1>4, <2>1, <2>2 DEF Gone, Elements
<1>6. Elements(Out)' \subseteq Added' /\ (\A k \in Queues : Elements(queue[k]) \subseteq Added)'
  BY <1>1, <1>4 DEF HandledInv, Elements
<1>7. (\A r \in Rooms : \A m \in Elements(discarded[r]) : Gone(m))'
  BY <1>5 DEF Elements
<1> QED
  BY <1>1, <1>2, <1>6, <1>7 DEF HandledInv

\* MessageQueue.Add: what it discards was queued until now, or is the message
\* itself, and is not what it keeps.
LEMMA HandledAdd ==
    ASSUME QueuesInv, OrderInv, HandledInv, NEW s \in Senders, AddMessage(s)
    PROVE  HandledInv'
<1> DEFINE k == mq[s]
           m == msg[s]
           r == msg[s].room
           longer == Append(queue[k], m)
           n == Excess(Len(longer))
           rest == SubSeq(longer, n + 1, Len(longer))
           first == SubSeq(longer, 1, n)
<1>1. /\ pc[s] = "add" /\ m \in Message /\ k \in Queues /\ k = group[r]
      /\ m.from = s /\ m.id \in Nat /\ m.id <= counter /\ r \in Rooms
  <2>1. pc[s] = "add"
    BY DEF AddMessage
  <2>2. m \in Message /\ k # None /\ k = group[r]
    BY <2>1 DEF QueuesInv, NoOrphanQueue
  <2>3. m.from = s /\ m.id <= counter
    BY <2>1 DEF OrderInv
  <2>4. m.id \in Nat /\ r \in Rooms
    BY <2>2 DEF Message
  <2> QED
    BY <2>1, <2>2, <2>3, <2>4 DEF QueuesInv, TypeOK
<1>2. /\ queue' = [queue EXCEPT ![k] = rest]
      /\ added' = [added EXCEPT ![r] = Append(@, m)]
      /\ discarded' = [discarded EXCEPT ![r] = @ \o first]
      /\ msg' = [msg EXCEPT ![s] = None]
      /\ pc' = [pc EXCEPT ![s] = "idle"]
      /\ UNCHANGED <<counter, group, packed, batch>>
  BY DEF AddMessage, groupVars, consumerVars
<1> HIDE DEF k, m, r
<1>3. queue[k] \in Seq(Message) /\ longer \in Seq(Message) /\ Len(longer) \in Nat
  BY <1>1 DEF QueuesInv, TypeOK
<1>4. n \in Nat /\ n <= Len(longer)
  BY <1>3, ExcessFacts
<1>5. /\ Elements(longer) = Elements(queue[k]) \cup {m}
      /\ Elements(first) \subseteq Elements(longer)
      /\ Elements(rest) \subseteq Elements(longer)
      /\ first \in Seq(Message) /\ rest \in Seq(Message)
  <2>1. Elements(longer) = Elements(queue[k]) \cup {m}
    BY <1>1, <1>3, ElementsAppend
  <2> HIDE DEF longer
  <2> QED
    BY <1>3, <1>4, <2>1, Split, ElementsParts
<1>6. \A x \in Elements(queue[k]) : Past(x) /\ group[x.room] = k
  BY <1>1 DEF OrderInv, Elements
<1>7. \A x \in Message : Past(x) => x # m /\ Earlier(x, m)
  BY <1>1 DEF Past, Earlier, m
<1>8. Elements(first) \cap Elements(rest) = {}
  <2>1. InOrder(longer)
    <3>1. InOrder(queue[k]) /\ Precedes(queue[k], <<m>>)
      <4>1. \A i \in 1..Len(queue[k]) : Past(queue[k][i]) /\ queue[k][i] \in Message
        BY <1>1, <1>3 DEF OrderInv
      <4> QED
        BY <1>1, <1>7, <4>1 DEF OrderInv, Precedes
    <3>2. longer = queue[k] \o <<m>> /\ <<m>> \in Seq(Message) /\ InOrder(<<m>>)
      BY <1>1, <1>3 DEF InOrder
    <3> HIDE DEF longer
    <3> QED
      BY <1>3, <3>1, <3>2, OrderConcat
  <2>2. Precedes(first, rest)
    BY <1>3, <1>4, <2>1, OrderSplit
  <2> HIDE DEF first, rest
  <2> QED
    BY <1>5, <2>2, PrecedesDisjoint
<1> HIDE DEF longer, n, first, rest
<1>9. queue'[k] = rest /\ \A j \in Queues : j # k => queue'[j] = queue[j]
  BY <1>1, <1>2 DEF QueuesInv, TypeOK
<1>10. Added' = Added \cup {m} /\ Added \subseteq Message
  <2>1. /\ added'[r] = Append(added[r], m)
        /\ \A t \in Rooms : t # r => added'[t] = added[t]
    BY <1>1, <1>2 DEF QueuesInv, TypeOK
  <2>2. Elements(added'[r]) = Elements(added[r]) \cup {m}
    <3>1. added[r] \in Seq(Message)
      BY <1>1, AddedFacts
    <3> QED
      BY <1>1, <2>1, <3>1, ElementsAppend
  <2>3. Added' = UNION {Elements(added'[t]) : t \in Rooms}
    BY DEF Added, Elements
  <2>4. \A t \in Rooms : t # r => Elements(added'[t]) = Elements(added[t])
    BY <2>1
  <2> QED
    BY <1>1, <2>2, <2>3, <2>4, AddedFacts DEF Added
<1>11. Out' = Out /\ Elements(Out)' = Elements(Out)
  BY <1>2 DEF Out, Elements
<1>12. \A t \in Senders : pc'[t] = "idle" <=> msg'[t] = None
  BY <1>2 DEF HandledInv, QueuesInv, TypeOK
<1>13. \A x \in Message : Past(x) \/ x = m => PastNext(x)
  BY <1>1, <1>2 DEF Past, PastNext, QueuesInv, TypeOK, Message
<1>14. ASSUME NEW x \in Message, Gone(x) PROVE Gone(x)'
  <2>1. x # m /\ PastNext(x)
    BY <1>7, <1>13, <1>14 DEF Gone
  <2>2. ASSUME NEW j \in Queues PROVE x \notin Elements(queue'[j])
    BY <1>5, <1>9, <1>14, <2>1 DEF Gone
  <2>3. Past(x)'
    BY <2>1 DEF Past, PastNext
  <2> QED
    BY <1>10, <1>11, <1>14, <2>2, <2>3 DEF Gone, Elements
<1>15. ASSUME NEW x \in Elements(first) PROVE Gone(x)'
  <2>1. x \in Message /\ (x \in Elements(queue[k]) \/ x = m)
    <3>1. x \in Elements(longer)
      BY <1>5
    <3>2. Elements(longer) \subseteq Message
      BY <1>3 DEF Elements
    <3> QED
      BY <1>5, <3>1, <3>2
  <2>2. x \in Added' /\ PastNext(x) /\ group[x.room] = k
    BY <1>1, <1>6, <1>10, <1>13, <2>1 DEF HandledInv, r, m
  <2>3. x \notin Elements(Out)
    <3>1. \A y \in Elements(Out) : Past(y) /\ y \in Message
      BY OutFacts DEF OrderInv, Elements
    <3>2. Elements(Out) \cap Elements(queue[k]) = {}
      BY <1>1, <1>3, OutFacts, PrecedesDisjoint DEF OrderInv
    <3> QED
      BY <1>7, <2>1, <3>1, <3>2
  <2>4. ASSUME NEW j \in Queues PROVE x \notin Elements(queue'[j])
    <3>1. CASE j = k
      BY <1>8, <1>9, <3>1
    <3>2. CASE j # k
      <4>1. \A y \in Elements(queue[j]) : group[y.room] = j
        BY DEF OrderInv, Elements
      <4> QED
        BY <1>9, <2>2, <3>2, <4>1
    <3> QED
      BY <3>1, <3>2
  <2>5. Past(x)'
    BY <2>2 DEF Past, PastNext
  <2> QED
    BY <1>11, <2>2, <2>3, <2>4, <2>5 DEF Gone, Elements
<1>16. ASSUME NEW t \in Rooms, NEW x \in Elements(discarded'[t]) PROVE Gone(x)'
  <2>0. discarded[t] \in Seq(Message) /\ Elements(discarded[t]) \subseteq Message
    BY AddedFacts DEF Elements
  <2>1. CASE x \in Elements(discarded[t])
    BY <1>14, <2>0, <2>1 DEF HandledInv
  <2>2. CASE t = r /\ x \in Elements(first)
    BY <1>15, <2>2
  <2>3. t # r => discarded'[t] = discarded[t]
    BY <1>2 DEF QueuesInv, TypeOK
  <2>4. t = r => Elements(discarded'[t]) = Elements(discarded[t]) \cup Elements(first)
    <3>1. t = r => discarded'[t] = discarded[t] \o first
      BY <1>1, <1>2 DEF QueuesInv, TypeOK
    <3> QED
      BY <1>5, <2>0, <3>1, ElementsConcat
  <2> QED
    BY <1>16, <2>1, <2>2, <2>3, <2>4
<1>17. ASSUME NEW x \in Added' PROVE x.id <= counter'
  BY <1>1, <1>2, <1>10 DEF HandledInv
<1>18. ASSUME NEW j \in Queues PROVE Elements(queue'[j]) \subseteq Added'
  BY <1>1, <1>5, <1>9, <1>10 DEF HandledInv
<1>19. Elements(Out)' \subseteq Added'
  BY <1>10, <1>11 DEF HandledInv
<1>20. (\A t \in Rooms : \A x \in Elements(discarded[t]) : Gone(x))'
  BY <1>16 DEF Elements
<1>21. (\A j \in Queues : Elements(queue[j]) \subseteq Added)'
  BY <1>18 DEF Elements
<1> QED
  BY <1>12, <1>17, <1>19, <1>20, <1>21 DEF HandledInv

\* MessageQueue.DrainTo moves messages from a queue to the batch.
LEMMA HandledDrain ==
    ASSUME QueuesInv, OrderInv, HandledInv, NEW r \in Rooms, DrainQueue(r)
    PROVE  HandledInv'
<1> DEFINE k == group[r]
           n == DrainCount(Len(queue[k]), Len(batch))
           first == SubSeq(queue[k], 1, n)
           rest == SubSeq(queue[k], n + 1, Len(queue[k]))
<1>1. k \in Queues /\ batch \in Seq(Message) /\ packed \in Seq(Message) /\ Len(batch) \in Nat
  BY DEF DrainQueue, QueuesInv, TypeOK
<1>2. queue[k] \in Seq(Message) /\ Len(queue[k]) \in Nat
  BY <1>1 DEF QueuesInv, TypeOK
<1>3. /\ queue' = [queue EXCEPT ![k] = rest] /\ batch' = batch \o first
      /\ UNCHANGED <<counter, pc, msg, packed, added, discarded>>
  BY DEF DrainQueue, handlerVars, groupVars, logVars
<1> HIDE DEF k
<1>4. n \in Nat /\ n <= Len(queue[k])
  BY <1>1, <1>2, DrainCountFacts DEF QueuesInv, Bounds
<1>5. /\ first \in Seq(Message) /\ Elements(first) \subseteq Elements(queue[k])
      /\ Elements(rest) \subseteq Elements(queue[k])
  BY <1>2, <1>4, Split, ElementsParts
<1> HIDE DEF n, first, rest
<1>6. queue'[k] = rest /\ \A j \in Queues : j # k => queue'[j] = queue[j]
  BY <1>1, <1>3 DEF QueuesInv, TypeOK
<1>7. Elements(Out') = Elements(Out) \cup Elements(first)
  <2>1. Out' = packed \o (batch \o first) /\ Out = packed \o batch
    BY <1>3 DEF Out
  <2>2. batch \o first \in Seq(Message)
    BY <1>1, <1>5
  <2>3. /\ Elements(Out') = Elements(packed) \cup Elements(batch \o first)
        /\ Elements(batch \o first) = Elements(batch) \cup Elements(first)
        /\ Elements(Out) = Elements(packed) \cup Elements(batch)
    BY <1>1, <1>5, <2>1, <2>2, ElementsConcat
  <2> QED
    BY <2>3
<1>8. Added' = Added
  BY <1>3 DEF Added, Elements
<1>9. \A j \in Queues : Elements(queue'[j]) \subseteq Elements(queue[j])
  BY <1>5, <1>6
<1>10. ASSUME NEW x, Gone(x) PROVE Gone(x)'
  <2>1. x \notin Elements(Out')
    BY <1>1, <1>5, <1>7, <1>10 DEF Gone
  <2>2. \A j \in Queues : x \notin Elements(queue'[j])
    BY <1>9, <1>10 DEF Gone
  <2>3. Past(x)'
    BY <1>3, <1>10 DEF Gone, Past
  <2> QED
    BY <1>8, <1>10, <2>1, <2>2, <2>3 DEF Gone, Elements
<1>11. (\A t \in Rooms : \A x \in Elements(discarded[t]) : Gone(x))'
  BY <1>3, <1>10 DEF HandledInv, Elements
<1>12. Elements(Out') \subseteq Added'
  BY <1>1, <1>5, <1>7, <1>8 DEF HandledInv
<1>13. \A j \in Queues : Elements(queue'[j]) \subseteq Added'
  BY <1>8, <1>9 DEF HandledInv
<1>14. Elements(Out)' \subseteq Added' /\ (\A j \in Queues : Elements(queue[j]) \subseteq Added)'
  BY <1>12, <1>13 DEF Elements
<1>15. (\A x \in Added : x.id <= counter)' /\ (\A s \in Senders : pc[s] = "idle" <=> msg[s] = None)'
  BY <1>3, <1>8 DEF HandledInv
<1> QED
  BY <1>11, <1>14, <1>15 DEF HandledInv

\* Starting a batch or handing it over moves no message out of the consumer.
LEMMA OutKept ==
    ASSUME QueuesInv, OrderInv, ConsumeStart \/ Deliver PROVE Out' = Out
<1>1. batch \in Seq(Message) /\ packed \in Seq(Message)
  BY DEF QueuesInv, TypeOK
<1>2. CASE ConsumeStart
  BY <1>2 DEF ConsumeStart, OrderInv, Out
<1>3. CASE Deliver
  <2>1. packed' = packed \o batch /\ batch' = << >>
    BY <1>3 DEF Deliver
  <2>2. packed \o batch \in Seq(Message)
    BY <1>1
  <2> QED
    BY <2>1, <2>2 DEF Out
<1> QED
  BY <1>2, <1>3

\* Every step of the queues preserves it.
LEMMA HandledStep == QueuesInv /\ OrderInv /\ HandledInv /\ [Next]_vars => HandledInv'
<1> SUFFICES ASSUME QueuesInv, OrderInv, HandledInv, [Next]_vars PROVE HandledInv'
  OBVIOUS
<1> USE DEF handlerVars, groupVars, consumerVars, logVars
<1>0. /\ counter \in Nat /\ pc \in [Senders -> {"idle", "lookup", "create", "add"}]
      /\ msg \in [Senders -> Message \cup {None}]
      /\ \A s \in Senders : pc[s] = "idle" <=> msg[s] = None
  BY DEF QueuesInv, TypeOK, HandledInv
<1>1. ASSUME NEW s \in Senders, NEW r \in Rooms, HandleMsg(s, r) PROVE HandledInv'
  <2> DEFINE m == [id |-> counter + 1, from |-> s, room |-> r]
  <2>1. /\ counter' = counter + 1 /\ msg' = [msg EXCEPT ![s] = m]
        /\ pc' = [pc EXCEPT ![s] = "lookup"]
        /\ UNCHANGED <<queue, added, discarded, packed, batch>>
    BY <1>1 DEF HandleMsg
  <2>2. m \in Message /\ m # None /\ m.id = counter + 1
    BY <1>0, QueuesAssumption DEF Message
  <2> HIDE DEF m
  <2>3. Out' = Out
    BY <2>1 DEF Out
  <2>4. \A t \in Senders : pc'[t] = "idle" <=> msg'[t] = None
    BY <1>0, <2>1, <2>2
  <2>5. \A t \in Senders : pc'[t] # "idle" =>
            \/ pc[t] # "idle" /\ msg'[t] = msg[t]
            \/ msg'[t].id = counter' /\ counter < counter'
    BY <1>0, <2>1, <2>2
  <2>6. counter' \in Nat /\ counter <= counter'
    BY <1>0, <2>1
  <2> QED
    BY <2>1, <2>3, <2>4, <2>5, <2>6, HandledKept
<1>2. ASSUME NEW s \in Senders, Lookup(s) \/ Create(s) PROVE HandledInv'
  <2>1. /\ UNCHANGED <<counter, msg, queue, added, discarded, packed, batch>>
        /\ pc[s] # "idle" /\ \E p \in {"create", "add"} : pc' = [pc EXCEPT ![s] = p]
    BY <1>2 DEF Lookup, Create
  <2>2. Out' = Out
    BY <2>1 DEF Out
  <2>3. \A t \in Senders : pc'[t] = "idle" <=> pc[t] = "idle"
    BY <1>0, <2>1
  <2> QED
    BY <1>0, <2>1, <2>2, <2>3, HandledKept
<1>3. ASSUME NEW s \in Senders, AddMessage(s) PROVE HandledInv'
  BY <1>3, HandledAdd
<1>4. ASSUME NEW r \in Rooms, DrainQueue(r) PROVE HandledInv'
  BY <1>4, HandledDrain
<1>5. CASE ConsumeStart \/ Deliver
  <2>1. UNCHANGED <<counter, pc, msg, queue, added, discarded>> /\ Out' = Out
    BY <1>5, OutKept DEF ConsumeStart, Deliver
  <2> QED
    BY <1>0, <2>1, HandledKept
<1>6. CASE UNCHANGED vars
  <2>1. UNCHANGED <<counter, pc, msg, queue, added, discarded, packed, batch>>
    BY <1>6 DEF vars
  <2>2. Out' = Out
    BY <2>1 DEF Out
  <2> QED
    BY <1>0, <2>1, <2>2, HandledKept
<1> QED
  BY <1>1, <1>2, <1>3, <1>4, <1>5, <1>6 DEF Next, Handler, Consumer

\* Nothing has been said at the start.
LEMMA HandledInit == Init => HandledInv
<1> SUFFICES ASSUME Init PROVE HandledInv
  OBVIOUS
<1>1. Added = {} /\ Elements(Out) = {} /\ \A k \in Queues : Elements(queue[k]) = {}
  BY DEF Init, Added, Elements, Out
<1>2. \A r \in Rooms : Elements(discarded[r]) = {}
  BY DEF Init, Elements
<1> QED
  BY <1>1, <1>2 DEF Init, HandledInv

-----------------------------------------------------------------------------
(***************************************************************************)
(* The queues and the rpc client together implement ChatPath.              *)
(***************************************************************************)

\* What becomes of the batches.  They are handed to deliver one by one, each
\* in the order of sending and after the ones before; only a batch deliver is
\* done with has an outcome; what arrived was in batches that were sent.
ParcelsInv ==
    /\ arrived \in Seq(Message)
    /\ parcel \in Seq(Seq(Message))
    /\ outcome \in [1..MaxBatches -> {"none", "sent", "failed", "panic"}]
    /\ number \in 0..MaxBatches
    /\ Len(parcel) = number
    /\ rpc # "idle" => number > 0
    /\ \A b \in 1..number : /\ parcel[b] # <<>>
                            /\ InOrder(parcel[b])
                            /\ Elements(parcel[b]) \subseteq Elements(packed)
    /\ \A a, b \in 1..number : a < b => Precedes(parcel[a], parcel[b])
    /\ \A b \in 1..MaxBatches :
          outcome[b] # "none" => b <= number /\ (b = number => rpc = "idle")
    /\ InOrder(arrived)
    /\ \A m \in Elements(arrived) :
          \E b \in 1..number : outcome[b] = "sent" /\ m \in Elements(parcel[b])

\* The inductive invariant of ChatSystem.
ChatInv == QueuesInv /\ OrderInv /\ HandledInv /\ ParcelsInv

\* A step in which deliver and its batches rest.
LEMMA ParcelsKept ==
    ASSUME ParcelsInv, UNCHANGED <<parcel, arrived, number, outcome, rpc>>,
           Elements(packed) \subseteq Elements(packed')
    PROVE  ParcelsInv'
<1>1. (\A b \in 1..number : /\ parcel[b] # <<>>
                            /\ InOrder(parcel[b])
                            /\ Elements(parcel[b]) \subseteq Elements(packed))'
  <2>1. \A b \in 1..number : /\ parcel[b] # <<>> /\ InOrder(parcel[b])
                             /\ Elements(parcel[b]) \subseteq Elements(packed')
    BY DEF ParcelsInv
  <2>2. \A b \in 1..number : /\ InOrder(parcel[b])' = InOrder(parcel[b])
                             /\ Elements(parcel[b])' = Elements(parcel[b])
    BY DEF InOrder, Elements
  <2>3. Elements(packed)' = Elements(packed')
    BY DEF Elements
  <2> QED
    BY <2>1, <2>2, <2>3
<1>2. (\A a, b \in 1..number : a < b => Precedes(parcel[a], parcel[b]))' /\ InOrder(arrived)'
  BY DEF ParcelsInv, InOrder, Precedes
<1>3. (\A m \in Elements(arrived) :
          \E b \in 1..number : outcome[b] = "sent" /\ m \in Elements(parcel[b]))'
  <2>1. \A m \in Elements(arrived) :
            \E b \in 1..number : outcome[b] = "sent" /\ m \in Elements(parcel[b])
    BY DEF ParcelsInv
  <2>2. Elements(arrived)' = Elements(arrived)
        /\ \A b \in 1..number : Elements(parcel[b])' = Elements(parcel[b])
    BY DEF Elements
  <2> QED
    BY <2>1, <2>2
<1> QED
  BY <1>1, <1>2, <1>3 DEF ParcelsInv

\* What a step of deliver may do to its batch: go on with it, end it without
\* writing its bytes, or end it having written them.
LEMMA AttemptMoves ==
    ASSUME R!Attempt, outcome \in [1..MaxBatches -> {"none", "sent", "failed", "panic"}],
           number \in 1..MaxBatches
    PROVE  /\ rpc # "idle" /\ number' = number
           /\ \/ outcome' = outcome /\ rpc' # "idle" /\ ~(rpc = "bytes" /\ stream' # stream)
              \/ /\ \E w \in {"failed", "panic"} : outcome' = [outcome EXCEPT ![number] = w]
                 /\ rpc' = "idle" /\ stream' = stream
              \/ outcome' = [outcome EXCEPT ![number] = "sent"] /\ rpc' = "idle"
<1> USE DEF R!discoveryVars, R!netVars, R!sendVars
<1>1. CASE R!SliceCopies
  BY <1>1 DEF R!SliceCopies
<1>2. ASSUME R!Fails, stream' = stream, rpc # "idle"
      PROVE  /\ number' = number
             /\ \/ outcome' = outcome /\ rpc' # "idle" /\ ~(rpc = "bytes" /\ stream' # stream)
                \/ outcome' = [outcome EXCEPT ![number] = "failed"] /\ rpc' = "idle"
  BY <1>2 DEF R!Fails, R!Ends
<1>3. CASE R!SendPanics
  BY <1>3 DEF R!SendPanics, R!Ends
<1>4. CASE R!SendMisreads \/ (\E a \in Addrs : R!SendDialFails(a)) \/ R!SendWriteFails
  <2>1. R!Fails /\ stream' = stream /\ rpc # "idle"
    BY <1>4 DEF R!SendMisreads, R!SendDialFails, R!SendWriteFails
  <2> QED
    BY <1>2, <2>1
<1>5. ASSUME NEW a \in Addrs, R!SendReuses(a) \/ (\E c \in Conns : R!SendDials(a, c))
      PROVE  rpc # "idle" /\ number' = number /\ outcome' = outcome /\ rpc' = "length"
             /\ stream' = stream
  BY <1>5 DEF R!SendReuses, R!SendDials
<1>6. CASE R!SendWrites
  BY <1>6 DEF R!SendWrites, R!Ends
<1> QED
  BY <1>1, <1>3, <1>4, <1>5, <1>6 DEF R!Attempt

\* The sender side and the discovery leave deliver alone.
LEMMA DiscoveryMoves == R!Discovery => UNCHANGED <<rpc, number, outcome>>
  BY DEF R!Discovery, R!DiscoveryLocks, R!DiscoveryAssigns, R!DiscoveryVisits,
         R!DiscoveryUnlocks, R!sendVars

\* A step of the system is a step of the queues or leaves them alone.
LEMMA ChatQueues == [ChatNext]_chatVars => [Next]_vars
  BY DEF ChatNext, chatVars, Handlers, Drains, HandsOver, Sends, Discovers, Next, Consumer

\* consumeEvent hands a batch to deliver: it comes after all before it.
LEMMA ParcelsHandsOver ==
    ASSUME QueuesInv, OrderInv, ParcelsInv, HandsOver, batch # <<>>
    PROVE  ParcelsInv'
<1>1. /\ rpc = "idle" /\ rpc' # "idle" /\ number < MaxBatches /\ number' = number + 1
      /\ parcel' = Append(parcel, batch) /\ packed' = packed \o batch
      /\ UNCHANGED <<arrived, outcome>>
  BY DEF HandsOver, Deliver, R!DeliverCopies
<1>2. /\ batch \in Seq(Message) /\ packed \in Seq(Message)
      /\ Len(packed) \in Nat /\ Len(batch) \in Nat
  BY DEF QueuesInv, TypeOK
<1>3. /\ arrived \in Seq(Message) /\ parcel \in Seq(Seq(Message)) /\ number \in Nat
      /\ number <= MaxBatches /\ Len(parcel) = number
  BY ChatAssumption DEF ParcelsInv
<1>4. /\ parcel' \in Seq(Seq(Message)) /\ Len(parcel') = number + 1
      /\ parcel'[number + 1] = batch
      /\ \A b \in 1..number : parcel'[b] = parcel[b] /\ parcel[b] \in Seq(Message)
  BY <1>1, <1>2, <1>3
<1>5. 1..(number + 1) = (1..number) \cup {number + 1}
  BY <1>3
<1>6. /\ Elements(packed') = Elements(packed) \cup Elements(batch)
  BY <1>1, <1>2, ElementsConcat
<1>7. InOrder(batch) /\ Precedes(packed, batch)
  <2>1. /\ Len(Out) = Len(packed) + Len(batch)
        /\ \A i \in 1..(Len(packed) + Len(batch)) :
              Out[i] = IF i <= Len(packed) THEN packed[i] ELSE batch[i - Len(packed)]
    BY <1>2, ConcatProperties DEF Out
  <2>2. \A i \in 1..Len(batch) : /\ i + Len(packed) \in 1..Len(Out)
                                 /\ Out[i + Len(packed)] = batch[i]
    <3> SUFFICES ASSUME NEW i \in 1..Len(batch)
                 PROVE  i + Len(packed) \in 1..Len(Out) /\ Out[i + Len(packed)] = batch[i]
      OBVIOUS
    <3>1. /\ i + Len(packed) \in 1..(Len(packed) + Len(batch))
          /\ ~(i + Len(packed) <= Len(packed)) /\ (i + Len(packed)) - Len(packed) = i
      BY <1>2
    <3> QED
      BY <2>1, <3>1
  <2>3. \A i \in 1..Len(packed) : i \in 1..Len(Out) /\ Out[i] = packed[i]
    <3> SUFFICES ASSUME NEW i \in 1..Len(packed) PROVE i \in 1..Len(Out) /\ Out[i] = packed[i]
      OBVIOUS
    <3>1. i \in 1..(Len(packed) + Len(batch)) /\ i <= Len(packed)
      BY <1>2
    <3> QED
      BY <2>1, <3>1
  <2>4. \A i, j \in 1..Len(Out) : i < j => Earlier(Out[i], Out[j])
    BY DEF OrderInv, InOrder
  <2>5. ASSUME NEW i \in 1..Len(batch), NEW j \in 1..Len(batch), i < j
        PROVE  Earlier(batch[i], batch[j])
    <3>1. i + Len(packed) < j + Len(packed)
      BY <1>2, <2>5
    <3> QED
      BY <2>2, <2>4, <3>1
  <2>6. ASSUME NEW i \in 1..Len(packed), NEW j \in 1..Len(batch)
        PROVE  Earlier(packed[i], batch[j])
    <3>1. i < j + Len(packed)
      BY <1>2
    <3> QED
      BY <2>2, <2>3, <2>4, <3>1
  <2> QED
    BY <2>5, <2>6 DEF InOrder, Precedes
<1>8. ASSUME NEW b \in 1..number PROVE Precedes(parcel[b], batch)
  <2>1. Elements(parcel[b]) \subseteq Elements(packed)
    BY DEF ParcelsInv
  <2>2. \A i \in 1..Len(parcel[b]) : \E j \in 1..Len(packed) : parcel[b][i] = packed[j]
    BY <2>1 DEF Elements
  <2> QED
    BY <1>7, <2>2 DEF Precedes
<1>9. ASSUME NEW b \in 1..(number + 1)
      PROVE  /\ parcel'[b] # <<>> /\ InOrder(parcel'[b])
             /\ Elements(parcel'[b]) \subseteq Elements(packed')
  <2>1. CASE b = number + 1
    BY <1>4, <1>6, <1>7, <2>1
  <2>2. CASE b \in 1..number
    BY <1>4, <1>6, <2>2 DEF ParcelsInv
  <2> QED
    BY <1>5, <2>1, <2>2
<1>10. ASSUME NEW a \in 1..(number + 1), NEW b \in 1..(number + 1), a < b
       PROVE  Precedes(parcel'[a], parcel'[b])
  <2>1. a \in 1..number
    BY <1>3, <1>10
  <2>2. CASE b = number + 1
    BY <1>4, <1>8, <2>1, <2>2
  <2>3. CASE b \in 1..number
    BY <1>4, <1>10, <2>1, <2>3 DEF ParcelsInv
  <2> QED
    BY <1>5, <2>2, <2>3
<1>11. ASSUME NEW m \in Elements(arrived)
       PROVE  \E b \in 1..(number + 1) : outcome[b] = "sent" /\ m \in Elements(parcel'[b])
  <2>1. PICK b \in 1..number : outcome[b] = "sent" /\ m \in Elements(parcel[b])
    BY DEF ParcelsInv
  <2> QED
    BY <1>4, <1>5, <2>1
<1>12. (\A b \in 1..number : /\ parcel[b] # <<>>
                             /\ InOrder(parcel[b])
                             /\ Elements(parcel[b]) \subseteq Elements(packed))'
  BY <1>1, <1>9 DEF InOrder, Elements
<1>13. (\A a, b \in 1..number : a < b => Precedes(parcel[a], parcel[b]))' /\ InOrder(arrived)'
  BY <1>1, <1>10 DEF ParcelsInv, Precedes, InOrder
<1>14. (\A m \in Elements(arrived) :
          \E b \in 1..number : outcome[b] = "sent" /\ m \in Elements(parcel[b]))'
  <2>1. Elements(arrived)' = Elements(arrived)
        /\ \A b \in 1..(number + 1) : Elements(parcel[b])' = Elements(parcel'[b])
    BY <1>1 DEF Elements
  <2> QED
    BY <1>1, <1>11, <2>1
<1>15. \A b \in 1..MaxBatches : outcome[b] # "none" => b <= number
  BY DEF ParcelsInv
<1>16. (\A b \in 1..MaxBatches :
          outcome[b] # "none" => b <= number /\ (b = number => rpc = "idle"))'
  BY <1>1, <1>3, <1>15, ChatAssumption
<1>17. number' \in 0..MaxBatches /\ number' > 0
  BY <1>1, <1>3, ChatAssumption
<1> QED
  BY <1>1, <1>3, <1>4, <1>12, <1>13, <1>14, <1>16, <1>17 DEF ParcelsInv

\* deliver at work: the messages of a batch arrive with its bytes, after all
\* that arrived before.
LEMMA ParcelsSends ==
    ASSUME ParcelsInv, Sends
    PROVE  /\ ParcelsInv'
           /\ \/ /\ arrived' = arrived /\ GivenUp \subseteq GivenUp'
              \/ /\ arrived' = arrived \o parcel[number] /\ GivenUp' = GivenUp
                 /\ number \in 1..Len(parcel)
<1>0. /\ arrived \in Seq(Message) /\ parcel \in Seq(Seq(Message))
      /\ outcome \in [1..MaxBatches -> {"none", "sent", "failed", "panic"}]
      /\ Len(parcel) = number /\ number \in 0..MaxBatches
  BY DEF ParcelsInv
<1>1. R!Attempt /\ UNCHANGED <<packed, parcel>>
      /\ arrived' = IF rpc = "bytes" /\ stream' # stream THEN arrived \o parcel[number]
                                                         ELSE arrived
  BY DEF Sends, vars, consumerVars
<1>2. rpc # "idle"
  BY <1>1 DEF R!Attempt, R!SliceCopies, R!SendPanics, R!SendMisreads, R!SendReuses,
              R!SendDials, R!SendDialFails, R!SendWrites, R!SendWriteFails
<1>3. number \in 1..MaxBatches /\ number \in 1..Len(parcel)
  BY <1>0, <1>2, ChatAssumption DEF ParcelsInv
<1>4. number' = number
  BY <1>0, <1>1, <1>3, AttemptMoves
<1>5. outcome[number] = "none"
  BY <1>2, <1>3 DEF ParcelsInv
<1>6. /\ \A b \in 1..number : /\ parcel[b] # <<>> /\ InOrder(parcel[b])
                              /\ Elements(parcel[b]) \subseteq Elements(packed)
      /\ \A a, b \in 1..number : a < b => Precedes(parcel[a], parcel[b])
      /\ InOrder(arrived)
      /\ \A m \in Elements(arrived) :
            \E b \in 1..number : outcome[b] = "sent" /\ m \in Elements(parcel[b])
      /\ \A b \in 1..MaxBatches : outcome[b] # "none" => b <= number
  BY DEF ParcelsInv
<1>7. /\ \A b \in 1..number : Elements(parcel[b])' = Elements(parcel[b])
      /\ Elements(packed)' = Elements(packed)
  BY <1>1 DEF Elements
<1>8. (\A b \in 1..number : /\ parcel[b] # <<>>
                            /\ InOrder(parcel[b])
                            /\ Elements(parcel[b]) \subseteq Elements(packed))'
  BY <1>1, <1>4, <1>6, <1>7 DEF InOrder
<1>9. (\A a, b \in 1..number : a < b => Precedes(parcel[a], parcel[b]))'
  BY <1>1, <1>4, <1>6 DEF Precedes
<1>10. ASSUME NEW w \in {"sent", "failed", "panic"}, rpc' = "idle",
              outcome' = [outcome EXCEPT ![number] = w]
       PROVE  /\ outcome' \in [1..MaxBatches -> {"none", "sent", "failed", "panic"}]
              /\ (\A b \in 1..MaxBatches :
                     outcome[b] # "none" => b <= number /\ (b = number => rpc = "idle"))'
              /\ \A b \in 1..number : outcome[b] = "sent" => outcome'[b] = "sent"
              /\ outcome'[number] = w
              /\ \A b \in 1..number : b # number => outcome'[b] = outcome[b]
  <2>1. outcome'[number] = w /\ \A b \in 1..MaxBatches : b # number => outcome'[b] = outcome[b]
    BY <1>0, <1>3, <1>10
  <2>2. \A b \in 1..number : b \in 1..MaxBatches
    BY <1>3, ChatAssumption
  <2> QED
    BY <1>0, <1>3, <1>4, <1>5, <1>6, <1>10, <2>1, <2>2
<1>11. CASE arrived' = arrived
  <2>1. CASE outcome' = outcome /\ rpc' # "idle"
    <3>1. (\A m \in Elements(arrived) :
              \E b \in 1..number : outcome[b] = "sent" /\ m \in Elements(parcel[b]))'
      <4>1. Elements(arrived)' = Elements(arrived)
        BY <1>11 DEF Elements
      <4> QED
        BY <1>4, <1>6, <1>7, <2>1, <4>1
    <3>2. \A b \in 1..MaxBatches : outcome[b] # "none" => b <= number /\ b # number
      BY <1>2 DEF ParcelsInv
    <3>3. InOrder(arrived)'
      BY <1>6, <1>11 DEF InOrder
    <3>4. GivenUp' = GivenUp
      BY <1>1, <2>1 DEF GivenUp
    <3> QED
      BY <1>0, <1>1, <1>3, <1>4, <1>8, <1>9, <1>11, <2>1, <3>1, <3>2, <3>3, <3>4 DEF ParcelsInv
  <2>2. ASSUME NEW w \in {"sent", "failed", "panic"}, rpc' = "idle",
               outcome' = [outcome EXCEPT ![number] = w]
        PROVE  ParcelsInv' /\ GivenUp \subseteq GivenUp'
    <3>1. (\A m \in Elements(arrived) :
              \E b \in 1..number : outcome[b] = "sent" /\ m \in Elements(parcel[b]))'
      <4>1. Elements(arrived)' = Elements(arrived)
        BY <1>11 DEF Elements
      <4> QED
        BY <1>4, <1>6, <1>7, <1>10, <2>2, <4>1
    <3>2. InOrder(arrived)'
      BY <1>6, <1>11 DEF InOrder
    <3>3. GivenUp \subseteq GivenUp'
      BY <1>0, <1>1, <1>5, <1>10, <2>2 DEF GivenUp
    <3> QED
      BY <1>0, <1>1, <1>4, <1>8, <1>9, <1>10, <1>11, <2>2, <3>1, <3>2, <3>3 DEF ParcelsInv
  <2> QED
    BY <1>0, <1>1, <1>3, <1>11, <2>1, <2>2, AttemptMoves
<1>12. CASE rpc = "bytes" /\ stream' # stream
  <2>1. outcome' = [outcome EXCEPT ![number] = "sent"] /\ rpc' = "idle"
    BY <1>0, <1>1, <1>3, <1>12, AttemptMoves
  <2>2. arrived' = arrived \o parcel[number] /\ parcel[number] \in Seq(Message)
    BY <1>0, <1>1, <1>3, <1>12
  <2>3. Elements(arrived') = Elements(arrived) \cup Elements(parcel[number])
    BY <1>0, <2>2, ElementsConcat
  <2>4. (\A m \in Elements(arrived) :
            \E b \in 1..number : outcome[b] = "sent" /\ m \in Elements(parcel[b]))'
    <3>1. Elements(arrived)' = Elements(arrived')
      BY DEF Elements
    <3>2. ASSUME NEW m \in Elements(arrived')
          PROVE  \E b \in 1..number : outcome'[b] = "sent" /\ m \in Elements(parcel[b])
      BY <1>0, <1>3, <1>6, <1>10, <2>1, <2>3
    <3> QED
      BY <1>4, <1>7, <3>1, <3>2
  <2>5. InOrder(arrived')
    <3>1. Precedes(arrived, parcel[number])
      <4> SUFFICES ASSUME NEW i \in 1..Len(arrived), NEW j \in 1..Len(parcel[number])
                   PROVE  Earlier(arrived[i], parcel[number][j])
        BY DEF Precedes
      <4>1. arrived[i] \in Elements(arrived)
        BY DEF Elements
      <4>2. PICK b \in 1..number : outcome[b] = "sent" /\ arrived[i] \in Elements(parcel[b])
        BY <1>6, <4>1
      <4>3. b # number
        BY <1>5, <4>2
      <4>4. b < number /\ number \in 1..number
        BY <1>3, <4>3
      <4>5. Precedes(parcel[b], parcel[number])
        BY <1>6, <4>4
      <4>6. PICK n \in 1..Len(parcel[b]) : arrived[i] = parcel[b][n]
        BY <4>2 DEF Elements
      <4> QED
        BY <4>5, <4>6 DEF Precedes
    <3>2. InOrder(parcel[number])
      BY <1>0, <1>3, <1>6
    <3> QED
      BY <1>0, <1>6, <2>2, <3>1, <3>2, OrderConcat
  <2>6. InOrder(arrived)'
    BY <2>5 DEF InOrder
  <2>7. GivenUp' = GivenUp
    BY <1>0, <1>1, <1>5, <1>10, <2>1 DEF GivenUp
  <2>8. arrived' \in Seq(Message)
    BY <1>0, <2>2
  <2> QED
    BY <1>0, <1>1, <1>3, <1>4, <1>8, <1>9, <1>10, <2>1, <2>2, <2>4, <2>6, <2>7, <2>8 DEF ParcelsInv
<1> QED
  BY <1>1, <1>11, <1>12

\* Every step of the system preserves the invariant.
LEMMA ChatInvStep == ChatInv /\ [ChatNext]_chatVars => ChatInv'
<1> SUFFICES ASSUME ChatInv, [ChatNext]_chatVars PROVE ParcelsInv'
  BY ChatQueues, QueuesInvStep, OrderStep, HandledStep DEF ChatInv
<1>0. QueuesInv /\ OrderInv /\ ParcelsInv
  BY DEF ChatInv
<1>1. CASE Handlers \/ Drains \/ UNCHANGED chatVars
  <2>1. UNCHANGED <<parcel, arrived, number, outcome, rpc, packed>>
    BY <1>1 DEF Handlers, Drains, Running, rpcVars, chatVars, vars, Handler, HandleMsg, Lookup,
                Create, AddMessage, ConsumeStart, DrainQueue, consumerVars
  <2> QED
    BY <1>0, <2>1, ParcelsKept
<1>2. CASE HandsOver /\ batch = <<>>
  <2>1. /\ UNCHANGED <<parcel, arrived, number, outcome, rpc>> /\ packed' = packed \o batch
        /\ batch \in Seq(Message) /\ packed \in Seq(Message)
    BY <1>0, <1>2 DEF HandsOver, Deliver, rpcVars, QueuesInv, TypeOK
  <2>2. Elements(packed) \subseteq Elements(packed')
    BY <2>1, ElementsConcat
  <2> QED
    BY <1>0, <2>1, <2>2, ParcelsKept
<1>3. CASE HandsOver /\ batch # <<>>
  BY <1>0, <1>3, ParcelsHandsOver
<1>4. CASE Sends
  BY <1>0, <1>4, ParcelsSends
<1>5. CASE Discovers
  <2>1. UNCHANGED <<parcel, arrived, number, outcome, rpc, packed>>
    BY <1>5, DiscoveryMoves DEF Discovers, vars, consumerVars
  <2> QED
    BY <1>0, <2>1, ParcelsKept
<1> QED
  BY <1>1, <1>2, <1>3, <1>4, <1>5 DEF ChatNext

\* It holds at the start.
LEMMA ChatInvInit == ChatInit => ChatInv
<1> SUFFICES ASSUME ChatInit PROVE ParcelsInv
  BY QueuesInvInit, OrderInit, HandledInit DEF ChatInit, ChatInv
<1>1. /\ arrived = <<>> /\ parcel = <<>> /\ number = 0 /\ rpc = "idle"
      /\ outcome = [b \in 1..MaxBatches |-> "none"]
  BY DEF ChatInit, R!Init
<1>2. Len(arrived) = 0 /\ Elements(arrived) = {} /\ arrived \in Seq(Message)
      /\ parcel \in Seq(Seq(Message)) /\ Len(parcel) = 0
  BY <1>1 DEF Elements
<1>3. InOrder(arrived)
  BY <1>2 DEF InOrder
<1>4. 0 \in 0..MaxBatches /\ 1..0 = {}
  BY ChatAssumption
<1> QED
  BY <1>1, <1>2, <1>3, <1>4 DEF ParcelsInv

\* What arrived was said and is not lost, and what is lost was said and has
\* not arrived.
NeverBoth ==
    /\ Elements(arrived) \subseteq Said \ Lost
    /\ Lost \subseteq Said \ Elements(arrived)

\* The invariant says so, through the batches that were sent and those that
\* were given up.
LEMMA ArrivedOrLost == ChatInv => NeverBoth
<1> SUFFICES ASSUME ChatInv PROVE NeverBoth
  OBVIOUS
<1>0. QueuesInv /\ HandledInv /\ ParcelsInv
  BY DEF ChatInv
<1>1. Added \subseteq Said
  BY DEF Added, Said
<1>2. Elements(packed) \subseteq Elements(Out) /\ Elements(Out) \subseteq Added
  <2>1. packed \in Seq(Message) /\ batch \in Seq(Message)
    BY <1>0 DEF QueuesInv, TypeOK
  <2> QED
    BY <1>0, <2>1, ElementsConcat DEF Out, HandledInv
<1>3. \A b \in 1..number : Elements(parcel[b]) \subseteq Elements(Out)
  BY <1>0, <1>2 DEF ParcelsInv
<1>4. Elements(arrived) \subseteq Elements(Out)
  BY <1>0, <1>3 DEF ParcelsInv
<1>5. ASSUME NEW r \in Rooms, NEW m \in Elements(discarded[r])
      PROVE  m \in Said /\ m \notin Elements(arrived)
  BY <1>0, <1>1, <1>4 DEF HandledInv, Gone
<1>6. ASSUME NEW b \in GivenUp, NEW m \in Elements(parcel[b])
      PROVE  m \in Said /\ m \notin Elements(arrived)
  <2>1. b \in 1..number /\ outcome[b] # "sent"
    BY <1>0 DEF GivenUp, ParcelsInv
  <2>2. m \in Said
    BY <1>1, <1>2, <1>3, <2>1
  <2>3. ASSUME m \in Elements(arrived) PROVE FALSE
    <3>1. PICK a \in 1..number : outcome[a] = "sent" /\ m \in Elements(parcel[a])
      BY <1>0, <2>3 DEF ParcelsInv
    <3>2. a # b
      BY <2>1, <3>1
    <3>3. a < b \/ b < a
      BY <2>1, <3>2
    <3>4. parcel[a] \in Seq(Message) /\ parcel[b] \in Seq(Message)
      BY <1>0, <2>1 DEF ParcelsInv
    <3>5. Precedes(parcel[a], parcel[b]) \/ Precedes(parcel[b], parcel[a])
      BY <1>0, <2>1, <3>3 DEF ParcelsInv
    <3>6. Elements(parcel[a]) \cap Elements(parcel[b]) = {}
      BY <3>4, <3>5, PrecedesDisjoint
    <3> QED
      BY <1>6, <3>1, <3>6
  <2> QED
    BY <2>2, <2>3
<1>7. Lost \subseteq Said \ Elements(arrived)
  BY <1>5, <1>6 DEF Lost
<1> QED
  BY <1>1, <1>2, <1>4, <1>7 DEF NeverBoth

\* A handler that numbers a message says it.
LEMMA SayStep ==
    ASSUME ChatInv, NEW s \in Senders, NEW r \in Rooms, HandleMsg(s, r),
           UNCHANGED <<parcel, arrived, outcome>>
    PROVE  Path!Say
<1> DEFINE m == [id |-> counter + 1, from |-> s, room |-> r]
<1>0. QueuesInv /\ OrderInv /\ HandledInv
  BY DEF ChatInv
<1>1. /\ msg' = [msg EXCEPT ![s] = m] /\ UNCHANGED <<added, discarded>> /\ pc[s] = "idle"
  BY DEF HandleMsg, logVars
<1>2. counter \in Nat /\ m \in Message /\ m # None /\ m.id = counter + 1
  BY <1>0, QueuesAssumption DEF QueuesInv, TypeOK, Message
<1> HIDE DEF m
<1>3. msg[s] = None /\ msg \in [Senders -> Message \cup {None}]
  BY <1>0, <1>1 DEF HandledInv, QueuesInv, TypeOK
<1>4. ASSUME NEW x \in Said PROVE x.id \in Nat /\ x.id <= counter
  <2>1. CASE x \in Added
    BY <1>0, <2>1, AddedFacts DEF HandledInv, Message
  <2>2. ASSUME NEW t \in Senders, x = msg[t], x # None PROVE x.id \in Nat /\ x.id <= counter
    <3>1. pc[t] # "idle"
      BY <1>0, <2>2 DEF HandledInv
    <3>2. x \in Message
      BY <1>3, <2>2
    <3> QED
      BY <1>0, <2>2, <3>1, <3>2 DEF OrderInv, Message
  <2> QED
    BY <1>4, <2>1, <2>2 DEF Said, Added
<1>5. m \notin Said
  BY <1>2, <1>4
<1>6. Said' = Said \cup {m}
  <2>1. Added' = Added
    BY <1>1 DEF Added, Elements
  <2>2. {msg'[t] : t \in Senders} \ {None} = ({msg[t] : t \in Senders} \ {None}) \cup {m}
    <3>1. msg'[s] = m /\ \A t \in Senders : t # s => msg'[t] = msg[t]
      BY <1>1, <1>3
    <3> QED
      BY <1>2, <1>3, <3>1
  <2>3. Said = Added \cup ({msg[t] : t \in Senders} \ {None})
    BY DEF Said, Added
  <2>4. Said' = Added' \cup ({msg'[t] : t \in Senders} \ {None})
    BY DEF Said, Added
  <2> QED
    BY <2>1, <2>2, <2>3, <2>4
<1>7. Lost' = Lost
  BY <1>1 DEF Lost, GivenUp, Elements
<1> QED
  BY <1>5, <1>6, <1>7 DEF Path!Say

\* MessageQueue.Add says nothing new, and what it discards is lost.
LEMMA LoseStep ==
    ASSUME ChatInv, NeverBoth', NEW s \in Senders, AddMessage(s),
           UNCHANGED <<parcel, arrived, outcome>>
    PROVE  Path!Lose
<1> DEFINE r == msg[s].room
           m == msg[s]
<1>0. QueuesInv /\ HandledInv
  BY DEF ChatInv
<1>1. /\ pc[s] = "add" /\ msg' = [msg EXCEPT ![s] = None]
      /\ added' = [added EXCEPT ![r] = Append(@, m)]
      /\ \E lot : discarded' = [discarded EXCEPT ![r] = @ \o lot] /\ lot \in Seq(Message)
  <2> DEFINE longer == Append(queue[mq[s]], m)
             n == Excess(Len(longer))
  <2>1. pc[s] = "add" /\ m \in Message /\ mq[s] \in Queues
    BY <1>0 DEF AddMessage, QueuesInv, TypeOK, NoOrphanQueue
  <2>2. longer \in Seq(Message) /\ Len(longer) \in Nat
    BY <1>0, <2>1 DEF QueuesInv, TypeOK
  <2>3. SubSeq(longer, 1, n) \in Seq(Message)
    <3>1. n \in Nat /\ n <= Len(longer)
      BY <2>2, ExcessFacts
    <3> QED
      BY <2>2, <3>1, Split
  <2> QED
    BY <2>1, <2>3 DEF AddMessage
<1>2. m \in Message /\ r \in Rooms /\ m # None
  BY <1>0, <1>1, QueuesAssumption DEF QueuesInv, Message
<1> HIDE DEF r, m
<1>3. Said' = Said
  <2>1. Added' = Added \cup {m}
    <3>1. /\ added'[r] = Append(added[r], m)
          /\ \A t \in Rooms : t # r => added'[t] = added[t]
      BY <1>0, <1>1, <1>2 DEF QueuesInv, TypeOK
    <3>2. Elements(added'[r]) = Elements(added[r]) \cup {m}
      BY <1>0, <1>2, <3>1, AddedFacts, ElementsAppend
    <3>3. \A t \in Rooms : t # r => Elements(added'[t]) = Elements(added[t])
      BY <3>1
    <3>4. Added' = UNION {Elements(added'[t]) : t \in Rooms}
      BY DEF Added, Elements
    <3> QED
      BY <1>2, <3>2, <3>3, <3>4 DEF Added
  <2>2. ({msg'[t] : t \in Senders} \ {None}) \cup {m} = {msg[t] : t \in Senders} \ {None}
    <3>1. msg'[s] = None /\ \A t \in Senders : t # s => msg'[t] = msg[t]
      BY <1>0, <1>1 DEF QueuesInv, TypeOK
    <3> QED
      BY <1>2, <3>1 DEF m
  <2>3. Said = Added \cup ({msg[t] : t \in Senders} \ {None})
    BY DEF Said, Added
  <2>4. Said' = Added' \cup ({msg'[t] : t \in Senders} \ {None})
    BY DEF Said, Added
  <2> QED
    BY <2>1, <2>2, <2>3, <2>4
<1>4. \A t \in Rooms : Elements(discarded[t]) \subseteq Elements(discarded'[t])
  <2> SUFFICES ASSUME NEW t \in Rooms PROVE Elements(discarded[t]) \subseteq Elements(discarded'[t])
    OBVIOUS
  <2>1. PICK lot \in Seq(Message) : discarded' = [discarded EXCEPT ![r] = @ \o lot]
    BY <1>1
  <2>2. CASE t # r
    BY <1>0, <2>1, <2>2 DEF QueuesInv, TypeOK
  <2>3. CASE t = r
    <3>1. discarded'[t] = discarded[t] \o lot /\ discarded[t] \in Seq(Message)
      BY <1>0, <2>1, <2>3 DEF QueuesInv, TypeOK
    <3> QED
      BY <3>1, ElementsConcat
  <2> QED
    BY <2>2, <2>3
<1>5. Lost \subseteq Lost'
  <2>1. Lost' = (UNION {Elements(discarded'[t]) : t \in Rooms})
                    \cup (UNION {Elements(parcel[b]) : b \in GivenUp})
    BY DEF Lost, GivenUp, Elements
  <2> QED
    BY <1>4, <2>1 DEF Lost
<1>6. Lost' \subseteq Said \ Elements(arrived)
  <2>1. Lost' \subseteq Said' \ Elements(arrived)'
    BY DEF NeverBoth
  <2> QED
    BY <1>3, <2>1 DEF Elements
<1> QED
  BY <1>3, <1>5, <1>6 DEF Path!Lose, Path!Elements, Elements

\* deliver at work: a batch arrives behind all that arrived before, or is
\* given up, or nothing is settled yet.
LEMMA SendsStep ==
    ASSUME ChatInv, ChatInv', NeverBoth', Sends
    PROVE  Path!Arrive \/ Path!Lose
<1>0. /\ ParcelsInv /\ ParcelsInv' /\ arrived \in Seq(Message) /\ parcel \in Seq(Seq(Message))
      /\ UNCHANGED <<added, msg, discarded, parcel>>
  BY DEF ChatInv, ParcelsInv, Sends, vars, handlerVars, logVars
<1>1. Said' = Said
  BY <1>0 DEF Said, Elements
<1>2. Lost' = (UNION {Elements(discarded[r]) : r \in Rooms})
                  \cup (UNION {Elements(parcel[b]) : b \in GivenUp'})
  BY <1>0 DEF Lost, Elements
<1>3. Elements(arrived') \subseteq Said \ Lost' /\ Lost' \subseteq Said \ Elements(arrived')
  BY <1>1 DEF NeverBoth, Elements
<1>4. CASE arrived' = arrived /\ GivenUp \subseteq GivenUp'
  <2>1. Lost \subseteq Lost'
    BY <1>2, <1>4 DEF Lost
  <2>2. Lost' \subseteq Said \ Path!Elements(arrived)
    BY <1>3, <1>4 DEF Elements, Path!Elements
  <2> QED
    BY <1>1, <1>4, <2>1, <2>2 DEF Path!Lose
<1>5. CASE /\ arrived' = arrived \o parcel[number] /\ GivenUp' = GivenUp
           /\ number \in 1..Len(parcel)
  <2> DEFINE lot == parcel[number]
  <2>1. lot \in Seq(Message) /\ lot # << >>
    BY <1>0, <1>5 DEF ParcelsInv
  <2> HIDE DEF lot
  <2>2. Len(lot) \in Nat /\ Len(lot) > 0 /\ Len(arrived) \in Nat
    BY <1>0, <2>1, EmptySeq
  <2>3. arrived' = arrived \o lot /\ arrived' \in Seq(Message)
        /\ Len(arrived') = Len(arrived) + Len(lot)
    BY <1>0, <1>5, <2>1, ConcatProperties DEF lot
  <2>4. Len(arrived') > Len(arrived)
    BY <2>2, <2>3
  <2>5. SubSeq(arrived', 1, Len(arrived)) = arrived
    <3>1. /\ SubSeq(arrived', 1, Len(arrived)) \in Seq(Message)
          /\ Len(SubSeq(arrived', 1, Len(arrived))) = Len(arrived)
      BY <2>2, <2>3, <2>4, Split
    <3>2. \A i \in 1..Len(arrived) : SubSeq(arrived', 1, Len(arrived))[i] = arrived'[i]
      BY <2>2, <2>3, <2>4
    <3>3. \A i \in 1..Len(arrived) : arrived'[i] = arrived[i]
      BY <1>0, <2>1, <2>2, <2>3
    <3> QED
      BY <1>0, <3>1, <3>2, <3>3, SeqEqual
  <2>6. Path!Orderly(arrived')
    <3>1. InOrder(arrived)'
      BY <1>0 DEF ParcelsInv
    <3>2. \A i, j \in 1..Len(arrived') : i < j => Earlier(arrived'[i], arrived'[j])
      BY <3>1 DEF InOrder, Earlier
    <3>3. ASSUME NEW i \in 1..Len(arrived'), NEW j \in 1..Len(arrived'), i < j
          PROVE  arrived'[i] # arrived'[j]
      <4>1. arrived'[i] \in Message
        BY <2>3
      <4>2. arrived'[i].id \in Nat
        BY <4>1 DEF Message
      <4> QED
        BY <3>2, <3>3, <4>2 DEF Earlier
    <3> QED
      BY <3>2, <3>3 DEF Path!Orderly, Earlier
  <2>7. Lost' = Lost
    BY <1>2, <1>5 DEF Lost
  <2>8. Path!Elements(arrived') \subseteq Said \ Lost
    BY <1>3, <2>7 DEF Elements, Path!Elements
  <2> QED
    BY <1>1, <2>4, <2>5, <2>6, <2>7, <2>8 DEF Path!Arrive
<1> QED
  BY <1>0, <1>4, <1>5, ParcelsSends

\* Looking a queue up, creating one, draining, handing a batch over and the
\* discovery settle nothing.
LEMMA QuietStep ==
    ASSUME ChatInv, UNCHANGED <<added, msg, discarded, arrived, outcome>>,
           \/ UNCHANGED parcel
           \/ parcel' = Append(parcel, batch) /\ number < MaxBatches
    PROVE  UNCHANGED Path!vars
<1>0. ParcelsInv /\ parcel \in Seq(Seq(Message)) /\ batch \in Seq(Message)
  BY DEF ChatInv, ParcelsInv, QueuesInv, TypeOK
<1>1. Said' = Said
  BY DEF Said, Elements
<1>2. GivenUp' = GivenUp /\ \A b \in GivenUp : parcel'[b] = parcel[b]
  <2>1. CASE UNCHANGED parcel
    BY <2>1 DEF GivenUp
  <2>2. CASE parcel' = Append(parcel, batch) /\ number < MaxBatches
    <3>1. number \in Nat /\ Len(parcel) = number /\ number + 1 \in 1..MaxBatches
      BY <1>0, <2>2, ChatAssumption DEF ParcelsInv
    <3>2. /\ Len(parcel') = number + 1
          /\ \A b \in 1..number : parcel'[b] = parcel[b]
      BY <1>0, <2>2, <3>1
    <3>3. outcome[number + 1] = "none"
      BY <1>0, <3>1 DEF ParcelsInv
    <3>4. 1..(number + 1) = (1..number) \cup {number + 1}
      BY <3>1
    <3>5. GivenUp' = {b \in 1..(number + 1) : outcome[b] \in {"failed", "panic"}}
      BY <3>2 DEF GivenUp
    <3>6. GivenUp' = GivenUp
      BY <3>1, <3>3, <3>4, <3>5 DEF GivenUp
    <3> QED
      BY <3>1, <3>2, <3>6 DEF GivenUp
  <2> QED
    BY <2>1, <2>2
<1>3. Lost' = Lost
  <2>1. Lost' = (UNION {Elements(discarded[r]) : r \in Rooms})
                    \cup (UNION {Elements(parcel'[b]) : b \in GivenUp'})
    BY DEF Lost, Elements
  <2>2. UNION {Elements(parcel'[b]) : b \in GivenUp'} = UNION {Elements(parcel[b]) : b \in GivenUp}
    BY <1>2 DEF Elements
  <2> QED
    BY <2>1, <2>2 DEF Lost
<1> QED
  BY <1>1, <1>3 DEF Path!vars

\* Every step of the system is a step of ChatPath or changes nothing of it.
LEMMA ChatPathStep ==
    ChatInv /\ ChatInv' /\ NeverBoth' /\ [ChatNext]_chatVars => [Path!Next]_(Path!vars)
<1> SUFFICES ASSUME ChatInv, ChatInv', NeverBoth', [ChatNext]_chatVars
             PROVE  Path!Next \/ UNCHANGED Path!vars
  OBVIOUS
<1> USE DEF vars, handlerVars, consumerVars, logVars
<1>1. ASSUME Handlers PROVE Path!Next \/ UNCHANGED Path!vars
  <2>1. PICK s \in Senders : Handler(s)
    BY <1>1 DEF Handlers
  <2>2. UNCHANGED <<parcel, arrived, outcome>>
    BY <1>1 DEF Handlers, Running, rpcVars
  <2>3. ASSUME NEW r \in Rooms, HandleMsg(s, r) PROVE Path!Next
    BY <2>2, <2>3, SayStep DEF Path!Next
  <2>4. CASE Lookup(s) \/ Create(s)
    <3>1. UNCHANGED <<added, msg, discarded>>
      BY <2>4 DEF Lookup, Create
    <3> QED
      BY <2>2, <3>1, QuietStep
  <2>5. CASE AddMessage(s)
    BY <2>2, <2>5, LoseStep DEF Path!Next
  <2> QED
    BY <2>1, <2>3, <2>4, <2>5 DEF Handler
<1>2. CASE Drains
  <2>1. UNCHANGED <<added, msg, discarded, arrived, outcome, parcel>>
    BY <1>2 DEF Drains, Running, rpcVars, ConsumeStart, DrainQueue
  <2> QED
    BY <2>1, QuietStep
<1>3. CASE HandsOver
  <2>1. /\ UNCHANGED <<added, msg, discarded, arrived, outcome>>
        /\ UNCHANGED parcel \/ (parcel' = Append(parcel, batch) /\ number < MaxBatches)
    BY <1>3 DEF HandsOver, Deliver, R!DeliverCopies, rpcVars
  <2> QED
    BY <2>1, QuietStep
<1>4. CASE Sends
  BY <1>4, SendsStep DEF Path!Next
<1>5. CASE Discovers
  <2>1. UNCHANGED <<added, msg, discarded, arrived, outcome, parcel>>
    BY <1>5, DiscoveryMoves DEF Discovers
  <2> QED
    BY <2>1, QuietStep
<1>6. CASE UNCHANGED chatVars
  <2>1. UNCHANGED <<added, msg, discarded, arrived, outcome, parcel>>
    BY <1>6 DEF chatVars, rpcVars
  <2> QED
    BY <2>1, QuietStep
<1> QED
  BY <1>1, <1>2, <1>3, <1>4, <1>5, <1>6 DEF ChatNext

\* Before anybody speaks nothing is said, lost or arrived.
LEMMA ChatPathInit == ChatInit => Path!Init
<1> SUFFICES ASSUME ChatInit PROVE Path!Init
  OBVIOUS
<1>1. /\ added = [r \in Rooms |-> << >>] /\ discarded = [r \in Rooms |-> << >>]
      /\ msg = [s \in Senders |-> None] /\ parcel = << >> /\ arrived = << >>
  BY DEF ChatInit, Init
<1>2. /\ \A r \in Rooms : Elements(added[r]) = {} /\ Elements(discarded[r]) = {}
      /\ Len(parcel) = 0
  BY <1>1 DEF Elements
<1>3. GivenUp = {}
  BY <1>2 DEF GivenUp
<1>4. Said = {}
  BY <1>1, <1>2 DEF Said
<1>5. Lost = {}
  BY <1>2, <1>3 DEF Lost
<1> QED
  BY <1>1, <1>4, <1>5 DEF Path!Init

\* The composition takes nothing from its parts and adds nothing to them: what
\* holds of every behaviour of the queues, or of the rpc client, holds of them
\* while consumeEvent joins the two.
THEOREM ChatComposes == ChatSpec => Spec /\ R!Spec
<1>1. ChatInit => Init /\ R!Init
  BY DEF ChatInit
<1>2. [ChatNext]_chatVars => [R!Next]_(R!vars)
  <2> SUFFICES ASSUME [ChatNext]_chatVars PROVE R!Next \/ UNCHANGED R!vars
    OBVIOUS
  <2>1. UNCHANGED rpcVars => UNCHANGED R!vars
    BY DEF rpcVars, R!vars, R!discoveryVars, R!netVars, R!sendVars
  <2>2. \/ R!Discovery \/ R!DeliverCopies \/ R!Attempt \/ UNCHANGED rpcVars
    BY DEF ChatNext, chatVars, Handlers, Drains, Running, HandsOver, Sends, Discovers
  <2> QED
    BY <2>1, <2>2 DEF R!Next
<1> QED
  BY <1>1, <1>2, ChatQueues, PTL DEF ChatSpec, Spec, R!Spec

\* The inductive invariant of the whole way of a chat message, for every
\* instance: QueuesInv and OrderInv for the queues, HandledInv for what they
\* discarded, ParcelsInv for the batches in deliver.
THEOREM ChatInvariant == ChatSpec => []ChatInv
BY ChatInvInit, ChatInvStep, PTL DEF ChatSpec

\* Queues and rpc client together implement ChatPath: no chat message arrives
\* twice, arrives after it was given up or out of its sender's order, although
\* Add discards, DrainTo cuts batches, trySend retries and discovery closes
\* connections under a write.
THEOREM ChatRefinement == ChatSpec => ImplementsChatPath
BY ChatInvariant, ArrivedOrLost, ChatPathInit, ChatPathStep, PTL
DEF ChatSpec, ImplementsChatPath, Path!Spec

=============================================================================
