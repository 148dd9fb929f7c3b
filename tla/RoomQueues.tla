----------------------------- MODULE RoomQueues -----------------------------
(***************************************************************************)
(* The incoming chat path: the handlers (one goroutine per connection)     *)
(* number a message and add it to the MessageQueue of its room in          *)
(* messageQueueGroup; the consumer goroutine drains the queues into one    *)
(* batch every 50 ms and gives the batch to rpcClient.deliver.             *)
(*                                                                         *)
(* MessageQueueGroup.Add looks the queue up under the read lock, creates   *)
(* it under the write lock when missing, and adds to it under the queue's  *)
(* own lock only, holding a pointer.  DrainTo holds the group's read lock  *)
(* over the whole iteration, so no queue is created meanwhile, but Add     *)
(* keeps changing queues that exist, those already drained included.       *)
(*                                                                         *)
(* Here a batch counts as packed once deliver gets it; what deliver makes  *)
(* of it is not this module's subject.                                     *)
(***************************************************************************)
EXTENDS Integers, Sequences, FiniteSets

CONSTANTS Senders,    \* connections that chat
          Rooms,      \* room ids of messages (the empty id is one of them)
          Queues,     \* MessageQueue objects that may be allocated
          None,       \* nil
          MaxSize,    \* MessageQueue.maxSize (100)
          MaxLength,  \* maxCount of consumeEvent (10000)
          MaxMsgs     \* bound: chat messages handled

Message == [id : Nat, from : Senders, room : Rooms]

ASSUME QueuesAssumption ==
    /\ None \notin Queues
    /\ None \notin Message
    /\ MaxSize \in Nat \ {0}
    /\ MaxLength \in Nat \ {0}
    /\ MaxMsgs \in Nat

VARIABLES
    counter,   \* chatMessageCounter
    group,     \* MessageQueueGroup.group
    queue,     \* MessageQueue.queue of each object
    made,      \* objects that have been allocated
    pc,        \* place of each handler in MessageQueueGroup.Add
    msg,       \* its message
    mq,        \* its pointer mq
    cpc,       \* place of the consumer: "tick" or "drain"
    todo,      \* rooms the DrainTo in progress has not visited
    batch,     \* readyToDeliver
    packed,    \* history: everything given to rpcClient.deliver
    added,     \* history: everything added to the queue of each room
    discarded, \* history: what Add discarded, by room
    taken      \* history: how many messages DrainTo took, by room

handlerVars == <<counter, pc, msg, mq>>
groupVars == <<group, made>>
consumerVars == <<cpc, todo, batch, packed, taken>>
logVars == <<added, discarded>>
vars == <<handlerVars, groupVars, consumerVars, logVars, queue>>

TypeOK ==
    /\ counter \in Nat
    /\ group \in [Rooms -> Queues \cup {None}]
    /\ queue \in [Queues -> Seq(Message)]
    /\ made \in SUBSET Queues
    /\ pc \in [Senders -> {"idle", "lookup", "create", "add"}]
    /\ msg \in [Senders -> Message \cup {None}]
    /\ mq \in [Senders -> Queues \cup {None}]
    /\ cpc \in {"tick", "drain"}
    /\ todo \in SUBSET Rooms
    /\ batch \in Seq(Message)
    /\ packed \in Seq(Message)
    /\ added \in [Rooms -> Seq(Message)]
    /\ discarded \in [Rooms -> Seq(Message)]
    /\ taken \in [Rooms -> Nat]

Init ==
    /\ counter = 0
    /\ group = [r \in Rooms |-> None]
    /\ queue = [k \in Queues |-> <<>>]
    /\ made = {}
    /\ pc = [s \in Senders |-> "idle"]
    /\ msg = [s \in Senders |-> None]
    /\ mq = [s \in Senders |-> None]
    /\ cpc = "tick"
    /\ todo = {}
    /\ batch = <<>>
    /\ packed = <<>>
    /\ added = [r \in Rooms |-> <<>>]
    /\ discarded = [r \in Rooms |-> <<>>]
    /\ taken = [r \in Rooms |-> 0]

-----------------------------------------------------------------------------
(***************************************************************************)
(* handleMsg and MessageQueueGroup.Add.                                    *)
(***************************************************************************)

\* The tail of handleMsg: the next message id, atomically.
HandleMsg(s, r) ==
    /\ pc[s] = "idle"
    /\ counter < MaxMsgs
    /\ counter' = counter + 1
    /\ msg' = [msg EXCEPT ![s] = [id |-> counter + 1, from |-> s, room |-> r]]
    /\ mq' = [mq EXCEPT ![s] = None]
    /\ pc' = [pc EXCEPT ![s] = "lookup"]
    /\ UNCHANGED <<groupVars, consumerVars, logVars, queue>>

\* Add, first section: the lookup under the read lock.
Lookup(s) ==
    /\ pc[s] = "lookup"
    /\ mq' = [mq EXCEPT ![s] = group[msg[s].room]]
    /\ pc' = [pc EXCEPT ![s] =
                 IF group[msg[s].room] = None THEN "create" ELSE "add"]
    /\ UNCHANGED <<counter, msg, groupVars, consumerVars, logVars, queue>>

\* NewMessageQueue for room r in the group.
NewQueue(r, k) ==
    /\ k \notin made
    /\ group' = [group EXCEPT ![r] = k]
    /\ made' = made \cup {k}

\* A second section that does not look again.
Mutant_CreateUnchecked(s) ==
    LET r == msg[s].room
    IN  /\ pc[s] = "create"
        /\ cpc # "drain"
        /\ \E k \in Queues : NewQueue(r, k)
        /\ mq' = [mq EXCEPT ![s] = group'[r]]
        /\ pc' = [pc EXCEPT ![s] = "add"]
        /\ UNCHANGED <<counter, msg, consumerVars, logVars, queue>>

\* Add, second section, under the write lock: look again, create when still
\* missing.  The lock excludes a drain in progress.
Create(s) ==
    LET r == msg[s].room
    IN  /\ pc[s] = "create"
        /\ cpc # "drain"
        /\ \/ group[r] = None /\ (\E k \in Queues : NewQueue(r, k))
           \/ group[r] # None /\ UNCHANGED groupVars
        /\ mq' = [mq EXCEPT ![s] = group'[r]]
        /\ pc' = [pc EXCEPT ![s] = "add"]
        /\ UNCHANGED <<counter, msg, consumerVars, logVars, queue>>

\* How many elements MessageQueue.Add removes from the front of a queue that
\* has n elements after the PushBack.
Excess(n) == IF n > MaxSize THEN n - MaxSize ELSE 0

\* An Add at the wrong end of the list.
Mutant_AddMessageInFront(s) ==
    LET k == mq[s]
        r == msg[s].room
        longer == <<msg[s]>> \o queue[k]
        n == Excess(Len(longer))
    IN  /\ pc[s] = "add"
        /\ queue' = [queue EXCEPT ![k] = SubSeq(longer, n + 1, Len(longer))]
        /\ added' = [added EXCEPT ![r] = Append(@, msg[s])]
        /\ discarded' = [discarded EXCEPT ![r] = @ \o SubSeq(longer, 1, n)]
        /\ msg' = [msg EXCEPT ![s] = None]
        /\ pc' = [pc EXCEPT ![s] = "idle"]
        /\ UNCHANGED <<counter, mq, groupVars, consumerVars>>

\* MessageQueue.Add, under the queue's lock: PushBack, then discard from the
\* front down to maxSize.
AddMessage(s) ==
    LET k == mq[s]
        r == msg[s].room
        longer == Append(queue[k], msg[s])
        n == Excess(Len(longer))
    IN  /\ pc[s] = "add"
        /\ queue' = [queue EXCEPT ![k] = SubSeq(longer, n + 1, Len(longer))]
        /\ added' = [added EXCEPT ![r] = Append(@, msg[s])]
        /\ discarded' = [discarded EXCEPT ![r] = @ \o SubSeq(longer, 1, n)]
        /\ msg' = [msg EXCEPT ![s] = None]
        /\ pc' = [pc EXCEPT ![s] = "idle"]
        /\ UNCHANGED <<counter, mq, groupVars, consumerVars>>

-----------------------------------------------------------------------------
(***************************************************************************)
(* consumeEvent and DrainTo.                                               *)
(***************************************************************************)

\* A tick of initMessageConsumer: MessageQueueGroup.DrainTo takes the read
\* lock and starts its iteration over the map.
ConsumeStart ==
    /\ cpc = "tick"
    /\ cpc' = "drain"
    /\ todo' = {r \in Rooms : group[r] # None}
    /\ batch' = <<>>
    /\ UNCHANGED <<handlerVars, groupVars, logVars, queue, packed, taken>>

\* How many elements MessageQueue.DrainTo copies, and then removes, when the
\* queue has n and the batch already has b.
DrainCount(n, b) == IF n <= MaxLength - b THEN n ELSE MaxLength - b

\* A removal loop that starts at the wrong index and keeps the last copied
\* element in the queue.
Mutant_DrainQueueKeepsOne(r) ==
    LET k == group[r]
        n == DrainCount(Len(queue[k]), Len(batch))
    IN  /\ cpc = "drain"
        /\ r \in todo
        /\ batch' = batch \o SubSeq(queue[k], 1, n)
        /\ queue' = [queue EXCEPT ![k] =
                        SubSeq(@, IF n = 0 THEN 1 ELSE n, Len(@))]
        /\ todo' = todo \ {r}
        /\ taken' = [taken EXCEPT ![r] = @ + n]
        /\ UNCHANGED <<handlerVars, groupVars, logVars, cpc, packed>>

\* MessageQueue.DrainTo for one room, in the map's arbitrary order.
DrainQueue(r) ==
    LET k == group[r]
        n == DrainCount(Len(queue[k]), Len(batch))
    IN  /\ cpc = "drain"
        /\ r \in todo
        /\ batch' = batch \o SubSeq(queue[k], 1, n)
        /\ queue' = [queue EXCEPT ![k] = SubSeq(@, n + 1, Len(@))]
        /\ todo' = todo \ {r}
        /\ taken' = [taken EXCEPT ![r] = @ + n]
        /\ UNCHANGED <<handlerVars, groupVars, logVars, cpc, packed>>

\* The iteration ends, the lock is released, deliver gets the batch.
Deliver ==
    /\ cpc = "drain"
    /\ todo = {}
    /\ cpc' = "tick"
    /\ packed' = packed \o batch
    /\ batch' = <<>>
    /\ UNCHANGED <<handlerVars, groupVars, logVars, queue, todo, taken>>

Handler(s) ==
    \/ \E r \in Rooms : HandleMsg(s, r)
    \/ Lookup(s)
    \/ Create(s)
    \/ AddMessage(s)

Consumer ==
    \/ ConsumeStart
    \/ \E r \in Rooms : DrainQueue(r)
    \/ Deliver

Next == (\E s \in Senders : Handler(s)) \/ Consumer

Spec == Init /\ [][Next]_vars

-----------------------------------------------------------------------------
(***************************************************************************)
(* Properties.                                                             *)
(***************************************************************************)

\* The queue of a room, empty while there is none.
RoomQueue(r) == IF group[r] = None THEN <<>> ELSE queue[group[r]]

\* A handler about to add holds the very queue the consumer will read: two
\* handlers that both missed the lookup never create two queues for a room,
\* so no message is added to a queue outside the group.
NoOrphanQueue ==
    \A s \in Senders :
        pc[s] = "add" => mq[s] # None /\ mq[s] = group[msg[s].room]

\* rest is the last part of all.
IsNewest(rest, all) ==
    /\ Len(rest) <= Len(all)
    /\ \A i \in 1..Len(rest) : rest[i] = all[Len(all) - Len(rest) + i]

\* What is in a room's queue is exactly the newest part of what was added to
\* the room: a drain and a discard only ever remove the oldest.
NewestRemain == \A r \in Rooms : IsNewest(RoomQueue(r), added[r])

\* Every message added to a room was drained, discarded or is still queued,
\* and only one of these.
NothingVanishes ==
    \A r \in Rooms :
        Len(added[r]) = taken[r] + Len(discarded[r]) + Len(RoomQueue(r))

\* A queue never exceeds maxSize once Add returns, and a batch never exceeds
\* the consumer's maxCount however many rooms contribute to it.
Bounds ==
    /\ \A k \in Queues : Len(queue[k]) <= MaxSize
    /\ Len(batch) <= MaxLength

\* Two messages one connection sent to one room reach deliver in the order of
\* their ids, also across batches.  (Ids of different connections, or rooms,
\* may arrive in any order: the id is drawn before the queue is locked.)
SenderOrder ==
    LET out == packed \o batch
    IN  \A i, j \in 1..Len(out) :
            /\ i < j
            /\ out[i].from = out[j].from
            /\ out[i].room = out[j].room
            => out[i].id < out[j].id

\* The inductive invariant behind the theorems of ChatProofs.
QueuesInv ==
    /\ TypeOK
    /\ NoOrphanQueue
    /\ NewestRemain
    /\ NothingVanishes
    /\ Bounds
    /\ \A s \in Senders : pc[s] # "idle" => msg[s] \in Message
    /\ \A r \in Rooms : group[r] # None => group[r] \in made
    /\ \A r, t \in Rooms : group[r] = group[t] /\ group[r] # None => r = t
    /\ \A r \in todo : group[r] # None
    /\ \A k \in Queues \ made : queue[k] = <<>>
=============================================================================
