----------------------------- MODULE ChatSystem -----------------------------
(***************************************************************************)
(* The whole way of a chat message: the room queues of RoomQueues and the  *)
(* rpc client of ComputeRpc, joined where consumeEvent calls deliver.  The *)
(* consumer is one goroutine: it hands a batch over, drains nothing while  *)
(* deliver is at work, and drains nothing any more when deliver never      *)
(* returns.  A crash of the runtime ends everything.                       *)
(***************************************************************************)
EXTENDS RoomQueues

CONSTANTS Addrs, Conns, MaxBatches, MaxTicks  \* those of ComputeRpc

ASSUME ChatAssumption == MaxBatches \in Nat

\* The variables of ComputeRpc (its cpc, batch and k are called rpc, number
\* and failures here).
VARIABLES avail, pending, known, dpc, left, ticks, connMap, peer, up, stream,
          rpc, view, addr, failures, number, outcome, excuses, crashed,
          parcel,  \* the messages of each batch handed to deliver
          arrived  \* history: the messages of completed writes

R == INSTANCE ComputeRpc WITH cpc <- rpc, batch <- number, k <- failures

rpcVars == <<avail, pending, known, dpc, left, ticks, connMap, peer, up, stream,
             rpc, view, addr, failures, number, outcome, excuses, crashed>>
chatVars == <<vars, rpcVars, parcel, arrived>>

ChatInit == Init /\ R!Init /\ parcel = <<>> /\ arrived = <<>>

\* The process is alive and the step is one of the queues only.
Running == ~crashed /\ UNCHANGED <<rpcVars, parcel, arrived>>

\* handleMsg and MessageQueueGroup.Add on some connection.
Handlers == Running /\ (\E s \in Senders : Handler(s))

\* The consumer drains; it is not inside deliver.
Drains ==
    /\ Running
    /\ rpc = "idle"
    /\ ConsumeStart \/ (\E r \in Rooms : DrainQueue(r))

\* A consumer that drops the batch while discovery holds the lock.
Mutant_HandsOverIfFree ==
    /\ ~crashed
    /\ rpc = "idle"
    /\ Deliver
    /\ IF batch = <<>> \/ dpc # "idle"
       THEN UNCHANGED <<rpcVars, parcel>>
       ELSE R!DeliverCopies /\ parcel' = Append(parcel, batch)
    /\ UNCHANGED arrived

\* consumeEvent calls deliver, which sends nothing when there is nothing.
HandsOver ==
    /\ ~crashed
    /\ rpc = "idle"
    /\ Deliver
    /\ IF batch = <<>>
       THEN UNCHANGED <<rpcVars, parcel>>
       ELSE R!DeliverCopies /\ parcel' = Append(parcel, batch)
    /\ UNCHANGED arrived

\* deliver at work; its messages have arrived when the bytes are written.
Sends ==
    /\ R!Attempt
    /\ arrived' = IF rpc = "bytes" /\ stream' # stream THEN arrived \o parcel[number]
                                                       ELSE arrived
    /\ UNCHANGED <<vars, parcel>>

Discovers == R!Discovery /\ UNCHANGED <<vars, parcel, arrived>>

ChatNext == Handlers \/ Drains \/ HandsOver \/ Sends \/ Discovers

ChatSpec == ChatInit /\ [][ChatNext]_chatVars

\* Goroutines run, dials and writes return.  A pending write lock blocks new
\* readers of the RWMutex, so the consumer's next drain cannot keep Create out
\* for ever (strong fairness).  Nobody is obliged to chat.
ChatFairSpec ==
    /\ ChatSpec
    /\ WF_chatVars(Drains \/ HandsOver)
    /\ WF_chatVars(Sends)
    /\ \A s \in Senders :
        /\ WF_chatVars(Running /\ (Lookup(s) \/ AddMessage(s)))
        /\ SF_chatVars(Running /\ Create(s))

-----------------------------------------------------------------------------
\* Batches deliver gave up.
GivenUp == {b \in 1..Len(parcel) : outcome[b] \in {"failed", "panic"}}

Elements(s) == {s[i] : i \in 1..Len(s)}

Said == (UNION {Elements(added[r]) : r \in Rooms}) \cup ({msg[s] : s \in Senders} \ {None})

Lost == (UNION {Elements(discarded[r]) : r \in Rooms})
            \cup (UNION {Elements(parcel[b]) : b \in GivenUp})

Path == INSTANCE ChatPath WITH said <- Said, lost <- Lost, arrived <- arrived

\* Queues and rpc client together keep the promise of ChatPath: no message
\* arrives twice, arrives after it was given up or out of its sender's order,
\* although full queues discard, batches are cut, sends are retried and
\* connections are closed under them.
ImplementsChatPath == Path!Spec

\* Every chat message arrives or is given up on record: none is forgotten
\* between the queues and deliver.  The exceptions are the two ends of the
\* consumer itself, a copied lock that is never released and a crash.
EveryChatSettles ==
    \A n \in 1..MaxMsgs :
        counter >= n ~> \/ \E m \in Elements(arrived) \cup Lost : m.id = n
                        \/ rpc = "stuck"
                        \/ crashed
=============================================================================
