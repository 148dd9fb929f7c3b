------------------------------ MODULE PushQueue ------------------------------
(***************************************************************************)
(* The outgoing side of one Client: ServerHello pushes a message on        *)
(* Client.queue and broadcasts; the goroutine Client.a takes messages off  *)
(* the queue and hands them to the pumper, or waits on the condition       *)
(* variable; Client.ending sets Client.q and signals.                      *)
(*                                                                         *)
(* Client.a tests c.q, takes under the lock, and, when it found nothing,   *)
(* locks again to wait.  Between the two critical sections (pc = "window") *)
(* it is deaf: a Broadcast issued there wakes nobody, and neither does the *)
(* Signal issued after the test of c.q; Wait rechecks neither the queue    *)
(* nor c.q.  Two history variables record that this happened; the          *)
(* properties say it is the only way in which a message, or the goroutine  *)
(* itself, can be left behind.                                             *)
(*                                                                         *)
(* External (bdmsg): Output appends to the pumper's bounded out-queue,     *)
(* blocks while it is full and gives up once the pumper has stopped; the   *)
(* pumper writes the out-queue in order.                                   *)
(***************************************************************************)
EXTENDS Integers, Sequences

CONSTANTS Messages,   \* contents of pushed messages
          OutqueueN,  \* capacity of the pumper's out-queue (config OutqueueN)
          MaxPushes   \* bound: calls of ServerHello

ASSUME PushAssumption == OutqueueN \in Nat \ {0} /\ MaxPushes \in Nat

VARIABLES
    queue,   \* Client.queue
    q,       \* Client.q
    pc,      \* place of Client.a
    hand,    \* the message m between the two critical sections, as a sequence
    ending,  \* place of Client.ending: "watch", "signal", "done"
    conn,    \* "open" until StopD is closed
    outq,    \* the pumper's out-queue
    wire,    \* history: what the pumper has written
    sent,    \* history: what ServerHello was given
    missed,  \* history: a push fell into the current window
    unheard  \* history: the signal came between the test of c.q and Wait

senderVars == <<pc, hand>>
pumperVars == <<conn, outq, wire>>
vars == <<queue, q, senderVars, ending, pumperVars, sent, missed, unheard>>

TypeOK ==
    /\ queue \in Seq(Messages)
    /\ q \in BOOLEAN
    /\ pc \in {"test", "take", "window", "parked", "output", "done"}
    /\ hand \in Seq(Messages)
    /\ ending \in {"watch", "signal", "done"}
    /\ conn \in {"open", "stopped"}
    /\ outq \in Seq(Messages)
    /\ wire \in Seq(Messages)
    /\ sent \in Seq(Messages)
    /\ missed \in BOOLEAN
    /\ unheard \in BOOLEAN

Init ==
    /\ queue = <<>>
    /\ q = FALSE
    /\ pc = "test"
    /\ hand = <<>>
    /\ ending = "watch"
    /\ conn = "open"
    /\ outq = <<>>
    /\ wire = <<>>
    /\ sent = <<>>
    /\ missed = FALSE
    /\ unheard = FALSE

-----------------------------------------------------------------------------
\* A notification that never reaches the sender.
Mutant_WakeNobody == UNCHANGED pc

\* condition.Broadcast() and Signal(): there is one waiter at most.  A woken
\* sender goes back to its loop test.
Wake == pc' = IF pc = "parked" THEN "test" ELSE pc

\* Client.ServerHello: PushBack and Broadcast under the lock.  The caller may
\* hold the Client of a connection that has stopped or ended.
ServerHello(m) ==
    /\ Len(sent) < MaxPushes
    /\ queue' = Append(queue, m)
    /\ sent' = Append(sent, m)
    /\ Wake
    /\ missed' = (missed \/ pc = "window")
    /\ UNCHANGED <<q, hand, ending, pumperVars, unheard>>

\* The loop test of Client.a.  (Client.q is read without a lock.)
SenderTests ==
    /\ pc = "test"
    /\ pc' = IF q THEN "done" ELSE "take"
    /\ UNCHANGED <<queue, q, hand, ending, pumperVars, sent, missed, unheard>>

\* A take that leaves the element in the list.
Mutant_SenderTakesKeeps ==
    /\ pc = "take"
    /\ \/ /\ queue # <<>>
          /\ hand' = <<Head(queue)>>
          /\ pc' = "output"
          /\ UNCHANGED <<queue, missed>>
       \/ /\ queue = <<>>
          /\ pc' = "window"
          /\ missed' = FALSE
          /\ UNCHANGED <<queue, hand>>
    /\ UNCHANGED <<q, ending, pumperVars, sent, unheard>>

\* First critical section: take the front of the queue, if there is one.
SenderTakes ==
    /\ pc = "take"
    /\ \/ /\ queue # <<>>
          /\ hand' = <<Head(queue)>>
          /\ queue' = Tail(queue)
          /\ pc' = "output"
          /\ UNCHANGED missed
       \/ /\ queue = <<>>
          /\ pc' = "window"
          /\ missed' = FALSE
          /\ UNCHANGED <<queue, hand>>
    /\ UNCHANGED <<q, ending, pumperVars, sent, unheard>>

\* Second critical section: Wait enlists the goroutine and releases the lock.
SenderWaits ==
    /\ pc = "window"
    /\ pc' = "parked"
    /\ UNCHANGED <<queue, q, hand, ending, pumperVars, sent, missed, unheard>>

\* Marshal and Output, with the lock free.
SenderOutputs ==
    /\ pc = "output"
    /\ \/ conn = "open" /\ Len(outq) < OutqueueN /\ outq' = outq \o hand
       \/ conn = "stopped" /\ UNCHANGED outq
    /\ hand' = <<>>
    /\ pc' = "test"
    /\ UNCHANGED <<queue, q, ending, conn, wire, sent, missed, unheard>>

-----------------------------------------------------------------------------
\* The pumper (external): it writes in order until it stops, and what is in
\* its out-queue then is never written.
PumperWrites ==
    /\ conn = "open"
    /\ outq # <<>>
    /\ wire' = Append(wire, Head(outq))
    /\ outq' = Tail(outq)
    /\ UNCHANGED <<queue, q, senderVars, ending, conn, sent, missed, unheard>>

PumperStops ==
    /\ conn = "open"
    /\ conn' = "stopped"
    /\ UNCHANGED <<queue, q, senderVars, ending, outq, wire, sent, missed, unheard>>

\* An ending that signals without having set c.q.
Mutant_EndingForgetsQuit ==
    /\ ending = "watch"
    /\ conn = "stopped"
    /\ ending' = "signal"
    /\ UNCHANGED <<queue, q, senderVars, pumperVars, sent, missed, unheard>>

\* Client.ending, after removeClient: c.q = true, without the lock.
EndingQuits ==
    /\ ending = "watch"
    /\ conn = "stopped"
    /\ q' = TRUE
    /\ ending' = "signal"
    /\ UNCHANGED <<queue, senderVars, pumperVars, sent, missed, unheard>>

\* c.condition.Signal(), without the lock.
EndingSignals ==
    /\ ending = "signal"
    /\ Wake
    /\ unheard' = (pc \in {"take", "window"})
    /\ ending' = "done"
    /\ UNCHANGED <<queue, q, hand, pumperVars, sent, missed>>

Sender == SenderTests \/ SenderTakes \/ SenderWaits \/ SenderOutputs

Next ==
    \/ \E m \in Messages : ServerHello(m)
    \/ Sender
    \/ PumperWrites
    \/ PumperStops
    \/ EndingQuits
    \/ EndingSignals

Spec == Init /\ [][Next]_vars

\* Both goroutines keep running, and the peer keeps reading.  A connection
\* need never stop and nobody need ever push.
FairSpec ==
    /\ Spec
    /\ WF_vars(Sender)
    /\ WF_vars(PumperWrites)
    /\ WF_vars(EndingQuits \/ EndingSignals)

-----------------------------------------------------------------------------
\* On a live connection every pushed message is, once and in push order, on
\* the wire, in the out-queue, in the hand of Client.a or in Client.queue;
\* afterwards what reached the pumper is still a prefix of what was pushed.
PushOrder ==
    LET out == wire \o outq
    IN  /\ Len(out) <= Len(sent)
        /\ \A i \in 1..Len(out) : out[i] = sent[i]
        /\ conn = "open" => sent = out \o (hand \o queue)

\* A goroutine parked on the condition variable owes nothing it was told of:
\* unless a push fell into its window Client.queue is empty, and unless the
\* signal came after its test of c.q Client.ending has not signalled.
ParkedOwesNothing ==
    pc = "parked" => /\ ~missed => queue = <<>>
                     /\ ~unheard => ending # "done"

\* Every pushed message is written to a live connection, unless Client.a
\* missed a broadcast and is parked with messages waiting.
PushesArrive ==
    \A n \in 1..MaxPushes :
        Len(sent) >= n ~> \/ Len(wire) >= n
                          \/ conn # "open"
                          \/ pc = "parked" /\ missed

\* Client.a ends with its client, whatever it was doing (blocked in Output
\* included), unless it did not hear the signal.
SenderEnds == ending = "done" ~> pc = "done" \/ (pc = "parked" /\ unheard)

\* The inductive invariant behind the theorems of PushQueueProofs.
PushInv ==
    /\ TypeOK
    /\ PushOrder
    /\ ParkedOwesNothing
    /\ pc # "output" => hand = <<>>
    /\ pc = "window" /\ ~missed => queue = <<>>
    /\ pc \in {"take", "window"} /\ ~unheard => ending # "done"
    /\ ending # "watch" => conn = "stopped" /\ q
=============================================================================
