--------------------------- MODULE PushQueueProofs ---------------------------
(***************************************************************************)
(* Proofs about PushQueue, for every set of messages, every out-queue      *)
(* capacity and any number of pushes.                                      *)
(***************************************************************************)
EXTENDS PushQueue, TLAPS

\* Appending to the second part appends to the whole.
LEMMA AppendSecond ==
    ASSUME NEW a \in Seq(Messages), NEW b \in Seq(Messages), NEW x \in Messages
    PROVE  Append(a \o b, x) = a \o Append(b, x)
OBVIOUS

\* The same for the last of three parts.
LEMMA AppendLast ==
    ASSUME NEW a \in Seq(Messages), NEW b \in Seq(Messages), NEW c \in Seq(Messages), NEW x \in Messages
    PROVE  Append(a \o (b \o c), x) = a \o (b \o Append(c, x))
<1> DEFINE d == b \o c
<1>0. d \in Seq(Messages)
  OBVIOUS
<1>1. Append(d, x) = b \o Append(c, x)
  BY AppendSecond, Zenon
<1> HIDE DEF d
<1>2. Append(a \o d, x) = a \o Append(d, x)
  BY <1>0, AppendSecond, Zenon
<1> QED
  BY <1>1, <1>2, Zenon DEF d

\* Moving the front element from one sequence to the end of the one before.
LEMMA MoveFront ==
    ASSUME NEW a \in Seq(Messages), NEW b \in Seq(Messages), b # <<>>
    PROVE  /\ Append(a, Head(b)) \in Seq(Messages)
           /\ Tail(b) \in Seq(Messages)
           /\ Append(a, Head(b)) \o Tail(b) = a \o b
           /\ <<Head(b)>> \in Seq(Messages)
           /\ <<Head(b)>> \o Tail(b) = b
OBVIOUS

\* The empty sequence in front.
LEMMA EmptyFirst ==
    ASSUME NEW d \in Seq(Messages)
    PROVE  <<>> \o d = d
OBVIOUS

\* What is split into two parts begins with the first.
LEMMA FrontIsPrefix ==
    ASSUME NEW a \in Seq(Messages), NEW b \in Seq(Messages)
    PROVE  Len(a) <= Len(a \o b) /\ \A i \in 1..Len(a) : a[i] = (a \o b)[i]
OBVIOUS

-----------------------------------------------------------------------------
\* A push.
LEMMA ServerHelloStep ==
    ASSUME PushInv, NEW m \in Messages, ServerHello(m)
    PROVE  PushInv'
<1> USE DEF PushInv, ServerHello, Wake, pumperVars
<1>1. TypeOK'
  BY DEF TypeOK
<1>2. PushOrder'
  <2> DEFINE out == wire \o outq
  <2>0. out \in Seq(Messages) /\ out' = out /\ sent \in Seq(Messages)
    BY DEF TypeOK
  <2>1. Len(out) <= Len(sent') /\ \A i \in 1..Len(out) : out[i] = sent'[i]
    <3>1. Len(out) <= Len(sent) /\ \A i \in 1..Len(out) : out[i] = sent[i]
      BY DEF PushOrder
    <3>2. Len(sent') = Len(sent) + 1 /\ \A i \in 1..Len(sent) : sent'[i] = sent[i]
      BY DEF TypeOK
    <3>3. Len(out) \in Nat /\ Len(sent) \in Nat
      BY DEF TypeOK
    <3> QED
      BY <3>1, <3>2, <3>3
  <2>2. ASSUME conn = "open" PROVE sent' = out \o (hand \o queue')
    <3>1. sent = out \o (hand \o queue)
      BY <2>2 DEF PushOrder
    <3>2. Append(out \o (hand \o queue), m) = out \o (hand \o Append(queue, m))
      <4> HIDE DEF out
      <4>1. hand \in Seq(Messages) /\ queue \in Seq(Messages)
        BY DEF TypeOK
      <4> HIDE DEF PushInv, ServerHello
      <4> DEFINE Cat(a, b) == a \o b
                 Add(a, x) == Append(a, x)
      <4>2. \A a, b, c \in Seq(Messages) : \A x \in Messages :
              Add(Cat(a, Cat(b, c)), x) = Cat(a, Cat(b, Add(c, x)))
        BY AppendLast
      <4> HIDE DEF Cat, Add
      <4>3. Add(Cat(out, Cat(hand, queue)), m) = Cat(out, Cat(hand, Add(queue, m)))
        BY <2>0, <4>1, <4>2
      <4> QED
        BY <4>3 DEF Cat, Add
    <3> QED
      BY <3>1, <3>2
  <2> QED
    BY <2>0, <2>1, <2>2 DEF PushOrder
<1>3. ParkedOwesNothing'
  BY DEF ParkedOwesNothing, TypeOK
<1> QED
  BY <1>1, <1>2, <1>3 DEF TypeOK, ParkedOwesNothing

\* Steps that move no message.
LEMMA SilentStep ==
    ASSUME PushInv,
           SenderTests \/ SenderWaits \/ PumperStops \/ EndingQuits \/ EndingSignals
    PROVE  PushInv'
<1> USE DEF PushInv, SenderTests, SenderWaits, PumperStops, EndingQuits,
            EndingSignals, Wake, pumperVars, senderVars
<1>1. UNCHANGED <<queue, hand, outq, wire, sent>> /\ (conn' = "open" => conn = "open")
  OBVIOUS
<1>2. TypeOK'
  <2>1. q' \in BOOLEAN /\ missed' \in BOOLEAN /\ unheard' \in BOOLEAN
    <3>1. /\ missed' = missed
          /\ q' = q \/ q' = TRUE
          /\ unheard' = unheard \/ unheard' = (pc \in {"take", "window"})
      BY Zenon
    <3>2. q \in BOOLEAN /\ missed \in BOOLEAN /\ unheard \in BOOLEAN
      BY DEF TypeOK
    <3> HIDE DEF PushInv, EndingSignals, EndingQuits, SenderTests, SenderWaits, PumperStops
    <3>3. (pc \in {"take", "window"}) \in BOOLEAN
      BY SMT
    <3> QED
      BY <3>1, <3>2, <3>3, Zenon
  <2> QED
    BY <1>1, <2>1 DEF TypeOK
<1>3. PushOrder'
  BY <1>1 DEF PushOrder
<1>4. ParkedOwesNothing'
  BY DEF ParkedOwesNothing, TypeOK
<1> QED
  BY <1>1, <1>2, <1>3, <1>4 DEF TypeOK

\* Client.a takes the front of the queue, or finds it empty.
LEMMA SenderTakesStep ==
    ASSUME PushInv, SenderTakes
    PROVE  PushInv'
<1> USE DEF PushInv, SenderTakes, pumperVars
<1>1. CASE queue # <<>>
  <2>1. /\ hand = <<>> /\ hand' = <<Head(queue)>> /\ queue' = Tail(queue)
        /\ UNCHANGED <<q, ending, conn, outq, wire, sent, missed, unheard>>
        /\ pc' = "output"
    BY <1>1
  <2>2. hand' \in Seq(Messages) /\ queue' \in Seq(Messages) /\ hand' \o queue' = queue
    BY <1>1, <2>1, MoveFront DEF TypeOK
  <2>3. TypeOK'
    BY <2>1, <2>2 DEF TypeOK
  <2>4. hand \o queue = queue
    BY <2>1, EmptyFirst DEF TypeOK
  <2>5. PushOrder'
    BY <2>1, <2>2, <2>4 DEF PushOrder
  <2> QED
    BY <2>1, <2>3, <2>5 DEF ParkedOwesNothing
<1>2. CASE queue = <<>>
  <2>1. /\ UNCHANGED <<queue, hand, q, ending, conn, outq, wire, sent, unheard>>
        /\ pc' = "window" /\ missed' = FALSE
    BY <1>2
  <2>2. TypeOK' /\ PushOrder'
    BY <2>1 DEF TypeOK, PushOrder
  <2> QED
    BY <1>2, <2>1, <2>2 DEF ParkedOwesNothing
<1> QED
  BY <1>1, <1>2

\* Client.a hands its message to the pumper, or gives it up.
LEMMA SenderOutputsStep ==
    ASSUME PushInv, SenderOutputs
    PROVE  PushInv'
<1> USE DEF PushInv, SenderOutputs
<1>0. UNCHANGED <<queue, q, ending, conn, wire, sent, missed, unheard>>
  OBVIOUS
<1>1. TypeOK'
  <2>0. /\ hand' = <<>>
        /\ outq' = outq \o hand \/ outq' = outq
        /\ pc' = "test"
    OBVIOUS
  <2>1. hand' \in Seq(Messages) /\ outq' \in Seq(Messages)
    <3>1. outq \o hand \in Seq(Messages) /\ <<>> \in Seq(Messages)
      BY DEF TypeOK
    <3> QED
      BY <2>0, <3>1, Zenon DEF TypeOK
  <2> QED
    BY <1>0, <2>0, <2>1 DEF TypeOK
<1>2. PushOrder'
  <2>1. CASE conn = "open"
    <3> DEFINE out == wire \o outq
    <3>1. outq' = outq \o hand /\ hand' = <<>>
      BY <2>1
    <3>2. sent = out \o (hand \o queue)
      BY <2>1 DEF PushOrder
    <3>3. sent = out' \o (hand' \o queue')
      <4>1. /\ wire \in Seq(Messages) /\ outq \in Seq(Messages)
            /\ hand \in Seq(Messages) /\ queue \in Seq(Messages)
        BY DEF TypeOK
      <4>2. (wire \o outq) \o (hand \o queue) = (wire \o (outq \o hand)) \o (<<>> \o queue)
        <5> HIDE DEF PushInv, SenderOutputs
        <5> DEFINE Cat(a, b) == a \o b
        <5>1. \A a, b, c, d \in Seq(Messages) :
                Cat(Cat(a, b), Cat(c, d)) = Cat(Cat(a, Cat(b, c)), Cat(<<>>, d))
          <6> TAKE a, b, c, d \in Seq(Messages)
          <6> QED
            OBVIOUS
        <5> HIDE DEF Cat
        <5>2. Cat(Cat(wire, outq), Cat(hand, queue))
                = Cat(Cat(wire, Cat(outq, hand)), Cat(<<>>, queue))
          BY <4>1, <5>1
        <5> QED
          BY <5>2 DEF Cat
      <4> QED
        BY <1>0, <3>1, <3>2, <4>2, Zenon
    <3>4. out' \in Seq(Messages) /\ hand' \o queue' \in Seq(Messages)
      BY <1>1 DEF TypeOK
    <3> HIDE DEF out
    <3>5. Len(out') <= Len(sent) /\ \A i \in 1..Len(out') : out'[i] = sent[i]
      BY <3>3, <3>4, FrontIsPrefix
    <3> QED
      BY <1>0, <3>3, <3>5 DEF PushOrder, out
  <2>2. CASE conn = "stopped"
    BY <1>0, <2>2 DEF PushOrder
  <2> QED
    BY <2>1, <2>2 DEF TypeOK
<1> QED
  BY <1>0, <1>1, <1>2 DEF ParkedOwesNothing

\* The pumper writes the front of its out-queue.
LEMMA PumperWritesStep ==
    ASSUME PushInv, PumperWrites
    PROVE  PushInv'
<1> USE DEF PushInv, PumperWrites, senderVars
<1>1. /\ wire' \in Seq(Messages) /\ outq' \in Seq(Messages)
      /\ wire' \o outq' = wire \o outq
  BY MoveFront DEF TypeOK
<1>2. TypeOK'
  BY <1>1 DEF TypeOK
<1>3. PushOrder'
  BY <1>1 DEF PushOrder
<1> QED
  BY <1>2, <1>3 DEF ParkedOwesNothing

\* The inductive invariant of the push path.
THEOREM PushInvariant == Spec => []PushInv
<1>1. Init => PushInv
  <2> SUFFICES ASSUME Init PROVE PushInv
    OBVIOUS
  <2>1. TypeOK
    <3>1. <<>> \in Seq(Messages)
      OBVIOUS
    <3> QED
      BY <3>1, Zenon DEF Init, TypeOK
  <2>2. PushOrder
    BY DEF Init, PushOrder
  <2> QED
    BY <2>1, <2>2 DEF Init, PushInv, ParkedOwesNothing
<1>2. PushInv /\ [Next]_vars => PushInv'
  <2> SUFFICES ASSUME PushInv, [Next]_vars PROVE PushInv'
    OBVIOUS
  <2>1. CASE \E m \in Messages : ServerHello(m)
    BY <2>1, ServerHelloStep
  <2>2. CASE Sender
    BY <2>2, SilentStep, SenderTakesStep, SenderOutputsStep DEF Sender
  <2>3. CASE PumperWrites
    BY <2>3, PumperWritesStep
  <2>4. CASE PumperStops \/ EndingQuits \/ EndingSignals
    BY <2>4, SilentStep
  <2>5. CASE UNCHANGED vars
    BY <2>5 DEF vars, senderVars, pumperVars, PushInv, TypeOK, PushOrder,
                ParkedOwesNothing
  <2> QED
    BY <2>1, <2>2, <2>3, <2>4, <2>5 DEF Next
<1> QED
  BY <1>1, <1>2, PTL DEF Spec

\* No message overtakes, repeats or disappears on a live connection.
THEOREM PushesInOrder == Spec => []PushOrder
<1>1. PushInv => PushOrder
  BY DEF PushInv
<1> QED
  BY <1>1, PushInvariant, PTL

\* Only the window between take and Wait can strand a message or the sender.
THEOREM ParkedIsSettled == Spec => []ParkedOwesNothing
<1>1. PushInv => ParkedOwesNothing
  BY DEF PushInv
<1> QED
  BY <1>1, PushInvariant, PTL
=============================================================================
