---------------------------- MODULE CodecsProofs ----------------------------
(***************************************************************************)
(* The codecs at the edges of the connector: a message of the router for   *)
(* any ids, texts and number of targets, and a token for any text and any  *)
(* key length.                                                             *)
(***************************************************************************)
EXTENDS RouterMessage, TokenCodec, SequenceTheorems, TLAPS

-----------------------------------------------------------------------------
(***************************************************************************)
(* The message of the router.                                              *)
(***************************************************************************)

\* A message is what Unmarshal made of its payload, and the object for the
\* clients is what convert made of the message.
Converted ==
    /\ form \in Forms
    /\ payload \in Fields
    /\ stage \in {"none", "decoded", "pushed"}
    /\ stage # "none" => message = Unmarshal(form, payload)
    /\ stage = "pushed" => hello = Convert(message)

\* The cache of Marshal is filled by the first and only run, and a sender
\* that has finished has its result.
CachedOnce ==
    /\ runs \in {0, 1}
    /\ serialized = runs
    /\ spc \in [Senders -> {"idle", "missed", "done"}]
    /\ got \in [Senders -> {0, 1}]
    /\ \A s \in Senders : spc[s] = "done" => got[s] = serialized /\ serialized # 0

\* The inductive invariant of the message.
RouterInv == Converted /\ CachedOnce

\* Reception, conversion and the two critical sections of Marshal keep it.
LEMMA RouterStep == RouterInv /\ [Next]_vars => RouterInv'
<1> SUFFICES ASSUME RouterInv, [Next]_vars PROVE RouterInv'
  OBVIOUS
<1> USE DEF RouterInv
<1>1. ASSUME NEW f \in Forms, NEW p \in Fields, Receive(f, p) PROVE RouterInv'
  <2>1. Converted'
    BY <1>1 DEF Receive, Converted
  <2>2. CachedOnce'
    BY <1>1 DEF Receive, CachedOnce
  <2> QED
    BY <2>1, <2>2
<1>2. CASE Push
  <2>1. Converted'
    BY <1>2 DEF Push, Converted
  <2>2. CachedOnce'
    BY <1>2 DEF Push, CachedOnce
  <2> QED
    BY <2>1, <2>2
<1>3. ASSUME NEW s \in Senders, MarshalReads(s) PROVE RouterInv'
  <2>1. Converted'
    BY <1>3 DEF MarshalReads, Converted
  <2>2. CachedOnce'
    BY <1>3 DEF MarshalReads, CachedOnce
  <2> QED
    BY <2>1, <2>2
<1>4. ASSUME NEW s \in Senders, MarshalEncodes(s) PROVE RouterInv'
  <2>1. Converted'
    BY <1>4 DEF MarshalEncodes, Converted
  <2>2. runs' = 1 /\ serialized' = 1
    BY <1>4 DEF MarshalEncodes, CachedOnce
  <2>3. CachedOnce'
    BY <1>4, <2>2 DEF MarshalEncodes, CachedOnce
  <2> QED
    BY <2>1, <2>3
<1>5. CASE UNCHANGED vars
  BY <1>5 DEF vars, Converted, CachedOnce
<1> QED
  BY <1>1, <1>2, <1>3, <1>4, <1>5 DEF Next

\* The message of the router is decoded, converted and encoded as the
\* invariant says, whatever order its senders run in.
THEOREM RouterInvariant == Spec => []RouterInv
<1>1. Init => RouterInv
  <2> SUFFICES ASSUME Init PROVE RouterInv
    OBVIOUS
  <2>1. Blank \in Fields
    BY DEF Blank, Fields, Names
  <2>2. Converted
    BY <2>1 DEF Init, Converted, Forms
  <2>3. CachedOnce
    BY DEF Init, CachedOnce
  <2> QED
    BY <2>2, <2>3 DEF RouterInv
<1> QED
  BY <1>1, RouterStep, PTL DEF Spec

\* FromRouterMessage.Unmarshal names no target that the payload does not
\* name, in its current or in its deprecated field.
LEMMA UnmarshalTargets ==
    ASSUME NEW f \in Forms, NEW p \in Fields
    PROVE  /\ Users(Unmarshal(f, p)) \subseteq {p.toUserId, p.userId}
           /\ Rooms(Unmarshal(f, p)) \subseteq {p.toRoomId, p.roomId}
           /\ ToWorld(Unmarshal(f, p)) => World \in {p.toRoomId, p.roomId}
           /\ f = "garbled" => /\ Users(Unmarshal(f, p)) \cup Rooms(Unmarshal(f, p)) = {}
                               /\ ~ToWorld(Unmarshal(f, p))
<1>1. CASE f = "valid"
  BY <1>1 DEF Unmarshal, Users, Rooms, ToWorld
<1>2. CASE f = "garbled"
  <2>1. Unmarshal(f, p) = Fallback(Blank)
    BY <1>2 DEF Unmarshal, Decoded
  <2>2. Fallback(Blank).toUserId = Empty /\ Fallback(Blank).toRoomId = Empty
    BY DEF Fallback, Blank
  <2>3. Empty # World
    BY RouterAssumption
  <2> QED
    BY <2>1, <2>2, <2>3 DEF Users, Rooms, ToWorld
<1>3. CASE f = "mistyped"
  <2>1. Unmarshal(f, p) = Fallback(p)
    BY <1>3 DEF Unmarshal, Decoded
  <2>2. /\ Fallback(p).toUserId \in {Empty, p.userId, p.toUserId}
        /\ Fallback(p).toRoomId \in {p.roomId, p.toRoomId}
    BY DEF Fallback, Fields
  <2> QED
    BY <1>3, <2>1, <2>2 DEF Users, Rooms, ToWorld
<1> QED
  BY <1>1, <1>2, <1>3 DEF Forms

\* A message goes to nobody its payload does not name, however broken the
\* payload is (FromRouterMessage.Unmarshal and handleSubscription).
THEOREM OnlyNamedTargetsTheorem == Spec => []OnlyNamedTargets
<1>1. RouterInv => OnlyNamedTargets
  BY UnmarshalTargets DEF RouterInv, Converted, OnlyNamedTargets
<1> QED
  BY <1>1, RouterInvariant, PTL

\* json.Marshal writes every field but the two that share a tag, each under
\* its own name.
LEMMA WireFields ==
    /\ Wire["toUserId"] = hello["ToUserId"] /\ Wire["toRoomId"] = hello["ToRoomId"]
    /\ Wire["userId"] = hello["UserId"] /\ Wire["roomId"] = hello["RoomId"]
    /\ Wire["params"] = hello["Params"]
<1>1. DOMAIN Tag = {"ToUserId", "ToRoomId", "Params", "UserId", "RoomId", "Content",
                    "Importance"}
  BY DEF Tag
<1>2. /\ Tag["ToUserId"] = "toUserId" /\ Tag["ToRoomId"] = "toRoomId"
      /\ Tag["Params"] = "params" /\ Tag["UserId"] = "userId" /\ Tag["RoomId"] = "roomId"
      /\ Tag["Content"] = "content" /\ Tag["Importance"] = "content"
  BY DEF Tag
<1>3. Written = {"ToUserId", "ToRoomId", "Params", "UserId", "RoomId"}
  BY <1>1, <1>2 DEF Written
<1>4. ASSUME NEW f \in Written
      PROVE  Wire[Tag[f]] = hello[f]
  <2>1. \A g \in Written : Tag[g] = Tag[f] => g = f
    BY <1>2, <1>3
  <2>2. (CHOOSE g \in Written : Tag[g] = Tag[f]) = f
    BY <2>1
  <2>3. Tag[f] \in {Tag[g] : g \in Written}
    OBVIOUS
  <2> QED
    BY <2>2, <2>3 DEF Wire
<1> QED
  BY <1>2, <1>3, <1>4

\* All targets send the same bytes, encoded once, and these say what a valid
\* payload said (ToClientMessage.Marshal and convert).
THEOREM EncodedOnceTheorem == Spec => []EncodedOnce
<1>1. RouterInv => EncodedOnce
  <2> SUFFICES ASSUME RouterInv PROVE EncodedOnce
    OBVIOUS
  <2>1. /\ runs <= 1
        /\ \A s \in Senders : spc[s] = "done" => got[s] = serialized /\ serialized # 0
    BY DEF RouterInv, CachedOnce
  <2>2. ASSUME stage = "pushed", form = "valid"
        PROVE  hello = Convert(payload)
    BY <2>2 DEF RouterInv, Converted, Unmarshal
  <2>3. ASSUME stage = "pushed", form = "valid"
        PROVE  /\ hello["ToUserId"] = payload.toUserId /\ hello["ToRoomId"] = payload.toRoomId
               /\ hello["UserId"] = payload.toUserId /\ hello["RoomId"] = payload.toRoomId
               /\ hello["Params"] = payload.params
    BY <2>2, <2>3 DEF Convert
  <2> QED
    BY <2>1, <2>3, WireFields DEF EncodedOnce
<1> QED
  BY <1>1, RouterInvariant, PTL

-----------------------------------------------------------------------------
(***************************************************************************)
(* The token.                                                              *)
(***************************************************************************)

\* Two digits make a byte that gives them back.
LEMMA ByteDigits ==
    ASSUME NEW hi \in 0..15, NEW lo \in 0..15
    PROVE  ToByte(hi, lo) \div 16 = hi /\ ToByte(hi, lo) % 16 = lo
<1>1. ToByte(hi, lo) = hi * 16 + lo
  BY DEF ToByte, Index, Other
<1> QED
  BY <1>1

\* Halves of a length and of a place.
LEMMA Halves ==
    ASSUME NEW m \in Nat
    PROVE  /\ ((m + 1) \div 2) \in Nat
           /\ m % 2 = 0 => 2 * ((m + 1) \div 2) = m
           /\ m % 2 = 1 => 2 * ((m + 1) \div 2) - 1 = m
           /\ m % 2 = 0 => 2 * (m \div 2) = m
           /\ m % 2 \in {0, 1}
           /\ m = 0 <=> (m + 1) \div 2 = 0
OBVIOUS

\* The bytes of a text.
LEMMA HexFacts ==
    ASSUME NEW t \in Seq(0..Other)
    PROVE  /\ HexToBytes(t) \in Seq(Int)
           /\ Len(HexToBytes(t)) = (Len(t) + 1) \div 2
           /\ \A i \in 1..((Len(t) + 1) \div 2) :
                HexToBytes(t)[i] = ToByte(t[2 * i - 1], IF 2 * i <= Len(t) THEN t[2 * i] ELSE Other)
<1> DEFINE m == (Len(t) + 1) \div 2
           e(i) == ToByte(t[2 * i - 1], IF 2 * i <= Len(t) THEN t[2 * i] ELSE Other)
<1>1. m \in Nat /\ Len(t) \in Nat
  BY Halves
<1>2. \A a, b \in 0..Other : ToByte(a, b) \in Int
  BY DEF ToByte, Index, Other
<1>3. ASSUME NEW i \in 1..m PROVE e(i) \in Int
  <2>1. 2 * i - 1 \in 1..Len(t)
    BY <1>1
  <2>2. 2 * i <= Len(t) => 2 * i \in 1..Len(t)
    BY <1>1
  <2>3. Other \in 0..Other
    BY DEF Other
  <2>4. t[2 * i - 1] \in 0..Other /\ (IF 2 * i <= Len(t) THEN t[2 * i] ELSE Other) \in 0..Other
    BY <2>1, <2>2, <2>3, SMTT(30)
  <2> QED
    BY <1>2, <2>4
<1> HIDE DEF m, e
<1>4. [i \in 1..m |-> e(i)] \in Seq(Int) /\ Len([i \in 1..m |-> e(i)]) = m
  BY <1>1, <1>3
<1>5. HexToBytes(t) = [i \in 1..m |-> e(i)]
  BY DEF HexToBytes, m, e
<1>6. \A i \in 1..m : HexToBytes(t)[i] = e(i)
  BY <1>5
<1> QED
  BY <1>4, <1>5, <1>6 DEF m, e

\* hexToBytes inverts the hexadecimal notation, for every text.
LEMMA HexInverted ==
    ASSUME NEW t \in Seq(0..Other), WellFormed(t)
    PROVE  Hex(HexToBytes(t)) = t
<1> DEFINE b == HexToBytes(t)
           m == (Len(t) + 1) \div 2
<1>1. Len(t) \in Nat /\ Len(t) % 2 = 0 /\ \A i \in 1..Len(t) : t[i] \in 0..15
  BY DEF WellFormed
<1>2. m \in Nat /\ 2 * m = Len(t)
  BY <1>1, Halves
<1>3. b \in Seq(Int) /\ Len(b) = m
  BY HexFacts
<1>4. ASSUME NEW i \in 1..m
      PROVE  b[i] \div 16 = t[2 * i - 1] /\ b[i] % 16 = t[2 * i]
  <2>1. 2 * i - 1 \in 1..Len(t) /\ 2 * i \in 1..Len(t) /\ 2 * i <= Len(t)
    BY <1>1, <1>2
  <2>2. b[i] = ToByte(t[2 * i - 1], t[2 * i])
    BY <2>1, HexFacts
  <2>3. t[2 * i - 1] \in 0..15 /\ t[2 * i] \in 0..15
    BY <1>1, <2>1
  <2>4. /\ ToByte(t[2 * i - 1], t[2 * i]) \div 16 = t[2 * i - 1]
        /\ ToByte(t[2 * i - 1], t[2 * i]) % 16 = t[2 * i]
    BY ONLY <2>3, ByteDigits
  <2> HIDE DEF b
  <2> QED
    BY <2>2, <2>4
<1> HIDE DEF b, m
<1>5. ASSUME NEW j \in 1..Len(t)
      PROVE  (IF j % 2 = 1 THEN b[(j + 1) \div 2] \div 16 ELSE b[j \div 2] % 16) = t[j]
  <2>1. CASE j % 2 = 1
    <3>1. (j + 1) \div 2 \in 1..m /\ 2 * ((j + 1) \div 2) - 1 = j
      BY <1>1, <1>2, <2>1, Halves
    <3> QED
      BY <1>4, <2>1, <3>1
  <2>2. CASE j % 2 # 1
    <3>1. j \div 2 \in 1..m /\ 2 * (j \div 2) = j
      BY <1>1, <1>2, <2>2, Halves
    <3> QED
      BY <1>4, <2>2, <3>1
  <2> QED
    BY <2>1, <2>2
<1>6. Hex(b) = [j \in 1..Len(t) |-> t[j]]
  BY <1>2, <1>3, <1>5 DEF Hex
<1>7. t = [j \in 1..Len(t) |-> t[j]]
  BY <1>1
<1> QED
  BY <1>6, <1>7 DEF b

\* Division with remainder.
LEMMA Division ==
    ASSUME NEW a \in Nat, NEW n \in Nat \ {0}
    PROVE  /\ (a \div n) \in Nat /\ (a % n) \in Nat
           /\ a = (a \div n) * n + (a % n) /\ (a % n) < n
OBVIOUS

\* Multiples keep the order of their factors.
LEMMA Multiples ==
    ASSUME NEW a \in Nat, NEW b \in Nat, NEW n \in Nat \ {0}
    PROVE  /\ a * n \in Nat
           /\ a <= b => a * n <= b * n
           /\ a < b => a * n + n <= b * n
           /\ (a + 1) * n = a * n + n
<1>1. a * n \in Nat /\ b * n \in Nat
  OBVIOUS
<1>2. (a + 1) * n = a * n + n
  OBVIOUS
<1>3. a <= b => a * n <= b * n
  <2>1. b * n = a * n + (b - a) * n
    OBVIOUS
  <2>2. a <= b => (b - a) * n >= 0
    OBVIOUS
  <2> QED
    BY <1>1, <2>1, <2>2
<1>4. a < b => a * n + n <= b * n
  <2>1. b * n = (a * n + n) + (b - (a + 1)) * n
    OBVIOUS
  <2>2. a < b => (b - (a + 1)) * n >= 0
    OBVIOUS
  <2> QED
    BY <1>1, <2>1, <2>2
<1> QED
  BY <1>1, <1>2, <1>3, <1>4
\* How the groups s of splitBytes lie in the bytes b: where each begins, how
\* long it is and what it holds.
Partition(s, b, n) ==
    /\ Len(b) = 0 <=> Len(s) = 0
    /\ \A i \in 1..Len(s) :
        /\ (i - 1) * n \in Nat
        /\ i < Len(s) => Len(s[i]) = n
        /\ i = Len(s) => Len(s[i]) \in 1..n /\ Len(b) = (i - 1) * n + Len(s[i])
        /\ \A k \in 1..Len(s[i]) : s[i][k] = b[(i - 1) * n + k]

\* splitBytes makes such groups, for every length and every block length.
LEMMA SplitFacts ==
    ASSUME NEW b \in Seq(Int), NEW n \in Nat \ {0}
    PROVE  SplitBytes(b, n) \in Seq(Seq(Int)) /\ Partition(SplitBytes(b, n), b, n)
<1> DEFINE l == Len(b)
           q == l \div n
           r == l % n
           x == Groups(b, n)
           g(i) == IF i = x /\ r # 0 THEN SubSeq(b, (i - 1) * n + 1, l)
                                     ELSE SubSeq(b, (i - 1) * n + 1, i * n)
<1>1. l \in Nat /\ q \in Nat /\ r \in Nat /\ l = q * n + r /\ r < n
  BY Division
<1>2. x = IF r # 0 THEN q + 1 ELSE q
  BY DEF Groups
<1>0. \A i \in 1..l : b[i] \in Int
  OBVIOUS
<1>s. SplitBytes(b, n) = [i \in 1..x |-> g(i)]
  BY DEF SplitBytes
<1> HIDE DEF l, q, r, x
<1>3. x \in Nat /\ q <= x
  BY <1>1, <1>2
<1>4. l = 0 <=> x = 0
  <2>1. CASE q = 0
    BY <1>1, <1>2, <2>1
  <2>2. CASE q # 0
    <3>1. 0 * n + n <= q * n
      BY <1>1, <2>2, Multiples
    <3> QED
      BY <1>1, <1>2, <2>2, <3>1
  <2> QED
    BY <2>1, <2>2
<1>5. ASSUME NEW i \in 1..x
      PROVE  /\ (i - 1) * n \in Nat
             /\ g(i) \in Seq(Int)
             /\ i < x => Len(g(i)) = n
             /\ i = x => Len(g(i)) \in 1..n /\ l = (i - 1) * n + Len(g(i))
             /\ \A k \in 1..Len(g(i)) : g(i)[k] = b[(i - 1) * n + k]
  <2> DEFINE o == (i - 1) * n
  <2>1. i - 1 \in Nat /\ (i - 1) + 1 = i
    BY <1>3
  <2>2. o \in Nat /\ i * n = o + n
    BY <2>1, Multiples
  <2>3. CASE i = x /\ r # 0
    <3>1. i - 1 = q
      BY <1>1, <1>2, <2>3
    <3>2. l = o + r
      BY <1>1, <3>1
    <3>3. g(i) = SubSeq(b, o + 1, l)
      BY <2>3
    <3> HIDE DEF o, g
    <3>4. \A k \in (o + 1)..l : b[k] \in Int
      BY <1>0, <1>1, <2>2
    <3>5. /\ SubSeq(b, o + 1, l) \in Seq(Int)
          /\ Len(SubSeq(b, o + 1, l)) = r
          /\ \A k \in 1..r : SubSeq(b, o + 1, l)[k] = b[(o + 1) + k - 1]
      <4>1. o + 1 \in Int /\ l \in Int /\ o + 1 <= l /\ l - (o + 1) + 1 = r
        BY <1>1, <2>2, <2>3, <3>2
      <4> QED
        BY <3>4, <4>1, SubSeqProperties
    <3>6. \A k \in 1..r : (o + 1) + k - 1 = o + k
      BY <1>1, <2>2
    <3>7. r \in 1..n
      BY <1>1, <2>3
    <3> QED
      BY <2>2, <2>3, <3>2, <3>3, <3>5, <3>6, <3>7 DEF o
  <2>4. CASE ~(i = x /\ r # 0)
    <3>1. i <= q
      BY <1>1, <1>2, <2>4
    <3>2. i * n <= q * n
      BY <1>1, <3>1, <1>3, Multiples
    <3>3. o + n <= l
      BY <1>1, <2>2, <3>2
    <3>4. g(i) = SubSeq(b, o + 1, i * n)
      BY <2>4
    <3>5. i = x => l = o + n
      BY <1>1, <1>2, <2>2, <2>4
    <3> HIDE DEF o, g
    <3>6. \A k \in (o + 1)..(o + n) : b[k] \in Int
      BY <1>0, <1>1, <2>2, <3>3
    <3>7. /\ SubSeq(b, o + 1, o + n) \in Seq(Int)
          /\ Len(SubSeq(b, o + 1, o + n)) = n
          /\ \A k \in 1..n : SubSeq(b, o + 1, o + n)[k] = b[(o + 1) + k - 1]
      <4>1. o + 1 \in Int /\ o + n \in Int /\ o + 1 <= o + n /\ (o + n) - (o + 1) + 1 = n
        BY <2>2
      <4> QED
        BY <3>6, <4>1, SubSeqProperties
    <3>8. \A k \in 1..n : (o + 1) + k - 1 = o + k
      BY <2>2
    <3>9. n \in 1..n
      OBVIOUS
    <3> QED
      BY <2>2, <3>4, <3>5, <3>7, <3>8, <3>9 DEF o
  <2> QED
    BY <2>3, <2>4
<1> HIDE DEF g
<1>6. /\ SplitBytes(b, n) \in Seq(Seq(Int))
      /\ Len(SplitBytes(b, n)) = x
      /\ \A i \in 1..x : SplitBytes(b, n)[i] = g(i)
  <2> DEFINE S == Seq(Int)
             f == [i \in 1..x |-> g(i)]
  <2>1. \A i \in 1..x : g(i) \in S
    BY <1>5
  <2> HIDE DEF S
  <2>2. f \in [1..x -> S]
    BY <2>1
  <2>3. f \in Seq(S) /\ Len(f) = x
    BY <1>3, <2>2
  <2>4. \A i \in 1..x : f[i] = g(i)
    OBVIOUS
  <2>5. SplitBytes(b, n) = f
    BY <1>s
  <2> QED
    BY <2>3, <2>4, <2>5 DEF S
<1>7. \A i \in 1..x :
        /\ (i - 1) * n \in Nat
        /\ i < x => Len(g(i)) = n
        /\ i = x => Len(g(i)) \in 1..n /\ l = (i - 1) * n + Len(g(i))
        /\ \A k \in 1..Len(g(i)) : g(i)[k] = b[(i - 1) * n + k]
  BY <1>5
<1> QED
  BY <1>4, <1>6, <1>7, SMTT(30) DEF Partition, l

\* Every byte is in its place: the groups one behind the other are the input.
LEMMA SplitPlaces ==
    ASSUME NEW b \in Seq(Int), NEW n \in Nat \ {0}, NEW p \in 1..Len(b)
    PROVE  SplitBytes(b, n)[((p - 1) \div n) + 1][((p - 1) % n) + 1] = b[p]
<1> DEFINE s == SplitBytes(b, n)
           x == Len(s)
           q == (p - 1) \div n
           r == (p - 1) % n
           o == q * n
           last == (x - 1) * n
<1>1. p - 1 \in Nat /\ Len(b) \in Nat /\ Len(b) # 0
  OBVIOUS
<1>2. q \in Nat /\ r \in Nat /\ p - 1 = o + r /\ r < n
  BY <1>1, Division
<1>s. s \in Seq(Seq(Int)) /\ Partition(s, b, n)
  BY SplitFacts
<1> HIDE DEF s
<1>3. x \in Nat /\ x \in 1..x
  BY <1>1, <1>s DEF Partition
<1>4. last \in Nat /\ Len(s[x]) \in 1..n /\ Len(b) = last + Len(s[x])
  BY <1>3, <1>s DEF Partition
<1> HIDE DEF x, q, r, o
<1>o. o \in Nat
  BY <1>2, Multiples DEF o
<1>5. q + 1 \in 1..x
  <2> SUFFICES ASSUME x - 1 < q PROVE FALSE
    BY <1>2, <1>3
  <2>1. x - 1 \in Nat
    BY <1>3
  <2>2. last + n <= o
    BY <1>2, <2>1, Multiples DEF o
  <2> HIDE DEF last
  <2> QED
    BY <1>1, <1>2, <1>4, <1>o, <2>2
<1>6. (q + 1) - 1 = q
  BY <1>2
<1>7. /\ q + 1 < x => Len(s[q + 1]) = n
      /\ q + 1 = x => Len(s[q + 1]) \in 1..n /\ Len(b) = o + Len(s[q + 1])
      /\ \A k \in 1..Len(s[q + 1]) : s[q + 1][k] = b[o + k]
  BY <1>5, <1>6, <1>s DEF Partition, x, o
<1>8. r + 1 \in 1..Len(s[q + 1])
  <2>1. CASE q + 1 < x
    BY <1>2, <1>7, <2>1
  <2>2. CASE q + 1 = x
    BY <1>1, <1>2, <1>7, <1>o, <2>2
  <2> QED
    BY <1>2, <1>3, <1>5, <2>1, <2>2
<1>9. s[q + 1][r + 1] = b[o + (r + 1)]
  BY <1>7, <1>8
<1>10. o + (r + 1) = p
  BY <1>1, <1>2, <1>o
<1> QED
  BY <1>9, <1>10 DEF s, q, r

\* The blocks of a text.
BlocksOf(t) == SplitBytes(HexToBytes(t), SplitLength)

\* They are a partition of its bytes.
LEMMA BlockFacts ==
    ASSUME NEW t \in Seq(Chars)
    PROVE  /\ t \in Seq(0..Other)
           /\ HexToBytes(t) \in Seq(Int)
           /\ BlocksOf(t) \in Seq(Seq(Int))
           /\ Partition(BlocksOf(t), HexToBytes(t), SplitLength)
<1>1. t \in Seq(0..Other)
  <2>1. Chars \subseteq 0..Other
    BY TokenAssumption
  <2> QED
    BY <2>1, SeqMonotonic
<1>2. HexToBytes(t) \in Seq(Int)
  BY <1>1, HexFacts
<1> QED
  BY <1>1, <1>2, SplitFacts, TokenAssumption DEF BlocksOf

\* The inductive invariant of decrypt: what is decrypted are the first blocks
\* of the text, and of an accepted token all of them.
TokenInv ==
    /\ text \in Seq(Chars)
    /\ state \in {"typing", "decrypting", "accepted", "rejected"}
    /\ plain \in Seq(Seq(Int))
    /\ Len(plain) <= Len(Blocks)
    /\ \A i \in 1..Len(plain) : plain[i] = Blocks[i]
    /\ state = "typing" => plain = <<>>
    /\ state = "accepted" => Len(plain) = Len(Blocks) /\ plain # <<>>

\* The loop of decrypt over the blocks keeps it.
LEMMA TokenStepInv == TokenInv /\ [TokenNext]_tokenVars => TokenInv'
<1> SUFFICES ASSUME TokenInv, [TokenNext]_tokenVars PROVE TokenInv'
  OBVIOUS
<1>b. Blocks = BlocksOf(text) /\ Blocks' = BlocksOf(text')
  BY DEF Blocks, BlocksOf
<1>t. Blocks \in Seq(Seq(Int)) /\ Len(Blocks) \in Nat
  BY <1>b, BlockFacts DEF TokenInv
<1>1. ASSUME NEW ch \in Chars, Types(ch) PROVE TokenInv'
  <2>1. text' \in Seq(Chars) /\ state' = "typing" /\ plain' = <<>>
    BY <1>1 DEF Types, TokenInv
  <2>2. Len(Blocks') \in Nat
    BY <1>b, <2>1, BlockFacts
  <2> QED
    BY <2>1, <2>2 DEF TokenInv
<1>k. ASSUME text' = text PROVE Blocks' = Blocks
  BY <1>b, <1>k
<1>2. CASE Decrypts
  BY <1>2, <1>k DEF Decrypts, TokenInv
<1>3. CASE BlockDecrypts
  <2>1. /\ state = "decrypting" /\ Len(plain) < Len(Blocks)
        /\ plain' = Append(plain, Blocks[Len(plain) + 1])
        /\ UNCHANGED <<text, state>>
    BY <1>3 DEF BlockDecrypts
  <2>2. Blocks' = Blocks
    BY <1>k, <2>1
  <2>3. plain \in Seq(Seq(Int)) /\ Len(plain) \in Nat
    BY DEF TokenInv
  <2>4. Blocks[Len(plain) + 1] \in Seq(Int)
    <3>1. Len(plain) + 1 \in 1..Len(Blocks)
      BY <1>t, <2>1, <2>3
    <3> QED
      BY <1>t, <3>1, ElementOfSeq
  <2>5. /\ plain' \in Seq(Seq(Int)) /\ Len(plain') = Len(plain) + 1
        /\ \A i \in 1..Len(plain) : plain'[i] = plain[i]
        /\ plain'[Len(plain) + 1] = Blocks[Len(plain) + 1]
    BY <2>1, <2>3, <2>4, AppendProperties
  <2>6. \A i \in 1..Len(plain') : plain'[i] = Blocks[i]
    <3> SUFFICES ASSUME NEW i \in 1..Len(plain') PROVE plain'[i] = Blocks[i]
      OBVIOUS
    <3>1. i \in 1..Len(plain) \/ i = Len(plain) + 1
      BY <2>3, <2>5
    <3> QED
      BY <2>5, <3>1 DEF TokenInv
  <2>7. Len(plain') <= Len(Blocks)
    BY <1>t, <2>1, <2>3, <2>5
  <2> QED
    BY <2>1, <2>2, <2>5, <2>6, <2>7 DEF TokenInv
<1>4. CASE BlockFails
  BY <1>4, <1>k DEF BlockFails, TokenInv
<1>5. ASSUME NEW good \in BOOLEAN, Parses(good) PROVE TokenInv'
  <2>1. /\ Len(plain) = Len(Blocks) /\ UNCHANGED <<text, plain>>
        /\ state' \in {"accepted", "rejected"} /\ (state' = "accepted" => plain # <<>>)
    <3>1. CASE good
      BY <1>5, <3>1 DEF Parses
    <3>2. CASE ~good
      BY <1>5, <3>2 DEF Parses
    <3> QED
      BY <3>1, <3>2
  <2> QED
    BY <1>k, <2>1 DEF TokenInv
<1>6. CASE UNCHANGED tokenVars
  BY <1>6, <1>k DEF tokenVars, TokenInv
<1> QED
  BY <1>1, <1>2, <1>3, <1>4, <1>5, <1>6 DEF TokenNext

\* The plain text of a token grows block by block.
THEOREM TokenInvariant == TokenSpec => []TokenInv
<1>1. TokenInit => TokenInv
  <2> SUFFICES ASSUME TokenInit PROVE TokenInv
    OBVIOUS
  <2>1. text \in Seq(Chars) /\ plain \in Seq(Seq(Int)) /\ Len(plain) = 0
    BY DEF TokenInit
  <2>2. Len(Blocks) \in Nat
    BY <2>1, BlockFacts DEF Blocks, BlocksOf
  <2> QED
    BY <2>1, <2>2 DEF TokenInit, TokenInv
<1> QED
  BY <1>1, TokenStepInv, PTL DEF TokenSpec

\* From the text of a token to its json nothing is lost, moved or changed
\* (hexToBytes, splitBytes and decrypt), for every text and every key length.
THEOREM TokenFaithfulTheorem == TokenSpec => []TokenFaithful
<1>1. TokenInv => TokenFaithful
  <2> SUFFICES ASSUME TokenInv PROVE TokenFaithful
    OBVIOUS
  <2> DEFINE b == HexToBytes(text)
             n == SplitLength
             s == Blocks
  <2>1. /\ text \in Seq(0..Other) /\ b \in Seq(Int) /\ n \in Nat \ {0}
        /\ s \in Seq(Seq(Int)) /\ Partition(s, b, n)
    BY BlockFacts, TokenAssumption DEF TokenInv, Blocks, BlocksOf
  <2>2. HexInverse
    BY <2>1, HexInverted DEF HexInverse
  <2>3. SplitIsPartition
    <3>1. \A p \in 1..Len(b) : s[((p - 1) \div n) + 1][((p - 1) % n) + 1] = b[p]
      BY <2>1, SplitPlaces DEF Blocks
    <3> HIDE DEF b, n, s
    <3>2. Len(s) \in Nat
      BY <2>1
    <3>3. \A i \in 1..Len(s) : IF i < Len(s) THEN Len(s[i]) = n
                          ELSE Len(s[i]) \in 1..n /\ Len(b) = (i - 1) * n + Len(s[i])
      <4> TAKE i \in 1..Len(s)
      <4>1. CASE i < Len(s)
        BY <2>1, <4>1 DEF Partition
      <4>2. CASE i = Len(s)
        BY <2>1, <3>2, <4>2 DEF Partition
      <4> QED
        BY <3>2, <4>1, <4>2
    <3>4. Len(b) = 0 <=> Len(s) = 0
      BY <2>1 DEF Partition
    <3> QED
      BY <3>1, <3>3, <3>4 DEF SplitIsPartition, b, n, s
  <2>4. ASSUME state = "accepted" PROVE plain = Blocks /\ text # <<>>
    <3>1. plain \in Seq(Seq(Int)) /\ Len(plain) = Len(Blocks) /\ plain # <<>>
          /\ \A i \in 1..Len(plain) : plain[i] = Blocks[i]
      BY <2>4 DEF TokenInv
    <3>2. plain = Blocks
      BY <2>1, <3>1, SeqEqual
    <3>3. text # <<>>
      <4> SUFFICES ASSUME text = <<>> PROVE FALSE
        OBVIOUS
      <4>1. Len(text) = 0 /\ Len(b) = (Len(text) + 1) \div 2
        BY <2>1, HexFacts
      <4> HIDE DEF b
      <4>2. Len(b) = 0
        BY <4>1
      <4>3. Len(s) = 0
        BY <2>1, <4>2 DEF Partition
      <4> QED
        BY <3>1, <4>3
    <3> QED
      BY <3>2, <3>3
  <2> QED
    BY <2>2, <2>3, <2>4 DEF TokenFaithful
<1> QED
  BY <1>1, TokenInvariant, PTL
=============================================================================
