---------------------------- MODULE NamingProofs ----------------------------
(***************************************************************************)
(* What the naming service is told about a connector: the address it goes  *)
(* by, the number of its connections and the traffic it carried.           *)
(***************************************************************************)
EXTENDS Naming, Stat, FiniteSetTheorems, WellFoundedInduction, TLAPS

-----------------------------------------------------------------------------
(***************************************************************************)
(* Induction, stated for a set instead of a predicate.                     *)
(***************************************************************************)

\* A set of numbers that is not empty has a least member.
LEMMA LeastNumber ==
    ASSUME NEW T \in SUBSET Nat, T # {}
    PROVE  \E x \in T : \A y \in T : x <= y
<1> DEFINE R == OpToRel(<, Nat)
<1>1. IsWellFoundedOn(R, Nat)
  BY NatLessThanWellFounded
<1>2. \A x, y \in Nat : <<x, y>> \in R <=> x < y
  BY DEF OpToRel
<1> HIDE DEF R
<1>3. PICK x \in T : \A y \in T : ~(<<y, x>> \in R)
  BY <1>1, WFMin
<1>4. x \in Nat /\ \A y \in T : y \in Nat
  OBVIOUS
<1>5. \A y \in T : ~(y < x)
  BY <1>2, <1>3, <1>4
<1>6. \A y \in T : x <= y
  BY <1>4, <1>5
<1> QED
  BY <1>6

\* What holds of 0 and of the successor of every number it holds of, holds of
\* every number.
LEMMA NumberInduction ==
    ASSUME NEW G, 0 \in G, \A n \in Nat : n \in G => n + 1 \in G
    PROVE  \A n \in Nat : n \in G
<1> SUFFICES ASSUME Nat \ G # {} PROVE FALSE
  OBVIOUS
<1>1. PICK x \in Nat \ G : \A y \in Nat \ G : x <= y
  BY LeastNumber
<1>2. x # 0 /\ x \in Nat /\ x \notin G
  BY <1>1
<1>3. x - 1 \in Nat /\ (x - 1) + 1 = x
  BY <1>2
<1>4. x - 1 \in G
  BY <1>1, <1>3
<1> QED
  BY <1>2, <1>3, <1>4

\* What holds of a set whenever it holds of the set without any one of its
\* members, holds of every subset of a finite set.
LEMMA SubsetInduction ==
    ASSUME NEW S, IsFiniteSet(S), NEW G,
           \A s \in SUBSET S : (\A x \in s : s \ {x} \in G) => s \in G
    PROVE  \A s \in SUBSET S : s \in G
<1> DEFINE H == {n \in Nat : \A s \in SUBSET S : Cardinality(s) = n => s \in G}
<1>0. \A s \in SUBSET S : /\ IsFiniteSet(s) /\ Cardinality(s) \in Nat
                          /\ Cardinality(s) = 0 <=> s = {}
                          /\ \A x \in s : Cardinality(s \ {x}) = Cardinality(s) - 1
  BY FS_Subset, FS_CardinalityType, FS_EmptySet, FS_RemoveElement
<1>1. 0 \in H
  BY <1>0
<1>2. ASSUME NEW n \in Nat, n \in H PROVE n + 1 \in H
  <2> SUFFICES ASSUME NEW s \in SUBSET S, Cardinality(s) = n + 1 PROVE s \in G
    OBVIOUS
  <2>1. ASSUME NEW x \in s PROVE s \ {x} \in G
    <3>1. s \ {x} \in SUBSET S /\ Cardinality(s \ {x}) = n
      BY <1>0
    <3> QED
      BY <1>2, <3>1
  <2> QED
    BY <2>1
<1>3. \A n \in Nat : n \in H
  <2> HIDE DEF H
  <2> QED
    BY <1>1, <1>2, NumberInduction
<1> QED
  BY <1>0, <1>3

\* g is the recursion over the subsets of S that takes away one member at a
\* time, pick says which, and combines it by step with what is left.
IsFold(g, S, base, pick, step) ==
    \A s \in SUBSET S :
        g[s] = IF s = {} THEN base ELSE step[pick[s]][g[s \ {pick[s]}]]

PicksMember(pick, S) == \A s \in SUBSET S : s # {} => pick[s] \in s

StepsWithin(step, S, V) == \A x \in S, v \in V : step[x][v] \in V

\* A recursion over the subsets of a finite set that takes away one member
\* at a time defines a function.
LEMMA FoldExists ==
    ASSUME NEW S, IsFiniteSet(S), NEW V, NEW base \in V,
           NEW pick, PicksMember(pick, S), NEW step, StepsWithin(step, S, V)
    PROVE  \E g \in [SUBSET S -> V] : IsFold(g, S, base, pick, step)
<1> USE DEF PicksMember, StepsWithin
<1> DEFINE Holds(g, s) == g[s] = IF s = {} THEN base ELSE step[pick[s]][g[s \ {pick[s]}]]
           G == {n \in Nat : \E g \in [SUBSET S -> V] :
                     \A s \in SUBSET S : Cardinality(s) <= n => Holds(g, s)}
<1>0. \A s \in SUBSET S : /\ IsFiniteSet(s) /\ Cardinality(s) \in Nat
                          /\ Cardinality(s) = 0 <=> s = {}
                          /\ Cardinality(s) <= Cardinality(S)
                          /\ \A x \in s : Cardinality(s \ {x}) = Cardinality(s) - 1
  BY FS_Subset, FS_CardinalityType, FS_EmptySet, FS_RemoveElement
<1>1. 0 \in G
  <2> DEFINE g == [s \in SUBSET S |-> base]
  <2>1. g \in [SUBSET S -> V]
    OBVIOUS
  <2>2. \A s \in SUBSET S : Cardinality(s) <= 0 => Holds(g, s)
    BY <1>0
  <2> QED
    BY <2>1, <2>2
<1>2. ASSUME NEW n \in Nat, n \in G PROVE n + 1 \in G
  <2>1. PICK g \in [SUBSET S -> V] : \A s \in SUBSET S : Cardinality(s) <= n => Holds(g, s)
    BY <1>2
  <2> DEFINE h == [s \in SUBSET S |-> IF s = {} THEN base
                                      ELSE step[pick[s]][g[s \ {pick[s]}]]]
  <2>2. h \in [SUBSET S -> V]
    <3> SUFFICES ASSUME NEW s \in SUBSET S, s # {}
                 PROVE  step[pick[s]][g[s \ {pick[s]}]] \in V
      OBVIOUS
    <3>1. pick[s] \in S /\ g[s \ {pick[s]}] \in V
      OBVIOUS
    <3> QED
      BY <3>1
  <2>3. \A t \in SUBSET S : Cardinality(t) <= n => h[t] = g[t]
    BY <2>1
  <2>4. ASSUME NEW s \in SUBSET S, Cardinality(s) <= n + 1, s # {}
        PROVE  h[s \ {pick[s]}] = g[s \ {pick[s]}]
    <3>1. s \ {pick[s]} \in SUBSET S /\ Cardinality(s \ {pick[s]}) <= n
      BY <1>0, <2>4
    <3> QED
      BY <2>3, <3>1
  <2>5. \A s \in SUBSET S : Cardinality(s) <= n + 1 => Holds(h, s)
    BY <2>4
  <2> HIDE DEF h
  <2>6. \E f \in [SUBSET S -> V] :
            \A s \in SUBSET S : Cardinality(s) <= n + 1 => Holds(f, s)
    BY <2>2, <2>5
  <2>7. n + 1 \in Nat
    OBVIOUS
  <2> HIDE DEF Holds
  <2> QED
    BY <2>6, <2>7
<1>3. Cardinality(S) \in G
  <2> HIDE DEF G
  <2>1. \A n \in Nat : n \in G
    BY <1>1, <1>2, NumberInduction
  <2> QED
    BY <1>0, <2>1
<1> QED
  BY <1>0, <1>3 DEF IsFold

-----------------------------------------------------------------------------
(***************************************************************************)
(* Sums of byte counters.                                                  *)
(***************************************************************************)

\* The bytes that the connections of S carried in one direction.
Carried(b, d, S) == MapThenSumSet(LAMBDA c : b[c][d], S)

\* The member of a set that the sum takes next.
Some(s) == CHOOSE x \in s : TRUE

\* The function by whose recursion the sum is defined.
CarriedFcn(b, d, S) ==
    CHOOSE g : g = [s \in SUBSET S |->
        IF s = {} THEN 0 ELSE b[Some(s)][d] + g[s \ {Some(s)}]]

\* The sum that stat.go builds up in its loop is the value of that function.
LEMMA CarriedIsFold ==
    ASSUME NEW b, NEW d, NEW S PROVE Carried(b, d, S) = CarriedFcn(b, d, S)[S]
  BY DEF Carried, MapThenSumSet, MapThenFoldSet, CarriedFcn, Some

\* The counters of connections in S.
Counters(S) == [S -> [Directions -> Nat]]

\* The recursion defines a function on the subsets of a finite set.
LEMMA CarriedFcnRecursion ==
    ASSUME NEW U, NEW b \in Counters(U), NEW d \in Directions,
           NEW S \in SUBSET U, IsFiniteSet(S)
    PROVE  /\ CarriedFcn(b, d, S)[{}] = 0
           /\ \A s \in SUBSET S : s # {} =>
                  /\ Some(s) \in s
                  /\ CarriedFcn(b, d, S)[s]
                         = b[Some(s)][d] + CarriedFcn(b, d, S)[s \ {Some(s)}]
<1> DEFINE pick == [s \in SUBSET S |-> Some(s)]
           step == [x \in S |-> [v \in Nat |-> b[x][d] + v]]
<1>1. PicksMember(pick, S)
  BY DEF PicksMember, Some
<1>2. \A x \in S, v \in Nat : step[x][v] = b[x][d] + v /\ step[x][v] \in Nat
  BY DEF Counters
<1>3. \A s \in SUBSET S : pick[s] = Some(s)
  OBVIOUS
<1> HIDE DEF pick, step
<1>4. StepsWithin(step, S, Nat) /\ 0 \in Nat
  BY <1>2 DEF StepsWithin
<1>5. PICK g \in [SUBSET S -> Nat] : IsFold(g, S, 0, pick, step)
  BY <1>1, <1>4, FoldExists
<1>6. ASSUME NEW s \in SUBSET S, s # {}
      PROVE  g[s] = b[Some(s)][d] + g[s \ {Some(s)}]
  <2>1. Some(s) \in S /\ g[s \ {Some(s)}] \in Nat
    BY <1>1, <1>3, <1>6 DEF PicksMember
  <2>2. g[s] = step[Some(s)][g[s \ {Some(s)}]]
    BY <1>3, <1>5, <1>6 DEF IsFold
  <2> QED
    BY <1>2, <2>1, <2>2
<1>7. g[{}] = 0
  BY <1>5 DEF IsFold
<1>8. g = [s \in SUBSET S |-> IF s = {} THEN 0 ELSE b[Some(s)][d] + g[s \ {Some(s)}]]
  BY <1>6, <1>7
<1>9. CarriedFcn(b, d, S) = [s \in SUBSET S |-> IF s = {} THEN 0
          ELSE b[Some(s)][d] + CarriedFcn(b, d, S)[s \ {Some(s)}]]
  BY <1>8 DEF CarriedFcn
<1> DEFINE f == CarriedFcn(b, d, S)
<1>10. f = [s \in SUBSET S |-> IF s = {} THEN 0 ELSE b[Some(s)][d] + f[s \ {Some(s)}]]
  BY <1>9
<1> HIDE DEF f
<1>11. f[{}] = 0 /\ \A s \in SUBSET S : s # {} =>
           Some(s) \in s /\ f[s] = b[Some(s)][d] + f[s \ {Some(s)}]
  BY <1>10 DEF Some
<1> QED
  BY <1>11 DEF f

\* The sum does not depend on the order in which connections are taken: any
\* one of them may be taken first.
LEMMA CarriedFcnAdds ==
    ASSUME NEW U, NEW b \in Counters(U), NEW d \in Directions,
           NEW S \in SUBSET U, IsFiniteSet(S)
    PROVE  \A s \in SUBSET S :
               /\ CarriedFcn(b, d, S)[s] \in Nat
               /\ s = {} => CarriedFcn(b, d, S)[s] = 0
               /\ \A x \in s : CarriedFcn(b, d, S)[s]
                                   = b[x][d] + CarriedFcn(b, d, S)[s \ {x}]
<1> DEFINE f == CarriedFcn(b, d, S)
           G == {s \in SUBSET S : \A x \in s : f[s] = b[x][d] + f[s \ {x}]}
<1>2. \A x \in S : b[x][d] \in Nat
  BY DEF Counters
<1>3. /\ f[{}] = 0
      /\ \A s \in SUBSET S : s # {} =>
             Some(s) \in s /\ f[s] = b[Some(s)][d] + f[s \ {Some(s)}]
  BY CarriedFcnRecursion
<1> HIDE DEF f
<1>4. \A s \in SUBSET S : f[s] \in Nat
  <2> DEFINE N == {s \in SUBSET S : f[s] \in Nat}
  <2>1. ASSUME NEW s \in SUBSET S, \A x \in s : s \ {x} \in N PROVE s \in N
    <3>1. CASE s = {}
      BY <1>3, <3>1
    <3>2. CASE s # {}
      <4>1. Some(s) \in s /\ f[s] = b[Some(s)][d] + f[s \ {Some(s)}]
        BY <1>3, <3>2
      <4>2. b[Some(s)][d] \in Nat /\ f[s \ {Some(s)}] \in Nat
        BY <1>2, <2>1, <4>1
      <4>3. f[s] \in Nat
        BY <4>1, <4>2
      <4> QED
        BY <4>3
    <3> QED
      BY <3>1, <3>2
  <2> HIDE DEF N
  <2>2. \A s \in SUBSET S : s \in N
    BY <2>1, SubsetInduction
  <2> QED
    BY <2>2 DEF N
<1>5. ASSUME NEW s \in SUBSET S, \A x \in s : s \ {x} \in G PROVE s \in G
  <2> SUFFICES ASSUME NEW x \in s PROVE f[s] = b[x][d] + f[s \ {x}]
    OBVIOUS
  <2> DEFINE p == Some(s)
  <2>1. p \in s /\ f[s] = b[p][d] + f[s \ {p}]
    BY <1>3
  <2> HIDE DEF p
  <2>2. CASE x = p
    BY <2>1, <2>2
  <2>3. CASE x # p
    <3>1. f[s \ {p}] = b[x][d] + f[(s \ {p}) \ {x}]
      BY <1>5, <2>1, <2>3
    <3>2. f[s \ {x}] = b[p][d] + f[(s \ {x}) \ {p}]
      BY <1>5, <2>1, <2>3
    <3>3. (s \ {x}) \ {p} = (s \ {p}) \ {x}
      OBVIOUS
    <3>4. b[x][d] \in Nat /\ b[p][d] \in Nat /\ f[(s \ {p}) \ {x}] \in Nat
      BY <1>2, <1>4, <2>1
    <3>5. \A i, j, k \in Nat : i + (j + k) = j + (i + k)
      OBVIOUS
    <3>6. f[s] = b[p][d] + (b[x][d] + f[(s \ {p}) \ {x}])
      BY <2>1, <3>1
    <3>7. b[x][d] + f[s \ {x}] = b[x][d] + (b[p][d] + f[(s \ {p}) \ {x}])
      BY <3>2, <3>3
    <3> QED
      BY <3>4, <3>5, <3>6, <3>7
  <2> QED
    BY <2>2, <2>3
<1>6. \A s \in SUBSET S : s \in G
  <2> HIDE DEF G
  <2> QED
    BY <1>5, SubsetInduction
<1> QED
  BY <1>3, <1>4, <1>6 DEF f

\* The sums over a set and over its subsets are values of one function.
LEMMA CarriedFcnAgrees ==
    ASSUME NEW U, NEW b \in Counters(U), NEW d \in Directions,
           NEW S \in SUBSET U, IsFiniteSet(S), NEW t \in SUBSET S
    PROVE  Carried(b, d, t) = CarriedFcn(b, d, S)[t]
<1> DEFINE f == CarriedFcn(b, d, S)
           g == CarriedFcn(b, d, t)
           G == {s \in SUBSET t : g[s] = f[s]}
<1>0. t \in SUBSET U /\ IsFiniteSet(t)
  BY FS_Subset
<1>1. f[{}] = 0 /\ \A s \in SUBSET S : s # {} =>
          Some(s) \in s /\ f[s] = b[Some(s)][d] + f[s \ {Some(s)}]
  BY CarriedFcnRecursion
<1>2. g[{}] = 0 /\ \A s \in SUBSET t : s # {} =>
          Some(s) \in s /\ g[s] = b[Some(s)][d] + g[s \ {Some(s)}]
  BY <1>0, CarriedFcnRecursion
<1>3. Carried(b, d, t) = g[t]
  BY CarriedIsFold
<1> HIDE DEF f, g
<1>4. ASSUME NEW s \in SUBSET t, \A x \in s : s \ {x} \in G PROVE s \in G
  <2>1. CASE s = {}
    BY <1>1, <1>2, <2>1
  <2>2. CASE s # {}
    <3>1. f[s] = b[Some(s)][d] + f[s \ {Some(s)}]
      BY <1>1, <2>2
    <3>2. Some(s) \in s /\ g[s] = b[Some(s)][d] + g[s \ {Some(s)}]
      BY <1>2, <2>2
    <3>3. g[s \ {Some(s)}] = f[s \ {Some(s)}]
      BY <1>4, <3>2
    <3> QED
      BY <3>1, <3>2, <3>3
  <2> QED
    BY <2>1, <2>2
<1>5. \A s \in SUBSET t : s \in G
  <2> HIDE DEF G
  <2> QED
    BY <1>0, <1>4, SubsetInduction
<1> QED
  BY <1>3, <1>5 DEF f

\* What a sum of counters is: nothing for no connection, and the counter of
\* any one of them with the sum for the others.
LEMMA CarriedLaws ==
    ASSUME NEW U, NEW b \in Counters(U), NEW d \in Directions,
           NEW S \in SUBSET U, IsFiniteSet(S)
    PROVE  /\ Carried(b, d, {}) = 0
           /\ Carried(b, d, S) \in Nat
           /\ \A x \in S : b[x][d] \in Nat /\ Carried(b, d, S \ {x}) \in Nat
                           /\ Carried(b, d, S) = b[x][d] + Carried(b, d, S \ {x})
<1> DEFINE f == CarriedFcn(b, d, S)
<1>1. \A t \in SUBSET S : Carried(b, d, t) = f[t]
  BY CarriedFcnAgrees
<1>2. \A t \in SUBSET S : /\ f[t] \in Nat
                          /\ t = {} => f[t] = 0
                          /\ \A x \in t : f[t] = b[x][d] + f[t \ {x}]
  BY CarriedFcnAdds, SMTT(30)
<1> HIDE DEF f
<1>3. \A x \in S : b[x][d] \in Nat
  BY DEF Counters
<1>4. S \in SUBSET S /\ {} \in SUBSET S /\ \A x \in S : S \ {x} \in SUBSET S
  OBVIOUS
<1> QED
  BY <1>1, <1>2, <1>3, <1>4

\* More connections carried at least as much.
LEMMA CarriedBySubset ==
    ASSUME NEW U, NEW b \in Counters(U), NEW d \in Directions,
           NEW S \in SUBSET U, IsFiniteSet(S), NEW t \in SUBSET S
    PROVE  Carried(b, d, t) <= Carried(b, d, S)
<1> DEFINE G == {s \in SUBSET S : \A r \in SUBSET s : Carried(b, d, r) <= Carried(b, d, s)}
<1>1. \A s \in SUBSET S : IsFiniteSet(s) /\ s \in SUBSET U
  BY FS_Subset
<1>2. ASSUME NEW s \in SUBSET S, \A x \in s : s \ {x} \in G PROVE s \in G
  <2> SUFFICES ASSUME NEW r \in SUBSET s PROVE Carried(b, d, r) <= Carried(b, d, s)
    OBVIOUS
  <2>1. Carried(b, d, r) \in Nat /\ Carried(b, d, s) \in Nat
    BY <1>1, CarriedLaws
  <2>2. CASE r = s
    BY <2>1, <2>2
  <2>3. CASE r # s
    <3>0. s \in SUBSET U /\ IsFiniteSet(s)
      BY <1>1
    <3>1. PICK x \in s : x \notin r
      BY <2>3
    <3>2. Carried(b, d, r) <= Carried(b, d, s \ {x})
      BY <1>2, <3>1
    <3>3. /\ b[x][d] \in Nat /\ Carried(b, d, s \ {x}) \in Nat
          /\ Carried(b, d, s) = b[x][d] + Carried(b, d, s \ {x})
      BY <3>0, CarriedLaws
    <3> QED
      BY <2>1, <3>2, <3>3
  <2> QED
    BY <2>2, <2>3
<1>3. S \in G
  <2>1. \A s \in SUBSET S : s \in G
    <3> HIDE DEF G
    <3> QED
      BY <1>2, SubsetInduction
  <2> QED
    BY <2>1
<1> QED
  BY <1>3

\* Counters that only grow carry at least as much.
LEMMA CarriedGrows ==
    ASSUME NEW U, NEW b \in Counters(U), NEW c \in Counters(U), NEW d \in Directions,
           \A x \in U : b[x][d] <= c[x][d], NEW S \in SUBSET U, IsFiniteSet(S)
    PROVE  Carried(b, d, S) <= Carried(c, d, S)
<1> DEFINE G == {s \in SUBSET S : Carried(b, d, s) <= Carried(c, d, s)}
<1>1. \A s \in SUBSET S : IsFiniteSet(s) /\ s \in SUBSET U
  BY FS_Subset
<1>2. ASSUME NEW s \in SUBSET S, \A x \in s : s \ {x} \in G PROVE s \in G
  <2>1. CASE s = {}
    <3>1. Carried(b, d, s) = 0 /\ Carried(c, d, s) = 0
      BY <1>1, <2>1, CarriedLaws
    <3> QED
      BY <3>1
  <2>2. CASE s # {}
    <3>0. s \in SUBSET U /\ IsFiniteSet(s)
      BY <1>1
    <3>1. PICK x \in s : TRUE
      BY <2>2
    <3>2. Carried(b, d, s \ {x}) <= Carried(c, d, s \ {x}) /\ b[x][d] <= c[x][d]
      BY <1>2
    <3>3. /\ b[x][d] \in Nat /\ Carried(b, d, s \ {x}) \in Nat
          /\ Carried(b, d, s) = b[x][d] + Carried(b, d, s \ {x})
      BY <3>0, CarriedLaws
    <3>4. /\ c[x][d] \in Nat /\ Carried(c, d, s \ {x}) \in Nat
          /\ Carried(c, d, s) = c[x][d] + Carried(c, d, s \ {x})
      BY <3>0, CarriedLaws
    <3>5. Carried(b, d, s) <= Carried(c, d, s)
      BY <3>2, <3>3, <3>4
    <3> QED
      BY <3>5
  <2> QED
    BY <2>1, <2>2
<1>3. \A s \in SUBSET S : s \in G
  <2> HIDE DEF G
  <2> QED
    BY <1>2, SubsetInduction
<1> QED
  BY <1>3

-----------------------------------------------------------------------------
(***************************************************************************)
(* ConnectedClients.                                                       *)
(***************************************************************************)

\* The connections that are counted: from listener.Accept's increment to the
\* decrement of the Close that succeeded.
CountedConns == {c \in Clients : sock[c] \in {"open", "closing"}}

\* The inductive invariant: the counter is their number.
ConnectedInv ==
    /\ sock \in [Clients -> {"none", "accepted", "open", "closing", "closed"}]
    /\ connected = Cardinality(CountedConns)

\* The counted connections are finitely many.
LEMMA CountedFinite ==
    IsFiniteSet(CountedConns) /\ Cardinality(CountedConns) \in Nat
<1>1. CountedConns \in SUBSET Clients
  BY DEF CountedConns
<1>2. IsFiniteSet(CountedConns)
  BY <1>1, StatAssumption, FS_Subset
<1> QED
  BY <1>2, FS_CardinalityType

\* Only listener.Accept and the first Close of a connection move the counter,
\* each together with the connection it counts.
LEMMA ConnectedStep == ConnectedInv /\ [StatNext]_statVars => ConnectedInv'
<1> SUFFICES ASSUME ConnectedInv, [StatNext]_statVars PROVE ConnectedInv'
  OBVIOUS
<1>0. /\ sock \in [Clients -> {"none", "accepted", "open", "closing", "closed"}]
      /\ connected = Cardinality(CountedConns)
      /\ IsFiniteSet(CountedConns)
      /\ Cardinality(CountedConns) \in Nat
  BY CountedFinite DEF ConnectedInv
<1>1. ASSUME NEW c \in Clients, Accepts(c) \/ Closes(c) PROVE ConnectedInv'
  <2>1. sock' \in [Clients -> {"none", "accepted", "open", "closing", "closed"}]
        /\ CountedConns' = CountedConns /\ connected' = connected
    BY <1>0, <1>1 DEF Accepts, Closes, CountedConns
  <2> QED
    BY <1>0, <2>1 DEF ConnectedInv
<1>2. ASSUME NEW c \in Clients, AcceptCounts(c) PROVE ConnectedInv'
  <2>1. /\ sock' \in [Clients -> {"none", "accepted", "open", "closing", "closed"}]
        /\ c \notin CountedConns /\ CountedConns' = CountedConns \cup {c}
        /\ connected' = connected + 1
    BY <1>0, <1>2 DEF AcceptCounts, CountedConns
  <2>2. Cardinality(CountedConns \cup {c}) = Cardinality(CountedConns) + 1
    BY <1>0, <2>1, FS_AddElement
  <2> QED
    BY <1>0, <2>1, <2>2 DEF ConnectedInv
<1>3. ASSUME NEW c \in Clients, CloseReturns(c) PROVE ConnectedInv'
  <2>1. /\ sock' \in [Clients -> {"none", "accepted", "open", "closing", "closed"}]
        /\ c \in CountedConns /\ CountedConns' = CountedConns \ {c}
        /\ connected' = connected - 1
    BY <1>0, <1>3 DEF CloseReturns, CloseCounts, CountedConns
  <2>2. Cardinality(CountedConns \ {c}) = Cardinality(CountedConns) - 1
    BY <1>0, <2>1, FS_RemoveElement
  <2> QED
    BY <1>0, <2>1, <2>2 DEF ConnectedInv
<1>4. ASSUME NEW c \in Clients, ClosesAgain(c) PROVE ConnectedInv'
  <2>1. sock' = sock /\ connected' = connected
    BY <1>0, <1>4 DEF ClosesAgain, CloseCounts
  <2> QED
    BY <1>0, <2>1 DEF ConnectedInv, CountedConns
<1>5. ASSUME UNCHANGED sockVars PROVE ConnectedInv'
  BY <1>0, <1>5 DEF sockVars, ConnectedInv, CountedConns
<1>6. ASSUME NEW c \in Clients,
             (\E d \in Directions : Transfers(c, d)) \/ Joins(c) \/ Departs(c) \/ SampleVisits(c)
      PROVE  ConnectedInv'
  BY <1>5, <1>6 DEF Transfers, Joins, Departs, SampleVisits
<1>7. CASE SampleStarts \/ SamplePublishes \/ UNCHANGED statVars
  BY <1>5, <1>7 DEF SampleStarts, SamplePublishes, statVars
<1> QED
  BY <1>1, <1>2, <1>3, <1>4, <1>6, <1>7 DEF StatNext

\* info.ConnectedClients is the number of open connections whenever no Accept
\* or Close is in progress, and never negative, for any number of connections
\* closed any number of times (listener.Accept and myConn.Close).
THEOREM ConnectedExactTheorem == StatSpec => []ConnectedExact
<1>1. StatInit => ConnectedInv
  <2> SUFFICES ASSUME StatInit PROVE ConnectedInv
    OBVIOUS
  <2>1. CountedConns = {}
    BY DEF StatInit, CountedConns
  <2> QED
    BY <2>1, FS_EmptySet DEF StatInit, ConnectedInv
<1>2. ConnectedInv => ConnectedExact
  <2> SUFFICES ASSUME ConnectedInv PROVE ConnectedExact
    OBVIOUS
  <2>1. connected >= 0
    BY CountedFinite DEF ConnectedInv
  <2>2. Settled => CountedConns = {c \in Clients : sock[c] = "open"}
    BY DEF Settled, CountedConns
  <2> QED
    BY <2>1, <2>2 DEF ConnectedInv, ConnectedExact
<1> QED
  BY <1>1, <1>2, ConnectedStep, PTL DEF StatSpec
-----------------------------------------------------------------------------
(***************************************************************************)
(* InData and OutData.                                                     *)
(***************************************************************************)

\* Every step keeps the counters of the sampler within their ranges.
LEMMA StatTypeStep == StatTypeOK /\ [StatNext]_statVars => StatTypeOK'
<1> SUFFICES ASSUME StatTypeOK, [StatNext]_statVars PROVE StatTypeOK'
  OBVIOUS
<1> USE StatAssumption DEF StatTypeOK, sampleVars, figureVars, historyVars, sockVars
<1>1. ASSUME NEW c \in Clients, Accepts(c) PROVE StatTypeOK'
  BY <1>1 DEF Accepts
<1>2. ASSUME NEW c \in Clients, AcceptCounts(c) PROVE StatTypeOK'
  BY <1>2 DEF AcceptCounts
<1>3. ASSUME NEW c \in Clients, Closes(c) PROVE StatTypeOK'
  BY <1>3 DEF Closes
<1>4. ASSUME NEW c \in Clients, CloseReturns(c) PROVE StatTypeOK'
  BY <1>4 DEF CloseReturns, CloseCounts
<1>5. ASSUME NEW c \in Clients, ClosesAgain(c) PROVE StatTypeOK'
  BY <1>5 DEF ClosesAgain, CloseCounts
<1>6. ASSUME NEW c \in Clients, NEW d \in Directions, Transfers(c, d) PROVE StatTypeOK'
  BY <1>6 DEF Transfers
<1>7. ASSUME NEW c \in Clients, Joins(c) \/ Departs(c) PROVE StatTypeOK'
  BY <1>7 DEF Joins, Departs
<1>8. ASSUME NEW c \in Clients, SampleVisits(c) PROVE StatTypeOK'
  BY <1>8 DEF SampleVisits
<1>9. CASE SampleStarts
  BY <1>9 DEF SampleStarts, Table, Zero
<1>10. CASE SamplePublishes
  <2>1. delta' \in [Directions -> Int] /\ info' \in [Directions -> Nat]
    BY <1>10 DEF SamplePublishes, Kept
  <2>2. sum' \in [Directions -> Int]
    BY <1>10, <2>1 DEF SamplePublishes
  <2> QED
    BY <1>10, <2>1, <2>2 DEF SamplePublishes
<1>11. CASE UNCHANGED statVars
  BY <1>11 DEF statVars
<1> QED
  BY <1>1, <1>2, <1>3, <1>4, <1>5, <1>6, <1>7, <1>8, <1>9, <1>10, <1>11 DEF StatNext

\* The counters start at zero.
LEMMA StatInitTyped == StatInit => StatTypeOK
<1> SUFFICES ASSUME StatInit PROVE StatTypeOK
  OBVIOUS
<1>1. Zero \in [Directions -> 0..MaxBytes] /\ Zero \in [Directions -> Nat]
      /\ Zero \in [Directions -> Int]
  BY StatAssumption DEF Zero
<1>2. 0 \in 0..MaxSamples /\ 0 \in 0..2 /\ 0 \in Int
  BY StatAssumption
<1> QED
  BY <1>1, <1>2 DEF StatInit, StatTypeOK

\* The type invariant of Stat: every counter of the sampler stays within its
\* range, and the clients it walks are connections.
THEOREM StatTypeTheorem == StatSpec => []StatTypeOK
  BY StatInitTyped, StatTypeStep, PTL DEF StatSpec

\* How the figures follow the counters.  What is published adds up to what was
\* kept; what is kept, and what a sample has added up so far, was carried by
\* clients it counted; and while none of the sample before has left, what the
\* sample in progress has added up and what is left to visit make up what was
\* kept.
FiguresInv ==
    /\ left \subseteq sampled
    /\ \A d \in Directions :
        /\ sum[d] = info[d]
        /\ info[d] <= Carried(bytes, d, Clients)
        /\ sampling => total[d] <= Carried(bytes, d, sampled \ left)
        /\ ~sampling => info[d] <= Carried(bytes, d, sampled)
        /\ sampling /\ ~excuse => info[d] <= total[d] + Carried(bytes, d, left)

\* The inductive invariant of Stat.
StatInv == StatTypeOK /\ FiguresInv

\* The laws of sums for the counters of the moment.
LEMMA CarriedNow ==
    ASSUME StatTypeOK, NEW d \in Directions, NEW S \in SUBSET Clients
    PROVE  /\ Carried(bytes, d, S) \in Nat
           /\ Carried(bytes, d, {}) = 0
           /\ \A t \in SUBSET S : Carried(bytes, d, t) <= Carried(bytes, d, S)
           /\ \A x \in S : /\ bytes[x][d] \in Nat /\ Carried(bytes, d, S \ {x}) \in Nat
                           /\ Carried(bytes, d, S) = bytes[x][d] + Carried(bytes, d, S \ {x})
<1>1. bytes \in Counters(Clients)
  BY StatAssumption DEF StatTypeOK, Counters
<1>2. IsFiniteSet(S)
  BY StatAssumption, FS_Subset
<1> QED
  BY <1>1, <1>2, CarriedLaws, CarriedBySubset

\* A transfer makes no sum smaller.
LEMMA TransferGrows ==
    ASSUME StatTypeOK, StatTypeOK', NEW c \in Clients, NEW e \in Directions,
           Transfers(c, e), NEW d \in Directions, NEW S \in SUBSET Clients
    PROVE  Carried(bytes, d, S) <= Carried(bytes', d, S)
<1>1. bytes \in Counters(Clients) /\ bytes' \in Counters(Clients)
  BY StatAssumption DEF StatTypeOK, Counters
<1>2. IsFiniteSet(S)
  BY StatAssumption, FS_Subset
<1>3. \A x \in Clients : bytes[x][d] <= bytes'[x][d]
  BY StatAssumption DEF Transfers, StatTypeOK
<1> QED
  BY <1>1, <1>2, <1>3, CarriedGrows

\* Every step preserves it.
LEMMA StatStep == StatInv /\ [StatNext]_statVars => StatInv'
<1> SUFFICES ASSUME StatInv, [StatNext]_statVars PROVE FiguresInv'
  BY StatTypeStep DEF StatInv
<1>0. StatTypeOK /\ StatTypeOK' /\ FiguresInv
  BY StatTypeStep DEF StatInv
<1>1. ASSUME UNCHANGED <<bytes, sampleVars, figureVars, historyVars>> PROVE FiguresInv'
  BY <1>0, <1>1 DEF FiguresInv, sampleVars, figureVars, historyVars
<1>2. ASSUME NEW c \in Clients, NEW e \in Directions, Transfers(c, e) PROVE FiguresInv'
  <2>1. UNCHANGED <<left, sampled, sum, info, total, sampling, excuse>>
    BY <1>2 DEF Transfers, sampleVars, figureVars, historyVars
  <2>2. left \subseteq sampled /\ sampled \in SUBSET Clients
    BY <1>0 DEF FiguresInv, StatTypeOK
  <2> SUFFICES ASSUME NEW d \in Directions
               PROVE  /\ sum[d] = info[d]
                      /\ info[d] <= Carried(bytes', d, Clients)
                      /\ sampling => total[d] <= Carried(bytes', d, sampled \ left)
                      /\ ~sampling => info[d] <= Carried(bytes', d, sampled)
                      /\ sampling /\ ~excuse => info[d] <= total[d] + Carried(bytes', d, left)
    BY <2>1, <2>2 DEF FiguresInv
  <2>3. ASSUME NEW S \in SUBSET Clients
        PROVE  /\ Carried(bytes, d, S) \in Nat /\ Carried(bytes', d, S) \in Nat
               /\ Carried(bytes, d, S) <= Carried(bytes', d, S)
    <3>1. Carried(bytes, d, S) <= Carried(bytes', d, S)
      BY <1>0, <1>2, TransferGrows
    <3>2. Carried(bytes, d, S) \in Nat
      BY <1>0, CarriedNow
    <3>3. Carried(bytes', d, S) \in Nat
      <4>1. bytes' \in Counters(Clients) /\ IsFiniteSet(S)
        BY <1>0, StatAssumption, FS_Subset DEF StatTypeOK, Counters
      <4> QED
        BY <4>1, CarriedLaws
    <3> QED
      BY <3>1, <3>2, <3>3
  <2>4. info[d] \in Nat /\ total[d] \in Nat
    BY <1>0 DEF StatTypeOK
  <2>5. Clients \in SUBSET Clients /\ sampled \ left \in SUBSET Clients
        /\ left \in SUBSET Clients
    BY <2>2
  <2>6. /\ sum[d] = info[d]
        /\ info[d] <= Carried(bytes, d, Clients)
        /\ sampling => total[d] <= Carried(bytes, d, sampled \ left)
        /\ ~sampling => info[d] <= Carried(bytes, d, sampled)
        /\ sampling /\ ~excuse => info[d] <= total[d] + Carried(bytes, d, left)
    BY <1>0 DEF FiguresInv
  <2>7. \A S \in SUBSET Clients : \A i \in Nat :
            i <= Carried(bytes, d, S) => i <= Carried(bytes', d, S)
    BY <2>3
  <2>8. sampling /\ ~excuse => info[d] <= total[d] + Carried(bytes', d, left)
    BY <2>3, <2>4, <2>5, <2>6
  <2> QED
    BY <2>2, <2>4, <2>5, <2>6, <2>7, <2>8
<1>3. ASSUME NEW c \in Clients, SampleVisits(c) PROVE FiguresInv'
  <2>1. /\ sampling /\ sampling' /\ c \in left /\ left' = left \ {c}
        /\ \A d \in Directions : total'[d] = total[d] + bytes[c][d]
        /\ UNCHANGED <<bytes, sampled, sum, info, excuse>>
    BY <1>3 DEF SampleVisits, figureVars, historyVars
  <2>2. left \subseteq sampled /\ sampled \in SUBSET Clients
    BY <1>0 DEF FiguresInv, StatTypeOK
  <2> SUFFICES ASSUME NEW d \in Directions
               PROVE  /\ sum[d] = info[d]
                      /\ info[d] <= Carried(bytes, d, Clients)
                      /\ total'[d] <= Carried(bytes, d, sampled \ left')
                      /\ ~excuse => info[d] <= total'[d] + Carried(bytes, d, left')
    BY <2>1, <2>2 DEF FiguresInv
  <2>3. /\ sum[d] = info[d]
        /\ info[d] <= Carried(bytes, d, Clients)
        /\ total[d] <= Carried(bytes, d, sampled \ left)
        /\ ~excuse => info[d] <= total[d] + Carried(bytes, d, left)
    BY <1>0, <2>1 DEF FiguresInv
  <2>4. total'[d] = total[d] + bytes[c][d] /\ total[d] \in Nat /\ info[d] \in Nat
    BY <1>0, <2>1 DEF StatTypeOK
  <2>5. /\ bytes[c][d] \in Nat /\ Carried(bytes, d, left') \in Nat
        /\ Carried(bytes, d, left) = bytes[c][d] + Carried(bytes, d, left')
    BY <1>0, <2>1, <2>2, CarriedNow
  <2>6. /\ Carried(bytes, d, sampled \ left) \in Nat
        /\ Carried(bytes, d, sampled \ left') = bytes[c][d] + Carried(bytes, d, sampled \ left)
    <3>1. /\ sampled \ left' \in SUBSET Clients /\ c \in sampled \ left'
          /\ (sampled \ left') \ {c} = sampled \ left
      BY <2>1, <2>2
    <3> QED
      BY <1>0, <3>1, CarriedNow
  <2>7. total'[d] <= Carried(bytes, d, sampled \ left')
    BY <2>3, <2>4, <2>5, <2>6
  <2>8. ~excuse => info[d] <= total'[d] + Carried(bytes, d, left')
    BY <2>3, <2>4, <2>5
  <2> QED
    BY <2>3, <2>7, <2>8
<1>4. CASE SampleStarts
  <2>1. /\ ~sampling /\ sampling' /\ left' = Table /\ sampled' = Table
        /\ \A d \in Directions : total'[d] = 0
        /\ excuse' = (sampled \ Table # {})
        /\ UNCHANGED <<bytes, sum, info>>
    BY <1>4 DEF SampleStarts, figureVars, Zero
  <2>2. sampled \in SUBSET Clients /\ Table \in SUBSET Clients
    BY <1>0 DEF StatTypeOK, Table
  <2> HIDE DEF Table
  <2> SUFFICES ASSUME NEW d \in Directions
               PROVE  /\ sum[d] = info[d]
                      /\ info[d] <= Carried(bytes, d, Clients)
                      /\ 0 <= Carried(bytes, d, Table \ Table)
                      /\ ~excuse' => info[d] <= 0 + Carried(bytes, d, Table)
    BY <2>1 DEF FiguresInv
  <2>3. /\ sum[d] = info[d] /\ info[d] <= Carried(bytes, d, Clients)
        /\ info[d] <= Carried(bytes, d, sampled) /\ info[d] \in Nat
    BY <1>0, <2>1 DEF FiguresInv, StatTypeOK
  <2>4. Carried(bytes, d, Table \ Table) \in Nat /\ Carried(bytes, d, Table) \in Nat
        /\ Carried(bytes, d, sampled) \in Nat
    BY <1>0, <2>2, CarriedNow
  <2>5. ~excuse' => Carried(bytes, d, sampled) <= Carried(bytes, d, Table)
    <3>1. ~excuse' => sampled \in SUBSET Table
      BY <2>1
    <3> QED
      BY <1>0, <2>2, <3>1, CarriedNow
  <2>6. ~excuse' => info[d] <= Carried(bytes, d, Table)
    BY <2>3, <2>4, <2>5
  <2>7. 0 <= Carried(bytes, d, Table \ Table) /\ 0 + Carried(bytes, d, Table) = Carried(bytes, d, Table)
    BY <2>4
  <2> QED
    BY <2>3, <2>6, <2>7
<1>5. CASE SamplePublishes
  <2>1. /\ sampling /\ ~sampling' /\ left = {} /\ info' = total
        /\ \A d \in Directions : sum'[d] = sum[d] + (total[d] - info[d])
        /\ UNCHANGED <<bytes, left, sampled>>
    <3>1. \A d \in Directions : delta'[d] = total[d] - info[d] /\ sum'[d] = sum[d] + delta'[d]
      BY <1>5 DEF SamplePublishes
    <3> QED
      BY <1>5, <3>1 DEF SamplePublishes, Kept, historyVars
  <2>2. sampled \in SUBSET Clients
    BY <1>0 DEF StatTypeOK
  <2> SUFFICES ASSUME NEW d \in Directions
               PROVE  /\ sum'[d] = total[d]
                      /\ total[d] <= Carried(bytes, d, Clients)
                      /\ total[d] <= Carried(bytes, d, sampled)
    BY <1>0, <2>1 DEF FiguresInv
  <2>3. sum[d] = info[d] /\ total[d] <= Carried(bytes, d, sampled)
    <3>1. sampled \ left = sampled
      BY <2>1
    <3> QED
      BY <1>0, <2>1, <3>1 DEF FiguresInv
  <2>4. total[d] \in Nat /\ info[d] \in Nat
    BY <1>0 DEF StatTypeOK
  <2>5. /\ Carried(bytes, d, sampled) <= Carried(bytes, d, Clients)
        /\ Carried(bytes, d, sampled) \in Nat /\ Carried(bytes, d, Clients) \in Nat
    BY <1>0, <2>2, CarriedNow
  <2>6. sum'[d] = total[d]
    BY <2>1, <2>3, <2>4
  <2> QED
    BY <2>3, <2>4, <2>5, <2>6
<1>6. ASSUME NEW c \in Clients,
             \/ Accepts(c) \/ AcceptCounts(c) \/ Closes(c) \/ CloseReturns(c)
             \/ ClosesAgain(c) \/ Joins(c) \/ Departs(c)
      PROVE  FiguresInv'
  BY <1>1, <1>6 DEF Accepts, AcceptCounts, Closes, CloseReturns, ClosesAgain, Joins, Departs
<1>7. CASE UNCHANGED statVars
  BY <1>1, <1>7 DEF statVars
<1> QED
  BY <1>2, <1>3, <1>4, <1>5, <1>6, <1>7 DEF StatNext

\* The figures start at nothing.
LEMMA StatInitially == StatInit => StatInv
<1> SUFFICES ASSUME StatInit PROVE StatInv
  OBVIOUS
<1>1. StatTypeOK
  BY StatInitTyped
<1>2. \A d \in Directions : sum[d] = 0 /\ info[d] = 0
  BY DEF StatInit, Zero
<1>3. left = {} /\ sampled = {} /\ ~sampling
  BY DEF StatInit
<1>4. \A d \in Directions : 0 <= Carried(bytes, d, Clients) /\ 0 <= Carried(bytes, d, sampled)
  <2>1. \A d \in Directions : Carried(bytes, d, Clients) \in Nat /\ Carried(bytes, d, sampled) \in Nat
    BY <1>1, <1>3, CarriedNow
  <2> QED
    BY <2>1
<1> QED
  BY <1>1, <1>2, <1>3, <1>4 DEF StatInv, FiguresInv

\* Added up, the figures in go-servers never exceed the bytes really carried,
\* for any number of clients that come and go while the counters run.
THEOREM NeverOverReportedTheorem == StatSpec => []NeverOverReported
<1>1. StatInv => NeverOverReported
  BY DEF StatInv, FiguresInv, NeverOverReported, Carried
<1> QED
  BY <1>1, StatInitially, StatStep, PTL DEF StatSpec

\* A negative figure is published only after a client that the sample before
\* had counted left the table.
THEOREM NegativeOnlyAfterDepartureTheorem == StatSpec => NegativeOnlyAfterDeparture
<1> DEFINE Excused == sampling /\ ~sampling' =>
               \A d \in Directions : delta'[d] < 0 => excuse
<1>1. StatInv /\ [StatNext]_statVars => [Excused]_statVars
  <2> SUFFICES ASSUME StatInv, StatNext, sampling, ~sampling', NEW d \in Directions, ~excuse
               PROVE  ~(delta'[d] < 0)
    OBVIOUS
  <2>1. SamplePublishes
    BY DEF StatNext, Accepts, AcceptCounts, Closes, CloseReturns, ClosesAgain, Transfers,
           Joins, Departs, SampleVisits, SampleStarts, sampleVars
  <2>2. delta'[d] = total[d] - info[d] /\ left = {}
    BY <2>1 DEF SamplePublishes
  <2>3. info[d] <= total[d] + Carried(bytes, d, {})
    BY <2>2 DEF StatInv, FiguresInv
  <2>4. Carried(bytes, d, {}) = 0
    BY CarriedNow DEF StatInv
  <2>5. info[d] \in Nat /\ total[d] \in Nat
    BY DEF StatInv, StatTypeOK
  <2> QED
    BY <2>2, <2>3, <2>4, <2>5
<1> QED
  BY <1>1, StatInitially, StatStep, PTL DEF StatSpec, NegativeOnlyAfterDeparture

-----------------------------------------------------------------------------
(***************************************************************************)
(* The vote on the internet address.                                       *)
(***************************************************************************)

\* The largest of finitely many numbers.
LEMMA MaxIsMember ==
    ASSUME NEW n \in Nat, NEW s \in SUBSET (1..n), s # {}
    PROVE  Max(s) \in s
<1> DEFINE T == {n - i : i \in s}
<1>0. \A i \in s : i \in Int /\ n - i \in Nat
  OBVIOUS
<1>1. T \in SUBSET Nat /\ T # {}
  BY <1>0
<1>2. PICK x \in T : \A y \in T : x <= y
  BY <1>1, LeastNumber
<1>3. PICK i \in s : x = n - i
  BY <1>2
<1>4. \A j \in s : i >= j
  <2> SUFFICES ASSUME NEW j \in s PROVE i >= j
    OBVIOUS
  <2>1. n - j \in T
    OBVIOUS
  <2>2. n - i <= n - j
    BY <1>2, <1>3, <2>1
  <2>3. i \in Int /\ j \in Int
    OBVIOUS
  <2> QED
    BY <2>2, <2>3
<1> QED
  BY <1>4 DEF Max

\* What the loop of resolveIp starts from.
NoVote == [vote |-> 0, ip |-> Empty]

\* One round of the loop.
Round(t, votes, ip) ==
    IF t.vote < votes[ip] THEN [vote |-> votes[ip], ip |-> ip] ELSE t

\* The function by whose recursion the loop is defined.
TopFcn(votes, order) ==
    CHOOSE g : g = [s \in SUBSET DOMAIN order |->
        IF s = {} THEN NoVote ELSE Round(g[s \ {Max(s)}], votes, order[Max(s)])]

\* The address that wins the loop is the one this function ends with.
LEMMA TopIpIsFold ==
    ASSUME NEW said, NEW order
    PROVE  TopIp(said, order) = TopFcn(IpVotes(said), order)[DOMAIN order].ip
  BY DEF TopIp, FoldLeft, MapThenFoldSet, TopFcn, Round, NoVote

\* The recursion defines a function: after some of the addresses have been
\* met, the loop holds one of them and its votes, and none has more.
LEMMA TopFcnLeads ==
    ASSUME NEW D, NEW votes \in [D -> Nat \ {0}], NEW n \in Nat, NEW order \in [1..n -> D]
    PROVE  \A s \in SUBSET (1..n) : s # {} =>
               \E i \in s : /\ TopFcn(votes, order)[s].ip = order[i]
                            /\ \A j \in s : votes[order[j]] <= votes[order[i]]
<1> DEFINE V == [vote : Nat, ip : D \cup {Empty}]
           pick == [s \in SUBSET (1..n) |-> Max(s)]
           step == [i \in 1..n |-> [t \in V |-> Round(t, votes, order[i])]]
           f == TopFcn(votes, order)
<1>1. PicksMember(pick, 1..n) /\ \A s \in SUBSET (1..n) : pick[s] = Max(s)
  BY MaxIsMember DEF PicksMember
<1>2. /\ \A i \in 1..n, t \in V : step[i][t] = Round(t, votes, order[i])
      /\ StepsWithin(step, 1..n, V)
  BY DEF StepsWithin, Round
<1>3. NoVote \in V
  BY DEF NoVote
<1>4. IsFiniteSet(1..n) /\ DOMAIN order = 1..n
  BY FS_Interval
<1> HIDE DEF V, pick, step
<1>5. PICK g \in [SUBSET (1..n) -> V] : IsFold(g, 1..n, NoVote, pick, step)
  BY <1>1, <1>2, <1>3, <1>4, FoldExists
<1>6. ASSUME NEW s \in SUBSET (1..n), s # {}
      PROVE  g[s] = Round(g[s \ {Max(s)}], votes, order[Max(s)])
  <2>1. Max(s) \in 1..n /\ g[s \ {Max(s)}] \in V
    BY <1>6, MaxIsMember
  <2>2. g[s] = step[Max(s)][g[s \ {Max(s)}]]
    BY <1>1, <1>5, <1>6 DEF IsFold
  <2> QED
    BY <1>2, <2>1, <2>2
<1>7. g[{}] = NoVote
  BY <1>5 DEF IsFold
<1>8. g = [s \in SUBSET DOMAIN order |->
              IF s = {} THEN NoVote ELSE Round(g[s \ {Max(s)}], votes, order[Max(s)])]
  BY <1>4, <1>6, <1>7
<1>9. f = [s \in SUBSET DOMAIN order |->
              IF s = {} THEN NoVote ELSE Round(f[s \ {Max(s)}], votes, order[Max(s)])]
  BY <1>8 DEF TopFcn
<1> HIDE DEF f
<1>10. f[{}] = NoVote /\ \A s \in SUBSET (1..n) : s # {} =>
           f[s] = Round(f[s \ {Max(s)}], votes, order[Max(s)])
  BY <1>4, <1>9
<1> DEFINE Leads(s, i) == /\ f[s] = [vote |-> votes[order[i]], ip |-> order[i]]
                          /\ \A j \in s : votes[order[j]] <= votes[order[i]]
           G == {s \in SUBSET (1..n) : s # {} => \E i \in s : Leads(s, i)}
<1>11. ASSUME NEW s \in SUBSET (1..n), \A x \in s : s \ {x} \in G PROVE s \in G
  <2> SUFFICES ASSUME s # {} PROVE \E i \in s : Leads(s, i)
    OBVIOUS
  <2> DEFINE m == Max(s)
             r == s \ {m}
  <2>1. m \in s
    BY MaxIsMember
  <2>2. f[s] = Round(f[r], votes, order[m])
    BY <1>10
  <2>3. r \in G /\ r \in SUBSET (1..n) /\ s = r \cup {m}
    BY <1>11, <2>1
  <2> HIDE DEF m, r
  <2>4. votes[order[m]] \in Nat /\ 0 < votes[order[m]]
    <3>1. order[m] \in D
      BY <2>1
    <3>2. votes[order[m]] \in Nat \ {0}
      BY <3>1
    <3> QED
      BY <3>2
  <2>5. CASE r = {}
    <3>1. f[r].vote = 0
      BY <1>10, <2>5 DEF NoVote
    <3>2. f[s] = [vote |-> votes[order[m]], ip |-> order[m]]
      BY <2>2, <2>4, <3>1 DEF Round
    <3>3. \A j \in s : votes[order[j]] <= votes[order[m]]
      BY <2>3, <2>4, <2>5
    <3> QED
      BY <2>1, <3>2, <3>3
  <2>6. CASE r # {}
    <3>1. PICK i \in r : Leads(r, i)
      BY <2>3, <2>6
    <3>2. votes[order[i]] \in Nat /\ \A j \in r : votes[order[j]] \in Nat
      BY <2>3
    <3>3. f[r].vote = votes[order[i]]
      BY <3>1
    <3>4. CASE votes[order[i]] < votes[order[m]]
      <4>1. f[s] = [vote |-> votes[order[m]], ip |-> order[m]]
        BY <2>2, <3>3, <3>4 DEF Round
      <4>2. \A j \in r : votes[order[j]] <= votes[order[m]]
        BY <2>4, <3>1, <3>2, <3>4
      <4>3. \A j \in s : votes[order[j]] <= votes[order[m]]
        BY <2>3, <2>4, <4>2
      <4> QED
        BY <2>1, <4>1, <4>3
    <3>5. CASE ~(votes[order[i]] < votes[order[m]])
      <4>1. f[s] = f[r]
        BY <2>2, <3>3, <3>5 DEF Round
      <4>2. votes[order[m]] <= votes[order[i]]
        BY <2>4, <3>2, <3>5
      <4>3. \A j \in s : votes[order[j]] <= votes[order[i]]
        BY <2>3, <3>1, <4>2
      <4>4. i \in s /\ f[s] = [vote |-> votes[order[i]], ip |-> order[i]]
        BY <2>3, <3>1, <4>1
      <4> QED
        BY <4>3, <4>4
    <3> QED
      BY <3>4, <3>5
  <2> QED
    BY <2>5, <2>6
<1>12. \A s \in SUBSET (1..n) : s \in G
  <2> DEFINE N == 1..n
  <2> HIDE DEF G
  <2>1. \A s \in SUBSET N : (\A x \in s : s \ {x} \in G) => s \in G
    BY <1>11
  <2>2. IsFiniteSet(N)
    BY <1>4
  <2> HIDE DEF N
  <2>3. \A s \in SUBSET N : s \in G
    BY <2>1, <2>2, SubsetInduction
  <2> QED
    BY <2>3 DEF N
<1>13. ASSUME NEW s \in SUBSET (1..n), s # {}
       PROVE  \E i \in s : f[s].ip = order[i] /\ \A j \in s : votes[order[j]] <= votes[order[i]]
  <2>1. PICK i \in s : Leads(s, i)
    BY <1>12, <1>13
  <2>2. f[s].ip = order[i] /\ \A j \in s : votes[order[j]] <= votes[order[i]]
    BY <2>1
  <2> QED
    BY <2>2
<1> QED
  BY <1>13 DEF f

\* Every answer that is counted has a vote, and there are finitely many.
LEMMA VotesCounted ==
    ASSUME NEW said \in [Resolvers -> Sayings]
    PROVE  /\ IsFiniteSet(DOMAIN IpVotes(said))
           /\ IpVotes(said) \in [DOMAIN IpVotes(said) -> Nat \ {0}]
<1> DEFINE D == {said[r] : r \in Resolvers} \ {Failed}
<1>1. DOMAIN IpVotes(said) = D
  BY DEF IpVotes
<1>2. IsFiniteSet(D)
  <2>1. IsFiniteSet(Addresses \cup {Empty})
    BY NamingAssumption, FS_AddElement
  <2>2. D \in SUBSET (Addresses \cup {Empty})
    BY DEF Sayings
  <2> HIDE DEF D
  <2> QED
    BY <2>1, <2>2, FS_Subset
<1>3. ASSUME NEW ip \in D PROVE Cardinality({r \in Resolvers : said[r] = ip}) \in Nat \ {0}
  <2> DEFINE B == {r \in Resolvers : said[r] = ip}
  <2>1. B # {} /\ B \in SUBSET Resolvers
    OBVIOUS
  <2> HIDE DEF B
  <2>2. IsFiniteSet(B)
    BY <2>1, NamingAssumption, FS_Subset
  <2>3. Cardinality(B) \in Nat /\ Cardinality(B) # 0
    BY <2>1, <2>2, FS_CardinalityType, FS_EmptySet
  <2> QED
    BY <2>3 DEF B
<1>4. IpVotes(said) \in [D -> Nat \ {0}]
  BY <1>3 DEF IpVotes
<1> HIDE DEF D
<1> QED
  BY <1>1, <1>2, <1>4

\* The loop of resolveIp settles on an answer that as many resolvers gave as
\* any other, in whatever order it meets the votes, and on the empty string
\* when nobody answered.
LEMMA TopIpLeads ==
    ASSUME NEW said \in [Resolvers -> Sayings],
           NEW order \in SetToSeqs(DOMAIN IpVotes(said))
    PROVE  LET votes == IpVotes(said)
               won == TopIp(said, order)
           IN  \A ip \in DOMAIN votes : won \in DOMAIN votes /\ votes[ip] <= votes[won]
<1> DEFINE votes == IpVotes(said)
           D == DOMAIN IpVotes(said)
           n == Cardinality(D)
<1>1. IsFiniteSet(D) /\ votes \in [D -> Nat \ {0}] /\ n \in Nat
  BY VotesCounted, FS_CardinalityType
<1>2. order \in [1..n -> D] /\ \A i, j \in 1..n : i # j => order[i] # order[j]
  BY DEF SetToSeqs
<1>3. TopIp(said, order) = TopFcn(votes, order)[1..n].ip
  <2>1. DOMAIN order = 1..n
    BY <1>2
  <2> QED
    BY <2>1, TopIpIsFold
<1> HIDE DEF votes, D, n
<1>4. order \in Surjection(1..n, D)
  <2>1. order \in Injection(1..n, D)
    BY <1>2 DEF Injection, IsInjective
  <2>2. Cardinality(1..n) = n
    BY <1>1, FS_Interval
  <2> QED
    BY <1>1, <2>1, <2>2, FS_Injection DEF n
<1>5. ASSUME NEW ip \in D
      PROVE  TopIp(said, order) \in D /\ votes[ip] <= votes[TopIp(said, order)]
  <2>1. PICK k \in 1..n : order[k] = ip
    BY <1>4 DEF Surjection
  <2>2. PICK i \in 1..n : /\ TopFcn(votes, order)[1..n].ip = order[i]
                          /\ \A j \in 1..n : votes[order[j]] <= votes[order[i]]
    <3>1. 1..n \in SUBSET (1..n) /\ 1..n # {}
      BY <2>1
    <3> QED
      BY <1>1, <1>2, <3>1, TopFcnLeads
  <2> QED
    BY <1>2, <1>3, <2>1, <2>2
<1> QED
  BY <1>5 DEF votes, D

\* The address a connector goes by has as many votes as any other answer, and
\* it gives up with "no available dns" only when the empty answer has, for
\* any resolvers, answers and restarts and any order of the votes.
THEOREM PluralityWinsTheorem == Spec => []PluralityWins
<1>1. Init => PluralityWins
  BY DEF Init, PluralityWins
<1>2. PluralityWins /\ [Next]_vars => PluralityWins'
  <2> SUFFICES ASSUME PluralityWins, [Next]_vars PROVE PluralityWins'
    OBVIOUS
  <2>1. ASSUME UNCHANGED <<answers, cached>>, main # "panicked", main' # "panicked"
        PROVE  PluralityWins'
    BY <2>1 DEF PluralityWins, IpVotes
  <2>2. CASE UNCHANGED vars
    BY <2>2 DEF vars, PluralityWins, IpVotes
  <2>3. ASSUME NEW said \in [Resolvers -> Sayings],
               NEW order \in SetToSeqs(DOMAIN IpVotes(said)), Resolves(said, order)
        PROVE  PluralityWins'
    <3>1. answers' = said /\ cached' = TopIp(said, order) /\ main' # "panicked"
      BY <2>3 DEF Resolves
    <3> QED
      BY <3>1, TopIpLeads DEF PluralityWins
  <2>4. ASSUME NEW said \in [Resolvers -> Sayings],
               NEW order \in SetToSeqs(DOMAIN IpVotes(said)), ResolvePanics(said, order)
        PROVE  PluralityWins'
    <3>1. answers' = said /\ TopIp(said, order) = Empty /\ main' = "panicked"
      BY <2>4 DEF ResolvePanics
    <3> QED
      BY <3>1, TopIpLeads DEF PluralityWins
  <2>5. CASE \/ ConfigAccepted \/ ConfigRejected \/ Listens \/ ListenFails \/ Discovers
             \/ \E withdrawn \in {{}} \cup {{k} : k \in InternetAddress} : Unregisters(withdrawn)
    BY <2>1, <2>5 DEF ConfigAccepted, ConfigRejected, Listens, ListenFails, Discovers, Unregisters
  <2>6. CASE Samples \/ SampleCrashes \/ Publish \/ PublishFails
    BY <2>1, <2>6 DEF Samples, SampleCrashes, Publish, Publishes, PublishFails, Alive, Ended
  <2>7. CASE ServerStops \/ Exits
    BY <2>1, <2>7 DEF ServerStops, Exits
  <2>8. CASE Restarts
    BY <2>8 DEF Restarts, PluralityWins
  <2> QED
    BY <2>2, <2>3, <2>4, <2>5, <2>6, <2>7, <2>8 DEF Next, StartUp
<1> QED
  BY <1>1, <1>2, PTL DEF Spec

=============================================================================
