---------------------------- MODULE TimersProofs ----------------------------
(***************************************************************************)
(* The two timers that close sessions: the heartbeat sweep for any number  *)
(* of clients and any times, and session expiry for any tokens, any times  *)
(* and any overlap of the goroutines.                                      *)
(***************************************************************************)
EXTENDS Heartbeats, Expiry, TLAPS

-----------------------------------------------------------------------------
(***************************************************************************)
(* The heartbeat sweep.                                                    *)
(***************************************************************************)
Member(c) == state[c] = "tabled" /\ versioned[c]

\* No recorded time is ahead of the clock, and one that a handler holds is
\* not behind the one on record: a late store never turns heartBeatTime back.
TimesPast ==
    \A c \in Clients : /\ heartBeatTime[c] <= now
                       /\ state[c] = "none" => hand[c] = None
                       /\ hand[c] # None => heartBeatTime[c] <= hand[c] /\ hand[c] <= now

\* The sweep under way read the clock after it was due, and the next one is
\* due a period after the last.
SweepTimes ==
    /\ now <= due + Delay
    /\ due <= now + Period
    /\ spc # "wait" => due - Timeout <= from /\ from <= now - Timeout

\* What the sweeps have made sure of: a client in the table has been heard of
\* since the limit of the sweep before, and, once visited, of this one.
Heard ==
    \A c \in Clients : Member(c) =>
        /\ due - Period - Delay - Timeout <= heartBeatTime[c]
        /\ spc = "sweep" /\ c \notin left \cup judged => from <= heartBeatTime[c]

\* The client found late and not yet closed: there is one at most, and only a
\* heartbeat stored since then may have made it less late.
Judgement ==
    /\ \A c, d \in judged : c = d
    /\ \A c \in judged : spc = "sweep" /\ (beaten \/ heartBeatTime[c] < from)

\* The inductive invariant.
HeartInv == TypeOK /\ TimesPast /\ SweepTimes /\ Heard /\ Judgement

\* Every step of a handler, of the sweep and of the clock preserves it.
LEMMA HeartStep == HeartInv /\ [Next]_vars => HeartInv'
<1> SUFFICES ASSUME HeartInv, [Next]_vars PROVE HeartInv'
  OBVIOUS
<1> USE HeartbeatAssumption DEF HeartInv, TypeOK, None, clientVars, sweepVars, visitVars
<1>1. CASE Tick
  <2>1. TypeOK'
    BY <1>1 DEF Tick, TimesPast
  <2>2. TimesPast' /\ SweepTimes'
    BY <1>1 DEF Tick, TimesPast, SweepTimes
  <2>3. Heard'
    BY <1>1 DEF Tick, TimesPast, SweepTimes, Heard, Judgement, Member
  <2>4. Judgement'
    BY <1>1 DEF Tick, Judgement
  <2> QED
    BY <2>1, <2>2, <2>3, <2>4 DEF HeartInv
<1>2. ASSUME NEW c \in Clients, NEW v \in BOOLEAN, Register(c, v) PROVE HeartInv'
  <2>1. TypeOK'
    BY <1>2 DEF Register, TimesPast
  <2>2. TimesPast' /\ SweepTimes'
    BY <1>2 DEF Register, TimesPast, SweepTimes
  <2>3. Heard'
    BY <1>2 DEF Register, TimesPast, SweepTimes, Heard, Judgement, Member
  <2>4. Judgement'
    BY <1>2 DEF Register, Judgement
  <2> QED
    BY <2>1, <2>2, <2>3, <2>4 DEF HeartInv
<1>3. ASSUME NEW c \in Clients, BeatReads(c) PROVE HeartInv'
  <2>1. TypeOK'
    BY <1>3 DEF BeatReads, TimesPast
  <2>2. TimesPast' /\ SweepTimes'
    BY <1>3 DEF BeatReads, TimesPast, SweepTimes
  <2>3. Heard'
    BY <1>3 DEF BeatReads, TimesPast, SweepTimes, Heard, Judgement, Member
  <2>4. Judgement'
    BY <1>3 DEF BeatReads, Judgement
  <2> QED
    BY <2>1, <2>2, <2>3, <2>4 DEF HeartInv
<1>4. ASSUME NEW c \in Clients, BeatStores(c) PROVE HeartInv'
  <2>1. TypeOK'
    BY <1>4 DEF BeatStores, TimesPast
  <2>2. TimesPast' /\ SweepTimes'
    BY <1>4 DEF BeatStores, TimesPast, SweepTimes
  <2>3. Heard'
    BY <1>4 DEF BeatStores, TimesPast, SweepTimes, Heard, Judgement, Member
  <2>4. Judgement'
    BY <1>4 DEF BeatStores, Judgement
  <2> QED
    BY <2>1, <2>2, <2>3, <2>4 DEF HeartInv
<1>5. ASSUME NEW c \in Clients, Leaves(c) PROVE HeartInv'
  <2>1. TypeOK'
    BY <1>5 DEF Leaves, TimesPast
  <2>2. TimesPast' /\ SweepTimes'
    BY <1>5 DEF Leaves, TimesPast, SweepTimes
  <2>3. Heard'
    BY <1>5 DEF Leaves, TimesPast, SweepTimes, Heard, Judgement, Member
  <2>4. Judgement'
    BY <1>5 DEF Leaves, Judgement
  <2> QED
    BY <2>1, <2>2, <2>3, <2>4 DEF HeartInv
<1>6. ASSUME NEW c \in Clients, SweepLoads(c) PROVE HeartInv'
  <2>1. TypeOK'
    BY <1>6 DEF SweepLoads, Late, TimesPast
  <2>2. TimesPast' /\ SweepTimes'
    BY <1>6 DEF SweepLoads, Late, TimesPast, SweepTimes
  <2>3. Heard'
    BY <1>6 DEF SweepLoads, Late, TimesPast, SweepTimes, Heard, Judgement, Member
  <2>4. Judgement'
    BY <1>6 DEF SweepLoads, Late, Judgement
  <2> QED
    BY <2>1, <2>2, <2>3, <2>4 DEF HeartInv
<1>7. ASSUME NEW c \in Clients, SweepCloses(c) PROVE HeartInv'
  <2>1. TypeOK'
    BY <1>7 DEF SweepCloses, TimesPast
  <2>2. TimesPast' /\ SweepTimes'
    BY <1>7 DEF SweepCloses, TimesPast, SweepTimes
  <2>3. Heard'
    BY <1>7 DEF SweepCloses, TimesPast, SweepTimes, Heard, Judgement, Member
  <2>4. Judgement'
    BY <1>7 DEF SweepCloses, Judgement
  <2> QED
    BY <2>1, <2>2, <2>3, <2>4 DEF HeartInv
<1>8. CASE SweepStarts
  <2>1. TypeOK'
    BY <1>8 DEF SweepStarts, TimesPast
  <2>2. TimesPast' /\ SweepTimes'
    BY <1>8 DEF SweepStarts, TimesPast, SweepTimes
  <2>3. Heard'
    BY <1>8 DEF SweepStarts, TimesPast, SweepTimes, Heard, Judgement, Member
  <2>4. Judgement'
    BY <1>8 DEF SweepStarts, Judgement
  <2> QED
    BY <2>1, <2>2, <2>3, <2>4 DEF HeartInv
<1>9. CASE SweepLocks
  <2>1. TypeOK'
    BY <1>9 DEF SweepLocks, TimesPast
  <2>2. TimesPast' /\ SweepTimes'
    BY <1>9 DEF SweepLocks, TimesPast, SweepTimes
  <2>3. Heard'
    BY <1>9 DEF SweepLocks, TimesPast, SweepTimes, Heard, Judgement, Member
  <2>4. Judgement'
    BY <1>9 DEF SweepLocks, Judgement
  <2> QED
    BY <2>1, <2>2, <2>3, <2>4 DEF HeartInv
<1>10. CASE SweepEnds
  <2>1. TypeOK'
    BY <1>10 DEF SweepEnds, TimesPast
  <2>2. TimesPast' /\ SweepTimes'
    BY <1>10 DEF SweepEnds, TimesPast, SweepTimes
  <2>3. Heard'
    BY <1>10 DEF SweepEnds, TimesPast, SweepTimes, Heard, Judgement, Member
  <2>4. Judgement'
    BY <1>10 DEF SweepEnds, Judgement
  <2> QED
    BY <2>1, <2>2, <2>3, <2>4 DEF HeartInv
<1>11. CASE UNCHANGED vars
  BY <1>11 DEF vars, TimesPast, SweepTimes, Heard, Judgement, Member
<1> QED
  BY <1>1, <1>2, <1>3, <1>4, <1>5, <1>6, <1>7, <1>8, <1>9, <1>10, <1>11 DEF Next

\* The invariant holds from the start: no client, no sweep, and the first one
\* due after a period.
LEMMA HeartInit == Init => HeartInv
<1> SUFFICES ASSUME Init PROVE HeartInv
  OBVIOUS
<1> USE HeartbeatAssumption DEF Init, None
<1>1. beaten \in BOOLEAN /\ judged \in SUBSET Clients
  OBVIOUS
<1>2. TypeOK
  BY <1>1 DEF TypeOK
<1>3. TimesPast /\ SweepTimes /\ Heard /\ Judgement
  BY DEF TimesPast, SweepTimes, Heard, Judgement, Member
<1> QED
  BY <1>2, <1>3 DEF HeartInv

\* The invariant of the sweep, type correctness included.
THEOREM HeartbeatInvariant == Spec => []HeartInv
  BY HeartInit, HeartStep, PTL DEF Spec

\* initHeartBeat finds nobody late whose recorded heartbeat is not really too
\* old at the load, and closes nobody else; at the Close the record is still
\* too old, or a heartbeat was stored since the load.
THEOREM OnlySilent == Spec => OnlySilentClosed
<1> DEFINE Step ==
        \A c \in Clients :
            /\ c \in judged' \ judged => now - heartBeatTime[c] > Timeout
            /\ state[c] = "tabled" /\ state'[c] = "closing"
                  => c \in judged /\ (beaten \/ now - heartBeatTime[c] > Timeout)
<1>1. ASSUME HeartInv, [Next]_vars PROVE [Step]_vars
  <2> USE HeartbeatAssumption DEF HeartInv, TypeOK, clientVars, sweepVars, visitVars
  <2>1. ASSUME NEW c \in Clients, SweepLoads(c) PROVE Step
    BY <1>1, <2>1 DEF SweepLoads, Late, SweepTimes
  <2>2. ASSUME NEW c \in Clients, SweepCloses(c) PROVE Step
    BY <1>1, <2>2 DEF SweepCloses, SweepTimes, Judgement
  <2>3. ASSUME \/ Tick \/ SweepStarts \/ SweepLocks \/ SweepEnds
               \/ \E c \in Clients, v \in BOOLEAN : Register(c, v)
               \/ \E c \in Clients : BeatReads(c) \/ BeatStores(c) \/ Leaves(c)
        PROVE  Step
    BY <1>1, <2>3 DEF Tick, SweepStarts, SweepLocks, SweepEnds, Register, BeatReads, BeatStores,
       Leaves
  <2> QED
    BY <1>1, <2>1, <2>2, <2>3 DEF Next
<1>2. HeartInv /\ [Next]_vars => [Step]_vars
  BY <1>1
<1> QED
  BY <1>2, HeartbeatInvariant, PTL DEF Spec, OnlySilentClosed

\* initHeartBeat misses nobody who has been silent for the time allowed, one
\* period and the lateness of two sweeps.
THEOREM Bounded == Spec => []SilenceBounded
<1>1. HeartInv => SilenceBounded
  BY HeartbeatAssumption DEF HeartInv, TypeOK, SweepTimes, Heard, Member, SilenceBounded
<1> QED
  BY <1>1, HeartbeatInvariant, PTL

-----------------------------------------------------------------------------
(***************************************************************************)
(* Session expiry.                                                         *)
(***************************************************************************)
\* A place of expire behind the computation of durationInMills.
Computed(i) == pc[i] \in {"test", "store", "reset"}

\* The tokens presented are the first n, and each has its goroutine.
Numbered ==
    /\ \A i \in Tokens : pc[i] # "none" <=> i <= n
    /\ ruling <= n
    /\ ended => conn = "stopped"

\* A duration that was computed reaches to the token's expiry, unless that is
\* too far, however long ago the clock was read: the clock is only divided,
\* never advanced.
DurationReaches ==
    \A i \in Tokens : Computed(i) =>
        expireTime[i] > 0 /\ Respects(expireTime[i], When(clock, duration[i]))

\* A timer exists from the test of its token's goroutine on, and is known to
\* the Client from the store on.
TimersMade ==
    \A i \in Tokens :
        /\ pc[i] \in {"none", "start", "test"} => ~Running(i)
        /\ expireTimer = i => pc[i] \in {"reset", "done"}
        /\ pc[i] = "reset" => expireTimer # 0

\* What no overlap means: one goroutine at a time, none after ending, and the
\* timer it works on is the one of the Client.
NoOverlap ==
    ~raced => \A i \in Tokens : Active(i) =>
        /\ \A j \in Tokens : Active(j) => j = i
        /\ ~ended
        /\ pc[i] = "store" => expireTimer = 0
        /\ pc[i] = "reset" /\ Running(i) => expireTimer = i

\* The inductive invariant.
ExpiryInv ==
    /\ ExpiryTypeOK
    /\ Numbered
    /\ DurationReaches
    /\ TimersMade
    /\ NeverBeforeAll
    /\ NoOverlap
    /\ OneTimer

\* A natural number divided by a positive one is a natural number, and not
\* greater.
LEMMA DivFacts ==
    ASSUME NEW a \in Nat, NEW b \in Nat \ {0}
    PROVE  (a \div b) \in Nat /\ (a \div b) <= a
OBVIOUS

\* The clock as expire reads it is not ahead of the clock.
LEMMA CoarseNowFacts == ASSUME ExpiryTypeOK PROVE CoarseNow \in Nat /\ CoarseNow <= clock
<1>1. (clock \div Second) \in Nat /\ (clock \div Second) <= clock
  BY ExpiryAssumption, DivFacts DEF ExpiryTypeOK
<1>2. CoarseNow \in Nat /\ CoarseNow <= (clock \div Second)
  BY <1>1, ExpiryAssumption, DivFacts DEF CoarseNow
<1> QED
  BY <1>1, <1>2 DEF ExpiryTypeOK

\* Multiples of a positive number keep the order of their factors.
LEMMA Products ==
    ASSUME NEW a \in Int, NEW b \in Int, NEW m \in Nat \ {0}
    PROVE  /\ a * m \in Int
           /\ a <= b => a * m <= b * m
           /\ (a - b) * m = a * m - b * m
<1>1. (a - b) * m = a * m - b * m
  OBVIOUS
<1>2. a <= b => (b - a) * m >= 0
  OBVIOUS
<1>3. (b - a) * m = b * m - a * m
  OBVIOUS
<1>4. a * m \in Int /\ b * m \in Int
  OBVIOUS
<1> QED
  BY <1>1, <1>2, <1>3, <1>4

\* The remainder of a smaller number is the number itself.
LEMMA SmallRemainder ==
    ASSUME NEW a \in Nat, NEW m \in Nat \ {0}
    PROVE  /\ a < m => a % m = a
OBVIOUS

\* The int64 product is a number, and the true one when that fits.
LEMMA WrapFacts ==
    ASSUME NEW x \in Int
    PROVE  Wrap(x) \in Int /\ (0 <= x /\ x < Limit => Wrap(x) = x)
<1>1. 2 * Limit \in Nat \ {0} /\ x + Limit \in Int
  BY ExpiryAssumption
<1>2. ((x + Limit) % (2 * Limit)) \in Int
  BY <1>1
<1>3. 0 <= x /\ x < Limit => (x + Limit) % (2 * Limit) = x + Limit
  <2>1. 0 <= x /\ x < Limit => x + Limit \in Nat /\ x + Limit < 2 * Limit
    BY ExpiryAssumption
  <2> QED
    BY <1>1, <2>1, SmallRemainder
<1> QED
  BY <1>2, <1>3, ExpiryAssumption DEF Wrap

\* A timer that is started is not due before now, nor before its duration.
LEMMA WhenFacts ==
    ASSUME ExpiryTypeOK, NEW d \in Int
    PROVE  /\ clock * Mega \in Nat
           /\ When(clock, d) \in Nat /\ When(clock, d) # Off
           /\ d > 0 => When(clock, d) = clock * Mega + d
<1>1. clock * Mega \in Nat
  BY ExpiryAssumption DEF ExpiryTypeOK
<1> QED
  BY <1>1 DEF When, Off

\* The times of the tokens are numbers.
LEMMA ExpireTimeInt == ASSUME ExpiryTypeOK PROVE \A j \in Tokens : expireTime[j] \in Int
<1>1. \A e \in ExpireTimes \cup {0} : e \in Int
  BY ExpiryAssumption
<1>2. \A j \in Tokens : expireTime[j] \in ExpireTimes \cup {0}
  BY DEF ExpiryTypeOK
<1> QED
  BY <1>1, <1>2

\* The clock advances.
LEMMA ClockStep == ASSUME ExpiryInv, ClockTicks PROVE ExpiryInv'
<1> USE ExpiryAssumption DEF ExpiryInv, ClockTicks, sessionVars, timerVars
<1>1. ExpiryTypeOK' /\ Numbered' /\ TimersMade'
  BY DEF ExpiryTypeOK, Numbered, TimersMade, Running, Tokens
<1>2. DurationReaches'
  <2> SUFFICES ASSUME NEW j \in Tokens, Computed(j)'
               PROVE  (expireTime[j] > 0 /\ Respects(expireTime[j], When(clock, duration[j])))'
    BY DEF DurationReaches
  <2>1. clock' = clock + 1 /\ UNCHANGED <<pc, duration, expireTime>>
    OBVIOUS
  <2>2. expireTime[j] \in Int /\ duration[j] \in Int /\ clock \in Nat
    BY ExpireTimeInt DEF ExpiryTypeOK
  <2>3. expireTime[j] > 0 /\ Respects(expireTime[j], When(clock, duration[j]))
    BY <2>1 DEF DurationReaches, Computed
  <2>4. clock * Mega \in Int /\ clock' * Mega \in Int /\ clock * Mega <= clock' * Mega
    BY <2>1, <2>2, Products
  <2>5. expireTime[j] * Mega \in Int
    BY <2>2, Products
  <2>6. When(clock, duration[j]) \in Int /\ When(clock, duration[j])' \in Int /\ When(clock, duration[j]) <= When(clock, duration[j])'
    BY <2>1, <2>2, <2>4 DEF When
  <2>7. CASE TooFar(expireTime[j])
    BY <2>1, <2>3, <2>7 DEF Respects, TooFar
  <2>8. CASE expireTime[j] * Mega <= When(clock, duration[j])
    <3>1. expireTime[j] * Mega <= When(clock, duration[j])'
      BY <2>5, <2>6, <2>8
    <3> QED
      BY <2>1, <2>3, <3>1 DEF Respects, TooFar
  <2> QED
    BY <2>3, <2>7, <2>8 DEF Respects
<1>3. NeverBeforeAll' /\ NoOverlap' /\ OneTimer'
  BY DEF NeverBeforeAll, NoOverlap, OneTimer, Running, Active
<1> QED
  BY <1>1, <1>2, <1>3

\* A token is presented.
LEMMA TokenStep ==
    ASSUME ExpiryInv, NEW e \in ExpireTimes, HandleToken(e) PROVE ExpiryInv'
<1> USE ExpiryAssumption DEF ExpiryInv, HandleToken, timerVars, Tokens
<1>1. ExpiryTypeOK'
  BY DEF ExpiryTypeOK
<1>2. pc[n + 1] = "none" /\ n + 1 \in Tokens
  BY DEF Numbered, ExpiryTypeOK
<1>3. Numbered'
  BY <1>2 DEF Numbered, ExpiryTypeOK
<1>4. DurationReaches' /\ TimersMade'
  BY <1>2 DEF DurationReaches, TimersMade, Computed, Running, ExpiryTypeOK
<1>5. NeverBeforeAll'
  BY <1>2 DEF NeverBeforeAll, Running, ExpiryTypeOK
<1>6. NoOverlap'
  BY <1>2 DEF NoOverlap, Active, Running, ExpiryTypeOK, Numbered
<1>7. OneTimer'
  BY <1>2 DEF OneTimer, Running, ExpiryTypeOK, TimersMade, Numbered
<1> QED
  BY <1>1, <1>3, <1>4, <1>5, <1>6, <1>7

\* expire computes the duration or gives up.
LEMMA ComputesStep ==
    ASSUME ExpiryInv, NEW i \in Tokens, ExpireComputes(i) PROVE ExpiryInv'
<1> USE ExpiryAssumption DEF ExpiryInv, ExpireComputes, sessionVars, timerVars, Tokens
<1>0. CoarseNow \in Nat /\ CoarseNow <= clock
  BY CoarseNowFacts
<1>1. ExpiryTypeOK'
  <2>1. (expireTime[i] - CoarseNow) * Mega \in Int
    BY <1>0, ExpireTimeInt, Products
  <2>2. Nanoseconds(expireTime[i] - CoarseNow) \in Int
    BY <2>1, WrapFacts DEF Nanoseconds
  <2>3. duration' \in [Tokens -> Int]
    BY <2>2 DEF ExpiryTypeOK
  <2> QED
    BY <2>3 DEF ExpiryTypeOK
<1>2. Numbered' /\ TimersMade'
  BY DEF Numbered, TimersMade, Running, ExpiryTypeOK
<1>3. DurationReaches'
  <2> DEFINE e == expireTime[i]
             d == e - CoarseNow
  <2>1. e \in Int /\ d \in Int /\ clock \in Nat
    BY <1>0, ExpireTimeInt DEF ExpiryTypeOK
  <2>2. ASSUME d > 0, ~TooFar(e) PROVE e * Mega <= When(clock, Nanoseconds(d))
    <3>1. /\ e * Mega \in Int /\ d * Mega \in Int /\ d * Mega = e * Mega - CoarseNow * Mega
          /\ CoarseNow * Mega \in Int /\ clock * Mega \in Int
          /\ CoarseNow * Mega <= clock * Mega
      BY <1>0, <2>1, Products
    <3>2. 0 <= CoarseNow * Mega /\ 1 * Mega <= d * Mega /\ 1 * Mega > 0
      BY <1>0, <2>1, <2>2, Products
    <3>3. d * Mega > 0 /\ d * Mega < Limit
      BY <2>2, <3>1, <3>2 DEF TooFar
    <3>4. Nanoseconds(d) = d * Mega
      BY <3>1, <3>3, WrapFacts DEF Nanoseconds
    <3>5. When(clock, d * Mega) = clock * Mega + d * Mega
      BY <3>1, <3>3, WhenFacts
    <3> QED
      BY <3>1, <3>4, <3>5
  <2>3. pc'[i] = "test" => duration'[i] = Nanoseconds(d) /\ d > 0 /\ e > 0
    BY DEF ExpiryTypeOK
  <2>4. pc'[i] \in {"test", "done"}
    BY DEF ExpiryTypeOK
  <2>5. \A j \in Tokens : j # i => pc'[j] = pc[j] /\ duration'[j] = duration[j]
    BY DEF ExpiryTypeOK
  <2>6. pc'[i] = "test" => TooFar(e) \/ e * Mega <= When(clock, duration'[i])
    BY <2>2, <2>3
  <2>7. UNCHANGED <<clock, expireTime>>
    OBVIOUS
  <2> QED
    BY <2>3, <2>4, <2>5, <2>6, <2>7 DEF DurationReaches, Computed, Respects
<1>4. NeverBeforeAll'
  BY DEF NeverBeforeAll, Running
<1>5. NoOverlap'
  BY DEF NoOverlap, Active, Running, ExpiryTypeOK
<1>6. OneTimer'
  BY DEF OneTimer, Running, ExpiryTypeOK, TimersMade
<1> QED
  BY <1>1, <1>2, <1>3, <1>4, <1>5, <1>6

\* expire finds a timer or creates one.
LEMMA TestsStep ==
    ASSUME ExpiryInv, NEW i \in Tokens, ExpireTests(i) PROVE ExpiryInv'
<1> USE ExpiryAssumption DEF ExpiryInv, ExpireTests, sessionVars, timerVars, Tokens
<1>0. /\ When(clock, duration[i]) \in Nat /\ When(clock, duration[i]) # Off
      /\ expireTime[i] > 0 /\ Respects(expireTime[i], When(clock, duration[i])) /\ i \in 1..n
  BY WhenFacts DEF ExpiryTypeOK, DurationReaches, Computed, Numbered
<1>1. ExpiryTypeOK'
  BY <1>0 DEF ExpiryTypeOK
<1>2. Numbered' /\ TimersMade'
  BY DEF Numbered, TimersMade, Running, ExpiryTypeOK
<1>3. DurationReaches'
  BY DEF DurationReaches, Computed, ExpiryTypeOK
<1>4. NeverBeforeAll'
  <2> SUFFICES ASSUME NEW j \in Tokens, Running(j)'
               PROVE  \E k \in 1..n : expireTime[k] > 0 /\ Respects(expireTime[k], deadline'[j])
    BY DEF NeverBeforeAll
  <2>1. CASE deadline' = deadline
    BY <2>1 DEF NeverBeforeAll, Running
  <2>2. CASE deadline' = [deadline EXCEPT ![i] = When(clock, duration[i])] /\ j # i
    BY <2>2 DEF NeverBeforeAll, Running, ExpiryTypeOK
  <2>3. CASE deadline' = [deadline EXCEPT ![i] = When(clock, duration[i])] /\ j = i
    BY <1>0, <2>3 DEF ExpiryTypeOK
  <2> QED
    BY <2>1, <2>2, <2>3
<1>5. NoOverlap'
  BY DEF NoOverlap, Active, Running, ExpiryTypeOK, TimersMade
<1>6. OneTimer'
  BY DEF OneTimer, Running, ExpiryTypeOK, TimersMade
<1> QED
  BY <1>1, <1>2, <1>3, <1>4, <1>5, <1>6

\* expire stores the timer it created.
LEMMA StoresStep ==
    ASSUME ExpiryInv, NEW i \in Tokens, ExpireStores(i) PROVE ExpiryInv'
<1> USE ExpiryAssumption DEF ExpiryInv, ExpireStores, sessionVars, Tokens
<1>1. ExpiryTypeOK'
  BY DEF ExpiryTypeOK
<1>2. Numbered' /\ TimersMade'
  BY DEF Numbered, TimersMade, Running, ExpiryTypeOK
<1>3. DurationReaches'
  BY DEF DurationReaches, Computed, ExpiryTypeOK
<1>4. NeverBeforeAll'
  BY DEF NeverBeforeAll, Running
<1>5. NoOverlap'
  BY DEF NoOverlap, Active, Running, ExpiryTypeOK
<1>6. OneTimer'
  BY DEF OneTimer, NoOverlap, Active, Running, ExpiryTypeOK
<1> QED
  BY <1>1, <1>2, <1>3, <1>4, <1>5, <1>6

\* expire resets the timer of the Client.
LEMMA ResetsStep ==
    ASSUME ExpiryInv, NEW i \in Tokens, ExpireResets(i) PROVE ExpiryInv'
<1> USE ExpiryAssumption DEF ExpiryInv, ExpireResets, sessionVars, Tokens
<1>0. /\ When(clock, duration[i]) \in Nat /\ When(clock, duration[i]) # Off
      /\ expireTime[i] > 0 /\ Respects(expireTime[i], When(clock, duration[i])) /\ i \in 1..n
      /\ expireTimer \in Tokens
  <2>1. duration[i] \in Int /\ pc[i] # "none"
    BY DEF ExpiryTypeOK
  <2>2. When(clock, duration[i]) \in Nat /\ When(clock, duration[i]) # Off
    BY <2>1, WhenFacts
  <2>3. expireTime[i] > 0 /\ Respects(expireTime[i], When(clock, duration[i]))
    BY DEF DurationReaches, Computed
  <2>4. i \in 1..n
    BY <2>1 DEF ExpiryTypeOK, Numbered
  <2>5. expireTimer \in Tokens
    BY DEF ExpiryTypeOK, TimersMade
  <2> QED
    BY <2>2, <2>3, <2>4, <2>5
<1>1. ExpiryTypeOK'
  BY <1>0 DEF ExpiryTypeOK
<1>2. Numbered' /\ TimersMade'
  BY <1>0 DEF Numbered, TimersMade, Running, ExpiryTypeOK
<1>3. DurationReaches'
  BY DEF DurationReaches, Computed, ExpiryTypeOK
<1>4. NeverBeforeAll'
  BY <1>0 DEF NeverBeforeAll, Running, ExpiryTypeOK
<1>5. NoOverlap'
  BY DEF NoOverlap, Active, Running, ExpiryTypeOK
<1>6. OneTimer'
  BY <1>0 DEF OneTimer, NoOverlap, Active, Running, ExpiryTypeOK, TimersMade
<1> QED
  BY <1>1, <1>2, <1>3, <1>4, <1>5, <1>6

\* A callback fires, or the connection ends.
LEMMA EndsStep ==
    ASSUME ExpiryInv, (\E i \in Tokens : Fires(i)) \/ PeerGone \/ PumperStops
    PROVE  ExpiryInv'
<1> USE ExpiryAssumption DEF ExpiryInv, Fires, PeerGone, PumperStops, timerVars, Tokens
<1>1. ExpiryTypeOK'
  BY DEF ExpiryTypeOK
<1>2. Numbered' /\ TimersMade'
  BY SMTT(30) DEF Numbered, TimersMade, Running, ExpiryTypeOK
<1>3. DurationReaches'
  BY DEF DurationReaches, Computed
<1>4. NeverBeforeAll'
  BY DEF NeverBeforeAll, Running, ExpiryTypeOK
<1>5. NoOverlap'
  BY DEF NoOverlap, Active, Running, ExpiryTypeOK
<1>6. OneTimer'
  BY DEF OneTimer, Running, ExpiryTypeOK
<1> QED
  BY <1>1, <1>2, <1>3, <1>4, <1>5, <1>6

\* Client.ending stops the timer.
LEMMA EndingStep == ASSUME ExpiryInv, EndingStopsTimer PROVE ExpiryInv'
<1> USE ExpiryAssumption DEF ExpiryInv, EndingStopsTimer, Tokens
<1>1. ExpiryTypeOK'
  BY DEF ExpiryTypeOK
<1>2. Numbered' /\ TimersMade'
  BY DEF Numbered, TimersMade, Running, ExpiryTypeOK
<1>3. DurationReaches'
  BY DEF DurationReaches, Computed
<1>4. NeverBeforeAll'
  BY DEF NeverBeforeAll, Running, ExpiryTypeOK
<1>5. NoOverlap'
  BY DEF NoOverlap, Active, Running, ExpiryTypeOK
<1>6. OneTimer'
  BY DEF OneTimer, Active, Running, ExpiryTypeOK
<1> QED
  BY <1>1, <1>2, <1>3, <1>4, <1>5, <1>6

\* Every step of the handlers, the goroutines, the timers and the clock
\* preserves the invariant, which holds at the registration.
THEOREM ExpiryInvariant == ExpirySpec => []ExpiryInv
<1>1. ExpiryInit => ExpiryInv
  <2> SUFFICES ASSUME ExpiryInit PROVE ExpiryInv
    OBVIOUS
  <2> USE ExpiryAssumption DEF ExpiryInit, Tokens
  <2>1. ExpiryTypeOK
    <3>1. ended \in BOOLEAN /\ raced \in BOOLEAN
      OBVIOUS
    <3>2. clock \in Nat /\ n \in 0..MaxTokens /\ expireTimer \in 0..MaxTokens /\ ruling \in 0..MaxTokens
      OBVIOUS
    <3>3. /\ expireTime \in [Tokens -> ExpireTimes \cup {0}] /\ duration \in [Tokens -> Int]
          /\ deadline \in [Tokens -> Nat \cup {Off}]
      OBVIOUS
    <3> QED
      BY <3>1, <3>2, <3>3 DEF ExpiryTypeOK
  <2>2. Numbered /\ DurationReaches /\ TimersMade
    BY DEF Numbered, DurationReaches, TimersMade, Computed, Running
  <2>3. NeverBeforeAll /\ NoOverlap /\ OneTimer
    BY DEF NeverBeforeAll, NoOverlap, OneTimer, Running, Active
  <2> QED
    BY <2>1, <2>2, <2>3 DEF ExpiryInv
<1>2. ExpiryInv /\ [ExpiryNext]_expiryVars => ExpiryInv'
  <2> SUFFICES ASSUME ExpiryInv, [ExpiryNext]_expiryVars PROVE ExpiryInv'
    OBVIOUS
  <2>1. CASE UNCHANGED expiryVars
    BY <2>1 DEF expiryVars, sessionVars, timerVars, ExpiryInv, ExpiryTypeOK, Numbered,
       DurationReaches, TimersMade, NeverBeforeAll, NoOverlap, OneTimer, Computed, Running, Active
  <2> QED
    BY <2>1, ClockStep, TokenStep, ComputesStep, TestsStep, StoresStep, ResetsStep, EndsStep,
       EndingStep DEF ExpiryNext, Expire
<1> QED
  BY <1>1, <1>2, PTL DEF ExpirySpec

\* While no two of them overlap, the tokens of a session work as one timer,
\* which Client.ending stops.
THEOREM OneTimerTheorem == ExpirySpec => []OneTimer
<1>1. ExpiryInv => OneTimer
  BY DEF ExpiryInv
<1> QED
  BY <1>1, ExpiryInvariant, PTL

\* However the goroutines of expire overlap, no timer cuts a session before
\* the time of every limited token it presented.
THEOREM NeverBeforeAllTheorem == ExpirySpec => []NeverBeforeAll
<1>1. ExpiryInv => NeverBeforeAll
  BY DEF ExpiryInv
<1> QED
  BY <1>1, ExpiryInvariant, PTL
=============================================================================
