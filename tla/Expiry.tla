------------------------------- MODULE Expiry -------------------------------
(***************************************************************************)
(* Session expiry of one Client: every accepted token starts a goroutine   *)
(* that runs Client.expire, which creates Client.expireTimer or resets it; *)
(* the timer's callback stops the pumper; Client.ending stops the timer.   *)
(*                                                                         *)
(* Nothing synchronises the goroutines.  expire tests expireTimer, creates *)
(* a timer (which runs from then on), stores it, and resets whatever       *)
(* expireTimer is by then: goroutines that overlap may each create one,    *)
(* and the one that is overwritten runs on, known to nobody.               *)
(*                                                                         *)
(* clock counts milliseconds, and so does the expireTime of a token: expire*)
(* calls the difference durationInMills.  (sessionAliveDurationInSeconds,  *)
(* which nobody calls, names the same difference seconds; were expireTime  *)
(* in seconds, every timer would fire early.)  The code subtracts          *)
(* time.Now().Unix() / 1e6, which is neither.  The difference is           *)
(* multiplied by time.Millisecond to a time.Duration, nanoseconds in an    *)
(* int64, and wraps around when it does not fit.                           *)
(* Second (1000), Mega (10^6) and Limit (2^63) are small in the instances. *)
(* A callback and a goroutine may be late by any time.                     *)
(***************************************************************************)
EXTENDS Integers

CONSTANTS Second,      \* milliseconds of a second
          Mega,        \* the divisor 1e6, and the nanoseconds of a millisecond
          Limit,       \* an int64 is below it, and not below -Limit
          Start,       \* the time of the registration
          ExpireTimes, \* Token.ExpireTime, 0 or less for no limit
          MaxClock,    \* bound: the clock
          MaxTokens    \* bound: tokens presented

ASSUME ExpiryAssumption ==
    /\ Second \in Nat \ {0}
    /\ Mega \in Nat \ {0}
    /\ Limit \in Nat \ {0}
    /\ Start \in Nat
    /\ ExpireTimes \subseteq -Limit..(Limit - 1)
    /\ MaxClock \in Nat
    /\ MaxTokens \in Nat

Tokens == 1..MaxTokens  \* in the order presented; each names its goroutine
                        \* and the timer that may be created by it

Off == -1

VARIABLES
    clock,       \* the clock
    conn,        \* the pumper: "open", "stopping" or "stopped"
    ended,       \* Client.ending has stopped the timer
    n,           \* tokens presented so far
    expireTime,  \* argument of each expire
    pc,          \* place of each expire
    duration,    \* its duration, in nanoseconds
    expireTimer, \* Client.expireTimer, 0 for nil
    deadline,    \* when each timer fires, in nanoseconds, Off while it does not run
    ruling,      \* history: the last token that set a timer, 0 for none
    raced        \* history: an expire overlapped another one, or ending

sessionVars == <<conn, ended, n, expireTime>>
timerVars == <<expireTimer, deadline>>
expiryVars == <<clock, sessionVars, pc, duration, timerVars, ruling, raced>>

ExpiryTypeOK ==
    /\ clock \in Nat
    /\ conn \in {"open", "stopping", "stopped"}
    /\ ended \in BOOLEAN
    /\ n \in 0..MaxTokens
    /\ expireTime \in [Tokens -> ExpireTimes \cup {0}]
    /\ pc \in [Tokens -> {"none", "start", "test", "store", "reset", "done"}]
    /\ duration \in [Tokens -> Int]
    /\ expireTimer \in 0..MaxTokens
    /\ deadline \in [Tokens -> Nat \cup {Off}]
    /\ ruling \in 0..MaxTokens
    /\ raced \in BOOLEAN

ExpiryInit ==
    /\ clock = Start
    /\ conn = "open"
    /\ ended = FALSE
    /\ n = 0
    /\ expireTime = [i \in Tokens |-> 0]
    /\ pc = [i \in Tokens |-> "none"]
    /\ duration = [i \in Tokens |-> 0]
    /\ expireTimer = 0
    /\ deadline = [i \in Tokens |-> Off]
    /\ ruling = 0
    /\ raced = FALSE

-----------------------------------------------------------------------------
ClockTicks ==
    /\ clock < MaxClock
    /\ clock' = clock + 1
    /\ UNCHANGED <<sessionVars, pc, duration, timerVars, ruling, raced>>

Active(i) == pc[i] \in {"start", "test", "store", "reset"}
Running(i) == deadline[i] # Off

\* clientIn for the first token, Client.refreshToken for the others, with a
\* token that decrypts (any other changes nothing here): go c.expire(e).
HandleToken(e) ==
    /\ conn # "stopped"
    /\ n < MaxTokens
    /\ n' = n + 1
    /\ expireTime' = [expireTime EXCEPT ![n + 1] = e]
    /\ pc' = [pc EXCEPT ![n + 1] = "start"]
    /\ raced' = (raced \/ \E i \in Tokens : Active(i))
    /\ UNCHANGED <<clock, conn, ended, duration, timerVars, ruling>>

\* The clock as Client.expire reads it.
CoarseNow == (clock \div Second) \div Mega

\* A product of int64 keeps the low bits.
Wrap(x) == ((x + Limit) % (2 * Limit)) - Limit

\* time.Duration(durationInMills) * time.Millisecond.
Nanoseconds(mills) == Wrap(mills * Mega)

\* External: AfterFunc and Reset fire after the duration, at once when it is
\* not positive.
When(t, d) == t * Mega + (IF d > 0 THEN d ELSE 0)

\* Client.expire: a token without a limit, or whose time is over, leaves the
\* timer as it is.
ExpireComputes(i) ==
    /\ pc[i] = "start"
    /\ LET d == expireTime[i] - CoarseNow
       IN  \/ /\ expireTime[i] > 0 /\ d > 0
              /\ duration' = [duration EXCEPT ![i] = Nanoseconds(d)]
              /\ pc' = [pc EXCEPT ![i] = "test"]
           \/ /\ ~(expireTime[i] > 0 /\ d > 0)
              /\ pc' = [pc EXCEPT ![i] = "done"]
              /\ UNCHANGED duration
    /\ UNCHANGED <<clock, sessionVars, timerVars, ruling, raced>>

\* An expire that creates a timer for every token.
Mutant_ExpireCreatesAlways(i) ==
    /\ pc[i] = "test"
    /\ deadline' = [deadline EXCEPT ![i] = When(clock, duration[i])]
    /\ pc' = [pc EXCEPT ![i] = "store"]
    /\ UNCHANGED <<clock, sessionVars, duration, expireTimer, ruling, raced>>

\* expireTimer is tested; time.AfterFunc starts a timer.
ExpireTests(i) ==
    /\ pc[i] = "test"
    /\ \/ /\ expireTimer = 0
          /\ deadline' = [deadline EXCEPT ![i] = When(clock, duration[i])]
          /\ pc' = [pc EXCEPT ![i] = "store"]
       \/ /\ expireTimer # 0
          /\ pc' = [pc EXCEPT ![i] = "reset"]
          /\ UNCHANGED deadline
    /\ UNCHANGED <<clock, sessionVars, duration, expireTimer, ruling, raced>>

ExpireStores(i) ==
    /\ pc[i] = "store"
    /\ expireTimer' = i
    /\ pc' = [pc EXCEPT ![i] = "reset"]
    /\ UNCHANGED <<clock, sessionVars, duration, deadline, ruling, raced>>

\* A Reset with the absolute expiry in place of the duration.
Mutant_ExpireResetsAbsolute(i) ==
    /\ pc[i] = "reset"
    /\ deadline' = [deadline EXCEPT ![expireTimer] = IF duration[i] > 0 THEN duration[i] ELSE 0]
    /\ ruling' = i
    /\ pc' = [pc EXCEPT ![i] = "done"]
    /\ duration' = [duration EXCEPT ![i] = 0]
    /\ UNCHANGED <<clock, sessionVars, expireTimer, raced>>

\* The second test always succeeds; Reset starts the timer anew, also one
\* that has fired or was stopped.
ExpireResets(i) ==
    /\ pc[i] = "reset"
    /\ deadline' = [deadline EXCEPT ![expireTimer] = When(clock, duration[i])]
    /\ ruling' = i
    /\ pc' = [pc EXCEPT ![i] = "done"]
    /\ duration' = [duration EXCEPT ![i] = 0]
    /\ UNCHANGED <<clock, sessionVars, expireTimer, raced>>

Due(i) == Running(i) /\ deadline[i] <= clock * Mega

\* The callback: c.msc.Stop().
Fires(i) ==
    /\ Due(i)
    /\ deadline' = [deadline EXCEPT ![i] = Off]
    /\ conn' = IF conn = "open" THEN "stopping" ELSE conn
    /\ UNCHANGED <<clock, ended, n, expireTime, pc, duration, expireTimer,
                   ruling, raced>>

\* External: the connection ends for another reason, and StopD is closed.
PeerGone ==
    /\ conn = "open"
    /\ conn' = "stopping"
    /\ UNCHANGED <<clock, ended, n, expireTime, pc, duration, timerVars, ruling,
                   raced>>

PumperStops ==
    /\ conn = "stopping"
    /\ conn' = "stopped"
    /\ UNCHANGED <<clock, ended, n, expireTime, pc, duration, timerVars, ruling,
                   raced>>

\* Client.ending: if c.expireTimer != nil { c.expireTimer.Stop() }.
EndingStopsTimer ==
    /\ conn = "stopped"
    /\ ~ended
    /\ ended' = TRUE
    /\ deadline' = [i \in Tokens |-> IF i = expireTimer THEN Off ELSE deadline[i]]
    /\ raced' = (raced \/ \E i \in Tokens : Active(i))
    /\ UNCHANGED <<clock, conn, n, expireTime, pc, duration, expireTimer, ruling>>

Expire(i) ==
    \/ ExpireComputes(i)
    \/ ExpireTests(i)
    \/ ExpireStores(i)
    \/ ExpireResets(i)

ExpiryNext ==
    \/ ClockTicks
    \/ \E e \in ExpireTimes : HandleToken(e)
    \/ \E i \in Tokens : Expire(i) \/ Fires(i)
    \/ PeerGone
    \/ PumperStops
    \/ EndingStopsTimer

ExpirySpec == ExpiryInit /\ [][ExpiryNext]_expiryVars

\* The clock starts with the registration and nothing is late: no goroutine is
\* under way and no callback due when it advances.
Prompt ==
    clock' # clock => /\ n > 0
                      /\ \A i \in Tokens : ~Active(i) /\ ~Due(i)

PromptSpec == ExpiryInit /\ [][ExpiryNext /\ Prompt]_expiryVars

-----------------------------------------------------------------------------
\* An expireTime whose distance need not fit an int64 of nanoseconds.
TooFar(e) == e * Mega >= Limit

\* Time t, in nanoseconds, is not before an expireTime, unless that is too far
\* away to be counted in nanoseconds.
Respects(e, t) == TooFar(e) \/ e * Mega <= t

\* While no two of them overlap, the tokens of a session work as one timer:
\* at most one runs, the one ending will stop, and it does not fire before
\* the expireTime of the last token that set it, unless that is too far, so
\* a refreshed token is never undone by an older one; after Client.ending
\* none runs.
OneTimer ==
    ~raced => \A i \in Tokens :
        Running(i) /\ pc[i] \notin {"store", "reset"}
        => /\ i = expireTimer /\ ruling # 0 /\ Respects(expireTime[ruling], deadline[i])
           /\ ~ended

\* Overlapping tokens may leave an older timer running, but a session none of
\* whose limited tokens is too far is not cut before the time of every one
\* of them: each running timer respects at least one.
NeverBeforeAll ==
    \A i \in Tokens : Running(i) =>
        \E k \in 1..n : expireTime[k] > 0 /\ Respects(expireTime[k], deadline[i])

\* Expiry time, says the comment of Token.ExpireTime: when nothing is
\* late, a session with one token is not open past the time of that token.
ExpiresWithToken ==
    n = 1 /\ conn = "open" /\ expireTime[1] > 0 => clock <= expireTime[1]
=============================================================================
