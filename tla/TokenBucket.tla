----------------------------- MODULE TokenBucket -----------------------------
(***************************************************************************)
(* The token bucket of the rate limiter (middleware/rate_limiter.h,        *)
(* middleware/rate_limiter.cpp): refill, try_acquire and update_config,    *)
(* called by the io_context threads on the one bucket of the process.      *)
(*                                                                         *)
(* tokens_ is atomic and is changed without the mutex by the CAS of        *)
(* try_acquire, so every access to it is a step of its own.  last_refill_, *)
(* capacity_ and refill_rate_ are written under refill_mutex_; refill also *)
(* reads last_refill_ before it takes the mutex (a 64-bit load: the value  *)
(* read is the one before or the one after a concurrent store, which the   *)
(* interleaving of CheckElapsed and RefillStamp gives).                    *)
(***************************************************************************)
EXTENDS Integers

CONSTANTS Threads,        \* threads that call into the bucket
          NoThread,       \* value of mutex when nobody holds it
          Capacity,       \* capacity the bucket is constructed with
          RefillRate,     \* tokens per second it is constructed with
          TicksPerSecond, \* resolution of steady_clock
          Costs,          \* arguments of try_acquire
          Configs,        \* arguments <<capacity, rate>> of update_config
          MaxTime,        \* bound on the clock
          MaxCalls        \* bound on the number of calls

ASSUME BucketAssumption ==
  /\ NoThread \notin Threads
  /\ Capacity \in Nat
  /\ RefillRate \in Nat
  /\ TicksPerSecond \in Nat \ {0}
  /\ Costs \subseteq Nat \ {0}
  /\ Configs \subseteq Nat \X Nat
  /\ MaxTime \in Nat
  /\ MaxCalls \in Nat

VARIABLES tokens,         \* tokens_
          capacity,       \* capacity_
          rate,           \* refill_rate_
          lastRefill,     \* last_refill_, in ticks since construction
          mutex,          \* holder of refill_mutex_
          clock,          \* clock_type::now(), in ticks since construction
          pc,             \* where each thread is
          now,            \* locals of each thread: now, then now2
          elapsed,        \* local elapsed of refill, in seconds
          seen,           \* value of tokens_ it has loaded (expected)
          want,           \* argument of its try_acquire
          calls,          \* history: number of calls made
          granted,        \* history: tokens handed out
          creditedSecs,   \* history: seconds turned into tokens
          creditedTokens, \* history: tokens those seconds were worth
          raced           \* history: a CAS succeeded inside a load-store pair

locals == <<now, elapsed, seen, want>>
history == <<calls, granted, creditedSecs, creditedTokens, raced>>
bucket == <<tokens, capacity, rate, lastRefill, mutex>>
vars == <<bucket, clock, pc, locals, history>>

\* Seconds from tick a to tick b (duration_cast): 0 or less means "not yet".
Seconds(a, b) == (b - a) \div TicksPerSecond

\* Threads between the load of tokens_ and the store that depends on it.
Rewriting == {t \in Threads : pc[t] \in {"store", "trim"}}

Init ==
  /\ tokens = Capacity
  /\ capacity = Capacity
  /\ rate = RefillRate
  /\ lastRefill = 0
  /\ mutex = NoThread
  /\ clock = 0
  /\ pc = [t \in Threads |-> "idle"]
  /\ now = [t \in Threads |-> 0]
  /\ elapsed = [t \in Threads |-> 0]
  /\ seen = [t \in Threads |-> 0]
  /\ want = [t \in Threads |-> 0]
  /\ calls = 0
  /\ granted = 0
  /\ creditedSecs = 0
  /\ creditedTokens = 0
  /\ raced = FALSE

Goto(t, l) == pc' = [pc EXCEPT ![t] = l]

Tick ==
  /\ clock < MaxTime
  /\ clock' = clock + 1
  /\ UNCHANGED <<bucket, pc, locals, history>>

-----------------------------------------------------------------------------
(* refill                                                                  *)

\* try_acquire(c) enters refill and samples the clock.
Call(t, c) ==
  /\ pc[t] = "idle"
  /\ calls < MaxCalls
  /\ calls' = calls + 1
  /\ want' = [want EXCEPT ![t] = c]
  /\ now' = [now EXCEPT ![t] = clock]
  /\ Goto(t, "check")
  /\ UNCHANGED <<bucket, clock, elapsed, seen,
                 granted, creditedSecs, creditedTokens, raced>>

\* First check, without the mutex.
CheckElapsed(t) ==
  /\ pc[t] = "check"
  /\ IF Seconds(lastRefill, now[t]) <= 0
       THEN /\ Goto(t, "load")
            /\ UNCHANGED elapsed
       ELSE /\ elapsed' = [elapsed EXCEPT ![t] = Seconds(lastRefill, now[t])]
            /\ Goto(t, "lock")
  /\ UNCHANGED <<bucket, clock, now, seen, want, history>>

\* Seconds since the last refill, measured at now2.  The mutant keeps the
\* value of the first check instead of measuring again under the mutex.
FirstCheckOnly(t) == elapsed[t]
ElapsedNow(t) == Seconds(lastRefill, clock)

\* Second check, after taking the mutex; lock and clock sample commute.
Recheck(t) ==
  /\ pc[t] = "lock"
  /\ mutex = NoThread
  /\ IF ElapsedNow(t) <= 0
       THEN /\ Goto(t, "load")
            /\ elapsed' = [elapsed EXCEPT ![t] = 0]
            /\ UNCHANGED <<mutex, now>>
       ELSE /\ mutex' = t
            /\ now' = [now EXCEPT ![t] = clock]
            /\ elapsed' = [elapsed EXCEPT ![t] = ElapsedNow(t)]
            /\ Goto(t, "refill")
  /\ UNCHANGED <<tokens, capacity, rate, lastRefill, clock, seen, want, history>>

RefillLoad(t) ==
  /\ pc[t] = "refill"
  /\ seen' = [seen EXCEPT ![t] = tokens]
  /\ Goto(t, "store")
  /\ UNCHANGED <<bucket, clock, now, elapsed, want, history>>

\* The mutant does not clip the sum to the capacity.
Unclipped(n) == n
Clip(n) == IF n > capacity THEN capacity ELSE n

RefillStore(t) ==
  /\ pc[t] = "store"
  /\ tokens' = Clip(seen[t] + elapsed[t] * rate)
  /\ creditedSecs' = creditedSecs + elapsed[t]
  /\ creditedTokens' = creditedTokens + elapsed[t] * rate
  /\ Goto(t, "stamp")
  /\ UNCHANGED <<capacity, rate, lastRefill, mutex, clock, locals,
                 calls, granted, raced>>

\* last_refill_ = now2, and the end of the lock_guard's scope.
RefillStamp(t) ==
  /\ pc[t] = "stamp"
  /\ lastRefill' = now[t]
  /\ mutex' = NoThread
  /\ elapsed' = [elapsed EXCEPT ![t] = 0]
  /\ Goto(t, "load")
  /\ UNCHANGED <<tokens, capacity, rate, clock, now, seen, want, history>>

-----------------------------------------------------------------------------
(* try_acquire after refill.  A spurious failure of compare_exchange_weak  *)
(* reloads the value expected already has: a stuttering step.              *)

\* The mutant takes tokens from a bucket that holds too few of them.
HasSome(t, n) == n > 0
Enough(t, n) == n >= want[t]

Load(t) ==
  /\ pc[t] = "load"
  /\ seen' = [seen EXCEPT ![t] = tokens]
  /\ Goto(t, IF Enough(t, tokens) THEN "cas" ELSE "idle")
  /\ UNCHANGED <<bucket, clock, now, elapsed, want, history>>

\* The mutant stores expected - tokens without comparing.
AlwaysEqual(t) == TRUE
StillExpected(t) == tokens = seen[t]

CasSucceeds(t) ==
  /\ pc[t] = "cas"
  /\ StillExpected(t)
  /\ tokens' = seen[t] - want[t]
  /\ granted' = granted + want[t]
  /\ raced' = (raced \/ Rewriting # {})
  /\ Goto(t, "idle")
  /\ UNCHANGED <<capacity, rate, lastRefill, mutex, clock, locals,
                 calls, creditedSecs, creditedTokens>>

CasFails(t) ==
  /\ pc[t] = "cas"
  /\ ~StillExpected(t)
  /\ seen' = [seen EXCEPT ![t] = tokens]
  /\ Goto(t, IF Enough(t, tokens) THEN "cas" ELSE "idle")
  /\ UNCHANGED <<bucket, clock, now, elapsed, want, history>>

-----------------------------------------------------------------------------
(* update_config                                                           *)

Reconfigure(t, c) ==
  /\ pc[t] = "idle"
  /\ calls < MaxCalls
  /\ mutex = NoThread
  /\ calls' = calls + 1
  /\ mutex' = t
  /\ capacity' = c[1]
  /\ rate' = c[2]
  /\ seen' = [seen EXCEPT ![t] = tokens]
  /\ Goto(t, "trim")
  /\ UNCHANGED <<tokens, lastRefill, clock, now, elapsed, want,
                 granted, creditedSecs, creditedTokens, raced>>

Trim(t) ==
  /\ pc[t] = "trim"
  /\ tokens' = IF seen[t] > capacity THEN capacity ELSE tokens
  /\ mutex' = NoThread
  /\ Goto(t, "idle")
  /\ UNCHANGED <<capacity, rate, lastRefill, clock, locals, history>>

-----------------------------------------------------------------------------
Step(t) ==
  \/ CheckElapsed(t) \/ Recheck(t)
  \/ RefillLoad(t) \/ RefillStore(t) \/ RefillStamp(t)
  \/ Load(t) \/ CasSucceeds(t) \/ CasFails(t)
  \/ Trim(t)

Next ==
  \/ Tick
  \/ \E t \in Threads :
       \/ \E c \in Costs : Call(t, c)
       \/ \E c \in Configs : Reconfigure(t, c)
       \/ Step(t)

Spec == Init /\ [][Next]_vars
-----------------------------------------------------------------------------
Labels == {"idle", "check", "lock", "refill", "store", "stamp",
           "load", "cas", "trim"}

\* The types of the variables.
TypeOK ==
  /\ tokens \in Nat
  /\ capacity \in Nat
  /\ rate \in Nat
  /\ lastRefill \in Nat
  /\ mutex \in Threads \cup {NoThread}
  /\ clock \in Nat
  /\ pc \in [Threads -> Labels]
  /\ now \in [Threads -> Nat]
  /\ elapsed \in [Threads -> Nat]
  /\ seen \in [Threads -> Nat]
  /\ want \in [Threads -> Nat]
  /\ calls \in Nat
  /\ granted \in Nat
  /\ creditedSecs \in Nat
  /\ creditedTokens \in Nat
  /\ raced \in BOOLEAN

(***************************************************************************)
(* Whoever is not in the middle of a refill or an update_config finds no   *)
(* more tokens than the capacity in force: a burst after an idle period,   *)
(* or after the capacity was lowered, is bounded by it.                    *)
(***************************************************************************)
TokensWithinCapacity == mutex = NoThread => tokens <= capacity

(***************************************************************************)
(* No stretch of time is turned into tokens twice, however many threads    *)
(* pass the unlocked check of refill together ("avoid several threads      *)
(* refilling at once", rate_limiter.cpp:31-32).                            *)
(***************************************************************************)
NoDoubleCredit ==
  mutex = NoThread =>
    /\ creditedSecs * TicksPerSecond <= lastRefill
    /\ lastRefill <= clock

(***************************************************************************)
(* The budget of a token bucket: what it handed out and still holds is at  *)
(* most the initial capacity plus what time has added.                     *)
(***************************************************************************)
WithinBudget == granted + tokens <= Capacity + creditedTokens

\* The budget holds in every execution in which no CAS succeeds while another
\* thread is between its load and its store of tokens_.
BudgetUnlessRaced == ~raced => WithinBudget

(***************************************************************************)
(* test_rate_limiter.cpp:10 and :123: under concurrent callers the tokens  *)
(* consumed never exceed the capacity (the test is over before anything is *)
(* refilled; in general, the capacity plus what has been credited).        *)
(***************************************************************************)
AdmitsWithinBudget == granted <= Capacity + creditedTokens
=============================================================================
