-------------------------- MODULE TokenBucketProofs --------------------------
(***************************************************************************)
(* What holds of the token bucket for every number of threads, capacity,   *)
(* rate, clock resolution and configuration.                               *)
(***************************************************************************)
EXTENDS TokenBucket, TLAPS

Holding == {"refill", "store", "stamp", "trim"}

\* The thread that holds refill_mutex_ is the one inside a locked section.
MutexInv == \A t \in Threads : pc[t] \in Holding <=> mutex = t

\* A thread about to try its CAS expects enough tokens.
ExpectInv == \A t \in Threads : pc[t] = "cas" => seen[t] >= want[t]

\* Outside update_config the bucket is within its capacity; inside, tokens_
\* has not grown since it was loaded.
CapacityInv ==
  /\ (\A t \in Threads : pc[t] # "trim") => tokens <= capacity
  /\ \A t \in Threads : pc[t] = "trim" => tokens <= seen[t]

\* The seconds a refill is about to credit lie between the last refill and
\* its own sample of the clock; once credited they end before that sample.
TimeInv ==
  /\ lastRefill <= clock
  /\ \A t \in Threads : now[t] <= clock
  /\ \A t \in Threads : pc[t] \in {"refill", "store"} =>
       lastRefill + elapsed[t] * TicksPerSecond <= now[t]
  /\ (\A t \in Threads : pc[t] # "stamp") =>
       creditedSecs * TicksPerSecond <= lastRefill
  /\ \A t \in Threads : pc[t] = "stamp" =>
       creditedSecs * TicksPerSecond <= now[t]

\* As long as no CAS has raced, a load-store pair rewrites what it loaded.
BudgetInv ==
  ~raced =>
    /\ WithinBudget
    /\ \A t \in Threads : pc[t] \in {"store", "trim"} => seen[t] = tokens

IInv == TypeOK /\ MutexInv /\ ExpectInv /\ CapacityInv /\ TimeInv /\ BudgetInv
-----------------------------------------------------------------------------
(* Arithmetic of seconds and ticks.                                        *)

\* Products of naturals are naturals.
LEMMA ProductNat == \A a, b \in Nat : a * b \in Nat
BY SMT

\* Multiplication distributes over addition.
LEMMA Distribute == \A a, b, c \in Nat : (a + b) * c = a * c + b * c
BY SMT

\* The whole seconds between two ticks fit between them.
LEMMA SecondsFit ==
  ASSUME NEW a \in Nat, NEW b \in Nat, Seconds(a, b) > 0
  PROVE  /\ Seconds(a, b) \in Nat
         /\ a + Seconds(a, b) * TicksPerSecond <= b
BY BucketAssumption, SMT DEF Seconds

-----------------------------------------------------------------------------
(* Types.                                                                  *)

\* Every step keeps the types; a CAS subtracts no more than it found.
LEMMA TypeStep == TypeOK /\ ExpectInv /\ [Next]_vars => TypeOK'
<1> SUFFICES ASSUME TypeOK, ExpectInv, [Next]_vars
             PROVE  TypeOK'
  OBVIOUS
<1> USE DEF TypeOK, Labels, Goto, bucket, locals, history
<1>1. CASE Tick
  BY <1>1 DEF Tick
<1>2. ASSUME NEW t \in Threads, NEW c \in Costs, Call(t, c)
      PROVE  TypeOK'
  BY <1>2, BucketAssumption DEF Call
<1>3. ASSUME NEW t \in Threads, NEW c \in Configs, Reconfigure(t, c)
      PROVE  TypeOK'
  BY <1>3, BucketAssumption DEF Reconfigure
<1>4. ASSUME NEW t \in Threads, CheckElapsed(t)
      PROVE  TypeOK'
  <2>1. CASE Seconds(lastRefill, now[t]) <= 0
    BY <1>4, <2>1 DEF CheckElapsed
  <2>2. CASE ~(Seconds(lastRefill, now[t]) <= 0)
    <3>1. Seconds(lastRefill, now[t]) \in Nat
      BY <2>2, BucketAssumption, SMT DEF Seconds
    <3> QED
      BY <1>4, <2>2, <3>1 DEF CheckElapsed
  <2> QED
    BY <2>1, <2>2
<1>5. ASSUME NEW t \in Threads, Recheck(t)
      PROVE  TypeOK'
  <2>1. CASE ElapsedNow(t) <= 0
    BY <1>5, <2>1 DEF Recheck
  <2>2. CASE ~(ElapsedNow(t) <= 0)
    <3>1. ElapsedNow(t) \in Nat
      BY <2>2, BucketAssumption, SMT DEF ElapsedNow, Seconds
    <3> QED
      BY <1>5, <2>2, <3>1 DEF Recheck
  <2> QED
    BY <2>1, <2>2
<1>6. ASSUME NEW t \in Threads, RefillLoad(t)
      PROVE  TypeOK'
  BY <1>6 DEF RefillLoad
<1>7. ASSUME NEW t \in Threads, RefillStore(t)
      PROVE  TypeOK'
  <2>1. elapsed[t] * rate \in Nat
    BY ProductNat
  <2> QED
    BY <1>7, <2>1 DEF RefillStore, Clip
<1>8. ASSUME NEW t \in Threads, RefillStamp(t)
      PROVE  TypeOK'
  BY <1>8 DEF RefillStamp
<1>9. ASSUME NEW t \in Threads, Load(t)
      PROVE  TypeOK'
  BY <1>9 DEF Load
<1>10. ASSUME NEW t \in Threads, CasSucceeds(t)
       PROVE  TypeOK'
  <2>1. seen[t] - want[t] \in Nat
    BY <1>10 DEF CasSucceeds, ExpectInv
  <2> QED
    BY <1>10, <2>1 DEF CasSucceeds
<1>11. ASSUME NEW t \in Threads, CasFails(t)
       PROVE  TypeOK'
  BY <1>11 DEF CasFails
<1>12. ASSUME NEW t \in Threads, Trim(t)
       PROVE  TypeOK'
  BY <1>12 DEF Trim
<1>13. CASE UNCHANGED vars
  BY <1>13 DEF vars
<1> QED
  BY <1>1, <1>2, <1>3, <1>4, <1>5, <1>6, <1>7, <1>8, <1>9, <1>10, <1>11,
     <1>12, <1>13 DEF Next, Step

\* Only threads inside a locked section hold the mutex.
LEMMA MutexStep == TypeOK /\ MutexInv /\ [Next]_vars => MutexInv'
<1> SUFFICES ASSUME TypeOK, MutexInv, [Next]_vars
             PROVE  MutexInv'
  OBVIOUS
<1> USE BucketAssumption DEF TypeOK, MutexInv, Holding, Goto, bucket, locals
<1>1. CASE Tick
  BY <1>1 DEF Tick
<1>2. ASSUME NEW t \in Threads, NEW c \in Costs, Call(t, c)
      PROVE  MutexInv'
  BY <1>2 DEF Call
<1>3. ASSUME NEW t \in Threads, NEW c \in Configs, Reconfigure(t, c)
      PROVE  MutexInv'
  BY <1>3 DEF Reconfigure
<1>4. ASSUME NEW t \in Threads, CheckElapsed(t)
      PROVE  MutexInv'
  BY <1>4 DEF CheckElapsed
<1>5. ASSUME NEW t \in Threads, Recheck(t)
      PROVE  MutexInv'
  BY <1>5 DEF Recheck
<1>6. ASSUME NEW t \in Threads, RefillLoad(t)
      PROVE  MutexInv'
  BY <1>6 DEF RefillLoad
<1>7. ASSUME NEW t \in Threads, RefillStore(t)
      PROVE  MutexInv'
  BY <1>7 DEF RefillStore
<1>8. ASSUME NEW t \in Threads, RefillStamp(t)
      PROVE  MutexInv'
  BY <1>8 DEF RefillStamp
<1>9. ASSUME NEW t \in Threads, Load(t)
      PROVE  MutexInv'
  BY <1>9 DEF Load
<1>10. ASSUME NEW t \in Threads, CasSucceeds(t)
       PROVE  MutexInv'
  BY <1>10 DEF CasSucceeds
<1>11. ASSUME NEW t \in Threads, CasFails(t)
       PROVE  MutexInv'
  BY <1>11 DEF CasFails
<1>12. ASSUME NEW t \in Threads, Trim(t)
       PROVE  MutexInv'
  BY <1>12 DEF Trim
<1>13. CASE UNCHANGED vars
  BY <1>13 DEF vars
<1> QED
  BY <1>1, <1>2, <1>3, <1>4, <1>5, <1>6, <1>7, <1>8, <1>9, <1>10, <1>11,
     <1>12, <1>13 DEF Next, Step

\* A CAS is only tried with a value that covers the cost.
LEMMA ExpectStep == TypeOK /\ ExpectInv /\ [Next]_vars => ExpectInv'
<1> SUFFICES ASSUME TypeOK, ExpectInv, [Next]_vars
             PROVE  ExpectInv'
  OBVIOUS
<1> USE DEF TypeOK, ExpectInv, Goto, bucket, locals
<1>1. CASE Tick
  BY <1>1 DEF Tick
<1>2. ASSUME NEW t \in Threads, NEW c \in Costs, Call(t, c)
      PROVE  ExpectInv'
  BY <1>2 DEF Call
<1>3. ASSUME NEW t \in Threads, NEW c \in Configs, Reconfigure(t, c)
      PROVE  ExpectInv'
  BY <1>3 DEF Reconfigure
<1>4. ASSUME NEW t \in Threads, CheckElapsed(t)
      PROVE  ExpectInv'
  BY <1>4 DEF CheckElapsed
<1>5. ASSUME NEW t \in Threads, Recheck(t)
      PROVE  ExpectInv'
  BY <1>5 DEF Recheck
<1>6. ASSUME NEW t \in Threads, RefillLoad(t)
      PROVE  ExpectInv'
  BY <1>6 DEF RefillLoad
<1>7. ASSUME NEW t \in Threads, RefillStore(t)
      PROVE  ExpectInv'
  BY <1>7 DEF RefillStore
<1>8. ASSUME NEW t \in Threads, RefillStamp(t)
      PROVE  ExpectInv'
  BY <1>8 DEF RefillStamp
<1>9. ASSUME NEW t \in Threads, Load(t)
      PROVE  ExpectInv'
  BY <1>9 DEF Load, Enough
<1>10. ASSUME NEW t \in Threads, CasSucceeds(t)
       PROVE  ExpectInv'
  BY <1>10 DEF CasSucceeds
<1>11. ASSUME NEW t \in Threads, CasFails(t)
       PROVE  ExpectInv'
  BY <1>11 DEF CasFails, Enough
<1>12. ASSUME NEW t \in Threads, Trim(t)
       PROVE  ExpectInv'
  BY <1>12 DEF Trim
<1>13. CASE UNCHANGED vars
  BY <1>13 DEF vars
<1> QED
  BY <1>1, <1>2, <1>3, <1>4, <1>5, <1>6, <1>7, <1>8, <1>9, <1>10, <1>11,
     <1>12, <1>13 DEF Next, Step

\* The capacity is respected whenever nobody is inside update_config.
LEMMA CapacityStep ==
  TypeOK /\ MutexInv /\ ExpectInv /\ CapacityInv /\ [Next]_vars => CapacityInv'
<1> SUFFICES ASSUME TypeOK, MutexInv, ExpectInv, CapacityInv, [Next]_vars
             PROVE  CapacityInv'
  OBVIOUS
<1> USE DEF TypeOK, MutexInv, Holding, CapacityInv, Goto, bucket, locals
<1>1. CASE Tick
  BY <1>1 DEF Tick
<1>2. ASSUME NEW t \in Threads, NEW c \in Costs, Call(t, c)
      PROVE  CapacityInv'
  BY <1>2 DEF Call
<1>3. ASSUME NEW t \in Threads, NEW c \in Configs, Reconfigure(t, c)
      PROVE  CapacityInv'
  BY <1>3 DEF Reconfigure
<1>4. ASSUME NEW t \in Threads, CheckElapsed(t)
      PROVE  CapacityInv'
  BY <1>4 DEF CheckElapsed
<1>5. ASSUME NEW t \in Threads, Recheck(t)
      PROVE  CapacityInv'
  BY <1>5 DEF Recheck
<1>6. ASSUME NEW t \in Threads, RefillLoad(t)
      PROVE  CapacityInv'
  BY <1>6 DEF RefillLoad
<1>7. ASSUME NEW t \in Threads, RefillStore(t)
      PROVE  CapacityInv'
  <2>1. elapsed[t] * rate \in Nat
    BY ProductNat
  <2>2. tokens' <= capacity'
    BY <1>7, <2>1 DEF RefillStore, Clip
  <2>3. \A u \in Threads : pc'[u] # "trim"
    BY <1>7 DEF RefillStore
  <2> QED
    BY <2>2, <2>3
<1>8. ASSUME NEW t \in Threads, RefillStamp(t)
      PROVE  CapacityInv'
  BY <1>8 DEF RefillStamp
<1>9. ASSUME NEW t \in Threads, Load(t)
      PROVE  CapacityInv'
  BY <1>9 DEF Load
<1>10. ASSUME NEW t \in Threads, CasSucceeds(t)
       PROVE  CapacityInv'
  <2>1. tokens' <= tokens
    BY <1>10 DEF CasSucceeds, StillExpected
  <2>2. tokens' \in Int
    BY <1>10 DEF CasSucceeds
  <2> QED
    BY <1>10, <2>1, <2>2 DEF CasSucceeds
<1>11. ASSUME NEW t \in Threads, CasFails(t)
       PROVE  CapacityInv'
  BY <1>11 DEF CasFails
<1>12. ASSUME NEW t \in Threads, Trim(t)
       PROVE  CapacityInv'
  <2>1. tokens' <= capacity'
    BY <1>12 DEF Trim
  <2>2. \A u \in Threads : pc'[u] # "trim"
    BY <1>12 DEF Trim
  <2> QED
    BY <2>1, <2>2
<1>13. CASE UNCHANGED vars
  BY <1>13 DEF vars
<1> QED
  BY <1>1, <1>2, <1>3, <1>4, <1>5, <1>6, <1>7, <1>8, <1>9, <1>10, <1>11,
     <1>12, <1>13 DEF Next, Step

\* Time already credited ends no later than the last refill.
LEMMA TimeStep == TypeOK /\ MutexInv /\ TimeInv /\ [Next]_vars => TimeInv'
<1> SUFFICES ASSUME TypeOK, MutexInv, TimeInv, [Next]_vars
             PROVE  TimeInv'
  OBVIOUS
<1> USE DEF TypeOK, MutexInv, Holding, TimeInv, Goto, bucket, locals, history
<1>1. CASE Tick
  BY <1>1 DEF Tick
<1>2. ASSUME NEW t \in Threads, NEW c \in Costs, Call(t, c)
      PROVE  TimeInv'
  BY <1>2 DEF Call
<1>3. ASSUME NEW t \in Threads, NEW c \in Configs, Reconfigure(t, c)
      PROVE  TimeInv'
  BY <1>3 DEF Reconfigure
<1>4. ASSUME NEW t \in Threads, CheckElapsed(t)
      PROVE  TimeInv'
  BY <1>4 DEF CheckElapsed
<1>5. ASSUME NEW t \in Threads, Recheck(t)
      PROVE  TimeInv'
  <2>1. CASE ElapsedNow(t) <= 0
    BY <1>5, <2>1 DEF Recheck
  <2>2. CASE ~(ElapsedNow(t) <= 0)
    <3>1. /\ ElapsedNow(t) \in Nat
          /\ lastRefill + ElapsedNow(t) * TicksPerSecond <= clock
      BY <2>2, SecondsFit, BucketAssumption DEF ElapsedNow, Seconds
    <3> QED
      BY <1>5, <2>2, <3>1 DEF Recheck
  <2> QED
    BY <2>1, <2>2
<1>6. ASSUME NEW t \in Threads, RefillLoad(t)
      PROVE  TimeInv'
  BY <1>6 DEF RefillLoad
<1>7. ASSUME NEW t \in Threads, RefillStore(t)
      PROVE  TimeInv'
  <2>1. creditedSecs' * TicksPerSecond
           = creditedSecs * TicksPerSecond + elapsed[t] * TicksPerSecond
    BY <1>7, Distribute, BucketAssumption DEF RefillStore
  <2>2. creditedSecs * TicksPerSecond <= lastRefill
    BY <1>7 DEF RefillStore
  <2>3. lastRefill + elapsed[t] * TicksPerSecond <= now[t]
    BY <1>7 DEF RefillStore
  <2>4. /\ creditedSecs * TicksPerSecond \in Nat
        /\ elapsed[t] * TicksPerSecond \in Nat
    BY ProductNat, BucketAssumption
  <2>5. creditedSecs' * TicksPerSecond <= now[t]
    BY <2>1, <2>2, <2>3, <2>4
  <2> QED
    BY <1>7, <2>5 DEF RefillStore
<1>8. ASSUME NEW t \in Threads, RefillStamp(t)
      PROVE  TimeInv'
  BY <1>8 DEF RefillStamp
<1>9. ASSUME NEW t \in Threads, Load(t)
      PROVE  TimeInv'
  BY <1>9 DEF Load
<1>10. ASSUME NEW t \in Threads, CasSucceeds(t)
       PROVE  TimeInv'
  BY <1>10 DEF CasSucceeds
<1>11. ASSUME NEW t \in Threads, CasFails(t)
       PROVE  TimeInv'
  BY <1>11 DEF CasFails
<1>12. ASSUME NEW t \in Threads, Trim(t)
       PROVE  TimeInv'
  BY <1>12 DEF Trim
<1>13. CASE UNCHANGED vars
  BY <1>13 DEF vars
<1> QED
  BY <1>1, <1>2, <1>3, <1>4, <1>5, <1>6, <1>7, <1>8, <1>9, <1>10, <1>11,
     <1>12, <1>13 DEF Next, Step

\* Without a race, every store of tokens_ rewrites the value it started from.
LEMMA BudgetStep ==
  TypeOK /\ MutexInv /\ ExpectInv /\ BudgetInv /\ [Next]_vars => BudgetInv'
<1> SUFFICES ASSUME TypeOK, MutexInv, ExpectInv, BudgetInv, [Next]_vars
             PROVE  BudgetInv'
  OBVIOUS
<1> USE BucketAssumption
    DEF TypeOK, MutexInv, Holding, BudgetInv, WithinBudget,
        Goto, bucket, locals, history
<1>1. CASE Tick
  BY <1>1 DEF Tick
<1>2. ASSUME NEW t \in Threads, NEW c \in Costs, Call(t, c)
      PROVE  BudgetInv'
  BY <1>2 DEF Call
<1>3. ASSUME NEW t \in Threads, NEW c \in Configs, Reconfigure(t, c)
      PROVE  BudgetInv'
  BY <1>3 DEF Reconfigure
<1>4. ASSUME NEW t \in Threads, CheckElapsed(t)
      PROVE  BudgetInv'
  BY <1>4 DEF CheckElapsed
<1>5. ASSUME NEW t \in Threads, Recheck(t)
      PROVE  BudgetInv'
  BY <1>5 DEF Recheck
<1>6. ASSUME NEW t \in Threads, RefillLoad(t)
      PROVE  BudgetInv'
  BY <1>6 DEF RefillLoad
<1>7. ASSUME NEW t \in Threads, RefillStore(t)
      PROVE  BudgetInv'
  <2>1. elapsed[t] * rate \in Nat
    BY ProductNat
  <2>2. tokens' <= seen[t] + elapsed[t] * rate
    BY <1>7, <2>1 DEF RefillStore, Clip
  <2>3. tokens' \in Int
    BY <1>7, <2>1 DEF RefillStore, Clip
  <2>4. ~raced => WithinBudget'
    BY <1>7, <2>1, <2>2, <2>3 DEF RefillStore
  <2>5. \A u \in Threads : pc'[u] \notin {"store", "trim"}
    BY <1>7 DEF RefillStore
  <2> QED
    BY <1>7, <2>4, <2>5 DEF RefillStore
<1>8. ASSUME NEW t \in Threads, RefillStamp(t)
      PROVE  BudgetInv'
  BY <1>8 DEF RefillStamp
<1>9. ASSUME NEW t \in Threads, Load(t)
      PROVE  BudgetInv'
  BY <1>9 DEF Load
<1>10. ASSUME NEW t \in Threads, CasSucceeds(t)
       PROVE  BudgetInv'
  <2>1. ~raced' => ~raced /\ Rewriting = {}
    BY <1>10, Zenon DEF CasSucceeds
  <2>2. Rewriting = {} => \A u \in Threads : pc[u] \notin {"store", "trim"}
    BY DEF Rewriting
  <2>3. ~raced => WithinBudget'
    BY <1>10 DEF CasSucceeds, StillExpected
  <2>4. \A u \in Threads : pc'[u] \in {"store", "trim"} => pc'[u] = pc[u]
    BY <1>10 DEF CasSucceeds
  <2> QED
    BY <2>1, <2>2, <2>3, <2>4
<1>11. ASSUME NEW t \in Threads, CasFails(t)
       PROVE  BudgetInv'
  BY <1>11 DEF CasFails
<1>12. ASSUME NEW t \in Threads, Trim(t)
       PROVE  BudgetInv'
  <2>1. ~raced => tokens' <= tokens
    BY <1>12 DEF Trim
  <2>2. \A u \in Threads : pc'[u] \notin {"store", "trim"}
    BY <1>12 DEF Trim
  <2>3. tokens' \in Int
    BY <1>12 DEF Trim
  <2> QED
    BY <1>12, <2>1, <2>2, <2>3 DEF Trim
<1>13. CASE UNCHANGED vars
  BY <1>13 DEF vars
<1> QED
  BY <1>1, <1>2, <1>3, <1>4, <1>5, <1>6, <1>7, <1>8, <1>9, <1>10, <1>11,
     <1>12, <1>13 DEF Next, Step

-----------------------------------------------------------------------------
\* The invariant holds initially.
LEMMA InitIInv == Init => IInv
<1> SUFFICES ASSUME Init
             PROVE  IInv
  OBVIOUS
<1> USE BucketAssumption DEF Init
<1>1. TypeOK
  BY DEF TypeOK, Labels
<1>2. MutexInv /\ ExpectInv /\ CapacityInv
  BY DEF MutexInv, Holding, ExpectInv, CapacityInv
<1>3. TimeInv
  BY DEF TimeInv
<1>4. BudgetInv
  BY DEF BudgetInv, WithinBudget
<1> QED
  BY <1>1, <1>2, <1>3, <1>4 DEF IInv

\* The strengthened invariant holds in every reachable state.
THEOREM Inductive == Spec => []IInv
<1>1. Init => IInv
  BY InitIInv
<1>2. IInv /\ [Next]_vars => IInv'
  BY TypeStep, MutexStep, ExpectStep, CapacityStep, TimeStep, BudgetStep
  DEF IInv
<1> QED
  BY <1>1, <1>2, PTL DEF Spec

\* The variables keep their types; above all tokens_ never becomes negative.
THEOREM TypeCorrect == Spec => []TypeOK
<1>1. IInv => TypeOK
  BY DEF IInv
<1> QED
  BY <1>1, Inductive, PTL

\* Between refills and reconfigurations tokens_ is at most capacity_.
THEOREM CapacityRespected == Spec => []TokensWithinCapacity
<1>1. IInv => TokensWithinCapacity
  BY BucketAssumption
  DEF IInv, MutexInv, Holding, CapacityInv, TokensWithinCapacity
<1> QED
  BY <1>1, Inductive, PTL

\* refill credits no stretch of time twice, for any number of threads.
THEOREM CreditedOnce == Spec => []NoDoubleCredit
<1>1. IInv => NoDoubleCredit
  BY BucketAssumption
  DEF IInv, MutexInv, Holding, TimeInv, NoDoubleCredit
<1> QED
  BY <1>1, Inductive, PTL

\* The budget of the bucket can only be exceeded by a CAS inside a refill or
\* an update_config of another thread.
THEOREM BudgetKept == Spec => []BudgetUnlessRaced
<1>1. IInv => BudgetUnlessRaced
  BY DEF IInv, BudgetInv, BudgetUnlessRaced
<1> QED
  BY <1>1, Inductive, PTL
=============================================================================
