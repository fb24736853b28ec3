--------------------------- MODULE ThreadPoolProofs ---------------------------
(***************************************************************************)
(* What holds of the thread pool for every number of workers, submitters   *)
(* and tasks: types, no stranded task, and that it implements TaskQueue.   *)
(***************************************************************************)
EXTENDS ThreadPool, FiniteSetTheorems, SequenceTheorems, TLAPS

Started == accepted - Len(tasks)
Running == {running[w] : w \in Workers} \ {0}

\* A worker between its predicate and the wait holds the mutex, so the queue
\* stays as the predicate found it: empty.
ParkInv == \A w \in Workers : wpc[w] = "park" => mutex = w /\ tasks = <<>>

\* The queue holds the most recent acceptances, oldest first.
QueueInv ==
  /\ Len(tasks) <= accepted
  /\ \A i \in 1 .. Len(tasks) : tasks[i] = Started + i

\* Every started task is being run by exactly one worker or has finished.
RunInv ==
  /\ \A w \in Workers : wpc[w] = "run" <=> running[w] # 0
  /\ \A v, w \in Workers : running[v] = running[w] /\ running[v] # 0 => v = w
  /\ finished \cap Running = {}
  /\ finished \cup Running = 1 .. Started

\* A worker leaves only a stopped pool with an empty queue.
ExitInv ==
  /\ stop <=> dtor # "live"
  /\ \A w \in Workers : wpc[w] = "exited" => stop /\ tasks = <<>>
  /\ dtor = "returned" => \A w \in Workers : wpc[w] = "exited"

IInv == TypeOK /\ ParkInv /\ QueueInv /\ RunInv /\ ExitInv /\ NoTaskStranded

-----------------------------------------------------------------------------
(* The set of non-zero values of a function after one of them changes.     *)

\* An idle worker that takes task k adds it.
LEMMA TaskStarts ==
  ASSUME NEW W, NEW f \in [W -> Nat], NEW w \in W, f[w] = 0,
         NEW k \in Nat \ {0}
  PROVE  {[f EXCEPT ![w] = k][v] : v \in W} \ {0}
           = ({f[v] : v \in W} \ {0}) \cup {k}
BY SMT

\* A worker that ends task k, which no other runs, removes it.
LEMMA TaskEnds ==
  ASSUME NEW W, NEW f \in [W -> Nat], NEW w \in W, f[w] # 0,
         \A u, v \in W : f[u] = f[v] /\ f[u] # 0 => u = v
  PROVE  {[f EXCEPT ![w] = 0][v] : v \in W} \ {0}
           = ({f[v] : v \in W} \ {0}) \ {f[w]}
BY SMT

-----------------------------------------------------------------------------
(* One lemma per part of the invariant, one step per action.               *)

\* Types.
LEMMA TypeStep ==
  TypeOK /\ RunInv /\ [Next]_vars => TypeOK'
<1> SUFFICES ASSUME TypeOK, RunInv, [Next]_vars
             PROVE  TypeOK'
  OBVIOUS
<1> USE PoolAssumption DEF PoolAssumption, TypeOK
<1>1. ASSUME NEW s \in Submitters, Submit(s)
      PROVE  TypeOK'
  BY <1>1 DEF Submit, Enqueue
<1>2. ASSUME NEW s \in Submitters, SubmitThrows(s)
      PROVE  TypeOK'
  BY <1>2 DEF SubmitThrows
<1>3. ASSUME NEW s \in Submitters, NotifyOne(s)
      PROVE  TypeOK'
  BY <1>3 DEF NotifyOne, WakeOne, Blocked
<1>4. ASSUME NEW w \in Workers, TakeTask(w)
      PROVE  TypeOK'
  BY <1>4 DEF TakeTask, MustWake, MayExit
<1>5. ASSUME NEW w \in Workers, Exit(w)
      PROVE  TypeOK'
  BY <1>5 DEF Exit, MustWake, MayExit
<1>6. ASSUME NEW w \in Workers, Park(w)
      PROVE  TypeOK'
  BY <1>6 DEF Park, MustWake
<1>7. ASSUME NEW w \in Workers, Block(w)
      PROVE  TypeOK'
  BY <1>7 DEF Block
<1>8. ASSUME NEW w \in Workers, SpuriousWake(w)
      PROVE  TypeOK'
  BY <1>8 DEF SpuriousWake
<1>9. ASSUME NEW w \in Workers, FinishTask(w)
      PROVE  TypeOK'
  <2>1. running[w] \in 1 .. MaxTasks
    BY <1>9 DEF FinishTask, RunInv
  <2>2. finished' \in SUBSET (1 .. MaxTasks)
    BY <1>9, <2>1 DEF FinishTask
  <2>3. running' \in [Workers -> 0 .. MaxTasks]
    BY <1>9 DEF FinishTask
  <2> QED
    BY <1>9, <2>2, <2>3 DEF FinishTask
<1>10. CASE SetStop
  BY <1>10 DEF SetStop
<1>11. CASE NotifyAll
  BY <1>11 DEF NotifyAll, WakeAll
<1>12. CASE JoinAll
  BY <1>12 DEF JoinAll
<1>13. CASE UNCHANGED vars
  BY <1>13 DEF vars
<1> QED
  BY <1>1, <1>2, <1>3, <1>4, <1>5, <1>6, <1>7, <1>8, <1>9, <1>10, <1>11,
     <1>12, <1>13 DEF Next, WorkerLock

\* Nothing is queued between a false predicate and the wait.
LEMMA ParkStep ==
  TypeOK /\ ParkInv /\ [Next]_vars => ParkInv'
<1> SUFFICES ASSUME TypeOK, ParkInv, [Next]_vars
             PROVE  ParkInv'
  OBVIOUS
<1> USE PoolAssumption DEF PoolAssumption, TypeOK, ParkInv
<1>1. ASSUME NEW s \in Submitters, Submit(s)
      PROVE  ParkInv'
  BY <1>1 DEF Submit, Enqueue
<1>2. ASSUME NEW s \in Submitters, SubmitThrows(s)
      PROVE  ParkInv'
  BY <1>2 DEF SubmitThrows
<1>3. ASSUME NEW s \in Submitters, NotifyOne(s)
      PROVE  ParkInv'
  BY <1>3 DEF NotifyOne, WakeOne, Blocked
<1>4. ASSUME NEW w \in Workers, TakeTask(w)
      PROVE  ParkInv'
  BY <1>4 DEF TakeTask, MustWake, MayExit
<1>5. ASSUME NEW w \in Workers, Exit(w)
      PROVE  ParkInv'
  BY <1>5 DEF Exit, MustWake, MayExit
<1>6. ASSUME NEW w \in Workers, Park(w)
      PROVE  ParkInv'
  BY <1>6 DEF Park, MustWake
<1>7. ASSUME NEW w \in Workers, Block(w)
      PROVE  ParkInv'
  BY <1>7 DEF Block
<1>8. ASSUME NEW w \in Workers, SpuriousWake(w)
      PROVE  ParkInv'
  BY <1>8 DEF SpuriousWake
<1>9. ASSUME NEW w \in Workers, FinishTask(w)
      PROVE  ParkInv'
  BY <1>9 DEF FinishTask
<1>10. CASE SetStop
  BY <1>10 DEF SetStop
<1>11. CASE NotifyAll
  BY <1>11 DEF NotifyAll, WakeAll
<1>12. CASE JoinAll
  BY <1>12 DEF JoinAll
<1>13. CASE UNCHANGED vars
  BY <1>13 DEF vars
<1> QED
  BY <1>1, <1>2, <1>3, <1>4, <1>5, <1>6, <1>7, <1>8, <1>9, <1>10, <1>11,
     <1>12, <1>13 DEF Next, WorkerLock

\* The queue stays in order of acceptance.
LEMMA QueueStep ==
  TypeOK /\ QueueInv /\ [Next]_vars => QueueInv'
<1> SUFFICES ASSUME TypeOK, QueueInv, [Next]_vars
             PROVE  QueueInv'
  OBVIOUS
<1> USE DEF TypeOK, QueueInv, Started
<1>1. ASSUME NEW s \in Submitters, Submit(s)
      PROVE  QueueInv'
  BY <1>1 DEF Submit, Enqueue
<1>2. ASSUME NEW s \in Submitters, SubmitThrows(s)
      PROVE  QueueInv'
  BY <1>2 DEF SubmitThrows
<1>3. ASSUME NEW s \in Submitters, NotifyOne(s)
      PROVE  QueueInv'
  BY <1>3 DEF NotifyOne, WakeOne, Blocked
<1>4. ASSUME NEW w \in Workers, TakeTask(w)
      PROVE  QueueInv'
  <2>1. Len(tasks) \in Nat \ {0}
    BY <1>4 DEF TakeTask, MustWake, MayExit
  <2>2. /\ Len(tasks') = Len(tasks) - 1
        /\ \A i \in 1 .. Len(tasks') : tasks'[i] = tasks[i + 1]
    BY <1>4, <2>1 DEF TakeTask
  <2>3. accepted' = accepted
    BY <1>4 DEF TakeTask
  <2> QED
    BY <2>1, <2>2, <2>3
<1>5. ASSUME NEW w \in Workers, Exit(w)
      PROVE  QueueInv'
  BY <1>5 DEF Exit, MustWake, MayExit
<1>6. ASSUME NEW w \in Workers, Park(w)
      PROVE  QueueInv'
  BY <1>6 DEF Park, MustWake
<1>7. ASSUME NEW w \in Workers, Block(w)
      PROVE  QueueInv'
  BY <1>7 DEF Block
<1>8. ASSUME NEW w \in Workers, SpuriousWake(w)
      PROVE  QueueInv'
  BY <1>8 DEF SpuriousWake
<1>9. ASSUME NEW w \in Workers, FinishTask(w)
      PROVE  QueueInv'
  BY <1>9 DEF FinishTask
<1>10. CASE SetStop
  BY <1>10 DEF SetStop
<1>11. CASE NotifyAll
  BY <1>11 DEF NotifyAll, WakeAll
<1>12. CASE JoinAll
  BY <1>12 DEF JoinAll
<1>13. CASE UNCHANGED vars
  BY <1>13 DEF vars
<1> QED
  BY <1>1, <1>2, <1>3, <1>4, <1>5, <1>6, <1>7, <1>8, <1>9, <1>10, <1>11,
     <1>12, <1>13 DEF Next, WorkerLock

\* Starting and finishing move a task between queue, worker and finished.
LEMMA RunStep ==
  TypeOK /\ QueueInv /\ RunInv /\ [Next]_vars => RunInv'
<1> SUFFICES ASSUME TypeOK, QueueInv, RunInv, [Next]_vars
             PROVE  RunInv'
  OBVIOUS
<1> USE DEF TypeOK, QueueInv, RunInv, Running, Started
<1>1. ASSUME NEW s \in Submitters, Submit(s)
      PROVE  RunInv'
  BY <1>1 DEF Submit, Enqueue
<1>2. ASSUME NEW s \in Submitters, SubmitThrows(s)
      PROVE  RunInv'
  BY <1>2 DEF SubmitThrows
<1>3. ASSUME NEW s \in Submitters, NotifyOne(s)
      PROVE  RunInv'
  BY <1>3 DEF NotifyOne, WakeOne, Blocked
<1>4. ASSUME NEW w \in Workers, TakeTask(w)
      PROVE  RunInv'
  <2>1. Len(tasks) \in Nat \ {0}
    BY <1>4 DEF TakeTask, MustWake, MayExit
  <2>2. /\ Head(tasks) = Started + 1
        /\ Started' = Started + 1
        /\ Started \in Nat
    BY <1>4, <2>1 DEF TakeTask
  <2>3. running[w] = 0
    BY <1>4 DEF TakeTask
  <2>4. /\ running'[w] = Started + 1
        /\ \A v \in Workers \ {w} : running'[v] = running[v]
    BY <1>4, <2>2 DEF TakeTask
  <2>5. Started + 1 \notin finished \cup Running
    BY <2>2
  <2>6. Running' = Running \cup {Started + 1}
    BY <1>4, <2>2, <2>3, TaskStarts DEF TakeTask
  <2>7. finished' \cup Running' = 1 .. Started'
    <3>1. finished' = finished /\ finished \cup Running = 1 .. Started
      BY <1>4 DEF TakeTask
    <3> HIDE DEF Running, Started, RunInv, QueueInv, TypeOK
    <3> QED
      BY <2>2, <2>6, <3>1
  <2>8. \A u, v \in Workers :
          running'[u] = running'[v] /\ running'[u] # 0 => u = v
    BY <2>4, <2>5, <2>2
  <2>9. \A v \in Workers : wpc'[v] = "run" <=> running'[v] # 0
    BY <1>4, <2>2, <2>4 DEF TakeTask
  <2>10. finished' \cap Running' = {}
    <3>1. finished' = finished
      BY <1>4 DEF TakeTask
    <3>2. finished \cap Running = {}
      OBVIOUS
    <3> HIDE DEF Running, Started, RunInv, QueueInv, TypeOK
    <3> QED
      BY <3>2, <2>5, <2>6, <3>1
  <2> QED
    BY <2>7, <2>8, <2>9, <2>10
<1>5. ASSUME NEW w \in Workers, Exit(w)
      PROVE  RunInv'
  BY <1>5 DEF Exit, MustWake, MayExit
<1>6. ASSUME NEW w \in Workers, Park(w)
      PROVE  RunInv'
  BY <1>6 DEF Park, MustWake
<1>7. ASSUME NEW w \in Workers, Block(w)
      PROVE  RunInv'
  BY <1>7 DEF Block
<1>8. ASSUME NEW w \in Workers, SpuriousWake(w)
      PROVE  RunInv'
  BY <1>8 DEF SpuriousWake
<1>9. ASSUME NEW w \in Workers, FinishTask(w)
      PROVE  RunInv'
  <2>1. running[w] # 0
    BY <1>9 DEF FinishTask
  <2>2. Running' = Running \ {running[w]}
    BY <1>9, <2>1, TaskEnds DEF FinishTask
  <2>3. running[w] \in Running
    BY <2>1
  <2>4. finished' \cup Running' = 1 .. Started'
    BY <1>9, <2>2, <2>3 DEF FinishTask
  <2>5. finished' \cap Running' = {}
    BY <1>9, <2>2 DEF FinishTask
  <2> QED
    BY <1>9, <2>4, <2>5 DEF FinishTask
<1>10. CASE SetStop
  BY <1>10 DEF SetStop
<1>11. CASE NotifyAll
  BY <1>11 DEF NotifyAll, WakeAll
<1>12. CASE JoinAll
  BY <1>12 DEF JoinAll
<1>13. CASE UNCHANGED vars
  BY <1>13 DEF vars
<1> QED
  BY <1>1, <1>2, <1>3, <1>4, <1>5, <1>6, <1>7, <1>8, <1>9, <1>10, <1>11,
     <1>12, <1>13 DEF Next, WorkerLock

\* Workers leave only when nothing can be queued any more.
LEMMA ExitStep ==
  TypeOK /\ ExitInv /\ [Next]_vars => ExitInv'
<1> SUFFICES ASSUME TypeOK, ExitInv, [Next]_vars
             PROVE  ExitInv'
  OBVIOUS
<1> USE DEF TypeOK, ExitInv
<1>1. ASSUME NEW s \in Submitters, Submit(s)
      PROVE  ExitInv'
  BY <1>1 DEF Submit, Enqueue
<1>2. ASSUME NEW s \in Submitters, SubmitThrows(s)
      PROVE  ExitInv'
  BY <1>2 DEF SubmitThrows
<1>3. ASSUME NEW s \in Submitters, NotifyOne(s)
      PROVE  ExitInv'
  BY <1>3 DEF NotifyOne, WakeOne, Blocked
<1>4. ASSUME NEW w \in Workers, TakeTask(w)
      PROVE  ExitInv'
  BY <1>4 DEF TakeTask, MustWake, MayExit
<1>5. ASSUME NEW w \in Workers, Exit(w)
      PROVE  ExitInv'
  BY <1>5 DEF Exit, MustWake, MayExit
<1>6. ASSUME NEW w \in Workers, Park(w)
      PROVE  ExitInv'
  BY <1>6 DEF Park, MustWake
<1>7. ASSUME NEW w \in Workers, Block(w)
      PROVE  ExitInv'
  BY <1>7 DEF Block
<1>8. ASSUME NEW w \in Workers, SpuriousWake(w)
      PROVE  ExitInv'
  BY <1>8 DEF SpuriousWake
<1>9. ASSUME NEW w \in Workers, FinishTask(w)
      PROVE  ExitInv'
  BY <1>9 DEF FinishTask
<1>10. CASE SetStop
  BY <1>10 DEF SetStop
<1>11. CASE NotifyAll
  BY <1>11 DEF NotifyAll, WakeAll
<1>12. CASE JoinAll
  BY <1>12 DEF JoinAll
<1>13. CASE UNCHANGED vars
  BY <1>13 DEF vars
<1> QED
  BY <1>1, <1>2, <1>3, <1>4, <1>5, <1>6, <1>7, <1>8, <1>9, <1>10, <1>11,
     <1>12, <1>13 DEF Next, WorkerLock

\* A queued task always has a worker on its way to it.
LEMMA StrandedStep ==
  TypeOK /\ ParkInv /\ NoTaskStranded /\ [Next]_vars => NoTaskStranded'
<1> SUFFICES ASSUME TypeOK, ParkInv, NoTaskStranded, [Next]_vars
             PROVE  NoTaskStranded'
  OBVIOUS
<1> USE DEF TypeOK, NoTaskStranded
<1>0. /\ IsFiniteSet(Awake) /\ Cardinality(Awake) \in Nat
      /\ IsFiniteSet(Notifying) /\ Cardinality(Notifying) \in Nat
  BY PoolAssumption, FS_Subset, FS_CardinalityType
  DEF PoolAssumption, Awake, Notifying
<1>0a. Cardinality(Awake') \in Nat /\ Cardinality(Notifying') \in Nat
  <2>1. Awake' \in SUBSET Workers /\ Notifying' \in SUBSET Submitters
    BY DEF Awake, Notifying
  <2> QED
    BY <2>1, PoolAssumption, FS_Subset, FS_CardinalityType DEF PoolAssumption
<1>1. ASSUME NEW s \in Submitters, Submit(s)
      PROVE  NoTaskStranded'
  <2>1. Notifying' = Notifying \cup {s} /\ s \notin Notifying
    BY <1>1 DEF Submit, Notifying
  <2>2. Cardinality(Notifying') = Cardinality(Notifying) + 1
    BY <2>1, <1>0, FS_AddElement
  <2>3. Len(tasks') = Len(tasks) + 1 /\ Len(tasks) \in Nat
    BY <1>1 DEF Submit, Enqueue
  <2>4. Awake' = Awake /\ Blocked' = Blocked
    BY <1>1 DEF Submit, Awake, Blocked
  <2> QED
    BY <2>2, <2>3, <2>4, <1>0
<1>2. ASSUME NEW s \in Submitters, SubmitThrows(s)
      PROVE  NoTaskStranded'
  <2>1. /\ Awake' = Awake /\ Notifying' = Notifying
        /\ Blocked' = Blocked /\ tasks' = tasks
    BY <1>2 DEF SubmitThrows, Awake, Notifying, Blocked
  <2> QED
    BY <2>1
<1>3. ASSUME NEW s \in Submitters, NotifyOne(s)
      PROVE  NoTaskStranded'
  <2>1. CASE Blocked = {}
    <3>1. wpc' = wpc
      BY <1>3, <2>1 DEF NotifyOne, WakeOne
    <3> QED
      BY <2>1, <3>1 DEF Blocked
  <2>2. CASE Blocked # {}
    <3>1. PICK w \in Blocked : wpc' = [wpc EXCEPT ![w] = "lock"]
      BY <1>3, <2>2 DEF NotifyOne, WakeOne
    <3>2. Awake' = Awake \cup {w} /\ w \notin Awake
      BY <3>1 DEF Awake, Blocked
    <3>3. Notifying' = Notifying \ {s} /\ s \in Notifying
      BY <1>3 DEF NotifyOne, Notifying
    <3>4. /\ Cardinality(Awake') = Cardinality(Awake) + 1
          /\ Cardinality(Notifying') = Cardinality(Notifying) - 1
      BY <3>2, <3>3, <1>0, FS_AddElement, FS_RemoveElement
    <3>5. tasks' = tasks /\ Len(tasks) \in Nat
      BY <1>3 DEF NotifyOne
    <3> QED
      BY <2>2, <3>4, <3>5, <1>0
  <2> QED
    BY <2>1, <2>2
<1>4. ASSUME NEW w \in Workers, TakeTask(w)
      PROVE  NoTaskStranded'
  <2>1. Awake' = Awake \ {w} /\ w \in Awake
    BY <1>4 DEF TakeTask, Awake
  <2>2. Cardinality(Awake') = Cardinality(Awake) - 1
    BY <2>1, <1>0, FS_RemoveElement
  <2>3. Len(tasks') = Len(tasks) - 1 /\ Len(tasks) \in Nat
    BY <1>4 DEF TakeTask, MustWake, MayExit
  <2>4. Notifying' = Notifying /\ Blocked' = Blocked
    BY <1>4 DEF TakeTask, Notifying, Blocked
  <2> QED
    BY <2>2, <2>3, <2>4, <1>0
<1>5. ASSUME NEW w \in Workers, Exit(w)
      PROVE  NoTaskStranded'
  <2>1. tasks' = <<>>
    BY <1>5 DEF Exit, MayExit, MustWake, ParkInv
  <2> QED
    BY <2>1, <1>0a
<1>6. ASSUME NEW w \in Workers, Park(w)
      PROVE  NoTaskStranded'
  <2>1. tasks' = <<>>
    BY <1>6 DEF Park, MayExit, MustWake, ParkInv
  <2> QED
    BY <2>1, <1>0a
<1>7. ASSUME NEW w \in Workers, Block(w)
      PROVE  NoTaskStranded'
  <2>1. tasks' = <<>>
    BY <1>7 DEF Block, MayExit, MustWake, ParkInv
  <2> QED
    BY <2>1, <1>0a
<1>8. ASSUME NEW w \in Workers, SpuriousWake(w)
      PROVE  NoTaskStranded'
  <2>1. Awake' = Awake \cup {w} /\ w \notin Awake
    BY <1>8 DEF SpuriousWake, Awake
  <2>2. Cardinality(Awake') = Cardinality(Awake) + 1
    BY <2>1, <1>0, FS_AddElement
  <2>3. Notifying' = Notifying /\ tasks' = tasks /\ Len(tasks) \in Nat
    BY <1>8 DEF SpuriousWake, Notifying
  <2>4. Blocked' # {} => Blocked # {}
    BY <1>8 DEF SpuriousWake, Blocked
  <2> QED
    BY <2>2, <2>3, <2>4, <1>0
<1>9. ASSUME NEW w \in Workers, FinishTask(w)
      PROVE  NoTaskStranded'
  <2>1. Awake' = Awake \cup {w} /\ w \notin Awake
    BY <1>9 DEF FinishTask, Awake
  <2>2. Cardinality(Awake') = Cardinality(Awake) + 1
    BY <2>1, <1>0, FS_AddElement
  <2>3. Notifying' = Notifying /\ tasks' = tasks /\ Len(tasks) \in Nat
    BY <1>9 DEF FinishTask, Notifying
  <2>4. Blocked' # {} => Blocked # {}
    BY <1>9 DEF FinishTask, Blocked
  <2> QED
    BY <2>2, <2>3, <2>4, <1>0
<1>10. CASE SetStop
  <2>1. /\ Awake' = Awake /\ Notifying' = Notifying
        /\ Blocked' = Blocked /\ tasks' = tasks
    BY <1>10 DEF SetStop, Awake, Notifying, Blocked
  <2> QED
    BY <2>1
<1>11. CASE NotifyAll
  <2>1. Blocked' = {}
    BY <1>11 DEF NotifyAll, WakeAll, Blocked
  <2> QED
    BY <2>1
<1>12. CASE JoinAll
  <2>1. /\ Awake' = Awake /\ Notifying' = Notifying
        /\ Blocked' = Blocked /\ tasks' = tasks
    BY <1>12 DEF JoinAll, Awake, Notifying, Blocked
  <2> QED
    BY <2>1
<1>13. CASE UNCHANGED vars
  BY <1>13 DEF vars, Awake, Notifying, Blocked
<1> QED
  BY <1>1, <1>2, <1>3, <1>4, <1>5, <1>6, <1>7, <1>8, <1>9, <1>10, <1>11,
     <1>12, <1>13 DEF Next, WorkerLock

-----------------------------------------------------------------------------
\* The empty queue is well typed and has no tasks.
LEMMA NothingQueued == <<>> \in Seq(1 .. MaxTasks) /\ Len(<<>>) = 0
<1>1. <<>> \in Seq(1 .. MaxTasks)
  BY EmptySeq, Zenon
<1>2. Len(<<>>) = 0
  BY <1>1, EmptySeq, Zenon
<1> QED
  BY <1>1, <1>2

\* The invariant holds initially.
LEMMA InitIInv == Init => IInv
<1> SUFFICES ASSUME Init
             PROVE  IInv
  OBVIOUS
<1> USE PoolAssumption DEF PoolAssumption
<1>1. tasks \in Seq(1 .. MaxTasks) /\ Len(tasks) = 0
  BY NothingQueued, Zenon DEF Init
<1>2. /\ mutex = NoThread
      /\ stop = FALSE
      /\ wpc = [w \in Workers |-> "lock"]
      /\ running = [w \in Workers |-> 0]
      /\ spc = [s \in Submitters |-> "ready"]
      /\ dtor = "live"
      /\ accepted = 0
      /\ finished = {}
  BY Zenon DEF Init
<1>3. TypeOK
  <2>1. /\ wpc \in [Workers -> {"lock", "park", "blocked", "run", "exited"}]
        /\ running \in [Workers -> 0 .. MaxTasks]
        /\ spc \in [Submitters -> {"ready", "notify", "threw"}]
    BY <1>2
  <2>2. accepted \in 0 .. MaxTasks /\ finished \subseteq 1 .. MaxTasks
    BY <1>2
  <2> QED
    BY <1>1, <1>2, <2>1, <2>2, Zenon DEF TypeOK
<1>4. ParkInv /\ ExitInv /\ NoTaskStranded
  BY <1>2 DEF ParkInv, ExitInv, NoTaskStranded, Blocked
<1>5. Running = {} /\ Started = 0
  BY <1>1, <1>2 DEF Running, Started
<1>6. QueueInv /\ RunInv
  BY <1>1, <1>2, <1>5 DEF QueueInv, RunInv
<1> QED
  BY <1>3, <1>4, <1>6 DEF IInv

\* The strengthened invariant holds in every reachable state.
THEOREM Inductive == Spec => []IInv
<1>1. Init => IInv
  BY InitIInv
<1>2. IInv /\ [Next]_vars => IInv'
  BY TypeStep, ParkStep, QueueStep, RunStep, ExitStep, StrandedStep DEF IInv
<1> QED
  BY <1>1, <1>2, PTL DEF Spec

\* The variables of the pool keep their types.
THEOREM TypeCorrect == Spec => []TypeOK
<1>1. IInv => TypeOK
  BY DEF IInv
<1> QED
  BY <1>1, Inductive, PTL

\* Whatever the number of workers and submitters, a queued task is never left
\* to sleeping workers: notify_one outside the lock loses no task.
THEOREM TasksNotStranded == Spec => []NoTaskStranded
<1>1. IInv => NoTaskStranded
  BY DEF IInv
<1> QED
  BY <1>1, Inductive, PTL

\* A destroyed pool has executed what it had accepted.
AllExecuted == dtor = "returned" => finished = 1 .. accepted

\* When ~thread_pool has returned, every task that submit has ever accepted has
\* been executed: a worker leaves only an empty queue (thread_pool.cpp:49-51).
THEOREM NoTaskAbandoned == Spec => []AllExecuted
<1>1. IInv => AllExecuted
  <2> SUFFICES ASSUME IInv, dtor = "returned" PROVE finished = 1 .. accepted
    BY DEF AllExecuted
  <2>1. PICK w \in Workers : wpc[w] = "exited"
    BY PoolAssumption DEF PoolAssumption, IInv, ExitInv
  <2>2. tasks = <<>>
    BY <2>1 DEF IInv, ExitInv
  <2>3. Started = accepted
    <3>1. Len(tasks) = 0
      BY <2>2, NothingQueued
    <3> QED
      BY <3>1 DEF Started, IInv, TypeOK
  <2>4. Running = {}
    BY DEF IInv, ExitInv, RunInv, Running
  <2> QED
    BY <2>3, <2>4 DEF IInv, RunInv
<1> QED
  BY <1>1, Inductive, PTL

-----------------------------------------------------------------------------
(* Each step of the pool is a step of TaskQueue or changes nothing of it.  *)

\* A new pool is an empty queue.
LEMMA InitRefines == Init => Queue!Init
<1> SUFFICES ASSUME Init
             PROVE  Queue!Init
  OBVIOUS
<1>0. Len(tasks) = 0
  BY NothingQueued, Zenon DEF Init
<1>1. accepted = 0 /\ finished = {}
  BY Zenon DEF Init
<1>4. accepted - Len(tasks) = 0
  BY <1>0, <1>1
<1>2. {running[w] : w \in Workers} \ {0} = {}
  BY DEF Init
<1>3. (dtor = "returned") = FALSE
  BY Zenon DEF Init
<1> QED
  BY <1>1, <1>2, <1>3, <1>4, Zenon DEF Queue!Init

\* Each step of the pool is a step of the queue or a stutter.
LEMMA StepRefines == IInv /\ [Next]_vars => [Queue!Next]_(Queue!qvars)
<1> SUFFICES ASSUME IInv, [Next]_vars
             PROVE  [Queue!Next]_(Queue!qvars)
  OBVIOUS
<1> USE DEF IInv, TypeOK
<1>1. ASSUME NEW s \in Submitters, Submit(s)
      PROVE  [Queue!Next]_(Queue!qvars)
  <2>1. Len(tasks') = Len(tasks) + 1 /\ Len(tasks) \in Nat
    BY <1>1 DEF Submit, Enqueue
  <2>2. accepted' = accepted + 1 /\ accepted \in Nat
    BY <1>1, PoolAssumption DEF PoolAssumption, Submit
  <2>3. (accepted - Len(tasks))' = accepted - Len(tasks)
    <3> HIDE DEF IInv
    <3> QED
      BY <2>1, <2>2
  <2>4. Queue!Accept
    BY <1>1, <2>3, Zenon DEF Submit, Queue!Accept
  <2> QED
    BY <2>4 DEF Queue!Next
<1>2. ASSUME NEW s \in Submitters, SubmitThrows(s)
      PROVE  [Queue!Next]_(Queue!qvars)
  BY <1>2 DEF SubmitThrows, Queue!qvars
<1>3. ASSUME NEW s \in Submitters, NotifyOne(s)
      PROVE  [Queue!Next]_(Queue!qvars)
  BY <1>3 DEF NotifyOne, WakeOne, Blocked, Queue!qvars
<1>4. ASSUME NEW w \in Workers, TakeTask(w)
      PROVE  [Queue!Next]_(Queue!qvars)
  <2>1. Len(tasks) \in Nat \ {0} /\ Len(tasks') = Len(tasks) - 1
    BY <1>4 DEF TakeTask, MustWake, MayExit
  <2>2. Head(tasks) = Started + 1 /\ Started + 1 \in Nat \ {0}
    BY <2>1 DEF QueueInv, Started
  <2>3. running[w] = 0
    BY <1>4 DEF TakeTask, RunInv
  <2>4. Running' = Running \cup {Started + 1}
    BY <1>4, <2>2, <2>3, TaskStarts DEF TakeTask, Running
  <2>5. dtor # "returned"
    BY <1>4 DEF TakeTask, ExitInv
  <2>6. Queue!Start
    <3>1. Started < accepted /\ Started' = Started + 1
      BY <1>4, <2>1 DEF TakeTask, QueueInv, Started
    <3> QED
      BY <1>4, <2>4, <2>5, <3>1, Zenon
      DEF TakeTask, Started, Running, Queue!Start
  <2> QED
    BY <2>6 DEF Queue!Next
<1>5. ASSUME NEW w \in Workers, Exit(w)
      PROVE  [Queue!Next]_(Queue!qvars)
  BY <1>5 DEF Exit, MustWake, MayExit, Queue!qvars
<1>6. ASSUME NEW w \in Workers, Park(w)
      PROVE  [Queue!Next]_(Queue!qvars)
  BY <1>6 DEF Park, MustWake, Queue!qvars
<1>7. ASSUME NEW w \in Workers, Block(w)
      PROVE  [Queue!Next]_(Queue!qvars)
  BY <1>7 DEF Block, Queue!qvars
<1>8. ASSUME NEW w \in Workers, SpuriousWake(w)
      PROVE  [Queue!Next]_(Queue!qvars)
  BY <1>8 DEF SpuriousWake, Queue!qvars
<1>9. ASSUME NEW w \in Workers, FinishTask(w)
      PROVE  [Queue!Next]_(Queue!qvars)
  <2>1. running[w] # 0 /\ running[w] \in Running
    BY <1>9 DEF FinishTask, RunInv, Running
  <2>2. Running' = Running \ {running[w]}
    BY <1>9, <2>1, TaskEnds DEF FinishTask, RunInv, Running
  <2>3. running[w] \notin finished
    BY <2>1 DEF RunInv
  <2>4. dtor # "returned"
    BY <1>9 DEF FinishTask, ExitInv
  <2>5. PICK k \in Running : k = running[w]
    BY <2>1
  <2>6. Queue!Finish(k)
    <3>1. Started' = Started
      BY <1>9 DEF FinishTask, Started
    <3> QED
      BY <1>9, <2>2, <2>3, <2>4, <2>5, <3>1, Zenon
      DEF FinishTask, Started, Running, Queue!Finish
  <2> QED
    BY <2>6 DEF Queue!Next, Running
<1>10. CASE SetStop
  BY <1>10 DEF SetStop, Queue!qvars
<1>11. CASE NotifyAll
  BY <1>11 DEF NotifyAll, WakeAll, Queue!qvars
<1>12. CASE JoinAll
  <2>1. \A w \in Workers : wpc[w] = "exited" /\ running[w] = 0
    BY <1>12 DEF JoinAll, RunInv
  <2>2. Running = {}
    BY <2>1 DEF Running
  <2>3. tasks = <<>>
    BY <2>1, PoolAssumption DEF PoolAssumption, ExitInv
  <2>4. finished = 1 .. accepted
    BY <2>2, <2>3 DEF RunInv, Started
  <2>5. Queue!Close
    BY <1>12, <2>4 DEF JoinAll, Queue!Close
  <2> QED
    BY <2>5 DEF Queue!Next
<1>13. CASE UNCHANGED vars
  BY <1>13 DEF vars, Queue!qvars
<1> QED
  BY <1>1, <1>2, <1>3, <1>4, <1>5, <1>6, <1>7, <1>8, <1>9, <1>10, <1>11,
     <1>12, <1>13 DEF Next, WorkerLock

\* The pool implements TaskQueue: FIFO start, no task lost or run twice, and
\* a destructor that returns only after every accepted task.
THEOREM Refinement == Spec => ImplementsTaskQueue
<1>1. Init => Queue!Init
  BY InitRefines
<1>2. IInv /\ [Next]_vars => [Queue!Next]_(Queue!qvars)
  BY StepRefines
<1> QED
  BY <1>1, <1>2, Inductive, PTL DEF Spec, ImplementsTaskQueue, Queue!Spec

-----------------------------------------------------------------------------
(* Why the destructor hangs in no other way than by the lost notification. *)

\* A worker that is neither asleep nor about to be.
Up(w) == wpc[w] \in {"lock", "run", "exited"}

\* Once notify_all has been called nobody holds mutex_ and nobody sleeps: each
\* worker runs a task, looks at the queue, or has left.
AllUp ==
  dtor \in {"notified", "returned"} =>
    mutex = NoThread /\ \A w \in Workers : Up(w)

\* mutex_ is held between two steps only by a worker that is about to sleep.
MutexInv == mutex # NoThread => mutex \in Workers /\ wpc[mutex] = "park"

\* Every step keeps this.
LEMMA MutexStep == TypeOK /\ MutexInv /\ [Next]_vars => MutexInv'
<1> SUFFICES ASSUME TypeOK, MutexInv, [Next]_vars
             PROVE  MutexInv'
  OBVIOUS
<1> USE DEF MutexInv, TypeOK
<1>1. ASSUME NEW s \in Submitters, Submit(s)
      PROVE  MutexInv'
  BY <1>1 DEF Submit
<1>2. ASSUME NEW s \in Submitters, SubmitThrows(s)
      PROVE  MutexInv'
  BY <1>2 DEF SubmitThrows
<1>3. ASSUME NEW s \in Submitters, NotifyOne(s)
      PROVE  MutexInv'
  BY <1>3 DEF NotifyOne, WakeOne, Blocked
<1>4. ASSUME NEW w \in Workers, TakeTask(w)
      PROVE  MutexInv'
  BY <1>4 DEF TakeTask
<1>5. ASSUME NEW w \in Workers, Exit(w)
      PROVE  MutexInv'
  BY <1>5 DEF Exit
<1>6. ASSUME NEW w \in Workers, Park(w)
      PROVE  MutexInv'
  BY <1>6 DEF Park
<1>7. ASSUME NEW w \in Workers, Block(w)
      PROVE  MutexInv'
  BY <1>7 DEF Block
<1>8. ASSUME NEW w \in Workers, SpuriousWake(w)
      PROVE  MutexInv'
  BY <1>8 DEF SpuriousWake
<1>9. ASSUME NEW w \in Workers, FinishTask(w)
      PROVE  MutexInv'
  BY <1>9 DEF FinishTask
<1>10. CASE SetStop
  BY <1>10 DEF SetStop
<1>11. CASE NotifyAll
  BY <1>11 DEF NotifyAll, WakeAll
<1>12. CASE JoinAll
  BY <1>12 DEF JoinAll
<1>13. CASE UNCHANGED vars
  BY <1>13 DEF vars
<1> QED
  BY <1>1, <1>2, <1>3, <1>4, <1>5, <1>6, <1>7, <1>8, <1>9, <1>10, <1>11,
     <1>12, <1>13 DEF Next, WorkerLock

\* A step that does not lose the notification of the destructor keeps them up:
\* whoever asks for mutex_ after stop_ has been set finds the predicate true.
LEMMA UpStep ==
  /\ TypeOK /\ MutexInv /\ ExitInv /\ AllUp /\ [Next]_vars
  /\ ~StopNotificationLost'
  => AllUp'
<1> SUFFICES ASSUME TypeOK, MutexInv, ExitInv, AllUp, [Next]_vars,
                    ~StopNotificationLost'
             PROVE  AllUp'
  OBVIOUS
<1> USE DEF AllUp, Up
<1>1. ASSUME NEW s \in Submitters, Submit(s)
      PROVE  AllUp'
  BY <1>1 DEF Submit
<1>2. ASSUME NEW s \in Submitters, SubmitThrows(s)
      PROVE  AllUp'
  BY <1>2 DEF SubmitThrows
<1>3. ASSUME NEW s \in Submitters, NotifyOne(s)
      PROVE  AllUp'
  BY <1>3 DEF NotifyOne, WakeOne, Blocked, TypeOK
<1>4. ASSUME NEW w \in Workers, TakeTask(w)
      PROVE  AllUp'
  BY <1>4 DEF TakeTask, TypeOK
<1>5. ASSUME NEW w \in Workers, Exit(w)
      PROVE  AllUp'
  BY <1>5 DEF Exit, TypeOK
<1>6. ASSUME NEW w \in Workers, Park(w)
      PROVE  AllUp'
  <2>1. dtor = "live"
    BY <1>6 DEF Park, MustWake, ExitInv, TypeOK
  <2> QED
    BY <1>6, <2>1 DEF Park
<1>7. ASSUME NEW w \in Workers, Block(w)
      PROVE  AllUp'
  <2>1. dtor \notin {"notified", "returned"}
    BY <1>7 DEF Block
  <2> QED
    BY <1>7, <2>1 DEF Block
<1>8. ASSUME NEW w \in Workers, SpuriousWake(w)
      PROVE  AllUp'
  BY <1>8 DEF SpuriousWake, TypeOK
<1>9. ASSUME NEW w \in Workers, FinishTask(w)
      PROVE  AllUp'
  BY <1>9 DEF FinishTask, TypeOK
<1>10. CASE SetStop
  BY <1>10 DEF SetStop
<1>11. CASE NotifyAll
  <2>1. \A w \in Workers : wpc'[w] = IF wpc[w] = "blocked" THEN "lock" ELSE wpc[w]
    BY <1>11 DEF NotifyAll, WakeAll
  <2>2. \A w \in Workers : wpc'[w] # "park"
    BY <1>11 DEF NotifyAll, StopNotificationLost
  <2>3. \A w \in Workers : Up(w)'
    BY <2>1, <2>2 DEF TypeOK
  <2>4. mutex = NoThread
    BY <2>1, <2>2 DEF MutexInv
  <2> QED
    BY <1>11, <2>3, <2>4 DEF NotifyAll
<1>12. CASE JoinAll
  BY <1>12 DEF JoinAll
<1>13. CASE UNCHANGED vars
  BY <1>13 DEF vars
<1> QED
  BY <1>1, <1>2, <1>3, <1>4, <1>5, <1>6, <1>7, <1>8, <1>9, <1>10, <1>11,
     <1>12, <1>13 DEF Next, WorkerLock

\* What HangsOnlyInWindow rests on: as long as the notification of ~thread_pool
\* is not lost (thread_pool.cpp:20-31), no worker that it joins is asleep or kept
\* from mutex_ by one that is about to sleep.
THEOREM NobodySleepsThroughStop == Spec /\ []~StopNotificationLost => []AllUp
<1>1. Init => MutexInv /\ AllUp
  BY DEF Init, MutexInv, AllUp
<1>2. IInv => TypeOK /\ ExitInv
  BY DEF IInv
<1>3. TypeOK /\ MutexInv /\ [Next]_vars => MutexInv'
  BY MutexStep
<1>4. /\ TypeOK /\ MutexInv /\ ExitInv /\ AllUp /\ [Next]_vars
      /\ ~StopNotificationLost'
      => AllUp'
  BY UpStep
<1> QED
  BY <1>1, <1>2, <1>3, <1>4, Inductive, PTL DEF Spec
=============================================================================
