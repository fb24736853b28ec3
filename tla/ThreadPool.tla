----------------------------- MODULE ThreadPool -----------------------------
(***************************************************************************)
(* The fixed-size thread pool that runs streaming requests                 *)
(* (util/thread_pool.h, util/thread_pool.cpp): submit, worker_loop and the *)
(* destructor, at the granularity of mutex_, cv_ and the atomic stop_.     *)
(*                                                                         *)
(* Everything done under mutex_ in one go is one action.  The exception is *)
(* a worker whose wait predicate was false: it keeps mutex_ until cv_.wait *)
(* blocks it ("park"), and stop_, which the destructor sets without the    *)
(* mutex, may change in between.                                           *)
(***************************************************************************)
EXTENDS Naturals, Sequences, FiniteSets

CONSTANTS Workers,       \* threads created by the constructor
          Submitters,    \* io_context threads that call submit
          NoThread,      \* value of mutex when nobody holds it
          MaxTasks       \* bound: tasks accepted over the pool's lifetime

PoolAssumption ==
  /\ Workers # {}
  /\ IsFiniteSet(Workers)
  /\ IsFiniteSet(Submitters)
  /\ NoThread \notin Workers
  /\ MaxTasks \in Nat

ASSUME PoolAssumption

VARIABLES tasks,         \* tasks_: queued tasks, by acceptance number
          mutex,         \* worker holding mutex_ between predicate and wait
          stop,          \* stop_
          wpc,           \* where each worker is in worker_loop
          running,       \* task each worker executes, 0 when none
          spc,           \* where each submitter is in submit
          dtor,          \* how far ~thread_pool has got
          accepted,      \* history: number of tasks submit has queued
          finished       \* history: tasks whose execution has ended

vars == <<tasks, mutex, stop, wpc, running, spc, dtor, accepted, finished>>

Blocked == {w \in Workers : wpc[w] = "blocked"}

Init ==
  /\ tasks = <<>>
  /\ mutex = NoThread
  /\ stop = FALSE
  /\ wpc = [w \in Workers |-> "lock"]
  /\ running = [w \in Workers |-> 0]
  /\ spc = [s \in Submitters |-> "ready"]
  /\ dtor = "live"
  /\ accepted = 0
  /\ finished = {}

-----------------------------------------------------------------------------
(* submit: push under the lock, notify_one after it.                       *)

\* Mutant: the new task goes to the front of the queue.
EnqueueFront(q, k) == <<k>> \o q
Enqueue(q, k) == Append(q, k)

Submit(s) ==
  /\ spc[s] = "ready"
  /\ dtor # "returned"
  /\ mutex = NoThread
  /\ ~stop
  /\ accepted < MaxTasks
  /\ tasks' = Enqueue(tasks, accepted + 1)
  /\ accepted' = accepted + 1
  /\ spc' = [spc EXCEPT ![s] = "notify"]
  /\ UNCHANGED <<mutex, stop, wpc, running, dtor, finished>>

SubmitThrows(s) ==
  /\ spc[s] = "ready"
  /\ dtor # "returned"
  /\ mutex = NoThread
  /\ stop
  /\ spc' = [spc EXCEPT ![s] = "threw"]
  /\ UNCHANGED <<tasks, mutex, stop, wpc, running, dtor, accepted, finished>>

\* notify_one wakes one blocked worker, and is lost when there is none.
WakeOne ==
  IF Blocked = {} THEN UNCHANGED wpc
  ELSE \E w \in Blocked : wpc' = [wpc EXCEPT ![w] = "lock"]

\* Mutant: submit returns without notifying.
NotifyNobody(s) ==
  /\ spc[s] = "notify"
  /\ spc' = [spc EXCEPT ![s] = "ready"]
  /\ UNCHANGED <<tasks, mutex, stop, wpc, running, dtor, accepted, finished>>

NotifyOne(s) ==
  /\ spc[s] = "notify"
  /\ spc' = [spc EXCEPT ![s] = "ready"]
  /\ WakeOne
  /\ UNCHANGED <<tasks, mutex, stop, running, dtor, accepted, finished>>

-----------------------------------------------------------------------------
(* worker_loop                                                             *)

\* The predicate passed to cv_.wait.
MustWake == stop \/ tasks # <<>>

\* Mutant: leave as soon as stop_ is set, whatever is queued.
StopAlone == stop
MayExit == stop /\ tasks = <<>>

TakeTask(w) ==
  /\ wpc[w] = "lock"
  /\ mutex = NoThread
  /\ MustWake
  /\ ~MayExit
  /\ running' = [running EXCEPT ![w] = Head(tasks)]
  /\ tasks' = Tail(tasks)
  /\ wpc' = [wpc EXCEPT ![w] = "run"]
  /\ UNCHANGED <<mutex, stop, spc, dtor, accepted, finished>>

Exit(w) ==
  /\ wpc[w] = "lock"
  /\ mutex = NoThread
  /\ MustWake
  /\ MayExit
  /\ wpc' = [wpc EXCEPT ![w] = "exited"]
  /\ UNCHANGED <<tasks, mutex, stop, running, spc, dtor, accepted, finished>>

Park(w) ==
  /\ wpc[w] = "lock"
  /\ mutex = NoThread
  /\ ~MustWake
  /\ mutex' = w
  /\ wpc' = [wpc EXCEPT ![w] = "park"]
  /\ UNCHANGED <<tasks, stop, running, spc, dtor, accepted, finished>>

\* cv_.wait releases mutex_ and blocks in one step.
Block(w) ==
  /\ wpc[w] = "park"
  /\ mutex' = NoThread
  /\ wpc' = [wpc EXCEPT ![w] = "blocked"]
  /\ UNCHANGED <<tasks, stop, running, spc, dtor, accepted, finished>>

SpuriousWake(w) ==
  /\ wpc[w] = "blocked"
  /\ wpc' = [wpc EXCEPT ![w] = "lock"]
  /\ UNCHANGED <<tasks, mutex, stop, running, spc, dtor, accepted, finished>>

\* Mutant: an exception leaves task() and ends the worker.
WorkerDies(w) ==
  /\ wpc[w] = "run"
  /\ finished' = finished \cup {running[w]}
  /\ running' = [running EXCEPT ![w] = 0]
  /\ wpc' = [wpc EXCEPT ![w] = "dead"]
  /\ UNCHANGED <<tasks, mutex, stop, spc, dtor, accepted>>

\* task() returns or throws: a packaged_task keeps the exception.
FinishTask(w) ==
  /\ wpc[w] = "run"
  /\ finished' = finished \cup {running[w]}
  /\ running' = [running EXCEPT ![w] = 0]
  /\ wpc' = [wpc EXCEPT ![w] = "lock"]
  /\ UNCHANGED <<tasks, mutex, stop, spc, dtor, accepted>>

-----------------------------------------------------------------------------
(* ~thread_pool: set stop_ without the mutex, notify_all, join.            *)

SetStop ==
  /\ dtor = "live"
  /\ stop' = TRUE
  /\ dtor' = "stopped"
  /\ UNCHANGED <<tasks, mutex, wpc, running, spc, accepted, finished>>

\* Mutant: wake a single worker.
WakeSome == WakeOne
WakeAll == wpc' = [w \in Workers |-> IF wpc[w] = "blocked" THEN "lock" ELSE wpc[w]]

NotifyAll ==
  /\ dtor = "stopped"
  /\ WakeAll
  /\ dtor' = "notified"
  /\ UNCHANGED <<tasks, mutex, stop, running, spc, accepted, finished>>

JoinAll ==
  /\ dtor = "notified"
  /\ \A w \in Workers : wpc[w] = "exited"
  /\ dtor' = "returned"
  /\ UNCHANGED <<tasks, mutex, stop, wpc, running, spc, accepted, finished>>

-----------------------------------------------------------------------------
WorkerLock(w) == TakeTask(w) \/ Exit(w) \/ Park(w)

Next ==
  \/ \E s \in Submitters : Submit(s) \/ SubmitThrows(s) \/ NotifyOne(s)
  \/ \E w \in Workers :
       WorkerLock(w) \/ Block(w) \/ SpuriousWake(w) \/ FinishTask(w)
  \/ SetStop \/ NotifyAll \/ JoinAll

(***************************************************************************)
(* Threads keep running and mutex_ is not denied for ever to a worker that *)
(* asks for it (its critical sections are short): strong fairness on the   *)
(* lock, weak fairness elsewhere.  A stream ends (libcurl's low-speed      *)
(* limit), hence FinishTask.  Nobody has to submit or destroy the pool, and*)
(* no spurious wakeup is owed.                                             *)
(***************************************************************************)
Fairness ==
  /\ \A w \in Workers : /\ SF_vars(WorkerLock(w))
                        /\ WF_vars(Block(w))
                        /\ WF_vars(FinishTask(w))
  /\ \A s \in Submitters : WF_vars(NotifyOne(s))
  /\ WF_vars(NotifyAll)
  /\ WF_vars(JoinAll)

Spec == Init /\ [][Next]_vars
FairSpec == Spec /\ Fairness

-----------------------------------------------------------------------------
\* The types of the variables.
TypeOK ==
  /\ tasks \in Seq(1 .. MaxTasks)
  /\ mutex \in Workers \cup {NoThread}
  /\ stop \in BOOLEAN
  /\ wpc \in [Workers -> {"lock", "park", "blocked", "run", "exited"}]
  /\ running \in [Workers -> 0 .. MaxTasks]
  /\ spc \in [Submitters -> {"ready", "notify", "threw"}]
  /\ dtor \in {"live", "stopped", "notified", "returned"}
  /\ accepted \in 0 .. MaxTasks
  /\ finished \subseteq 1 .. MaxTasks

\* Workers that have still to evaluate the predicate, and notifications that
\* have still to be delivered.
Awake == {w \in Workers : wpc[w] = "lock"}
Notifying == {s \in Submitters : spc[s] = "notify"}

(***************************************************************************)
(* A queued task is never left to sleeping workers: while some worker is   *)
(* blocked there are at least as many workers about to look at the queue,  *)
(* or notifications about to wake one, as there are queued tasks.  This is *)
(* why notify_one after the unlock is enough in submit.                    *)
(***************************************************************************)
NoTaskStranded ==
  Blocked # {} => Len(tasks) <= Cardinality(Awake) + Cardinality(Notifying)

(***************************************************************************)
(* The pool behaves like TaskQueue: FIFO start, each task run once, and    *)
(* the destructor returns only when every accepted task has finished       *)
(* ("stop all threads, wait for the tasks", thread_pool.h:33).             *)
(***************************************************************************)
Queue == INSTANCE TaskQueue WITH
  started <- accepted - Len(tasks),
  running <- {running[w] : w \in Workers} \ {0},
  closed  <- dtor = "returned"

ImplementsTaskQueue == Queue!Spec

\* Every accepted task is eventually executed, also when the pool is being
\* destroyed: workers drain the queue before they leave.
TasksFinish ==
  \A k \in 1 .. MaxTasks : accepted >= k ~> k \in finished

(***************************************************************************)
(* thread_pool.cpp:17 and :22 say that notify_all wakes every worker so    *)
(* that it sees stop_ and exits: the destructor returns.                   *)
(***************************************************************************)
DestructorReturns == stop ~> dtor = "returned"

\* A worker past its predicate but not yet blocked when notify_all is called.
StopNotificationLost == dtor = "notified" /\ \E w \in Workers : wpc[w] = "park"

(***************************************************************************)
(* The only way the destructor can hang is that window: in every execution *)
(* that avoids it, a destructor that has started returns.                  *)
(***************************************************************************)
HangsOnlyInWindow == []~StopNotificationLost => DestructorReturns
=============================================================================
