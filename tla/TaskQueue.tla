------------------------------ MODULE TaskQueue ------------------------------
(***************************************************************************)
(* What util/thread_pool.h promises its callers, without threads, lock or  *)
(* condition variable: tasks are numbered in the order they are accepted,  *)
(* start in that order, run at most once, and the pool is closed only when *)
(* every accepted task has finished.  ThreadPool implements this module.   *)
(***************************************************************************)
EXTENDS Naturals

CONSTANT MaxTasks        \* bound: tasks accepted over the pool's lifetime

VARIABLES accepted,      \* number of tasks accepted so far
          started,       \* number of tasks taken from the queue so far
          running,       \* tasks that are being executed
          finished,      \* tasks whose execution has ended
          closed         \* the destructor has returned

qvars == <<accepted, started, running, finished, closed>>

Init ==
  /\ accepted = 0
  /\ started = 0
  /\ running = {}
  /\ finished = {}
  /\ closed = FALSE

Accept ==
  /\ ~closed
  /\ accepted < MaxTasks
  /\ accepted' = accepted + 1
  /\ UNCHANGED <<started, running, finished, closed>>

Start ==
  /\ ~closed
  /\ started < accepted
  /\ started' = started + 1
  /\ running' = running \cup {started + 1}
  /\ UNCHANGED <<accepted, finished, closed>>

Finish(k) ==
  /\ ~closed
  /\ k \notin finished
  /\ running' = running \ {k}
  /\ finished' = finished \cup {k}
  /\ UNCHANGED <<accepted, started, closed>>

Close ==
  /\ finished = 1 .. accepted
  /\ closed' = TRUE
  /\ UNCHANGED <<accepted, started, running, finished>>

Next ==
  \/ Accept
  \/ Start
  \/ \E k \in running : Finish(k)
  \/ Close

Spec == Init /\ [][Next]_qvars
=============================================================================
