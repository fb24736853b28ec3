--------------------------- MODULE ConnectionPool ---------------------------
(***************************************************************************)
(* The MySQL connection pool (db/connection_pool.h, db/connection_pool.cpp)*)
(* at the granularity of its mutex and condition variable.  Everything     *)
(* borrow and return_connection do under mutex_ is one action; unlike      *)
(* stop_ of the thread pool, the state the wait predicate reads changes    *)
(* only under the mutex, so evaluating it and blocking is one action too.  *)
(*                                                                         *)
(* cv_.wait_for(lock, 5s, predicate) evaluates the predicate again after   *)
(* every wakeup, and once more when the 5 seconds are over; the deadline   *)
(* is fixed at the call, so it can pass whether the thread is blocked or   *)
(* has just been woken.                                                    *)
(***************************************************************************)
EXTENDS Naturals, Sequences, FiniteSets, Functions

CONSTANTS Threads,       \* threads that borrow
          PoolSize       \* pool_size_, the connections the constructor tries

ConnectionAssumption ==
  /\ IsFiniteSet(Threads)
  /\ PoolSize \in Nat \ {0}

ASSUME ConnectionAssumption

VARIABLES idle,          \* idle_connections_: numbers of idle connections
          created,       \* connections the constructor managed to create
          pc,            \* where each thread is in borrow/return_connection
          held           \* connection each thread has borrowed, 0 when none

pvars == <<idle, created, pc, held>>

Blocked == {t \in Threads : pc[t] = "blocked"}

\* Some creations may fail; with none at all the constructor throws and the
\* program ends.  Lost connections are never created again.
Init ==
  /\ created \in 1 .. PoolSize
  /\ idle = [i \in 1 .. created |-> i]
  /\ pc = [t \in Threads |-> "out"]
  /\ held = [t \in Threads |-> 0]

Goto(t, l) == pc' = [pc EXCEPT ![t] = l]

-----------------------------------------------------------------------------
(* borrow                                                                  *)

Borrow(t) ==
  /\ pc[t] = "out"
  /\ Goto(t, "enter")
  /\ UNCHANGED <<idle, created, held>>

\* Mutant: the connection handed out is not popped.
PopNothing(q) == q
Pop(q) == Tail(q)

Take(t) ==
  /\ pc[t] \in {"enter", "expired"}
  /\ idle # <<>>
  /\ held' = [held EXCEPT ![t] = Head(idle)]
  /\ idle' = Pop(idle)
  /\ Goto(t, "using")
  /\ UNCHANGED created

Wait(t) ==
  /\ pc[t] = "enter"
  /\ idle = <<>>
  /\ Goto(t, "blocked")
  /\ UNCHANGED <<idle, created, held>>

SpuriousWake(t) ==
  /\ pc[t] = "blocked"
  /\ Goto(t, "enter")
  /\ UNCHANGED <<idle, created, held>>

\* The 5 seconds are over.  Mutant: wait without a timeout.
WaitForever(t) == FALSE /\ UNCHANGED pvars
TimeOut(t) ==
  /\ pc[t] \in {"enter", "blocked"}
  /\ Goto(t, "expired")
  /\ UNCHANGED <<idle, created, held>>

\* The last evaluation of the predicate fails: borrow returns nullptr.
GiveUp(t) ==
  /\ pc[t] = "expired"
  /\ idle = <<>>
  /\ Goto(t, "null")
  /\ UNCHANGED <<idle, created, held>>

\* The caller has seen the nullptr.
Leave(t) ==
  /\ pc[t] = "null"
  /\ Goto(t, "out")
  /\ UNCHANGED <<idle, created, held>>

-----------------------------------------------------------------------------
(* return_connection: push under the lock, notify_one after it.            *)

\* Mutants: the pointer is reset before it is pushed; it is not pushed.
PushNull(q, t) == Append(q, 0)
PushNothing(q, t) == q
Push(q, t) == Append(q, held[t])

Return(t) ==
  /\ pc[t] = "using"
  /\ idle' = Push(idle, t)
  /\ held' = [held EXCEPT ![t] = 0]
  /\ Goto(t, "notify")
  /\ UNCHANGED created

\* Mutant: nobody is notified.
NotifyNobody(t) ==
  /\ pc[t] = "notify"
  /\ Goto(t, "out")
  /\ UNCHANGED <<idle, created, held>>

NotifyOne(t) ==
  /\ pc[t] = "notify"
  /\ IF Blocked = {}
       THEN Goto(t, "out")
       ELSE \E w \in Blocked :
              pc' = [pc EXCEPT ![t] = "out", ![w] = "enter"]
  /\ UNCHANGED <<idle, created, held>>

-----------------------------------------------------------------------------
Evaluate(t) == Take(t) \/ Wait(t) \/ GiveUp(t)

Internal(t) == Evaluate(t) \/ SpuriousWake(t) \/ TimeOut(t) \/ NotifyOne(t)

Next == \E t \in Threads : Borrow(t) \/ Internal(t) \/ Leave(t) \/ Return(t)

(***************************************************************************)
(* Time passes and a thread that wants mutex_ gets it.  Nothing is assumed *)
(* of the borrowers: a query may hang and its connection never come back.  *)
(***************************************************************************)
Fairness == \A t \in Threads : WF_pvars(Evaluate(t)) /\ WF_pvars(TimeOut(t))

Spec == Init /\ [][Next]_pvars
FairSpec == Spec /\ Fairness

-----------------------------------------------------------------------------
\* The types of the variables.
TypeOK ==
  /\ created \in 1 .. PoolSize
  /\ idle \in Seq(1 .. created)
  /\ pc \in [Threads -> {"out", "enter", "blocked", "expired", "null",
                         "using", "notify"}]
  /\ held \in [Threads -> 0 .. created]

Evaluating == {t \in Threads : pc[t] \in {"enter", "expired"}}
Notifying == {t \in Threads : pc[t] = "notify"}

(***************************************************************************)
(* An idle connection never stays with sleeping waiters: while somebody is *)
(* blocked, each idle connection has a thread about to look at the queue   *)
(* or a notification about to wake one.  A waiter whose timeout races the  *)
(* notification does not swallow it.                                       *)
(***************************************************************************)
NoConnectionStranded ==
  Blocked # {} =>
    Len(idle) <= Cardinality(Evaluating) + Cardinality(Notifying)

(***************************************************************************)
(* The threads that wait for a connection never are all there are: one has *)
(* a connection, or is about to look for one, or is not in borrow.  Only   *)
(* io_context threads borrow, so the server does not stand still for the   *)
(* pool alone.                                                             *)
(***************************************************************************)
NotAllWaiting == Threads # {} => Blocked # Threads

(***************************************************************************)
(* The pool behaves like Lending: one holder per connection, and nullptr   *)
(* only when every connection is lent at the moment of the last check.     *)
(***************************************************************************)
Asking(t) ==
  CASE pc[t] \in {"enter", "blocked", "expired"} -> "yes"
    [] pc[t] = "null" -> "refused"
    [] OTHER -> "no"

Lent == INSTANCE Lending WITH
  free   <- Range(idle),
  holder <- held,
  asking <- [t \in Threads |-> Asking(t)]

ImplementsLending == Lent!Spec

(***************************************************************************)
(* A borrow always comes back, with a connection, or after 5 seconds with  *)
(* nullptr, also if no connection is ever returned                         *)
(* (connection_pool.cpp:107-113).  This is the code's promise, not the     *)
(* header's: connection_pool.h:59 has the caller blocked until a           *)
(* connection is returned.                                                 *)
(***************************************************************************)
BorrowReturns ==
  \A t \in Threads : pc[t] = "enter" ~> pc[t] \in {"using", "null"}
=============================================================================
