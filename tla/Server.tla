------------------------------- MODULE Server -------------------------------
(***************************************************************************)
(* The life of the process (server/http_server.h, server/http_server.cpp,  *)
(* the end of main.cpp): the accept chain, the io_context threads, the     *)
(* stop signal, and the order in which the server and the thread pool are  *)
(* destroyed.  It composes the event loop with ThreadPool, whose           *)
(* submitters are the io_context threads.                                  *)
(*                                                                         *)
(* A connection is seen from the event loop only: it waits for I/O, has a  *)
(* completion handler queued, is being handled by a thread, or belongs to  *)
(* a streaming task.  What its handlers do is in Session.                  *)
(*                                                                         *)
(* The pending signal wait is outstanding work, so ioc_.run() returns only *)
(* after ioc_.stop().                                                      *)
(***************************************************************************)
EXTENDS Naturals, FiniteSets

CONSTANTS IoThreads,     \* threads that call ioc_.run()
          Main,          \* the one of them that runs main
          Workers,       \* threads of the thread pool
          NoThread,      \* value of the pool's mutex when nobody holds it
          MaxTasks,      \* bound: streaming tasks submitted
          Conns          \* bound: connections accepted

VARIABLES tasks, mutex, stop, wpc, running, spc, dtor, accepted, finished,
                         \* the thread pool
          at,            \* where each io thread is
          acceptor,      \* acceptor_ is open
          accept,        \* the async_accept operation, or its handler
          signal,        \* the signal wait, or its handler
          stopped,       \* ioc_.stop() has been called
          conn,          \* what the event loop holds for each connection
          life,          \* how far main has got
          dead,          \* std::terminate: an exception has left a handler
          acceptFailed,  \* history: an accept has failed while open
          stale          \* history: a task used the destroyed io_context

Pool == INSTANCE ThreadPool WITH Submitters <- IoThreads

ASSUME ServerAssumption ==
  /\ Main \in IoThreads
  /\ Pool!PoolAssumption
  /\ Conns \cap {"new", "spawn", "poll", "accept", "rearm", "close", "stop",
                 "notify", "left", "unborn"} = {}

poolVars == <<tasks, mutex, stop, wpc, running, spc, dtor, accepted, finished>>
loopVars == <<at, acceptor, accept, signal, stopped, conn>>
fate == <<life, dead, acceptFailed, stale>>
vars == <<poolVars, loopVars, fate>>

\* main has started the signal wait and the first accept; the worker threads
\* have still to be started.
Init ==
  /\ Pool!Init
  /\ at = [t \in IoThreads |-> IF t = Main THEN "spawn" ELSE "unborn"]
  /\ acceptor = TRUE
  /\ accept = "waiting"
  /\ signal = "waiting"
  /\ stopped = FALSE
  /\ conn = [c \in Conns |-> "new"]
  /\ life = "serving"
  /\ dead = FALSE
  /\ acceptFailed = FALSE
  /\ stale = FALSE

Goto(t, l) == at' = [at EXCEPT ![t] = l]
Conn(c, s) == conn' = [conn EXCEPT ![c] = s]

\* Thread t is free to take a handler.
Polls(t) == at[t] = "poll" /\ ~stopped

-----------------------------------------------------------------------------
(* The operating system.                                                   *)

ConnectionArrives ==
  /\ acceptor /\ accept = "waiting"
  /\ \E c \in Conns : conn[c] = "new"
  /\ accept' = "connected"
  /\ UNCHANGED <<poolVars, at, acceptor, signal, stopped, conn, fate>>

\* For instance: no file descriptor left.
AcceptFails ==
  /\ acceptor /\ accept = "waiting"
  /\ accept' = "failed"
  /\ acceptFailed' = TRUE
  /\ UNCHANGED <<poolVars, at, acceptor, signal, stopped, conn, life, dead, stale>>

SignalRaised ==
  /\ signal = "waiting"
  /\ signal' = "raised"
  /\ UNCHANGED <<poolVars, at, acceptor, accept, stopped, conn, fate>>

IoCompletes(c) ==
  /\ ~stopped
  /\ conn[c] = "waiting"
  /\ Conn(c, "ready")
  /\ UNCHANGED <<poolVars, at, acceptor, accept, signal, stopped, fate>>

-----------------------------------------------------------------------------
(* run: start the worker threads, then join the event loop.                *)

Spawn(t) ==
  /\ at[Main] = "spawn"
  /\ at[t] = "unborn"
  /\ Goto(t, "poll")
  /\ UNCHANGED <<poolVars, acceptor, accept, signal, stopped, conn, fate>>

MainJoinsLoop ==
  /\ at[Main] = "spawn"
  /\ \A t \in IoThreads : at[t] # "unborn"
  /\ Goto(Main, "poll")
  /\ UNCHANGED <<poolVars, acceptor, accept, signal, stopped, conn, fate>>

\* ioc_.run() returns, also when it is called after the stop.
LeaveLoop(t) ==
  /\ at[t] = "poll"
  /\ stopped
  /\ Goto(t, "left")
  /\ UNCHANGED <<poolVars, acceptor, accept, signal, stopped, conn, fate>>

-----------------------------------------------------------------------------
(* do_accept and its handler.                                              *)

\* The handler after an error returns without another do_accept.
AcceptHandlerFails(t) ==
  /\ Polls(t)
  /\ accept \in {"failed", "aborted"}
  /\ accept' = "none"
  /\ UNCHANGED <<poolVars, at, acceptor, signal, stopped, conn, fate>>

\* The handler creates the session, whose run() starts the first read.
AcceptHandler(t, c) ==
  /\ Polls(t)
  /\ accept = "connected"
  /\ conn[c] = "new"
  /\ accept' = "none"
  /\ Conn(c, "waiting")
  /\ Goto(t, "rearm")
  /\ UNCHANGED <<poolVars, acceptor, signal, stopped, fate>>

\* The next do_accept; on a closed acceptor it fails at once.  Mutant: the
\* handler returns after the session has been started.
NoRearm == "none"
Rearmed == IF acceptor THEN "waiting" ELSE "failed"

Rearm(t) ==
  /\ at[t] = "rearm"
  /\ accept' = Rearmed
  /\ Goto(t, "poll")
  /\ UNCHANGED <<poolVars, acceptor, signal, stopped, conn, fate>>

-----------------------------------------------------------------------------
(* The signal handler and stop.                                            *)

SignalHandler(t) ==
  /\ Polls(t)
  /\ signal = "raised"
  /\ signal' = "handled"
  /\ Goto(t, "close")
  /\ UNCHANGED <<poolVars, acceptor, accept, stopped, conn, fate>>

CloseAcceptor(t) ==
  /\ at[t] = "close"
  /\ acceptor' = FALSE
  /\ accept' = IF accept = "waiting" THEN "aborted" ELSE accept
  /\ Goto(t, "stop")
  /\ UNCHANGED <<poolVars, signal, stopped, conn, fate>>

\* Mutant: only the acceptor is closed.
KeepRunning == stopped
IocStopped == TRUE

StopIoc(t) ==
  /\ at[t] = "stop"
  /\ stopped' = IocStopped
  /\ Goto(t, "poll")
  /\ UNCHANGED <<poolVars, acceptor, accept, signal, conn, fate>>

-----------------------------------------------------------------------------
(* Handlers of the connections.                                            *)

Handle(t, c) ==
  /\ Polls(t)
  /\ conn[c] = "ready"
  /\ Conn(c, "handled")
  /\ Goto(t, c)
  /\ UNCHANGED <<poolVars, acceptor, accept, signal, stopped, fate>>

\* The handler starts another operation, or lets go of the session.
HandlerReturns(t, c) ==
  /\ at[t] = c
  /\ \E s \in {"waiting", "ended"} : Conn(c, s)
  /\ Goto(t, "poll")
  /\ UNCHANGED <<poolVars, acceptor, accept, signal, stopped, fate>>

\* The handler of the stream header hands the session to the thread pool.
HandlerSubmits(t, c) ==
  /\ at[t] = c
  /\ Pool!Submit(t)
  /\ Conn(c, "streaming")
  /\ Goto(t, "notify")
  /\ UNCHANGED <<acceptor, accept, signal, stopped, fate>>

HandlerNotifies(t) ==
  /\ at[t] = "notify"
  /\ Pool!NotifyOne(t)
  /\ Goto(t, "poll")
  /\ UNCHANGED <<acceptor, accept, signal, stopped, conn, fate>>

\* Nothing catches an exception between a handler and ioc_.run(): thrown by a
\* route handler, or by submit on a stopped pool.
HandlerThrows(t, c) ==
  /\ at[t] = c
  /\ dead' = TRUE
  /\ IF stop THEN Pool!SubmitThrows(t) ELSE UNCHANGED poolVars
  /\ UNCHANGED <<loopVars, life, acceptFailed, stale>>

-----------------------------------------------------------------------------
(* The thread pool's workers.  While it runs, and when it lets go of the   *)
(* session, a streaming task uses the io_context of the session's socket.  *)

TaskEnds(w) ==
  /\ Pool!FinishTask(w)
  /\ stale' = (stale \/ life = "destroyed")
  /\ UNCHANGED <<loopVars, life, dead, acceptFailed>>

PoolWorks ==
  /\ \E w \in Workers :
       Pool!WorkerLock(w) \/ Pool!Block(w) \/ Pool!SpuriousWake(w)
  /\ UNCHANGED <<loopVars, fate>>

-----------------------------------------------------------------------------
(* The end of main.                                                        *)

\* Mutant: run does not join its workers.
MainLeft == at[Main] = "left"
AllLeft == \A t \in IoThreads : at[t] = "left"

JoinWorkers ==
  /\ life = "serving"
  /\ AllLeft
  /\ life' = "joined"
  /\ UNCHANGED <<poolVars, loopVars, dead, acceptFailed, stale>>

\* ~io_context destroys the handlers it still holds, and with them the
\* sessions only they refer to, without running them.
DestroyServer ==
  /\ life = "joined"
  /\ life' = "destroyed"
  /\ conn' = [c \in Conns |->
                IF conn[c] \in {"waiting", "ready"} THEN "dropped" ELSE conn[c]]
  /\ UNCHANGED <<poolVars, at, acceptor, accept, signal, stopped, dead,
                 acceptFailed, stale>>

\* Scopes end in reverse order: the thread pool goes after the server.  The
\* mutant destroys it before.
AnyTime == TRUE
ServerGone == life = "destroyed"

ClosePool ==
  /\ ServerGone
  /\ Pool!SetStop \/ Pool!NotifyAll \/ Pool!JoinAll
  /\ UNCHANGED <<loopVars, fate>>

ReturnFromMain ==
  /\ life = "destroyed"
  /\ dtor = "returned"
  /\ life' = "exited"
  /\ UNCHANGED <<poolVars, loopVars, dead, acceptFailed, stale>>

-----------------------------------------------------------------------------
\* What a thread does of itself, and what it does once the handler of a
\* connection has got that far.
LoopTurns(t) ==
  \/ LeaveLoop(t) \/ AcceptHandlerFails(t) \/ Rearm(t)
  \/ SignalHandler(t) \/ CloseAcceptor(t) \/ StopIoc(t)
  \/ HandlerNotifies(t)
  \/ \E c \in Conns : AcceptHandler(t, c) \/ Handle(t, c)

HandlerGoesOn(t) ==
  \E c \in Conns :
    HandlerReturns(t, c) \/ HandlerSubmits(t, c) \/ HandlerThrows(t, c)

LoopStep(t) == LoopTurns(t) \/ HandlerGoesOn(t)

MainStep ==
  \/ MainJoinsLoop \/ JoinWorkers \/ DestroyServer \/ ClosePool \/ ReturnFromMain
  \/ \E t \in IoThreads : Spawn(t)

Next ==
  /\ ~dead
  /\ \/ ConnectionArrives \/ AcceptFails \/ SignalRaised
     \/ \E c \in Conns : IoCompletes(c)
     \/ \E t \in IoThreads : LoopStep(t)
     \/ \E w \in Workers : TaskEnds(w)
     \/ PoolWorks
     \/ MainStep

(***************************************************************************)
(* Threads keep running.  An event loop that always has handlers to run    *)
(* still gets to the signal handler (asio's queue is FIFO), and a worker   *)
(* to the pool's mutex: strong fairness for these two.  A task ends, since *)
(* libcurl gives up a transfer that stalls; nothing makes a handler end,   *)
(* since a statement in it waits for MySQL without a timeout               *)
(* (connection_pool.cpp:74-100).                                           *)
(***************************************************************************)
Fairness ==
  /\ \A t \in IoThreads : /\ WF_vars(~dead /\ LoopTurns(t))
                          /\ SF_vars(~dead /\ SignalHandler(t))
  /\ WF_vars(~dead /\ MainStep)
  /\ \A w \in Workers :
       /\ SF_vars(~dead /\ PoolWorks /\ Pool!WorkerLock(w))
       /\ WF_vars(~dead /\ PoolWorks /\ Pool!Block(w))
       /\ WF_vars(~dead /\ TaskEnds(w))

Spec == Init /\ [][Next]_vars
FairSpec == Spec /\ Fairness
-----------------------------------------------------------------------------
Stations == {"unborn", "spawn", "poll", "rearm", "close", "stop", "notify", "left"}

\* The types of the variables.
TypeOK ==
  /\ Pool!TypeOK
  /\ at \in [IoThreads -> Stations \cup Conns]
  /\ accept \in {"none", "waiting", "connected", "failed", "aborted"}
  /\ signal \in {"waiting", "raised", "handled"}
  /\ conn \in [Conns -> {"new", "waiting", "ready", "handled", "streaming",
                         "ended", "dropped"}]
  /\ life \in {"serving", "joined", "destroyed", "exited"}
  /\ {acceptor, stopped, dead, acceptFailed, stale} \subseteq BOOLEAN

\* The accept operation, its handler, or a handler that will do_accept again.
Accepts == (IF accept = "none" THEN 0 ELSE 1)
           + Cardinality({t \in IoThreads : at[t] = "rearm"})

(***************************************************************************)
(* There is one accept chain, never two (do_accept is called by main and   *)
(* by handlers that many threads run), and until the acceptor is closed it *)
(* is not lost, unless an accept has failed.                               *)
(***************************************************************************)
OneAcceptChain ==
  /\ Accepts <= 1
  /\ acceptor /\ ~acceptFailed => Accepts = 1

(***************************************************************************)
(* The io_context, and after it the router, the adapters, the middleware   *)
(* chain and the connection pool, are destroyed only when no thread runs a *)
(* handler.                                                                *)
(***************************************************************************)
DestroyedQuietly ==
  life \in {"destroyed", "exited"} => \A t \in IoThreads : at[t] = "left"

(***************************************************************************)
(* The exception submit throws on a stopped pool, which nothing catches,   *)
(* is never thrown: no handler runs any more when the pool is closed.      *)
(***************************************************************************)
NoSubmitAfterStop == \A t \in IoThreads : spc[t] # "threw"

\* No handler runs for ever.
HandlersEnd == \A t \in IoThreads : []<>(at[t] \notin Conns)

(***************************************************************************)
(* A signal ends the process: every event-loop thread leaves, whenever the *)
(* signal comes (before all threads are started, while a handler accepts   *)
(* or submits), and the pool's tasks are waited for.  The exceptions are   *)
(* the pool's lost notification, an exception out of a handler, and a      *)
(* handler that never ends, which the join waits for                       *)
(* (http_server.cpp:123-125).                                              *)
(***************************************************************************)
SignalEndsProcess ==
  HandlersEnd /\ []~Pool!StopNotificationLost =>
    (signal = "raised" ~> life = "exited" \/ dead)

(***************************************************************************)
(* README.md:21: a signal leads to a graceful exit that releases all       *)
(* resources safely: no streaming task uses what has been destroyed.       *)
(***************************************************************************)
NothingUsedAfterDestruction == ~stale
=============================================================================
