----------------------------- MODULE ServerProofs -----------------------------
(***************************************************************************)
(* What holds of the process for every number of io_context threads, pool  *)
(* workers, connections and tasks: one accept chain, no handler running    *)
(* when things are destroyed, no submit on a stopped pool, and the thread  *)
(* pool used by its protocol.                                              *)
(***************************************************************************)
EXTENDS Server, FiniteSetTheorems, TLAPS

PoolProofs == INSTANCE ThreadPoolProofs WITH Submitters <- IoThreads

\* The variables of the event loop and of main.
LoopTypeOK ==
  /\ at \in [IoThreads -> Stations \cup Conns]
  /\ accept \in {"none", "waiting", "connected", "failed", "aborted"}
  /\ signal \in {"waiting", "raised", "handled"}
  /\ conn \in [Conns -> {"new", "waiting", "ready", "handled", "streaming",
                         "ended", "dropped"}]
  /\ life \in {"serving", "joined", "destroyed", "exited"}
  /\ {acceptor, stopped, dead, acceptFailed, stale} \subseteq BOOLEAN

\* The accept chain is an operation, its handler, or one thread on its way to
\* the next operation; only a failure while open, or the close, ends it.
ChainInv ==
  /\ \A t, u \in IoThreads : at[t] = "rearm" /\ at[u] = "rearm" => t = u
  /\ \A t \in IoThreads : at[t] = "rearm" => accept = "none"
  /\ acceptor /\ ~acceptFailed =>
       \/ accept \in {"waiting", "connected"}
       \/ accept = "none" /\ \E t \in IoThreads : at[t] = "rearm"

\* main goes on only when every thread has left the event loop, and the pool
\* is stopped after the server is gone.
OrderInv ==
  /\ life # "serving" => \A t \in IoThreads : at[t] = "left"
  /\ stop => life \in {"destroyed", "exited"}

IInv == LoopTypeOK /\ ChainInv /\ OrderInv /\ NoSubmitAfterStop

-----------------------------------------------------------------------------
(* The thread pool under the server.                                       *)

\* Each step of the server is a step of the pool or none.
LEMMA PoolStep == [Next]_vars => [Pool!Next]_(Pool!vars)
<1> SUFFICES ASSUME [Next]_vars
             PROVE  [Pool!Next]_(Pool!vars)
  OBVIOUS
<1>0. UNCHANGED poolVars => UNCHANGED Pool!vars
  BY DEF poolVars, Pool!vars
<1>1. CASE ConnectionArrives \/ AcceptFails \/ SignalRaised
             \/ \E c \in Conns : IoCompletes(c)
  BY <1>0, <1>1 DEF ConnectionArrives, AcceptFails, SignalRaised, IoCompletes
<1>2. ASSUME NEW t \in IoThreads,
             LeaveLoop(t) \/ AcceptHandlerFails(t) \/ Rearm(t)
               \/ SignalHandler(t) \/ CloseAcceptor(t) \/ StopIoc(t) \/ Spawn(t)
      PROVE  UNCHANGED Pool!vars
  BY <1>0, <1>2 DEF LeaveLoop, AcceptHandlerFails, Rearm, SignalHandler,
                    CloseAcceptor, StopIoc, Spawn
<1>3. ASSUME NEW t \in IoThreads, NEW c \in Conns,
             AcceptHandler(t, c) \/ Handle(t, c) \/ HandlerReturns(t, c)
      PROVE  UNCHANGED Pool!vars
  BY <1>0, <1>3 DEF AcceptHandler, Handle, HandlerReturns
<1>4. ASSUME NEW t \in IoThreads, HandlerNotifies(t)
      PROVE  Pool!Next
  BY <1>4 DEF HandlerNotifies, Pool!Next
<1>5. ASSUME NEW t \in IoThreads, NEW c \in Conns, HandlerSubmits(t, c)
      PROVE  Pool!Next
  BY <1>5 DEF HandlerSubmits, Pool!Next
<1>6. ASSUME NEW t \in IoThreads, NEW c \in Conns, HandlerThrows(t, c)
      PROVE  [Pool!Next]_(Pool!vars)
  BY <1>0, <1>6 DEF HandlerThrows, Pool!Next
<1>7. ASSUME NEW w \in Workers, TaskEnds(w)
      PROVE  Pool!Next
  BY <1>7 DEF TaskEnds, Pool!Next
<1>8. CASE PoolWorks
  BY <1>8 DEF PoolWorks, Pool!Next
<1>9. CASE MainJoinsLoop \/ JoinWorkers \/ DestroyServer \/ ReturnFromMain
  BY <1>0, <1>9 DEF MainJoinsLoop, JoinWorkers, DestroyServer, ReturnFromMain
<1>10. CASE ClosePool
  BY <1>10 DEF ClosePool, Pool!Next
<1>11. CASE UNCHANGED vars
  BY <1>0, <1>11 DEF vars
<1> QED
  BY <1>1, <1>2, <1>3, <1>4, <1>5, <1>6, <1>7, <1>8, <1>9, <1>10, <1>11
  DEF Next, LoopStep, LoopTurns, HandlerGoesOn, MainStep

\* The server uses the pool by its protocol, also while it is being closed.
THEOREM PoolProtocolKept == Spec => Pool!Spec
<1>1. Init => Pool!Init
  BY DEF Init
<1> QED
  BY <1>1, PoolStep, PTL DEF Spec, Pool!Spec

\* The theorems of the pool are about this pool.
LEMMA SamePool ==
  /\ PoolProofs!PoolAssumption
  /\ PoolProofs!Init <=> Pool!Init
  /\ [PoolProofs!Next]_(PoolProofs!vars) <=> [Pool!Next]_(Pool!vars)
  /\ PoolProofs!TypeOK <=> Pool!TypeOK
  /\ PoolProofs!StopNotificationLost <=> Pool!StopNotificationLost
<1>1. PoolProofs!PoolAssumption
  BY ServerAssumption
  DEF Pool!PoolAssumption, PoolProofs!PoolAssumption, Pool!IsFiniteSet,
      PoolProofs!IsFiniteSet
<1>2. PoolProofs!Init <=> Pool!Init
  BY DEF PoolProofs!Init, Pool!Init
<1>3. PoolProofs!Next <=> Pool!Next
  BY DEF PoolProofs!Next, PoolProofs!WorkerLock, PoolProofs!Submit,
         PoolProofs!SubmitThrows, PoolProofs!NotifyOne, PoolProofs!TakeTask,
         PoolProofs!Exit, PoolProofs!Park, PoolProofs!Block,
         PoolProofs!SpuriousWake, PoolProofs!FinishTask, PoolProofs!SetStop,
         PoolProofs!NotifyAll, PoolProofs!JoinAll, PoolProofs!WakeOne,
         PoolProofs!WakeAll, PoolProofs!MustWake, PoolProofs!MayExit,
         PoolProofs!Enqueue, PoolProofs!Blocked,
         Pool!Next, Pool!WorkerLock, Pool!Submit, Pool!SubmitThrows,
         Pool!NotifyOne, Pool!TakeTask, Pool!Exit, Pool!Park, Pool!Block,
         Pool!SpuriousWake, Pool!FinishTask, Pool!SetStop, Pool!NotifyAll,
         Pool!JoinAll, Pool!WakeOne, Pool!WakeAll, Pool!MustWake,
         Pool!MayExit, Pool!Enqueue, Pool!Blocked
<1>4. PoolProofs!vars = Pool!vars /\ PoolProofs!vars' = Pool!vars'
  BY DEF PoolProofs!vars, Pool!vars
<1>5. PoolProofs!TypeOK <=> Pool!TypeOK
  BY DEF PoolProofs!TypeOK, Pool!TypeOK
<1>6. PoolProofs!StopNotificationLost <=> Pool!StopNotificationLost
  BY DEF PoolProofs!StopNotificationLost, Pool!StopNotificationLost
<1> QED
  BY <1>1, <1>2, <1>3, <1>4, <1>5, <1>6

\* So its types are kept under the server.
LEMMA PoolTypes == Spec => []Pool!TypeOK
<1>1. Spec => PoolProofs!Spec
  BY SamePool, PoolProtocolKept, PTL DEF Pool!Spec, PoolProofs!Spec
<1>2. PoolProofs!Spec => []PoolProofs!TypeOK
  BY SamePool, PoolProofs!TypeCorrect
<1>3. PoolProofs!TypeOK <=> Pool!TypeOK
  BY SamePool
<1> QED
  BY <1>1, <1>2, <1>3, PTL

-----------------------------------------------------------------------------
(* One lemma per part of the invariant, one step per action.               *)

\* No connection is a station of the event loop.
LEMMA ConnIsNoStation == \A c \in Conns : c \notin Stations
BY ServerAssumption DEF Stations

\* Types.
LEMMA TypeStep == LoopTypeOK /\ [Next]_vars => LoopTypeOK'
<1> SUFFICES ASSUME LoopTypeOK, [Next]_vars
             PROVE  LoopTypeOK'
  OBVIOUS
<1> USE ServerAssumption DEF LoopTypeOK, Stations, Goto, Conn, fate
<1>1. CASE ConnectionArrives
  BY <1>1 DEF ConnectionArrives
<1>2. CASE AcceptFails
  BY <1>2 DEF AcceptFails
<1>3. CASE SignalRaised
  BY <1>3 DEF SignalRaised
<1>4. ASSUME NEW c \in Conns, IoCompletes(c)
      PROVE  LoopTypeOK'
  BY <1>4 DEF IoCompletes
<1>5. ASSUME NEW t \in IoThreads, LeaveLoop(t) \/ Spawn(t) \/ HandlerNotifies(t)
      PROVE  LoopTypeOK'
  BY <1>5 DEF LeaveLoop, Spawn, HandlerNotifies
<1>6. ASSUME NEW t \in IoThreads, AcceptHandlerFails(t) \/ Rearm(t)
      PROVE  LoopTypeOK'
  BY <1>6 DEF AcceptHandlerFails, Rearm, Rearmed
<1>7. ASSUME NEW t \in IoThreads,
             SignalHandler(t) \/ CloseAcceptor(t) \/ StopIoc(t)
      PROVE  LoopTypeOK'
  BY <1>7 DEF SignalHandler, CloseAcceptor, StopIoc, IocStopped
<1>8. ASSUME NEW t \in IoThreads, NEW c \in Conns,
             AcceptHandler(t, c) \/ Handle(t, c) \/ HandlerReturns(t, c)
      PROVE  LoopTypeOK'
  BY <1>8 DEF AcceptHandler, Handle, HandlerReturns
<1>9. ASSUME NEW t \in IoThreads, NEW c \in Conns, HandlerSubmits(t, c)
      PROVE  LoopTypeOK'
  BY <1>9 DEF HandlerSubmits
<1>10. ASSUME NEW t \in IoThreads, NEW c \in Conns, HandlerThrows(t, c)
       PROVE  LoopTypeOK'
  BY <1>10 DEF HandlerThrows, loopVars
<1>11. ASSUME NEW w \in Workers, TaskEnds(w)
       PROVE  LoopTypeOK'
  BY <1>11 DEF TaskEnds, loopVars
<1>12. CASE PoolWorks
  BY <1>12 DEF PoolWorks, loopVars
<1>13. CASE MainJoinsLoop \/ JoinWorkers \/ DestroyServer \/ ReturnFromMain
  BY <1>13 DEF MainJoinsLoop, JoinWorkers, DestroyServer, ReturnFromMain, loopVars
<1>14. CASE ClosePool
  BY <1>14 DEF ClosePool, loopVars
<1>15. CASE UNCHANGED vars
  BY <1>15 DEF vars, loopVars
<1> QED
  BY <1>1, <1>2, <1>3, <1>4, <1>5, <1>6, <1>7, <1>8, <1>9, <1>10, <1>11,
     <1>12, <1>13, <1>14, <1>15 DEF Next, LoopStep, LoopTurns, HandlerGoesOn, MainStep

\* The chain is handed from operation to handler to thread to operation.
LEMMA ChainStep == LoopTypeOK /\ ChainInv /\ [Next]_vars => ChainInv'
<1> SUFFICES ASSUME LoopTypeOK, ChainInv, [Next]_vars
             PROVE  ChainInv'
  OBVIOUS
<1>0. at \in [IoThreads -> Stations \cup Conns] /\ acceptFailed \in BOOLEAN
  BY DEF LoopTypeOK
<1> USE DEF ChainInv, Goto
<1>1. CASE ConnectionArrives
  BY <1>1 DEF ConnectionArrives, fate
<1>2. CASE AcceptFails
  BY <1>2 DEF AcceptFails
<1>3. CASE SignalRaised \/ \E c \in Conns : IoCompletes(c)
  BY <1>3 DEF SignalRaised, IoCompletes, fate
\* Moves of a thread that has no part in the chain.
<1>4. ASSUME NEW t \in IoThreads, NEW s, s # "rearm", at[t] # "rearm",
             Goto(t, s), UNCHANGED <<acceptor, accept, acceptFailed>>
      PROVE  ChainInv'
  BY <1>0, <1>4
<1>5. ASSUME NEW t \in IoThreads,
             LeaveLoop(t) \/ Spawn(t) \/ HandlerNotifies(t)
               \/ SignalHandler(t) \/ StopIoc(t)
      PROVE  ChainInv'
  BY <1>4, <1>5
  DEF LeaveLoop, Spawn, HandlerNotifies, SignalHandler, StopIoc, Polls, fate
<1>6. ASSUME NEW t \in IoThreads, NEW c \in Conns,
             Handle(t, c) \/ HandlerReturns(t, c) \/ HandlerSubmits(t, c)
      PROVE  ChainInv'
  <2>1. c # "rearm"
    BY ConnIsNoStation DEF Stations
  <2> QED
    BY <1>4, <1>6, <2>1
    DEF Handle, HandlerReturns, HandlerSubmits, Polls, fate
<1>7. ASSUME NEW t \in IoThreads, AcceptHandlerFails(t)
      PROVE  ChainInv'
  BY <1>7 DEF AcceptHandlerFails, fate
<1>8. ASSUME NEW t \in IoThreads, NEW c \in Conns, AcceptHandler(t, c)
      PROVE  ChainInv'
  BY <1>0, <1>8 DEF AcceptHandler, fate
<1>9. ASSUME NEW t \in IoThreads, Rearm(t)
      PROVE  ChainInv'
  BY <1>0, <1>9 DEF Rearm, Rearmed, fate
<1>10. ASSUME NEW t \in IoThreads, CloseAcceptor(t)
       PROVE  ChainInv'
  BY <1>0, <1>10 DEF CloseAcceptor, fate
<1>11. ASSUME NEW t \in IoThreads, NEW c \in Conns, HandlerThrows(t, c)
       PROVE  ChainInv'
  BY <1>11 DEF HandlerThrows, loopVars
<1>12. CASE MainJoinsLoop
  BY <1>4, <1>12, ServerAssumption DEF MainJoinsLoop, fate
<1>13. CASE \/ \E w \in Workers : TaskEnds(w)
            \/ PoolWorks \/ ClosePool
            \/ JoinWorkers \/ DestroyServer \/ ReturnFromMain
  BY <1>13 DEF TaskEnds, PoolWorks, ClosePool, JoinWorkers, DestroyServer,
               ReturnFromMain, loopVars, fate
<1>14. CASE UNCHANGED vars
  BY <1>14 DEF vars, loopVars, fate
<1> QED
  BY <1>1, <1>2, <1>3, <1>5, <1>6, <1>7, <1>8, <1>9, <1>10, <1>11, <1>12,
     <1>13, <1>14 DEF Next, LoopStep, LoopTurns, HandlerGoesOn, MainStep

\* Nobody comes back to the event loop, and the pool goes last.
LEMMA OrderStep ==
  LoopTypeOK /\ OrderInv /\ NoSubmitAfterStop /\ [Next]_vars
    => OrderInv' /\ NoSubmitAfterStop'
<1> SUFFICES ASSUME LoopTypeOK, OrderInv, NoSubmitAfterStop, [Next]_vars
             PROVE  OrderInv' /\ NoSubmitAfterStop'
  OBVIOUS
<1>0. at \in [IoThreads -> Stations \cup Conns]
  BY DEF LoopTypeOK
<1> USE DEF OrderInv, NoSubmitAfterStop, Goto
<1>1. CASE ConnectionArrives \/ AcceptFails \/ SignalRaised
             \/ \E c \in Conns : IoCompletes(c)
  BY <1>1
  DEF ConnectionArrives, AcceptFails, SignalRaised, IoCompletes, poolVars, fate
\* A thread that moves has not left, so main still serves.
<1>2. ASSUME NEW t \in IoThreads, at[t] # "left", UNCHANGED <<stop, life>>
      PROVE  OrderInv'
  BY <1>2
<1>3. ASSUME NEW t \in IoThreads,
             LeaveLoop(t) \/ AcceptHandlerFails(t) \/ Rearm(t)
               \/ SignalHandler(t) \/ CloseAcceptor(t) \/ StopIoc(t)
      PROVE  OrderInv' /\ NoSubmitAfterStop'
  BY <1>2, <1>3
  DEF LeaveLoop, AcceptHandlerFails, Rearm, SignalHandler, CloseAcceptor,
      StopIoc, Polls, poolVars, fate
<1>4. ASSUME NEW t \in IoThreads, Spawn(t)
      PROVE  OrderInv' /\ NoSubmitAfterStop'
  BY <1>2, <1>4 DEF Spawn, poolVars, fate
<1>5. CASE MainJoinsLoop
  BY <1>2, <1>5, ServerAssumption DEF MainJoinsLoop, poolVars, fate
<1>6. ASSUME NEW t \in IoThreads, NEW c \in Conns,
             AcceptHandler(t, c) \/ Handle(t, c) \/ HandlerReturns(t, c)
      PROVE  OrderInv' /\ NoSubmitAfterStop'
  <2>1. c # "left"
    BY ConnIsNoStation DEF Stations
  <2> QED
    BY <1>2, <1>6, <2>1
    DEF AcceptHandler, Handle, HandlerReturns, Polls, poolVars, fate
<1>7. ASSUME NEW t \in IoThreads, NEW c \in Conns, HandlerSubmits(t, c)
      PROVE  OrderInv' /\ NoSubmitAfterStop'
  <2>1. at[t] # "left"
    BY <1>7, ConnIsNoStation DEF HandlerSubmits, Stations
  <2>2. UNCHANGED <<stop, life>> /\ spc' = [spc EXCEPT ![t] = "notify"]
    BY <1>7 DEF HandlerSubmits, Pool!Submit, fate
  <2> QED
    BY <1>2, <2>1, <2>2
<1>8. ASSUME NEW t \in IoThreads, HandlerNotifies(t)
      PROVE  OrderInv' /\ NoSubmitAfterStop'
  <2>1. at[t] # "left"
    BY <1>8 DEF HandlerNotifies
  <2>2. UNCHANGED <<stop, life>> /\ spc' = [spc EXCEPT ![t] = "ready"]
    BY <1>8 DEF HandlerNotifies, Pool!NotifyOne, fate
  <2> QED
    BY <1>2, <2>1, <2>2
<1>9. ASSUME NEW t \in IoThreads, NEW c \in Conns, HandlerThrows(t, c)
      PROVE  OrderInv' /\ NoSubmitAfterStop'
  <2>1. at[t] # "left"
    BY <1>9, ConnIsNoStation DEF HandlerThrows, Stations
  <2>2. ~stop
    BY <2>1
  <2> QED
    BY <1>9, <2>2 DEF HandlerThrows, poolVars, loopVars
<1>10. ASSUME NEW w \in Workers, TaskEnds(w)
       PROVE  OrderInv' /\ NoSubmitAfterStop'
  BY <1>10 DEF TaskEnds, Pool!FinishTask, loopVars
<1>11. CASE PoolWorks
  BY <1>11 DEF PoolWorks, Pool!WorkerLock, Pool!TakeTask, Pool!Exit, Pool!Park,
               Pool!Block, Pool!SpuriousWake, loopVars, fate
<1>12. CASE JoinWorkers
  BY <1>12 DEF JoinWorkers, AllLeft, poolVars, loopVars
<1>13. CASE DestroyServer \/ ReturnFromMain
  BY <1>13 DEF DestroyServer, ReturnFromMain, poolVars, loopVars
<1>14. CASE ClosePool
  BY <1>14 DEF ClosePool, ServerGone, Pool!SetStop, Pool!NotifyAll,
               Pool!JoinAll, loopVars, fate
<1>15. CASE UNCHANGED vars
  BY <1>15 DEF vars, poolVars, loopVars, fate
<1> QED
  BY <1>1, <1>3, <1>4, <1>5, <1>6, <1>7, <1>8, <1>9, <1>10, <1>11, <1>12,
     <1>13, <1>14, <1>15 DEF Next, LoopStep, LoopTurns, HandlerGoesOn, MainStep

-----------------------------------------------------------------------------
\* main has started the accept chain and the signal wait.
LEMMA InitIInv == Init => IInv
<1> SUFFICES ASSUME Init
             PROVE  IInv
  OBVIOUS
<1>1. LoopTypeOK
  BY ServerAssumption DEF Init, LoopTypeOK, Stations
<1>2. \A t \in IoThreads : at[t] # "rearm" /\ spc[t] = "ready"
  BY DEF Init, Pool!Init
<1>3. accept = "waiting" /\ life = "serving" /\ stop = FALSE
  BY DEF Init, Pool!Init
<1> QED
  BY <1>1, <1>2, <1>3 DEF IInv, ChainInv, OrderInv, NoSubmitAfterStop

\* The strengthened invariant holds in every reachable state.
THEOREM Inductive == Spec => []IInv
<1>1. Init => IInv
  BY InitIInv
<1>2. IInv /\ [Next]_vars => IInv'
  BY TypeStep, ChainStep, OrderStep DEF IInv
<1> QED
  BY <1>1, <1>2, PTL DEF Spec

\* The variables keep their types, those of the thread pool included.
THEOREM TypeCorrect == Spec => []TypeOK
<1>1. IInv /\ Pool!TypeOK => TypeOK
  BY DEF IInv, LoopTypeOK, TypeOK
<1> QED
  BY <1>1, Inductive, PoolTypes, PTL

\* However many threads accept, stop and fail, there is one accept chain, and
\* only a failed accept or the close ends it.
THEOREM AcceptChainIsOne == Spec => []OneAcceptChain
<1>1. IInv => OneAcceptChain
  <2> SUFFICES ASSUME IInv
               PROVE  OneAcceptChain
    OBVIOUS
  <2> DEFINE rearming == {t \in IoThreads : at[t] = "rearm"}
  <2>1. CASE rearming = {}
    <3>1. Cardinality(rearming) = 0
      BY <2>1, FS_EmptySet
    <3>2. acceptor /\ ~acceptFailed => accept # "none"
      BY <2>1 DEF IInv, ChainInv
    <3> HIDE DEF rearming
    <3>3. Accepts = IF accept = "none" THEN 0 ELSE 1
      BY <3>1 DEF Accepts, rearming
    <3> QED
      BY <3>2, <3>3 DEF OneAcceptChain
  <2>2. CASE rearming # {}
    <3>1. PICK t \in IoThreads : rearming = {t}
      BY <2>2 DEF IInv, ChainInv
    <3>2. Cardinality(rearming) = 1
      BY <3>1, FS_Singleton
    <3>3. accept = "none"
      BY <2>2 DEF IInv, ChainInv
    <3> HIDE DEF rearming
    <3>4. Accepts = 1
      BY <3>2, <3>3 DEF Accepts, rearming
    <3> QED
      BY <3>4 DEF OneAcceptChain
  <2> QED
    BY <2>1, <2>2
<1> QED
  BY <1>1, Inductive, PTL

\* The io_context is destroyed, and all below it, when no handler runs.
THEOREM QuietDestruction == Spec => []DestroyedQuietly
<1>1. IInv => DestroyedQuietly
  BY DEF IInv, OrderInv, DestroyedQuietly
<1> QED
  BY <1>1, Inductive, PTL

\* No handler submits to a stopped pool, so submit never throws there.
THEOREM SubmitNeverThrows == Spec => []NoSubmitAfterStop
<1>1. IInv => NoSubmitAfterStop
  BY DEF IInv
<1> QED
  BY <1>1, Inductive, PTL

-----------------------------------------------------------------------------
(* The end of the process, by the theorems of the pool.                    *)

\* main returns after ~thread_pool.
ExitedAfterPool == life = "exited" => dtor = "returned"

\* A pool that has been destroyed stays so.
LEMMA ExitStep == ExitedAfterPool /\ [Next]_vars => ExitedAfterPool'
<1> SUFFICES ASSUME ExitedAfterPool, [Next]_vars PROVE ExitedAfterPool'
  OBVIOUS
<1> USE DEF ExitedAfterPool
<1>1. dtor = "returned" => dtor' = "returned"
  <2>1. [Pool!Next]_(Pool!vars)
    BY PoolStep
  <2>2. ASSUME Pool!Next, dtor = "returned" PROVE dtor' = "returned"
    BY <2>2 DEF Pool!Next, Pool!WorkerLock, Pool!Submit, Pool!SubmitThrows,
               Pool!NotifyOne, Pool!TakeTask, Pool!Exit, Pool!Park, Pool!Block,
               Pool!SpuriousWake, Pool!FinishTask, Pool!SetStop,
               Pool!NotifyAll, Pool!JoinAll
  <2> QED
    BY <2>1, <2>2 DEF Pool!vars
<1>2. life' = "exited" => life = "exited" \/ dtor = "returned"
  <2>1. CASE ConnectionArrives \/ AcceptFails \/ SignalRaised \/ PoolWorks
               \/ (\E c \in Conns : IoCompletes(c)) \/ \E w \in Workers : TaskEnds(w)
    BY <2>1 DEF ConnectionArrives, AcceptFails, SignalRaised, PoolWorks,
                IoCompletes, TaskEnds, fate
  <2>2. ASSUME NEW t \in IoThreads, LoopStep(t) PROVE life' = life
    BY <2>2 DEF LoopStep, LoopTurns, HandlerGoesOn, LeaveLoop, AcceptHandlerFails, Rearm, SignalHandler,
                CloseAcceptor, StopIoc, HandlerNotifies, AcceptHandler, Handle,
                HandlerReturns, HandlerSubmits, HandlerThrows, fate
  <2>3. CASE MainStep
    BY <2>3 DEF MainStep, MainJoinsLoop, JoinWorkers, DestroyServer, ClosePool,
                ReturnFromMain, Spawn, fate
  <2> QED
    BY <2>1, <2>2, <2>3 DEF Next, vars, fate
<1> QED
  BY <1>1, <1>2

\* When main has returned, no stream that was accepted has been dropped: the
\* destructor of the pool ran every task that a handler had submitted.
THEOREM StreamsRunOut == Spec => [](life = "exited" => finished = 1 .. accepted)
<1>1. Init => ExitedAfterPool
  BY DEF Init, ExitedAfterPool
<1>2. Spec => PoolProofs!Spec
  BY SamePool, PoolProtocolKept, PTL DEF Pool!Spec, PoolProofs!Spec
<1>3. PoolProofs!Spec => []PoolProofs!AllExecuted
  BY SamePool, PoolProofs!NoTaskAbandoned
<1>4. PoolProofs!AllExecuted /\ ExitedAfterPool
        => (life = "exited" => finished = 1 .. accepted)
  BY DEF PoolProofs!AllExecuted, ExitedAfterPool
<1> QED
  BY <1>1, <1>2, <1>3, <1>4, ExitStep, PTL DEF Spec

\* What SignalEndsProcess rests on below main: unless the pool loses its
\* notification, no worker that main joins at the end is asleep.
THEOREM NobodySleepsAtTheEnd ==
  Spec /\ []~Pool!StopNotificationLost
    => [](dtor = "notified" => \A w \in Workers : wpc[w] # "blocked")
<1>1. Spec => PoolProofs!Spec
  BY SamePool, PoolProtocolKept, PTL DEF Pool!Spec, PoolProofs!Spec
<1>2. PoolProofs!Spec /\ []~PoolProofs!StopNotificationLost => []PoolProofs!AllUp
  BY SamePool, PoolProofs!NobodySleepsThroughStop
<1>3. PoolProofs!AllUp
        => (dtor = "notified" => \A w \in Workers : wpc[w] # "blocked")
  BY DEF PoolProofs!AllUp, PoolProofs!Up
<1>4. Pool!StopNotificationLost <=> PoolProofs!StopNotificationLost
  BY SamePool
<1> QED
  BY <1>1, <1>2, <1>3, <1>4, PTL
=============================================================================
