SPECIFICATION FairSpec
CONSTANTS
  t1 = t1
  t2 = t2
  t3 = t3
  t4 = t4
  Threads <- FourThreads
  PoolSize = 2
INVARIANTS
  TypeOK
  NoConnectionStranded
  NotAllWaiting
PROPERTIES
  ImplementsLending
  BorrowReturns
