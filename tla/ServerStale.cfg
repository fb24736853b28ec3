SPECIFICATION Spec
CONSTANTS
  main = main
  i1 = i1
  i2 = i2
  w1 = w1
  w2 = w2
  c1 = c1
  c2 = c2
  Main = main
  NoThread = NoThread
  IoThreads <- TwoIoThreads
  Workers <- OneWorker
  Conns <- OneConn
  MaxTasks = 1
INVARIANT
  NothingUsedAfterDestruction
CHECK_DEADLOCK FALSE
