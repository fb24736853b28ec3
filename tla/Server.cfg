SPECIFICATION FairSpec
CONSTANTS
  main = main
  i1 = i1
  i2 = i2
  w1 = w1
  w2 = w2
  c1 = c1
  c2 = c2
  Main = main
  NoThread = NoThread
  IoThreads <- ThreeIoThreads
  Workers <- OneWorker
  Conns <- TwoConns
  MaxTasks = 1
INVARIANTS
  TypeOK
  OneAcceptChain
  DestroyedQuietly
  NoSubmitAfterStop
PROPERTY
  SignalEndsProcess
CHECK_DEADLOCK FALSE
