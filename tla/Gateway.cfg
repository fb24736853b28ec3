SPECIFICATION FairSpec
CONSTANTS
  t1 = t1
  t2 = t2
  k1 = k1
  NoRequest = NoRequest
  Threads <- TwoThreads
  Keys <- OneKey
  PoolSize = 1
  Capacity = 1
  Requests <- SomeRequests
  Files <- SomeFiles
  Environments <- SomeEnvironments
INVARIANTS
  TypeOK
  PaidIffServed
  ValidKeyNotDenied
  ProviderNeedsKey
  AdminSuccessIsTrue
  OpensAsConfigured
PROPERTY
  EveryRequestAnswered
CHECK_DEADLOCK FALSE
