SPECIFICATION Spec
CONSTANTS
  t1 = t1
  t2 = t2
  k1 = k1
  k2 = k2
  Threads <- TwoThreads
  Keys <- TwoKeys
  PoolSize = 2
SYMMETRY Symmetry
INVARIANTS
  TypeOK
  ShutKeyRejected
  CreatedKeyAccepted
  DisabledOnce
  NullOnlyWhenShort
PROPERTY
  KeepsPoolProtocol
CHECK_DEADLOCK FALSE
