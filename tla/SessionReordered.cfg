SPECIFICATION Spec
CONSTANTS
  t1 = t1
  t2 = t2
  IoThreads <- TwoThreads
  Chunks = 2
  Pieces = 1
  MaxDone = 2
INVARIANT
  ForwardsInOrder
CHECK_DEADLOCK FALSE
