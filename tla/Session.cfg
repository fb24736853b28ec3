SPECIFICATION FairSpec
CONSTANTS
  t1 = t1
  t2 = t2
  IoThreads <- TwoThreads
  Chunks = 1
  Pieces = 2
  MaxDone = 1
INVARIANTS
  TypeOK
  GoneOnPurpose
  OrderedUnlessOverlapped
  CompleteUnlessOverlapped
PROPERTY
  StreamReleasesSession
CHECK_DEADLOCK FALSE
