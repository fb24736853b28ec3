SPECIFICATION FairSpec
CONSTANTS
  w1 = w1
  w2 = w2
  w3 = w3
  s1 = s1
  s2 = s2
  NoThread = NoThread
  Workers <- TwoWorkers
  Submitters <- TwoSubmitters
  MaxTasks = 2
PROPERTIES
  DestructorReturns
CHECK_DEADLOCK FALSE
