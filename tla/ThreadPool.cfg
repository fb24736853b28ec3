SPECIFICATION FairSpec
CONSTANTS
  w1 = w1
  w2 = w2
  w3 = w3
  s1 = s1
  s2 = s2
  NoThread = NoThread
  Workers <- ThreeWorkers
  Submitters <- TwoSubmitters
  MaxTasks = 3
INVARIANTS
  TypeOK
  NoTaskStranded
PROPERTIES
  ImplementsTaskQueue
  TasksFinish
  HangsOnlyInWindow
CHECK_DEADLOCK FALSE
