SPECIFICATION Spec
CONSTANTS
  t1 = t1
  t2 = t2
  t3 = t3
  NoThread = NoThread
  Threads <- TwoThreads
  Capacity = 2
  RefillRate = 1
  TicksPerSecond = 2
  Costs = {1}
  Configs = {}
  MaxTime = 4
  MaxCalls = 5
SYMMETRY Symmetry
INVARIANTS
  AdmitsWithinBudget
CHECK_DEADLOCK FALSE
