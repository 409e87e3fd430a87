CONSTANTS
  N = 3
  hi = hi
  mid = mid
  lo = lo
  NULL = NULL
  Tasks <- MCTasks
  SpawnPrios <- Own
  BootTasks <- MCTasks
  Finite <- MidLo
  Wakes <- None
  IrqWakes <- MCTasks
  Spawns <- HiJoins
  Joins <- HiJoins
SPECIFICATION Spec
INVARIANT JoinerNotStranded
PROPERTY ResultReachesJoiner
