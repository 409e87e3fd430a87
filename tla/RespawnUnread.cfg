CONSTANTS
  N = 3
  hi = hi
  mid = mid
  lo = lo
  NULL = NULL
  Tasks <- MCTasks
  SpawnPrios <- Own
  BootTasks <- HiMid
  Finite <- OnlyLo
  Wakes <- None
  IrqWakes <- OnlyHi
  Spawns <- SpawnsLo
  Joins <- MidLoPair
SPECIFICATION FairSpec
PROPERTY ResultReachesJoiner
