CONSTANTS
  N = 2
  hi = hi
  mid = mid
  lo = lo
  NULL = NULL
  Tasks <- MCTasks
  SpawnPrios <- AnyPrio
  BootTasks <- MidLo
  Finite <- OnlyHi
  Wakes <- None
  IrqWakes <- HiMid
  Spawns <- SpawnsUp
  Joins <- None
SPECIFICATION FairSpec
PROPERTY DispatchedWhereAsked
