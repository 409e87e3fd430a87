CONSTANTS
  N = 2
  hi = hi
  mid = mid
  lo = lo
  NULL = NULL
  Tasks <- HiLo
  SpawnPrios <- OwnHiLo
  BootTasks <- OnlyHi
  Finite <- OnlyLo
  Wakes <- None
  IrqWakes <- HiLo
  Spawns <- HiLoPair
  Joins <- None
SPECIFICATION Spec
INVARIANT LiveTaskWakeable
