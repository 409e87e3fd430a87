CONSTANTS
  N = 2
  hi = hi
  mid = mid
  lo = lo
  NULL = NULL
  Tasks <- HiLo
  SpawnPrios <- OwnHiLo
  BootTasks <- HiLo
  Finite <- OnlyHi
  Wakes <- LoHi
  IrqWakes <- OnlyHi
  Spawns <- None
  Joins <- None
SPECIFICATION Spec
INVARIANT CompletedTaskInert
