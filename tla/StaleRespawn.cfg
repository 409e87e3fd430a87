CONSTANTS
  N = 2
  hi = hi
  mid = mid
  lo = lo
  NULL = NULL
  Tasks <- HiLo
  SpawnPrios <- OwnHiLo
  BootTasks <- OnlyLo
  Finite <- OnlyHi
  Wakes <- LoHi
  IrqWakes <- OnlyHi
  Spawns <- LoHi
  Joins <- None
SPECIFICATION Spec
INVARIANT PollsLiveFuture
