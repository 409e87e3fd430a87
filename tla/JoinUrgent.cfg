CONSTANTS
  N = 2
  hi = hi
  mid = mid
  lo = lo
  NULL = NULL
  Tasks <- HiLo
  SpawnPrios <- OwnHiLo
  BootTasks <- OnlyLo
  Finite <- OnlyHi
  Wakes <- None
  IrqWakes <- OnlyHi
  Spawns <- LoHi
  Joins <- LoHi
SPECIFICATION Spec
INVARIANT JoinerNotStranded
