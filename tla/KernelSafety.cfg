CONSTANTS
  N = 3
  hi = hi
  mid = mid
  lo = lo
  NULL = NULL
  Tasks <- MCTasks
  SpawnPrios <- Own
  BootTasks <- MidLo
  Finite <- OnlyHi
  Wakes <- WakesMost
  IrqWakes <- MCTasks
  Spawns <- SpawnsUp
  Joins <- None
SPECIFICATION Spec
INVARIANTS StackSorted LinkedOnce ReadyBits NoLostReady NoLostWake
           PollsLiveFuture LiveTaskWakeable CompletedTaskInert
