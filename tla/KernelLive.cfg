CONSTANTS
  N = 2
  hi = hi
  mid = mid
  lo = lo
  NULL = NULL
  Tasks <- MCTasks
  SpawnPrios <- TwoLevels
  BootTasks <- OnlyHi
  Finite <- MidLo
  Wakes <- WakesUp
  IrqWakes <- OnlyHi
  Spawns <- SpawnsDown
  Joins <- SpawnsDown
SPECIFICATION FairSpec
PROPERTIES ResultReachesJoiner JoinResolves WakeServed
