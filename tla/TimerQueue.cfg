CONSTANTS
  a = a
  b = b
  c = c
  Tasks <- ABC
  TaskPrio <- SamePrio
  N = 2
  W = 16
  Durations <- TwoSteps
  NANOS = 3
  freq_hz = 2
  LastStart = 1
  MaxTime = 6
  Cancels <- ABC
  Spurious <- Nobody
  PromptMtip = FALSE
SPECIFICATION FairSpec
INVARIANTS EntriesAlive CompareCovers DelayWatched
PROPERTIES IsrFiresExactlyDue NeverEarly DelayElapses
CHECK_DEADLOCK FALSE
