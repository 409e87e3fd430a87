CONSTANTS
  a = a
  b = b
  c = c
  Tasks <- AB
  TaskPrio <- SamePrio
  N = 2
  W = 4
  Durations <- TwoSteps
  NANOS = 3
  freq_hz = 2
  LastStart = 4
  MaxTime = 10
  Cancels <- Nobody
  Spurious <- Nobody
  PromptMtip = TRUE
SPECIFICATION Spec
INVARIANT CompareCovers
CHECK_DEADLOCK FALSE
