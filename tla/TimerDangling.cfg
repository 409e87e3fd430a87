CONSTANTS
  a = a
  b = b
  c = c
  Tasks <- AB
  TaskPrio <- Nested
  N = 2
  W = 16
  Durations <- TwoSteps
  NANOS = 3
  freq_hz = 2
  LastStart = 2
  MaxTime = 10
  Cancels <- Nobody
  Spurious <- AB
  PromptMtip = TRUE
SPECIFICATION Spec
INVARIANT EntriesAlive
CHECK_DEADLOCK FALSE
