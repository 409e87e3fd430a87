SPECIFICATION Spec
CONSTANTS
  N = 2
  Vals = {1, 2}
  StackTop <- MCStackTop
  Locals = 1
  MaxCs = 2
  MaxRaise = 2
  PollInCs = TRUE
INVARIANTS MaskedUndisturbed
