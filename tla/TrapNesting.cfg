SPECIFICATION Spec
CONSTANTS
  N = 2
  Vals = {0, 1}
  StackTop <- MCStackTop
  Locals = 1
  MaxCs = 2
  MaxRaise = 2
  PollInCs = FALSE
INVARIANTS MaskedUndisturbed FramesDisjoint StackBounded
PROPERTIES ContextRestored
