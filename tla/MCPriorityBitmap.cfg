CONSTANTS
  NUM_GROUPS = 3
  Prios <- MCPrios
SPECIFICATION Spec
INVARIANTS GroupMapCoherent
PROPERTY ImplementsReadySet
