SPECIFICATION Spec
CONSTANTS
  Top = 2
  Chunks = 2
  Sizes = {3, 7}
  MaxCalls = 6
INVARIANT BlocksDisjoint
CHECK_DEADLOCK FALSE
