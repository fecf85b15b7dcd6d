SPECIFICATION Spec
CONSTANTS
  Rows <- TwoRows
  Rounds = 3
  MaxFaults = 2
  Leftover = {0, 3}
INVARIANTS
  PageInv
  PrintedIsCounted
PROPERTIES
  ParentEnds
CHECK_DEADLOCK FALSE
