SPECIFICATION Spec
CONSTANTS
  Programs <- AllPrograms
  MaxFaults = 2
INVARIANTS
  WatchersInv
  ShownIsOfItsCase
PROPERTY
  RunsEnd
CHECK_DEADLOCK FALSE
