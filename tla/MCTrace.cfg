CONSTANTS
  Twins <- AllTwins
  Busy = 2
SPECIFICATION Spec
INVARIANTS
  TraceInv
  DoneMeansTraced
PROPERTY
  Terminates
