CONSTANTS
  Twins <- CppOnly
  Created = 69
  Growth = 64
  Meta = 1
  Polls = 3
  MaxRows = 3
  MaxFaults = 1
SPECIFICATION Spec
INVARIANT
  KillsTheWriter
