SPECIFICATION Spec
CONSTANTS
  Programs <- AllPrograms
  Hasty <- AllPrograms
  BackupLines <- ThreeLines
  RestoreLines <- TwoLines
  RingSize = 2
  MaxEarly = 2
  MaxFaults = 1
INVARIANTS
  PollingInv
  FailsOnlyByFault
PROPERTIES
  OutputsAreStreams
CHECK_DEADLOCK FALSE
