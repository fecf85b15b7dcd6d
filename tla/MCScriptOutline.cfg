SPECIFICATION Spec
CONSTANTS
  Programs <- AllPrograms
  Outline <- MCOutline
INVARIANTS
  OutlineInv
  Rerunnable
  ClaimsHold
PROPERTY
  RunsEnd
