SPECIFICATION Spec
CONSTANTS
  Tx <- MCTx
  Att <- MCAtt
  Row = {1, 2}
  Val <- MCVal
  Threads <- MCThreads
  Programs <- MCPrograms
  Labels <- MCLabels
  Flags <- MCFlags
  MaxFaults = 1
INVARIANTS CppErrorsReported
