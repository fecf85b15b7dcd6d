SPECIFICATION FairSpec
CONSTANTS
  Tx <- MCTx
  Att <- MCAtt
  Row = {1, 2}
  Val <- MCVal
  Threads <- MCThreads
  Programs <- MCPrograms
  Labels <- MCLabels
  Flags <- MCFlags
  MaxFaults = 2
  Outline <- MCOutline
INVARIANTS DisciplineInv SuccessIsWhole ProbeLadder OneVictim IsolationShown LoserLoses LastCensusIsAlone
PROPERTIES Terminates
