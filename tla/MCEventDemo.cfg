SPECIFICATION FairSpec
CONSTANTS
  Start = {0, 2}
  MaxForeign = 3
INVARIANTS EventInv CountedOnce PassesWhenTimely PassIsGenuine
PROPERTIES Terminates
