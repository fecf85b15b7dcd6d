CONSTANTS
  Twins <- AllTwins
  Created = 5
  Growth = 4
  Meta = 1
  Polls = 3
  MaxRows = 3
  MaxFaults = 1
SPECIFICATION Spec
INVARIANTS
  VerdictInv
  AnnouncedMarkerSurvives
  NoGhostRows
  KillMidInsert
PROPERTY
  Terminates
