SPECIFICATION EngineSpec
CONSTANTS
  Tx = {t1, t2, t3}
  Att = {a1, a2}
  Row = {1}
  Val = {v1, v2}
SYMMETRY Symmetry
INVARIANTS EngineInv NoLostUpdate
PROPERTIES SnapshotStable
CHECK_DEADLOCK FALSE
