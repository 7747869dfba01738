SPECIFICATION FairSpec
CONSTANTS
  c1 = c1
  c2 = c2
  Conns <- MCConns
  Configs <- MCConfigs
INVARIANTS NoDanglingChannel PollerConsistent UpThenDown
PROPERTIES ClosedIsReclaimed BacklogDrains DestroyEnds
CHECK_DEADLOCK FALSE
