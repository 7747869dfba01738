SPECIFICATION Spec
CONSTANTS
  Threads = {t1, t2, t3}
  Size = 28
  BlockSize = 96
  Bases = {112, 224}
  WordSize = 65536
  Null = Null
  Garbage = Garbage
INVARIANT Exclusive
PROPERTY LosesOnlyWithNewBlock
CHECK_DEADLOCK FALSE
