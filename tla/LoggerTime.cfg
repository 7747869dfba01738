SPECIFICATION LoggerSpec
CONSTANTS
  Threads = {t1, t2}
  Statements <- MCStatements
  MaxMinutes = 2
  MaxStatements = 2
  NoField = NoField
INVARIANTS TimeIsOwn
CHECK_DEADLOCK FALSE
