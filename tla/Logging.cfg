SPECIFICATION LoggingSpec
CONSTANTS
  Null = Null
  LargeBufferSize = 4
  Lengths = {1, 3}
  MaxLines = 7
  RollSize = 3
  FlushInterval = 1
  CheckEveryN = 2
  Day = 3
  Zone = 1
  CountAtStart <- AnyCount
  FileLengths = {1, 2}
  MaxTime = 7
  MaxWritten = 5
  MaxCount = 5
  Threads = {t1, t2}
  Statements <- MCStatements
  MaxMinutes = 2
  MaxStatements = 2
  NoField = NoField
INVARIANTS InOrder SparesSuffice StopKeepsDue FlushLag CounterBounded DayNoticed LinesWhole FatalReaches
PROPERTY AppendedIsFlushed
CHECK_DEADLOCK FALSE
