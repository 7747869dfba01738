SPECIFICATION LogFileSpec
CONSTANTS
  RollSize = 3
  FlushInterval = 1
  CheckEveryN = 2
  Day = 3
  Zone = 1
  CountAtStart <- AnyCount
  FileLengths = {1, 2}
  MaxTime = 7
  MaxWritten = 5
  MaxCount = 5
INVARIANT SizeBounded
