SPECIFICATION Spec
CONSTANTS
  Keys = {0, 1, 2, 4}
  Values = {v1}
  TotalCapacity = 3
  SliceNum = 2
  Hash <- MCHash
  MaxAverageNum = 3
  Int8Max = 3
  MaxTotal = 9
INVARIANTS WithinBounds ListsMatchMap MinFreqExact
PROPERTY EvictsLeastFrequent
CHECK_DEADLOCK FALSE
