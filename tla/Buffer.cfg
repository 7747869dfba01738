SPECIFICATION Spec
CONSTANTS
  Byte = {0, 1, 2}
  Zero = 0
  kCheapPrepend = 2
  kInitialSize = 2
  ExtraSize = 2
  Chunks <- MCChunks
  MaxReadable = 4
PROPERTIES ImplementsByteQueue GrowsOnlyWhenFull
