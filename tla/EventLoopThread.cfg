SPECIFICATION PoolFairSpec
CONSTANT NumThreads = 3
INVARIANT LoopsAlive
PROPERTY PoolStartsAndEnds
CHECK_DEADLOCK FALSE
