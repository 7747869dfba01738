SPECIFICATION PoolFairSpec
CONSTANT NumThreads = 3
PROPERTY DestructorReturns
CHECK_DEADLOCK FALSE
