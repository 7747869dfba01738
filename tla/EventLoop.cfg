SPECIFICATION FairSpec
CONSTANTS
  Threads = {t1, t2}
  Loop = loop
  Functors = {f1, f2, f3}
  EventfdMax = 2
INVARIANT NoLostWakeup
PROPERTIES ImplementsTaskQueue QueuedRuns QuitStops
