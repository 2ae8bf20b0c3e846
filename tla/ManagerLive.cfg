\* Room for one model, two wanted: every switch needs an eviction.  Only the
\* notifications wake waiters, except in CallReturns.
CONSTANTS
  Threads = {t1, t2, t3}
  Models = {m1, m2}
  NoModel = NoModel
  MaxResident = 1
  QueueDepth = 2
  Usable = 2
  Costs = {2, 3}
  LoaderUnwinds = FALSE
SPECIFICATION FairSpec
PROPERTIES
  BusyIsReleased
  OnlyOvertakingStarves
  CallReturns
