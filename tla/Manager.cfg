\* Four callers of three models, room for two, a queue of two: eviction with
\* two idle models to choose from, overflow, overtaking and concurrent loads.
CONSTANTS
  Threads = {t1, t2, t3, t4}
  Models = {m1, m2, m3}
  NoModel = NoModel
  MaxResident = 2
  QueueDepth = 2
  Usable = 4
  Costs = {2, 3}
  LoaderUnwinds = TRUE
SPECIFICATION Spec
SYMMETRY Symmetry
INVARIANTS
  TypeOK
  NeverPanics
  BusyExactlyWhileOwned
  WithinCapacity
  BudgetsFit
  WaitersCounted
PROPERTIES
  EvictsFirstReleased
  ImplementsService
