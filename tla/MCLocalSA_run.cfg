\* The worker threads: 5 observations, observation 2 an island, 1 undefined.
\* 8 CPUs (the default) and 2 (the hardware), 3 and 0 that the caller sets.
CONSTANTS
  NumObs = 5
  Isolates = {2}
  Undefs = {1}
  SeedMod = 4
  HardwareThreads = 2
  PermChoices = {9}
  ThreadChoices = {0, 3}
  FilterChoices = {}
  CutoffChoices = {}
  CountLarger <- MCCountLarger
  SeedAfter <- MCSeedAfter
  Data <- MCData
  Lag <- MCLag
SPECIFICATION Spec
INVARIANTS
  Invariant
  WorkDivided
  WorkersApart
  CategoriesMatch
  ResultsOfLatestRun
  FirstChunkIsSerial
PROPERTIES
  TestedOnce
  ImplementsService
  RunReturns
CHECK_DEADLOCK TRUE
