\* One run may fail: 3 observations, the middle one an island, on 8 CPUs (one thread
\* each), on 2, and on a number that is unknown.
CONSTANTS
  NumObs = 3
  Isolates = {1}
  Undefs = {}
  SeedMod = 2
  HardwareThreads = 2
  PermChoices = {9}
  ThreadChoices = {0}
  FilterChoices = {}
  CutoffChoices = {}
  MaxFailures = 1
  StrayValues <- MCStrayValues
  CountLarger <- MCCountLarger
  SeedAfter <- MCSeedAfter
  Data <- MCData
  Lag <- MCLag
SPECIFICATION FaultSpec
INVARIANTS
  DamageConfined
  OldOrNew
PROPERTIES
  RunsAndStraysEnd
CHECK_DEADLOCK TRUE
