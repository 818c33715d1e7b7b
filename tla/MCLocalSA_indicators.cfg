\* An island with a defined value is shown as a high-high cluster, an undefined
\* observation with neighbours as 5.
CONSTANTS
  NumObs = 5
  Isolates = {2}
  Undefs = {1}
  SeedMod = 4
  HardwareThreads = 2
  PermChoices = {9}
  ThreadChoices = {0, 3}
  FilterChoices = {}
  CutoffChoices = {}
  CountLarger <- MCCountLarger
  SeedAfter <- MCSeedAfter
  Data <- MCData
  Lag <- MCLag
SPECIFICATION Spec
INVARIANTS
  IndicatorsAsDocumented
CHECK_DEADLOCK TRUE
