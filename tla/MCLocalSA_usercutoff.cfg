\* Filter -1 and SetUserCutoff leave the cutoff in force alone.
CONSTANTS
  NumObs = 2
  Isolates = {}
  Undefs = {1}
  SeedMod = 5
  HardwareThreads = 2
  PermChoices = {9, 9999}
  ThreadChoices = {}
  FilterChoices <- MCFilters
  CutoffChoices <- MCCutoffs
  CountLarger <- MCCountLarger
  SeedAfter <- MCSeedAfter
  Data <- MCData
  Lag <- MCLag
SPECIFICATION Spec
INVARIANTS
  UserCutoffInForce
CHECK_DEADLOCK TRUE
