\* What is shown: 2 observations tested in 4 places of the stream, every filter
\* and a tiny cutoff of the caller's, 9, 999 and 9999 permutations.
CONSTANTS
  NumObs = 2
  Isolates = {}
  Undefs = {1}
  SeedMod = 5
  HardwareThreads = 2
  PermChoices = {9, 9999}
  ThreadChoices = {}
  FilterChoices <- MCFilters
  CutoffChoices <- MCCutoffs
  CountLarger <- MCCountLarger
  SeedAfter <- MCSeedAfter
  Data <- MCData
  Lag <- MCLag
SPECIFICATION Spec
INVARIANTS
  FilterMatchesCategory
  NoSignificanceBelowResolution
  UndefinedAlwaysShown
CHECK_DEADLOCK TRUE
