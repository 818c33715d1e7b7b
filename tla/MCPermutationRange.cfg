\* All 64 symmetric graphs on 4 observations and 81 directed ones, self-neighbours
\* included, observation 1 undefined, 3 permutations, every interval of observations and every seed.
CONSTANTS
  NumObs = 4
  SeedMod = 7
  NumPermutations = 3
  Undefs = {1}
  Candidate <- MCCandidate
  Data <- MCData
  Graphs <- MCGraphs
SPECIFICATION Spec
INVARIANTS
  SampleSound
PROPERTIES
  ObservationIsAtomic
  RangeEnds
CHECK_DEADLOCK TRUE
