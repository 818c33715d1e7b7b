\* Two calls over four observations, in up to three regions and in none.
CONSTANTS
  NumObs = 4
  MaxCalls = 2
  Datas <- MCDatas
  Regionings <- MCRegionings
SPECIFICATION SkaterSpec
INVARIANTS
  LabelsTellRegions
  ClustersTheData
  MemoryKept
CHECK_DEADLOCK TRUE
