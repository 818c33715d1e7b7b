\* Three data sources, layer indices below, within and beyond what there is,
\* with and without a transformation, and every failure of OGR's.
CONSTANTS
  Sources <- MCSources
  LayerIdxs <- MCLayerIdxs
  Transform <- MCTransform
  GeomVectors <- MCGeomVectors
SPECIFICATION Spec
INVARIANTS
  NothingLeftBehind
  AllOrNothing
  SaveTellsTheTruth
  UndefinedOnlyUnchecked
CHECK_DEADLOCK TRUE
