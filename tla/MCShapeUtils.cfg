\* Three features with each of seven kinds of geometry, none included, narrowed
\* down and measured in every order.
CONSTANTS
  Features = {1, 2, 3}
  Cells = {1, 2, 3}
  Geometries <- MCGeometries
  Contours <- MCContours
SPECIFICATION Spec
INVARIANTS
  EachFeatureInOnePlace
  UndefinedOnlyByGeometry
  MeasuresInPlace
  FlagsMeanMissing
  OutlineCovers
CHECK_DEADLOCK TRUE
