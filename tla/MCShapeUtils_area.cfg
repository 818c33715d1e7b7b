\* The area of a multipolygon.
CONSTANTS
  Features = {1, 2, 3}
  Cells = {1, 2, 3}
  Geometries <- MCGeometries
  Contours <- MCContours
SPECIFICATION Spec
INVARIANTS
  AreaOfMultiPolygons
CHECK_DEADLOCK TRUE
