----------------------------- MODULE MCShapeUtils -----------------------------
(***************************************************************************)
(* Three features with every choice of geometries.                         *)
(***************************************************************************)
EXTENDS ShapeUtils

G(type, parts) == [type |-> type, parts |-> parts]

MCGeometries ==
  {NoGeometry,
   G("Point", <<{1}>>),
   G("MultiLineString", <<{1}, {2, 3}>>),
   G("Polygon", <<{1, 2}>>),
   G("MultiPolygon", <<{1}, {3}>>),
   G("MultiPoint", <<{2}, {3}>>),
   G("CurvePolygon", <<{2}>>)}

MCContours == {{1}, {1, 2}, {1, 2, 3}}
=============================================================================
