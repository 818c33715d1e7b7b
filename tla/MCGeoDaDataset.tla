--------------------------- MODULE MCGeoDaDataset ---------------------------
(***************************************************************************)
(* Tables whose names collide in the file: cut to ten characters, in upper *)
(* and lower case, and the same name twice; one with a column that is too  *)
(* short.  Data sources with undefined values, a missing geometry, two     *)
(* layers, none, and a geometry type that is not supported.                *)
(***************************************************************************)
EXTENDS FrameRoundTrip

MCNames == {"population2010", "population", "populati_1", "ID", "id", "id_1", "b", "b_1"}

MCFolded == [n \in MCNames |-> IF n = "ID" THEN "id" ELSE n]

MCNamesInFile ==
  [n \in MCNames |->
     CASE n \in {"population2010", "population"} -> <<"population", "populati_1">>
       [] n = "id" -> <<"id", "id_1">>
       [] n = "b" -> <<"b", "b_1">>
       [] OTHER -> <<n>>]

Column(n, t) == [name |-> n, type |-> t, vals |-> <<"whole", "whole", "whole">>]

Field(n, t) == [name |-> n, type |-> t]

MCTables ==
  {<<Column("population2010", "integer"), Column("population", "numeric"), Column("b", "string")>>,
   <<Column("ID", "numeric"), [Column("id", "numeric") EXCEPT !.vals[2] = "cut"],
     Column("b", "numeric")>>,
   <<Column("b", "numeric"), Column("ID", "numeric"), Column("b", "integer")>>,
   <<[Column("b", "string") EXCEPT !.vals[3] = "empty"],
     [name |-> "ID", type |-> "integer", vals |-> <<"whole", "whole">>]>>}

MCBytesLen == <<2, 1, 2>>

MCStarts == <<0, 2, 3>>

Row(i, cells, geom) ==
  [cells |-> [f \in DOMAIN cells |-> IF cells[f] THEN <<f, i>> ELSE Null],
   geom |-> geom]

Layer(name, geom_type, rows) ==
  [name |-> name, geom_type |-> geom_type,
   fields |-> <<Field("b", "numeric"), Field("id", "integer")>>, rows |-> rows]

Sites == Layer("sites", "point", <<Row(1, <<TRUE, FALSE>>, 1), Row(2, <<TRUE, TRUE>>, 2)>>)
Holes == Layer("holes", "point", <<Row(1, <<FALSE, TRUE>>, 1), Row(2, <<TRUE, TRUE>>, 0)>>)
Areas == Layer("areas", "polygon", <<Row(1, <<TRUE, TRUE>>, 1), Row(2, <<FALSE, TRUE>>, 2)>>)
Clouds == Layer("clouds", "other", <<Row(1, <<TRUE, TRUE>>, 1)>>)

MCFiles == {<<>>, <<Areas, Sites>>, <<Holes>>, <<Clouds>>}

MCLayerNames == {"", "sites", "lakes"}
-----------------------------------------------------------------------------
(* Frames of three rows: what each binding takes, with one thing after the *)
(* other that it may stumble over.                                         *)
Col(name, kind) ==
  [name |-> name, string |-> TRUE, kind |-> kind, vals |-> <<"whole", "whole", "whole">>]

Geometry == Col("geometry", "objects")

Plain ==
  [binding |-> "geopandas",
   columns |-> <<Col("id", "float"), Geometry, Col("b", "text")>>,
   geoms |-> <<"polygon", "polygon", "polygon">>,
   labels |-> <<0, 1, 2>>, crs |-> "strings"]

\* Frames of geopandas: sorted, filtered, named by numbers, ...
Pandas ==
  {Plain,
   [Plain EXCEPT !.labels = <<>>],
   [Plain EXCEPT !.labels = <<2, 0, 1>>],
   [Plain EXCEPT !.labels = <<0, 2, 5>>],
   [Plain EXCEPT !.columns[1].string = FALSE],
   [Plain EXCEPT !.columns[3].kind = "objects"],
   [Plain EXCEPT !.columns[3].name = "id"],
   [Plain EXCEPT !.columns[3].name = "ID", !.columns[1].kind = "int"],
   [Plain EXCEPT !.columns[1].name = "population2010", !.columns[3].name = "population"],
   [Plain EXCEPT !.columns[1].vals[2] = "cut", !.columns[3].vals = <<"cut", "empty", "whole">>],
   [Plain EXCEPT !.geoms[2] = "missing"],
   [Plain EXCEPT !.geoms[3] = "point"],
   [Plain EXCEPT !.crs = "other"]}

\* The geometries of sf are a column, those of sp are not.
OfR(kind) ==
  {[Plain EXCEPT !.binding = b, !.labels = <<>>, !.geoms = <<kind, kind, other>>,
                 !.columns = (IF b = "sf" THEN <<Geometry>> ELSE <<>>) \o columns]
     : b \in {"sf", "sp"}, other \in {kind, "missing"},
       columns \in {<<>>, <<Col("ID", "float"), Col("b", "objects")>>}}

MCFrames == Pandas \cup OfR("point") \cup OfR("polygon") \cup OfR("line")
=============================================================================
