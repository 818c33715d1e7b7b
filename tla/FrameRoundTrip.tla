--------------------------- MODULE FrameRoundTrip ---------------------------
(***************************************************************************)
(* The hand-written bindings around the data set: a data frame of Python   *)
(* or R is taken apart into a table and a row of geometries, a GeoDa is    *)
(* made of them, and geoda_to_geopandas or geoda_to_sp makes a data frame  *)
(* of that again.                                                          *)
(* The data set between the two is module GeoDaDataset, step by step; a    *)
(* caller may also use it directly, as the tests in C++ do.                *)
(*                                                                         *)
(* A frame has rows 1 .. n.  Its columns have a name, which pandas may     *)
(* keep as something other than a string, a kind of values, and values;    *)
(* its geometries have a kind; and pandas gives each row an integer label, *)
(* or, as R always does, none.  The value of the j-th column of the table  *)
(* in row i is <<j, i>>, of which a field may not hold all, as in          *)
(* GeoDaDataset.                                                           *)
(***************************************************************************)
EXTENDS GeoDaDatasetProperties, SequencesExt

CONSTANT Frames

Rows == 1 .. Len(BytesLen)

Kinds == {"float", "int", "text", "objects"}

ASSUME FramesAssumption ==
  \A fr \in Frames :
    /\ fr.binding \in {"geopandas", "sf", "sp"}
    /\ fr.columns \in Seq([name : Names \cup {"geometry"}, string : BOOLEAN,
                           kind : Kinds, vals : [Rows -> Forms]])
    /\ fr.geoms \in [Rows -> {"point", "polygon", "line", "missing"}]
    /\ fr.labels \in Seq(Int) /\ Len(fr.labels) \in {0, Len(BytesLen)}
    /\ IsInjective(fr.labels)
    /\ fr.crs \in {"strings", "other"}
    /\ fr.binding # "geopandas" =>
         \A j, k \in DOMAIN fr.columns : j # k => fr.columns[j].name # fr.columns[k].name

VARIABLES
  frame,   \* the frame that is converted
  stage,   \* "columns", "geometries", "dataset", "reading" or, without columns,
           \* "shapes", "read"; "raised", "collected", "lost"; or "direct": no
           \* frame
  next,    \* the column that a loop has reached
  tbl,     \* gda_tbl
  wkb,     \* the rows whose geometries are in wkb_bytes
  df,      \* data: a function from names to columns
  geoms    \* of the new frame: places in wkb

NoFrame == [none |-> TRUE]

converting == <<frame, stage, next, tbl, wkb, df, geoms>>

Raise == stage' = "raised" /\ UNCHANGED <<frame, next, tbl, wkb, df, geoms, vars>>
-----------------------------------------------------------------------------
FrameInit ==
  /\ Init
  /\ \/ frame \in Frames /\ stage = "columns"
     \/ frame = NoFrame /\ stage = "direct"
  /\ next = 1
  /\ tbl = <<>> /\ wkb = <<>> /\ df = <<>> /\ geoms = <<>>

(***************************************************************************)
(* geopandas_to_geoda, sf_to_geoda and sp_to_geoda.                        *)
(***************************************************************************)
\* Mutant: integers fall through to strings.
RealOrString(kind) == IF kind = "float" THEN "numeric" ELSE "string"

ColumnType(kind) ==
  CASE kind = "float" -> "numeric" [] kind = "int" -> "integer" [] OTHER -> "string"

(* pandas does not find a name that str() has made, and finds several      *)
(* columns, which have no dtype, for a name that is there twice; SWIG      *)
(* refuses what are no strings, while R makes strings of everything.       *)
ColumnRefused(col) ==
  /\ frame.binding = "geopandas"
  /\ \/ ~col.string
     \/ Cardinality({j \in DOMAIN frame.columns : frame.columns[j].name = col.name}) > 1
     \/ col.kind = "objects"

\* 1:n_cols of R counts down where there is no column.
CountsDown(n) == frame.binding # "geopandas" /\ n = 0

AddColumn ==
  LET col == frame.columns[next] IN
  /\ stage = "columns"
  /\ next \in DOMAIN frame.columns
  /\ col.name = "geometry" \/ ~ColumnRefused(col)
  /\ tbl' = IF col.name = "geometry" THEN tbl
            ELSE Append(tbl, [name |-> col.name, type |-> ColumnType(col.kind),
                              vals |-> col.vals])
  /\ next' = next + 1
  /\ UNCHANGED <<frame, stage, wkb, df, geoms, vars>>

ColumnRaises ==
  /\ stage = "columns"
  /\ \/ CountsDown(Len(frame.columns))
     \/ /\ next \in DOMAIN frame.columns
        /\ frame.columns[next].name # "geometry" /\ ColumnRefused(frame.columns[next])
  /\ Raise

ColumnsDone ==
  /\ stage = "columns"
  /\ next > Len(frame.columns)
  /\ ~CountsDown(Len(frame.columns))
  /\ stage' = "geometries"
  /\ UNCHANGED <<frame, next, tbl, wkb, df, geoms, vars>>

(* The rows that geoms[i] may stand for, i counted from 0: in a series     *)
(* with integer labels it asks for the label and not for the place.        *)
RowsAt(i) ==
  IF frame.labels = <<>> THEN {i + 1} \cap Rows
  ELSE {r \in Rows : frame.labels[r] = i}

AddGeometry ==
  /\ stage = "geometries"
  /\ Len(wkb) < Len(BytesLen)
  /\ \E r \in RowsAt(Len(wkb)) :
       /\ frame.binding = "geopandas" => frame.geoms[r] # "missing"
       /\ wkb' = Append(wkb, r)
  /\ UNCHANGED <<frame, stage, next, tbl, df, geoms, vars>>

GeometryRaises ==
  /\ stage = "geometries"
  /\ Len(wkb) < Len(BytesLen)
  /\ \A r \in RowsAt(Len(wkb)) :
       frame.binding = "geopandas" /\ frame.geoms[r] = "missing"
  /\ Raise

\* Mutant: as geopandas_to_geoda does it.
Polygons(fr) == "polygon"

\* An sp object of lines is taken for one of polygons.
MapTypeOf(fr) ==
  CASE fr.binding = "geopandas" -> "polygon"
    [] fr.binding = "sp" /\ fr.geoms[1] = "line" -> "polygon"
    [] fr.geoms[1] = "missing" -> "polygon"
    [] OTHER -> fr.geoms[1]

\* print_crs adds strings.
CallGeoDa ==
  /\ stage = "geometries"
  /\ Len(wkb) = Len(BytesLen)
  /\ frame.binding = "geopandas" => frame.crs = "strings"
  /\ CreateLayer(tbl, MapTypeOf(frame))
  /\ stage' = "dataset"
  /\ UNCHANGED <<frame, next, tbl, wkb, df, geoms>>

(* The constructor finds no driver, or can write no data source.           *)
GeoDaFails ==
  /\ stage = "geometries"
  /\ Len(wkb) = Len(BytesLen)
  /\ frame.binding = "geopandas" => frame.crs = "strings"
  /\ NoLayerCreated
  /\ stage' = "lost"
  /\ UNCHANGED <<frame, next, tbl, wkb, df, geoms>>

CrsRaises ==
  /\ stage = "geometries"
  /\ Len(wkb) = Len(BytesLen)
  /\ frame.binding = "geopandas" /\ frame.crs = "other"
  /\ Raise
-----------------------------------------------------------------------------
(***************************************************************************)
(* GeoDa.  The driver stores no geometry in a layer of another kind, and   *)
(* nothing for an empty one.  All columns are as long as the frame.        *)
(***************************************************************************)
Fits(r) == frame.geoms[r] \in {mapType, "missing"}

BuildDataset ==
  /\ stage = "dataset"
  /\ \/ \E accepted \in BOOLEAN, written \in Names : CreateField(accepted, written)
     \/ FieldsDone
     \/ \E stored \in BOOLEAN :
          /\ row < Len(wkb) /\ (stored => Fits(wkb[row + 1]))
          /\ CreateFeature(frame.geoms[wkb[row + 1]] # "missing", stored)
     \/ FeaturesDone
     \/ ReadAllFeatures
  /\ UNCHANGED converting
-----------------------------------------------------------------------------
(***************************************************************************)
(* geoda_to_geopandas reads the columns and then the geometries,           *)
(* geoda_to_sp the geometries and then, if asked to, the columns.          *)
(***************************************************************************)
GeodaToGeopandas ==
  /\ stage = "dataset" /\ phase = "ready" /\ frame.binding = "geopandas"
  /\ stage' = "reading" /\ next' = 1
  /\ UNCHANGED <<frame, tbl, wkb, df, geoms, vars>>

GeodaToSp(geometry_only) ==
  /\ stage = "dataset" /\ phase = "ready" /\ frame.binding # "geopandas"
  /\ stage' = IF geometry_only THEN "shapes" ELSE "reading"
  /\ next' = 1
  /\ UNCHANGED <<frame, tbl, wkb, df, geoms, vars>>

ReadColumn ==
  LET name == fieldNames[next] IN
  /\ stage = "reading"
  /\ frame.binding = "geopandas" \/ geoms # <<>>
  /\ next \in 1 .. numCols
  /\ GetCol(name)
  /\ df' = IF phase' = "ready" THEN Put(df, name, answer'.value) ELSE df
  /\ next' = next + 1
  /\ UNCHANGED <<frame, stage, tbl, wkb, geoms>>

GeometriesAreNext ==
  /\ stage \in {"reading", "shapes"}
  /\ geoms = <<>>
  /\ frame.binding = "geopandas" => next > numCols

(* An element that GetGeometryWKB has left empty cannot be loaded.         *)
ReadGeometries ==
  /\ GeometriesAreNext
  /\ GetGeometry
  /\ IF phase' = "ready"
     THEN /\ geoms' = answer'.value
          /\ stage' = IF NoGeometry \in ToSet(answer'.value) THEN "raised"
                      ELSE IF frame.binding # "geopandas" /\ stage = "reading" THEN "reading"
                      ELSE "read"
     ELSE UNCHANGED <<geoms, stage>>
  /\ UNCHANGED <<frame, next, tbl, wkb, df>>

(* The list that the geometries are put in is not protected: R may collect *)
(* it while the next of them is allocated.  Nothing is said of what        *)
(* happens next.                                                           *)
ListCollected ==
  /\ GeometriesAreNext /\ frame.binding # "geopandas"
  /\ phase = "ready" /\ numObs > 0
  /\ stage' = "collected"
  /\ UNCHANGED <<frame, next, tbl, wkb, df, geoms, vars>>

SpComplete ==
  /\ stage = "reading" /\ phase = "ready" /\ frame.binding # "geopandas"
  /\ geoms # <<>> /\ next > numCols
  /\ stage' = IF CountsDown(numCols) THEN "raised" ELSE "read"
  /\ UNCHANGED <<frame, next, tbl, wkb, df, geoms, vars>>

DirectUse == stage = "direct" /\ Next /\ UNCHANGED converting

Ended ==
  /\ stage \in {"raised", "collected", "read"} \/ (phase = "undefined" /\ stage # "direct")
  /\ UNCHANGED <<converting, vars>>

FrameNext ==
  \/ AddColumn \/ ColumnRaises \/ ColumnsDone
  \/ AddGeometry \/ GeometryRaises \/ CallGeoDa \/ GeoDaFails \/ CrsRaises
  \/ BuildDataset
  \/ GeodaToGeopandas
  \/ \E geometry_only \in BOOLEAN : GeodaToSp(geometry_only)
  \/ ReadColumn \/ ReadGeometries \/ ListCollected \/ SpComplete
  \/ DirectUse
  \/ Ended

FrameSpec == FrameInit /\ [][FrameNext]_<<converting, vars>>
-----------------------------------------------------------------------------
\* The labels are the places.
DefaultIndex == frame.labels = <<>> \/ \A r \in Rows : frame.labels[r] = r - 1

\* The geometries are in no column of the table.
TableColumns == {j \in DOMAIN frame.columns : frame.columns[j].name # "geometry"}

FrameColumns ==
  [k \in 1 .. Cardinality(TableColumns) |-> frame.columns[Nth(TableColumns, k)]]

(* What comes back is the frame that went in: the rows in their order,     *)
(* each with its own geometry, and the columns by their names; R may ask   *)
(* for no column.  Under a name is the last column so called, case aside,  *)
(* as far as its field holds it, or nothing if the driver has refused or   *)
(* renamed every field of the name: the column's own values, then, where   *)
(* no other column's name differs in case alone.  So it is for a frame     *)
(* whose labels are the places.  No column was left out on the way, and    *)
(* each got the type of its values, or the conversion has ended with an    *)
(* exception.                                                              *)
RoundTrip ==
  /\ stage \in {"geometries", "dataset", "reading", "shapes", "read"} =>
       /\ Len(tbl) = Len(FrameColumns)
       /\ \A j \in DOMAIN tbl :
            /\ tbl[j].name = FrameColumns[j].name
            /\ FrameColumns[j].kind \in {"float", "int"} <=> tbl[j].type # "string"
  /\ stage = "read" /\ DefaultIndex =>
       /\ \A i \in Rows : wkb[geoms[i]] = i
       /\ \/ DOMAIN df = {tbl[j].name : j \in DOMAIN tbl}
          \/ frame.binding # "geopandas" /\ df = <<>>
       /\ \A j \in DOMAIN tbl :
            tbl[j].name \in DOMAIN df => IsTheColumn(tbl[j].name, df[tbl[j].name])

(* A data set that was made of geometries of one kind, one that its        *)
(* binding has a map type for, is read back: no memory is used that is not *)
(* the program's, and no exception is raised once the data set is there.   *)
(* Four things may still prevent it: the constructor had no layer to fill, *)
(* the driver refused a row, R counted down from no column, or R collected *)
(* the unprotected list of geometries.                                     *)
Supported(kind) ==
  CASE frame.binding = "geopandas" -> kind = "polygon"
    [] frame.binding = "sf" -> kind \in MapTypes
    [] frame.binding = "sp" -> kind \in {"point", "polygon"}

EndsBadly ==
  \/ phase = "undefined"
  \/ stage = "collected"
  \/ phase = "ready" /\ stage = "raised"

SupportedFramesReturn ==
  /\ stage # "direct"
  /\ \E k \in MapTypes : Supported(k) /\ \A r \in Rows : frame.geoms[r] = k
  /\ EndsBadly
  =>
    \/ failed.layer = "not created"
    \/ \E i \in failed.rows : Fits(wkb[i])
    \/ CountsDown(numCols)
    \/ frame.binding # "geopandas" /\ stage = "collected"
-----------------------------------------------------------------------------
(* "One can use `gdf.Crm_prs.to_list()` or use                             *)
(* `guerry_geoda.GetNumericCol('Crm_prs')` to create the list": value i    *)
(* goes together with geometry i.  swig/python/doc_esda.ipynb:282          *)
GeometriesOfTheRows ==
  stage = "dataset" => \A i \in DOMAIN wkb : wkb[i] = i
=============================================================================
