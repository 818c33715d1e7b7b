---------------------------- MODULE GeoDaDataset ----------------------------
(***************************************************************************)
(* class GeoDa: a data set that is built from a table and geometries, or   *)
(* read from a file, and then asked for columns, undefined flags,          *)
(* geometries, and the inputs of weights, LISA and SKATER.                 *)
(*                                                                         *)
(* Building goes on after a field, a geometry or a feature has failed.     *)
(* What the object keeps then refers to the layer in two ways, by the name *)
(* of a field and by its index, and to observations by their index among   *)
(* the features that were stored.                                          *)
(*                                                                         *)
(* Values are not modelled: <<j, i>> is the value of column j for          *)
(* observation i, <<-j, i>> what becomes of it in a field that cannot hold *)
(* it as it is, and Null a field that is not set, which reads as 0.  A     *)
(* geometry is the number of its observation.                              *)
(***************************************************************************)
EXTENDS Integers, Sequences, FiniteSets

CONSTANTS
  Names,       \* of columns and fields
  Folded,      \* a name in lower case
  NamesInFile, \* what the driver may call the field of a column, in the order
               \* in which it tries: the name or its first ten characters, then
               \* fewer of them with a number
  Tables,      \* the GeoDaTables handed in: sequences of [name, type, vals]
  BytesLen,    \* wkb_bytes_len
  Starts,      \* where each geometry starts in wkbs
  Files,       \* data sources, each a sequence of layers
  LayerNames   \* names a caller may ask for; "" stands for NULL

Null == <<0, 0>>
NoGeometry == 0
NoLayer == [none |-> TRUE]

Types == {"integer", "numeric", "string"}

\* A value that a field of its column's type and width holds, one with too many
\* characters or decimals (20, 254, or 35 with 15 decimals), an empty string.
Forms == {"whole", "cut", "empty"}

Fields == [name : Names, type : Types]

Cells == Int \X Nat

\* A geometry type that the constructor does not know is "other".
Layers ==
  [name : STRING, geom_type : {"point", "polygon", "line", "other"},
   fields : Seq(Fields), rows : Seq([cells : Seq(Cells), geom : Nat])]

(* All columns of a table are said to be as long as there are geometries;  *)
(* nothing checks it.                                                      *)
ASSUME TablesAssumption == Tables \subseteq Seq([name : Names, type : Types, vals : Seq(Forms)])
ASSUME NamesAssumption ==
  Folded \in [Names -> Names] /\ NamesInFile \in [Names -> Seq(Names)]
ASSUME BytesLenAssumption == BytesLen \in Seq(Nat \ {0})

(* The caller has put the geometries one after the other.                  *)
ASSUME StartsAssumption ==
  /\ Starts \in Seq(Nat) /\ Len(Starts) = Len(BytesLen)
  /\ \A i \in DOMAIN Starts :
       Starts[i] = IF i = 1 THEN 0 ELSE Starts[i - 1] + BytesLen[i - 1]
  /\ \A i, j \in DOMAIN Starts : i < j => Starts[i] < Starts[j]

ASSUME FilesAssumption ==
  \A file \in Files :
    /\ file \in Seq(Layers)
    /\ \A k \in DOMAIN file : \A i \in DOMAIN file[k].rows :
         /\ DOMAIN file[k].rows[i].cells = DOMAIN file[k].fields
         /\ file[k].rows[i].geom \in {NoGeometry, i}

VARIABLES
  phase,      \* "unbuilt", "fields", "features", "reading", "ready"; "undefined"
              \* once the program has used a null pointer or gone out of bounds
  poLayer, reading, \* the layer, and how many features its reader has passed
  table, row, wkb_offset,           \* locals of the building constructor
  numObs, numCols, mapType, fieldNames, fieldTypes, fieldNameIdx,
  features, centroids,
  kept,       \* auxiliary: the observations of the features that were stored
  failed,     \* auxiliary: what building could not do
  answer      \* auxiliary: the latest call and what it returned

building == <<table, row, wkb_offset>>
schema == <<numObs, numCols, mapType, fieldNames, fieldTypes, fieldNameIdx>>
vars == <<phase, poLayer, reading, building, schema, features, centroids,
          kept, failed, answer>>

MapTypes == {"point", "polygon", "line"}
Unset == "unset"
NoAnswer == [call |-> "none"]
Columns == DOMAIN table
-----------------------------------------------------------------------------
Init ==
  /\ phase = "unbuilt" /\ poLayer = NoLayer /\ reading = 0
  /\ table = <<>> /\ row = 0 /\ wkb_offset = 0
  /\ numObs = 0 /\ numCols = 0 /\ mapType = Unset
  /\ fieldNames = <<>> /\ fieldTypes = <<>> /\ fieldNameIdx = <<>>
  /\ features = <<>> /\ centroids = <<>> /\ kept = <<>>
  /\ failed = [fields |-> {}, names |-> {}, geometries |-> {}, rows |-> {}, layer |-> "no"]
  /\ answer = NoAnswer

(* The first use of a null poLayer, or of an element that is not there.    *)
(* Nothing is said of what happens next.                                   *)
GoUndefined ==
  /\ phase' = "undefined"
  /\ UNCHANGED <<poLayer, reading, building, schema, features, centroids, kept,
                 answer>>
-----------------------------------------------------------------------------
(***************************************************************************)
(* The constructors from a table and geometries.                           *)
(***************************************************************************)
(* An unknown map type leaves mapType uninitialized.                       *)
CreateLayer(tab, map_type) ==
  /\ phase = "unbuilt"
  /\ phase' = "fields"
  /\ table' = tab
  /\ numObs' = Len(BytesLen) /\ numCols' = Len(tab)
  /\ mapType' \in IF map_type \in MapTypes THEN {map_type} ELSE MapTypes
  /\ poLayer' = [fields |-> <<>>, rows |-> <<>>]
  /\ UNCHANGED <<reading, row, wkb_offset, fieldNames, fieldTypes, fieldNameIdx,
                 features, centroids, kept, failed, answer>>

(* No driver, no data source or no layer: poLayer is null when it is used, *)
(* by CreateField or by ReadAllFeatures.                                   *)
NoLayerCreated ==
  /\ phase = "unbuilt"
  /\ failed' = [failed EXCEPT !.layer = "not created"]
  /\ GoUndefined

\* map[key] = value, which a later value of the key replaces.
Put(map, key, value) ==
  [k \in DOMAIN map \cup {key} |-> IF k = key THEN value ELSE map[k]]

(* fieldNameIdx[col->name] = i: the place in the table, counted from 0,    *)
(* stored or not.  Mutant: counted from 1.                                 *)
FromOne(j) == j

IndexOf(j) == j - 1

\* OGR compares names without regard to case.
Alike(name, other) == Folded[name] = Folded[other]

Taken(name) == \E f \in DOMAIN poLayer.fields : Alike(poLayer.fields[f].name, name)

\* The driver calls the field by the first of the names that no other has.
CallsField(name, written) ==
  \E k \in DOMAIN NamesInFile[name] :
    /\ NamesInFile[name][k] = written /\ ~Taken(written)
    /\ \A l \in 1 .. k - 1 : Taken(NamesInFile[name][l])

(* One turn of the loop over the columns.  The driver may refuse the       *)
(* field; and what is kept is the name of the column, not of the field.    *)
CreateField(accepted, written) ==
  LET j == Len(fieldNames) + 1
      col == table[j]
      field == [name |-> written, type |-> col.type]
  IN
  /\ phase = "fields"
  /\ j \in Columns
  /\ IF accepted
     THEN /\ CallsField(col.name, written)
          /\ poLayer' = [poLayer EXCEPT !.fields = Append(@, field)]
          /\ failed' = IF written = col.name THEN failed
                       ELSE [failed EXCEPT !.names = @ \cup {j}]
     ELSE /\ failed' = [failed EXCEPT !.fields = @ \cup {j}]
          /\ UNCHANGED poLayer
  /\ fieldNames' = Append(fieldNames, col.name)
  /\ fieldTypes' = Append(fieldTypes, col.type)
  /\ fieldNameIdx' = Put(fieldNameIdx, col.name, IndexOf(j))
  /\ UNCHANGED <<phase, reading, building, numObs, numCols, mapType, features,
                 centroids, kept, answer>>

FieldsDone ==
  /\ phase = "fields"
  /\ Len(fieldNames) = Len(table)
  /\ phase' = "features"
  /\ UNCHANGED <<poLayer, reading, building, schema, features, centroids, kept,
                 failed, answer>>

\* OGRFeature::GetFieldIndex: the first field of the name, 0 when there is none.
FieldNamed(layer, name) ==
  IF \E f \in DOMAIN layer.fields : Alike(layer.fields[f].name, name)
  THEN CHOOSE f \in DOMAIN layer.fields :
         /\ Alike(layer.fields[f].name, name)
         /\ \A g \in 1 .. f - 1 : ~Alike(layer.fields[g].name, name)
  ELSE 0

\* data[i] of column j in field f, which converts what is not of its type.
InField(f, j, i) ==
  CASE poLayer.fields[f].type # table[j].type -> <<-j, i>>
    [] table[j].vals[i] = "whole" -> <<j, i>>
    [] table[j].vals[i] = "cut" -> <<-j, i>>
    [] OTHER -> Null

(* The loop of SetField(name, data[i]) over the columns: a later column of *)
(* the same name overwrites.  Mutant: the column's own index.              *)
CellsByIndex(i) ==
  [f \in DOMAIN poLayer.fields |-> InField(f, f, i)]

LastOf(columns) == CHOOSE j \in columns : \A k \in columns : k <= j

CellsOf(i) ==
  [f \in DOMAIN poLayer.fields |->
     LET setters == {j \in Columns : FieldNamed(poLayer, table[j].name) = f} IN
     IF setters = {} THEN Null ELSE InField(f, LastOf(setters), i)]

(* CreateOGRGeomFromWkb: nothing can be made of other bytes than those of  *)
(* a geometry.                                                             *)
GeometryAt(offset, n) ==
  LET there == {i \in DOMAIN BytesLen : Starts[i] = offset /\ BytesLen[i] = n}
  IN IF there = {} THEN NoGeometry ELSE CHOOSE i \in there : TRUE

\* wkb_offset += wkb_bytes_len[i].  Mutant: only past a good geometry.
AdvancedIfGood(i, good) == wkb_offset + (IF good THEN BytesLen[i] ELSE 0)

Advanced(i, good) == wkb_offset + BytesLen[i]

(* data[i] is read of every column, whether it is there or not.            *)
ShortColumn(i) == \E j \in Columns : Len(table[j].vals) < i

\* One turn of the loop over the features: either call may fail.
CreateFeature(good, stored) ==
  LET i == row + 1
      geom == IF good THEN GeometryAt(wkb_offset, BytesLen[i]) ELSE NoGeometry
  IN
  /\ phase = "features"
  /\ i \in DOMAIN BytesLen
  /\ ~ShortColumn(i)
  /\ IF stored
     THEN /\ poLayer' = [poLayer EXCEPT !.rows =
                          Append(@, [cells |-> CellsOf(i), geom |-> geom])]
          /\ kept' = Append(kept, i)
     ELSE UNCHANGED <<poLayer, kept>>
  /\ failed' = [failed EXCEPT !.geometries = IF good THEN @ ELSE @ \cup {i},
                              !.rows = IF stored THEN @ ELSE @ \cup {i}]
  /\ wkb_offset' = Advanced(i, good)
  /\ row' = i
  /\ UNCHANGED <<phase, reading, table, schema, features, centroids, answer>>

ReadBeyondColumn ==
  /\ phase = "features"
  /\ row + 1 \in DOMAIN BytesLen
  /\ ShortColumn(row + 1)
  /\ GoUndefined /\ UNCHANGED failed

FeaturesDone ==
  /\ phase = "features"
  /\ row = Len(BytesLen)
  /\ phase' = "reading"
  /\ UNCHANGED <<poLayer, reading, building, schema, features, centroids, kept,
                 failed, answer>>
-----------------------------------------------------------------------------
(***************************************************************************)
(* The constructor from a data source.                                     *)
(***************************************************************************)
\* What an uninitialized int may hold: a bound for TLC.
SomeInts == {-1, 0, 7}

\* The layer of the name if there is one, the first otherwise.
LayerFor(file, layer_name) ==
  LET named == {k \in DOMAIN file : file[k].name = layer_name}
  IN IF named = {} THEN 1 ELSE CHOOSE k \in named : \A l \in named : k <= l

(* An unknown geometry type returns at once: numCols and mapType stay      *)
(* uninitialized and no feature is read.                                   *)
Open(file, layer_name) ==
  LET layer == file[LayerFor(file, layer_name)] IN
  /\ phase = "unbuilt"
  /\ file # <<>>
  /\ poLayer' = [fields |-> layer.fields, rows |-> layer.rows]
  /\ numObs' = Len(layer.rows)
  /\ IF layer.geom_type \in MapTypes
     THEN /\ phase' = "reading"
          /\ mapType' = layer.geom_type
          /\ numCols' = Len(layer.fields)
          /\ fieldNames' = [f \in DOMAIN layer.fields |-> layer.fields[f].name]
          /\ fieldTypes' = [f \in DOMAIN layer.fields |-> layer.fields[f].type]
          /\ fieldNameIdx' = [n \in {layer.fields[f].name : f \in DOMAIN layer.fields} |->
               IndexOf(CHOOSE f \in DOMAIN layer.fields :
                 /\ layer.fields[f].name = n
                 /\ \A g \in DOMAIN layer.fields : layer.fields[g].name = n => g <= f)]
          /\ UNCHANGED failed
     ELSE /\ phase' = "ready"
          /\ numCols' \in SomeInts
          /\ mapType' \in MapTypes
          /\ failed' = [failed EXCEPT !.layer = "unsupported"]
          /\ UNCHANGED <<fieldNames, fieldTypes, fieldNameIdx>>
  /\ UNCHANGED <<reading, building, features, centroids, kept, answer>>

(* The data source cannot be opened, or has no layer: poLayer is null in   *)
(* ReadAllFeatures.                                                        *)
OpenFails(file) ==
  /\ phase = "unbuilt"
  /\ file = <<>>
  /\ failed' = [failed EXCEPT !.layer = "not opened"]
  /\ GoUndefined
-----------------------------------------------------------------------------
(***************************************************************************)
(* The layer has one reader, and every function that loops over            *)
(* GetNextFeature leaves it at the end.                                    *)
(***************************************************************************)
\* poLayer->ResetReading().  Mutant: the call is missing.
NotReset(position) == position

ResetReading(position) == 0

Remaining == SubSeq(poLayer.rows, ResetReading(reading) + 1, Len(poLayer.rows))

ReadToEnd == reading' = Len(poLayer.rows)

ReadAllFeatures ==
  /\ phase = "reading"
  /\ phase' = "ready"
  /\ features' = features \o Remaining
  /\ ReadToEnd
  /\ UNCHANGED <<poLayer, building, schema, centroids, kept, failed, answer>>
-----------------------------------------------------------------------------
(***************************************************************************)
(* Calls.  One that goes out of bounds makes the program undefined.        *)
(***************************************************************************)
Answer(inBounds, value) ==
  /\ phase = "ready"
  /\ UNCHANGED <<poLayer, building, schema, features, kept, failed>>
  /\ IF inBounds
     THEN answer' = value /\ UNCHANGED phase
     ELSE phase' = "undefined" /\ UNCHANGED answer

\* features[i] for every i below numObs.
FeaturesInBounds == numObs <= Len(features)

ValuesOf(name) ==
  LET f == FieldNamed(poLayer, name) IN
  [i \in 1 .. numObs |-> IF f = 0 THEN Null ELSE features[i].cells[f]]

\* GetNumericCol, GetIntegerCol and GetStringCol.
GetCol(name) ==
  /\ Answer(FeaturesInBounds, [call |-> "values", name |-> name,
                               value |-> ValuesOf(name)])
  /\ UNCHANGED <<reading, centroids>>

UndefinesInBounds(name) ==
  name \in DOMAIN fieldNameIdx /\ numObs > 0 =>
    FeaturesInBounds /\ fieldNameIdx[name] < Len(poLayer.fields)

UndefinesOf(name) ==
  IF name \in DOMAIN fieldNameIdx
  THEN [i \in 1 .. numObs |-> features[i].cells[fieldNameIdx[name] + 1] = Null]
  ELSE <<>>

GetUndefinesCol(name) ==
  /\ Answer(UndefinesInBounds(name), [call |-> "undefines", name |-> name,
                                      value |-> UndefinesOf(name)])
  /\ UNCHANGED <<reading, centroids>>

(* LISA with the values and the flags of a column: empty flags become as   *)
(* many as there are observations, all false.  Mutant: whatever they were. *)
AllDefined(undefs) == [i \in 1 .. numObs |-> FALSE]

LisaFlags(undefs) == IF undefs = <<>> THEN [i \in 1 .. numObs |-> FALSE] ELSE undefs

LISA(name) ==
  /\ Answer(FeaturesInBounds /\ UndefinesInBounds(name),
            [call |-> "lisa", name |-> name, data |-> ValuesOf(name),
             undefs |-> LisaFlags(UndefinesOf(name))])
  /\ UNCHANGED <<reading, centroids>>

(* SKATER over column names, up to the matrix that it standardizes; it     *)
(* reads by index, where an index without a field reads 0.                 *)
SkaterAccepts(col_names) ==
  \A c \in DOMAIN col_names :
    /\ col_names[c] \in DOMAIN fieldNameIdx
    /\ fieldTypes[fieldNameIdx[col_names[c]] + 1] # "string"

(* Mutant: by the position in the request.                                 *)
DataByPosition(col_names) ==
  [c \in DOMAIN col_names |->
     [r \in DOMAIN Remaining |->
        IF c \in DOMAIN poLayer.fields THEN Remaining[r].cells[c] ELSE Null]]

SkaterData(col_names) ==
  [c \in DOMAIN col_names |->
     LET f == fieldNameIdx[col_names[c]] + 1 IN
     [r \in DOMAIN Remaining |->
        IF f \in DOMAIN poLayer.fields THEN Remaining[r].cells[f] ELSE Null]]

SKATER(col_names) ==
  /\ IF SkaterAccepts(col_names)
     THEN /\ Answer(numObs <= Len(Remaining),
                    [call |-> "skater", cols |-> col_names,
                     data |-> SkaterData(col_names)])
          /\ ReadToEnd
     ELSE /\ Answer(TRUE, [call |-> "skater refused", cols |-> col_names])
          /\ UNCHANGED reading
  /\ UNCHANGED centroids

(* GetGeometryWKB and GetGeometryWKT: geom is used without looking, and    *)
(* elements that no feature fills stay empty.                              *)
GetGeometry ==
  /\ Answer(/\ Len(Remaining) <= numObs
            /\ \A r \in DOMAIN Remaining : Remaining[r].geom # NoGeometry,
            [call |-> "geometry",
             value |-> [i \in 1 .. numObs |->
               IF i \in DOMAIN Remaining THEN Remaining[i].geom ELSE NoGeometry]])
  /\ ReadToEnd
  /\ UNCHANGED centroids

\* The k-th of some indices, in order: k - 1 of them are before it.
Nth(indices, k) ==
  CHOOSE i \in indices : Cardinality({h \in indices : h < i}) = k - 1

(* GetCentroids: made once, of the features with a geometry.               *)
(* Mutant: a place is kept for those without.                              *)
LocatedIn(rows) ==
  LET located == {r \in DOMAIN rows : rows[r].geom # NoGeometry}
  IN [k \in 1 .. Cardinality(located) |-> rows[Nth(located, k)].geom]

PlacesKept == [k \in DOMAIN Remaining |-> Remaining[k].geom]

GetCentroids == IF centroids # <<>> THEN centroids ELSE LocatedIn(Remaining)

\* A coordinate of the geometry of an observation.
GetX(geom) == [of |-> geom, axis |-> "x"]

(* The coordinates that the Voronoi neighbours are computed from: y[i] is  *)
(* made of getX(), too.                                                    *)
Coordinates(points) ==
  [i \in 1 .. numObs |-> [x |-> GetX(points[i]), y |-> GetX(points[i])]]

(* CreateContiguityWeights, up to what the external algorithm works on:    *)
(* coordinates of points, the layer itself for polygons, nothing for       *)
(* lines.                                                                  *)
CreateContiguityWeights ==
  \/ /\ mapType = "point"
     /\ centroids' = GetCentroids
     /\ reading' = IF centroids # <<>> THEN reading ELSE Len(poLayer.rows)
     /\ Answer(numObs <= Len(centroids'),
               [call |-> "weights", value |-> Coordinates(centroids')])
  \/ /\ mapType = "polygon"
     /\ Answer(TRUE, [call |-> "weights",
                      value |-> [r \in DOMAIN poLayer.rows |-> poLayer.rows[r].geom]])
     /\ ReadToEnd
     /\ UNCHANGED centroids
  \/ /\ mapType = "line"
     /\ Answer(TRUE, [call |-> "no weights"])
     /\ UNCHANGED <<reading, centroids>>
-----------------------------------------------------------------------------
Build ==
  \/ \E tab \in Tables, map_type \in MapTypes \cup {"other"} : CreateLayer(tab, map_type)
  \/ NoLayerCreated
  \/ \E accepted \in BOOLEAN, written \in Names : CreateField(accepted, written)
  \/ FieldsDone
  \/ \E good, stored \in BOOLEAN : CreateFeature(good, stored)
  \/ ReadBeyondColumn
  \/ FeaturesDone
  \/ \E file \in Files, name \in LayerNames : Open(file, name)
  \/ \E file \in Files : OpenFails(file)
  \/ ReadAllFeatures

Call ==
  \/ \E name \in Names : GetCol(name) \/ GetUndefinesCol(name) \/ LISA(name)
  \/ \E a, b \in Names : SKATER(<<a, b>>)
  \/ GetGeometry
  \/ CreateContiguityWeights

\* The program is gone, or does what nobody can tell.
Stopped == phase = "undefined" /\ UNCHANGED vars

Next == Build \/ Call \/ Stopped

Spec == Init /\ [][Next]_vars
=============================================================================
