------------------------ MODULE FrameRoundTripProofs ------------------------
(***************************************************************************)
(* What the calls of a data set can rely on, for all tables, geometries    *)
(* and data sources, and that a data frame comes back as it went in, for   *)
(* all frames: whichever fields and features the driver refuses.           *)
(***************************************************************************)
EXTENDS GeoDaDatasetProofs, FiniteSetTheorems

(* fieldNameIdx has the last place of each name.                           *)
IndexRight ==
  /\ DOMAIN fieldNameIdx = {fieldNames[j] : j \in DOMAIN fieldNames}
  /\ \A j \in DOMAIN fieldNames :
       (\A k \in DOMAIN fieldNames : fieldNames[k] = fieldNames[j] => k <= j)
         => fieldNameIdx[fieldNames[j]] = j - 1

(* Fields are in the place of their column up to the first one refused,    *)
(* under its name unless the driver called them otherwise.                 *)
FieldsRight ==
  /\ failed.layer = "no" /\ failed.fields = {} => Len(poLayer.fields) = Len(fieldNames)
  /\ \A j \in DOMAIN fieldNames : failed.fields \cap 1 .. j = {} =>
       /\ j \in DOMAIN poLayer.fields
       /\ j \notin failed.names => poLayer.fields[j].name = fieldNames[j]

(* Of as many features as observations, each is of its own.                *)
RowsInPlace ==
  /\ Len(poLayer.rows) <= numObs
  /\ Len(poLayer.rows) = numObs =>
       \A r \in DOMAIN poLayer.rows : poLayer.rows[r].geom \in {NoGeometry, r}
  /\ failed.rows = {} => Len(poLayer.rows) = numObs

KeptInOrder ==
  /\ numObs = N /\ Len(kept) <= row
  /\ Len(kept) = row => \A r \in DOMAIN kept : kept[r] = r
  /\ failed.rows = {} => Len(kept) = row

NothingYet ==
  /\ fieldNames = <<>> /\ fieldNameIdx = <<>> /\ table = <<>>
  /\ failed.fields = {} /\ failed.names = {} /\ failed.layer = "no"

CallsInvariant ==
  /\ phase = "unbuilt" => NothingYet
  /\ phase \in {"fields", "features", "reading", "ready"} =>
       /\ fieldNames \in Seq(Names)
       /\ failed.fields \cup failed.names \subseteq DOMAIN fieldNames
       /\ table # <<>> => \A j \in DOMAIN fieldNames : fieldNames[j] = table[j].name
       /\ table = <<>> => failed.fields = {} /\ failed.names = {}
       /\ IndexRight /\ FieldsRight
  /\ phase \in {"fields", "features", "reading"} => failed.layer = "no"
  /\ phase \in {"fields", "features"} => KeptInOrder
  /\ phase \in {"reading", "ready"} => RowsInPlace
  /\ phase = "ready" /\ failed.layer = "no" => features = poLayer.rows
  /\ phase = "ready" /\ failed.layer # "no" =>
       failed.layer = "unsupported" /\ fieldNames = <<>>
-----------------------------------------------------------------------------
(* A field is made for the next column, or is missing from now on.         *)
LEMMA FieldKeepsIndex ==
  ASSUME DataSetInvariant, CallsInvariant, NEW accepted \in BOOLEAN, NEW written \in Names,
         CreateField(accepted, written)
  PROVE  CallsInvariant'
<1> DEFINE j == Len(fieldNames) + 1
           name == table[j].name
           field == [name |-> written, type |-> table[j].type]
           renamed == accepted /\ written # name
<1>1. /\ phase = "fields" /\ phase' = "fields" /\ j \in Columns
      /\ poLayer' = IF accepted THEN [poLayer EXCEPT !.fields = Append(@, field)]
                    ELSE poLayer
      /\ failed' = IF ~accepted THEN [failed EXCEPT !.fields = @ \cup {j}]
                   ELSE IF renamed THEN [failed EXCEPT !.names = @ \cup {j}]
                   ELSE failed
      /\ fieldNames' = Append(fieldNames, name)
      /\ fieldNameIdx' = Put(fieldNameIdx, name, j - 1)
      /\ UNCHANGED <<row, table, numObs, kept>>
  BY DEF CreateField, building, IndexOf
<1>2. /\ table \in Seq(ColumnSet) /\ failed \in Failures
      /\ row = 0 /\ kept = <<>> /\ poLayer.rows = <<>>
      /\ poLayer \in [fields : Seq(Fields), rows : Seq(Stored)]
      /\ fieldNames \in Seq(Names)
      /\ failed.fields \cup failed.names \subseteq DOMAIN fieldNames
      /\ table # <<>> => \A k \in DOMAIN fieldNames : fieldNames[k] = table[k].name
      /\ IndexRight /\ FieldsRight /\ KeptInOrder /\ failed.layer = "no"
      /\ failed.rows = {}
  BY <1>1 DEF DataSetInvariant, TypesKept, LayerKept, BuildKept, NoRows, CallsInvariant
<1>3. /\ j \in Nat /\ j \in 1 .. Len(table) /\ table # <<>>
      /\ DOMAIN fieldNames = 1 .. Len(fieldNames) /\ Len(fieldNames) \in Nat
      /\ j \notin DOMAIN fieldNames /\ table[j] \in ColumnSet
  BY <1>1, <1>2 DEF Columns
<1>4. name \in Names /\ field \in Fields /\ field.name = written
  BY <1>3 DEF ColumnSet, Fields
<1>5. /\ fieldNames' \in Seq(Names) /\ Len(fieldNames') = j
      /\ DOMAIN fieldNames' = DOMAIN fieldNames \cup {j} /\ fieldNames'[j] = name
      /\ \A k \in DOMAIN fieldNames : fieldNames'[k] = fieldNames[k]
  <2> HIDE DEF name
  <2> QED
    BY <1>1, <1>2, <1>3, <1>4
<1>6. /\ failed'.fields = IF accepted THEN failed.fields ELSE failed.fields \cup {j}
      /\ failed'.names = IF renamed THEN failed.names \cup {j} ELSE failed.names
      /\ failed'.layer = failed.layer /\ failed'.rows = failed.rows
  <2>1. renamed => accepted
    OBVIOUS
  <2> HIDE DEF j, renamed
  <2> QED
    BY <1>1, <1>2, <2>1 DEF Failures
<1>7. /\ poLayer'.rows = <<>>
      /\ ~accepted => poLayer' = poLayer
      /\ accepted =>
           /\ Len(poLayer'.fields) = Len(poLayer.fields) + 1
           /\ DOMAIN poLayer'.fields = DOMAIN poLayer.fields \cup {Len(poLayer.fields) + 1}
           /\ poLayer'.fields[Len(poLayer.fields) + 1] = field
           /\ \A f \in DOMAIN poLayer.fields : poLayer'.fields[f] = poLayer.fields[f]
  <2>1. CASE ~accepted
    BY <1>1, <1>2, <2>1
  <2>2. CASE accepted
    <3> DEFINE F == poLayer.fields
    <3>1. F \in Seq(Fields)
      BY <1>2
    <3>2. poLayer'.fields = Append(F, field) /\ poLayer'.rows = <<>>
      BY <1>1, <1>2, <2>2
    <3> HIDE DEF F, field
    <3>3. /\ Len(Append(F, field)) = Len(F) + 1
          /\ DOMAIN Append(F, field) = DOMAIN F \cup {Len(F) + 1}
          /\ Append(F, field)[Len(F) + 1] = field
          /\ \A f \in DOMAIN F : Append(F, field)[f] = F[f]
      BY <1>4, <3>1
    <3> QED
      BY <2>2, <3>2, <3>3 DEF F
  <2> QED
    BY <2>1, <2>2
<1>8. IndexRight'
  <2>0. /\ DOMAIN fieldNameIdx' = DOMAIN fieldNameIdx \cup {name}
        /\ fieldNameIdx'[name] = j - 1
        /\ \A n \in DOMAIN fieldNameIdx : n # name => fieldNameIdx'[n] = fieldNameIdx[n]
    <3>1. fieldNameIdx' = Put(fieldNameIdx, name, j - 1)
      BY <1>1
    <3> HIDE DEF name, j
    <3> QED
      BY <3>1 DEF Put
  <2>1. DOMAIN fieldNameIdx' = {fieldNames'[k] : k \in DOMAIN fieldNames'}
    <3>1. DOMAIN fieldNameIdx' = {fieldNames[k] : k \in DOMAIN fieldNames} \cup {name}
      BY <1>2, <2>0 DEF IndexRight
    <3> HIDE DEF name, j
    <3> QED
      BY <1>5, <3>1
  <2>2. ASSUME NEW k \in DOMAIN fieldNames',
               \A l \in DOMAIN fieldNames' : fieldNames'[l] = fieldNames'[k] => l <= k
        PROVE  fieldNameIdx'[fieldNames'[k]] = k - 1
    <3>1. CASE k = j
      BY <1>5, <2>0, <3>1
    <3>2. CASE k \in DOMAIN fieldNames
      <4>1. fieldNames[k] # name
        BY <1>3, <1>5, <2>2, <3>2
      <4>2. fieldNameIdx[fieldNames[k]] = k - 1
        BY <1>2, <1>5, <2>2, <3>2 DEF IndexRight
      <4>3. fieldNames[k] \in DOMAIN fieldNameIdx
        BY <1>2, <3>2 DEF IndexRight
      <4> QED
        BY <1>5, <2>0, <3>2, <4>1, <4>2, <4>3
    <3> QED
      BY <1>5, <3>1, <3>2
  <2> QED
    BY <2>1, <2>2 DEF IndexRight
<1>9. FieldsRight'
  <2>1. failed.fields = {} => Len(poLayer.fields) = Len(fieldNames)
    BY <1>2 DEF FieldsRight
  <2>2. failed'.fields = {} => Len(poLayer'.fields) = Len(fieldNames')
    BY <1>5, <1>6, <1>7, <2>1
  <2>3. ASSUME NEW k \in DOMAIN fieldNames', failed'.fields \cap 1 .. k = {}
        PROVE  /\ k \in DOMAIN poLayer'.fields
               /\ k \notin failed'.names => poLayer'.fields[k].name = fieldNames'[k]
    <3>1. CASE k = j
      <4>1. failed'.fields = {} /\ accepted
        <5>1. failed'.fields \subseteq 1 .. j /\ j \in 1 .. j
          BY <1>2, <1>3, <1>6
        <5> QED
          BY <1>6, <2>3, <3>1, <5>1
      <4>2. j = Len(poLayer.fields) + 1
        BY <1>2, <1>3, <1>6, <2>1, <4>1
      <4>3. j \notin failed'.names => written = name
        BY <1>6, <4>1
      <4> HIDE DEF j, field, name
      <4> QED
        BY <1>4, <1>5, <1>7, <3>1, <4>1, <4>2, <4>3
    <3>2. CASE k \in DOMAIN fieldNames
      <4>1. failed.fields \cap 1 .. k = {} /\ k # j
        BY <1>3, <1>6, <2>3, <3>2
      <4>2. /\ k \in DOMAIN poLayer.fields
            /\ k \notin failed.names => poLayer.fields[k].name = fieldNames[k]
        BY <1>2, <3>2, <4>1 DEF FieldsRight
      <4>3. k \in failed.names => k \in failed'.names
        BY <1>6
      <4> HIDE DEF j, field, name
      <4> QED
        BY <1>5, <1>7, <3>2, <4>2, <4>3
    <3> QED
      BY <1>5, <3>1, <3>2
  <2> QED
    BY <2>2, <2>3 DEF FieldsRight
<1>11. KeptInOrder'
  BY <1>1, <1>2, <1>6 DEF KeptInOrder
<1>12. /\ (failed.fields \cup failed.names)' \subseteq DOMAIN fieldNames'
       /\ \A k \in DOMAIN fieldNames' : fieldNames'[k] = table'[k].name
  <2> HIDE DEF j
  <2>1. (failed.fields \cup failed.names)' \subseteq DOMAIN fieldNames'
    BY <1>2, <1>5, <1>6
  <2>2. table' = table
    BY <1>1
  <2>3. \A k \in DOMAIN fieldNames : fieldNames'[k] = table[k].name
    BY <1>2, <1>3, <1>5
  <2>4. fieldNames'[j] = table[j].name
    BY <1>5
  <2>5. \A k \in DOMAIN fieldNames' : k \in DOMAIN fieldNames \/ k = j
    BY <1>5
  <2> QED
    BY <2>1, <2>2, <2>3, <2>4, <2>5
<1> QED
  BY <1>1, <1>2, <1>3, <1>5, <1>6, <1>8, <1>9, <1>11, <1>12 DEF CallsInvariant

(* A feature is stored, or the list of them is one short.                  *)
LEMMA FeatureKeepsCalls ==
  ASSUME DataSetInvariant, CallsInvariant, NEW good \in BOOLEAN, NEW stored \in BOOLEAN,
         CreateFeature(good, stored)
  PROVE  CallsInvariant'
<1> DEFINE i == row + 1
           geom == IF good THEN GeometryAt(wkb_offset, BytesLen[i]) ELSE NoGeometry
           feature == [cells |-> CellsOf(i), geom |-> geom]
<1>1. /\ phase = "features" /\ phase' = "features" /\ row' = i /\ i \in 1 .. N
      /\ poLayer' = IF stored THEN [poLayer EXCEPT !.rows = Append(@, feature)] ELSE poLayer
      /\ kept' = IF stored THEN Append(kept, i) ELSE kept
      /\ UNCHANGED <<table, numObs, fieldNames, fieldNameIdx>>
  BY StartFacts DEF CreateFeature, schema
<1>2. /\ table \in Seq(ColumnSet) /\ row \in Nat /\ failed \in Failures
      /\ poLayer \in [fields : Seq(Fields), rows : Seq(Stored)]
      /\ kept \in Seq(Nat) /\ Len(poLayer.rows) = Len(kept)
      /\ fieldNames \in Seq(Names)
      /\ failed.fields \cup failed.names \subseteq DOMAIN fieldNames
      /\ table # <<>> => \A k \in DOMAIN fieldNames : fieldNames[k] = table[k].name
      /\ table = <<>> => failed.fields = {} /\ failed.names = {}
      /\ IndexRight /\ FieldsRight /\ KeptInOrder /\ failed.layer = "no"
  BY <1>1, StartFacts DEF DataSetInvariant, TypesKept, LayerKept, BuildKept, Coherent,
    CallsInvariant
<1>3. /\ failed'.fields = failed.fields /\ failed'.names = failed.names
      /\ failed'.layer = failed.layer
      /\ failed'.rows = IF stored THEN failed.rows ELSE failed.rows \cup {i}
  <2>1. failed' = [failed EXCEPT !.geometries = IF good THEN @ ELSE @ \cup {i},
                                 !.rows = IF stored THEN @ ELSE @ \cup {i}]
    BY DEF CreateFeature
  <2> HIDE DEF i
  <2> QED
    BY <1>2, <2>1 DEF Failures
<1>4. poLayer'.fields = poLayer.fields
  BY <1>1, <1>2
<1>5. IndexRight' /\ FieldsRight'
  BY <1>1, <1>2, <1>3, <1>4 DEF IndexRight, FieldsRight
<1>6. KeptInOrder'
  <2>1. /\ numObs = N /\ Len(kept) <= row /\ Len(kept) \in Nat
        /\ Len(kept) = row => \A r \in DOMAIN kept : kept[r] = r
        /\ failed.rows = {} => Len(kept) = row
    BY <1>2 DEF KeptInOrder
  <2>2. CASE stored
    <3>1. /\ kept' = Append(kept, i) /\ Len(kept') = Len(kept) + 1
          /\ DOMAIN kept' = DOMAIN kept \cup {Len(kept) + 1}
          /\ kept'[Len(kept) + 1] = i /\ \A r \in DOMAIN kept : kept'[r] = kept[r]
      BY <1>1, <1>2, <2>2
    <3> QED
      BY <1>1, <1>2, <1>3, <2>1, <2>2, <3>1 DEF KeptInOrder
  <2>3. CASE ~stored
    <3>1. kept' = kept /\ failed'.rows # {}
      BY <1>1, <1>3, <2>3
    <3> QED
      BY <1>1, <1>2, <2>1, <3>1 DEF KeptInOrder
  <2> QED
    BY <2>2, <2>3
<1> QED
  BY <1>1, <1>2, <1>3, <1>5, <1>6 DEF CallsInvariant

(* Fields and features of a data source are as they are there.             *)
LEMMA OpenKeepsCalls ==
  ASSUME DataSetInvariant, CallsInvariant, NEW file \in Files, NEW layer_name,
         Open(file, layer_name)
  PROVE  CallsInvariant'
<1> DEFINE layer == file[LayerFor(file, layer_name)]
           known == layer.geom_type \in MapTypes
<1>1. /\ phase = "unbuilt" /\ file # <<>>
      /\ poLayer' = [fields |-> layer.fields, rows |-> layer.rows]
      /\ numObs' = Len(layer.rows) /\ table' = table
      /\ known =>
           /\ phase' = "reading" /\ failed' = failed
           /\ fieldNames' = [f \in DOMAIN layer.fields |-> layer.fields[f].name]
           /\ fieldNameIdx' = [n \in {layer.fields[f].name : f \in DOMAIN layer.fields} |->
                IndexOf(CHOOSE f \in DOMAIN layer.fields :
                  /\ layer.fields[f].name = n
                  /\ \A g \in DOMAIN layer.fields : layer.fields[g].name = n => g <= f)]
      /\ ~known =>
           /\ phase' = "ready" /\ failed' = [failed EXCEPT !.layer = "unsupported"]
           /\ UNCHANGED <<fieldNames, fieldNameIdx>>
  BY DEF Open, building
<1>2. /\ NothingYet /\ failed \in Failures
  BY <1>1 DEF CallsInvariant, DataSetInvariant, TypesKept
<1>3. layer \in Layers
  BY <1>1, LayerForFacts
<1>4. layer.fields \in Seq(Fields) /\ layer.rows \in Seq(Stored)
  <2> HIDE DEF layer
  <2> QED
    BY <1>3 DEF Layers, Stored
<1>5. /\ failed'.fields = {} /\ failed'.names = {} /\ failed'.rows = failed.rows
      /\ failed'.layer = IF known THEN "no" ELSE "unsupported"
  <2> HIDE DEF known
  <2> QED
    BY <1>1, <1>2 DEF Failures, NothingYet
<1>6. RowsInPlace'
  <2>1. LayerFor(file, layer_name) \in DOMAIN file
    <3>1. file[LayerFor(file, layer_name)] \in Layers
      BY <1>3
    <3> DEFINE named == {k \in DOMAIN file : file[k].name = layer_name}
    <3>2. file \in Seq(Layers) /\ DOMAIN file = 1 .. Len(file) /\ 1 \in DOMAIN file
      BY <1>1, FilesAssumption
    <3>3. ASSUME named # {} PROVE (CHOOSE k \in named : \A l \in named : k <= l) \in named
      <4>1. named \in SUBSET Nat
        BY <3>2
      <4>2. \E k \in named : \A l \in named : k <= l
        <5> HIDE DEF named
        <5> QED
          BY <3>3, <4>1, Least
      <4> HIDE DEF named
      <4> QED
        BY <4>2
    <3> QED
      BY <3>2, <3>3 DEF LayerFor
  <2>2. \A r \in DOMAIN layer.rows : layer.rows[r].geom \in {NoGeometry, r}
    BY <2>1, FilesAssumption
  <2>3. poLayer'.rows = layer.rows /\ numObs' = Len(layer.rows) /\ Len(layer.rows) \in Nat
    BY <1>1, <1>4
  <2> HIDE DEF layer
  <2> QED
    BY <2>2, <2>3 DEF RowsInPlace
<1>8. CASE known
  <2> DEFINE F == layer.fields
  <2>1. F \in Seq(Fields) /\ poLayer'.fields = F
    BY <1>1, <1>4
  <2>2. fieldNames' = [f \in DOMAIN F |-> F[f].name]
    BY <1>1, <1>8
  <2>3. fieldNameIdx' = [n \in {F[f].name : f \in DOMAIN F} |->
          (CHOOSE f \in DOMAIN F :
             F[f].name = n /\ \A g \in DOMAIN F : F[g].name = n => g <= f) - 1]
    BY <1>1, <1>8 DEF IndexOf
  <2> HIDE DEF F
  <2>4. fieldNames' \in Seq(Names) /\ Len(fieldNames') = Len(F)
    <3>1. DOMAIN F = 1 .. Len(F) /\ Len(F) \in Nat
      BY <2>1
    <3>2. \A f \in 1 .. Len(F) : F[f] \in Fields
      BY <2>1, <3>1
    <3>3. \A f \in 1 .. Len(F) : F[f].name \in Names
      BY <3>2 DEF Fields
    <3> QED
      BY <2>2, <3>1, <3>3
  <2>5. FieldsRight'
    BY <1>5, <2>1, <2>2, <2>4 DEF FieldsRight
  <2>6. IndexRight'
    <3>1. DOMAIN fieldNameIdx' = {fieldNames'[f] : f \in DOMAIN fieldNames'}
      BY <2>2, <2>3
    <3>2. ASSUME NEW j \in DOMAIN fieldNames',
                 \A k \in DOMAIN fieldNames' : fieldNames'[k] = fieldNames'[j] => k <= j
          PROVE  fieldNameIdx'[fieldNames'[j]] = j - 1
      <4> DEFINE IsIt(f) == F[f].name = F[j].name
                            /\ \A g \in DOMAIN F : F[g].name = F[j].name => g <= f
                 found == CHOOSE f \in DOMAIN F : IsIt(f)
      <4>0. DOMAIN F = 1 .. Len(F) /\ Len(F) \in Nat
        BY <2>1
      <4>1. j \in DOMAIN F /\ IsIt(j)
        BY <2>2, <3>2
      <4>2. found \in DOMAIN F /\ IsIt(found)
        <5> HIDE DEF IsIt
        <5> QED
          BY <4>1
      <4>3. fieldNameIdx'[fieldNames'[j]] = found - 1
        BY <2>2, <2>3, <4>1
      <4>4. found = j
        <5> HIDE DEF found
        <5> QED
          BY <4>0, <4>1, <4>2
      <4> QED
        BY <4>3, <4>4
    <3> QED
      BY <3>1, <3>2 DEF IndexRight
  <2> QED
    BY <1>1, <1>2, <1>5, <1>6, <1>8, <2>4, <2>5, <2>6 DEF CallsInvariant, NothingYet
<1>9. CASE ~known
  <2>1. fieldNames' = <<>> /\ fieldNameIdx' = <<>> /\ phase' = "ready"
    BY <1>1, <1>2, <1>9 DEF NothingYet
  <2>2. DOMAIN fieldNames' = {} /\ DOMAIN fieldNameIdx' = {}
        /\ fieldNames' \in Seq(Names)
    BY <2>1
  <2>3. IndexRight' /\ FieldsRight'
    BY <1>5, <1>9, <2>2 DEF IndexRight, FieldsRight
  <2> QED
    BY <1>1, <1>2, <1>5, <1>6, <1>9, <2>1, <2>2, <2>3 DEF CallsInvariant, NothingYet
<1> QED
  BY <1>8, <1>9

(* No call changes what a call relies on.                                  *)
LEMMA AnyStepKeepsCalls ==
  ASSUME DataSetInvariant, CallsInvariant, AnyStep \/ UNCHANGED vars
  PROVE  CallsInvariant'
<1>1. CASE \E tab \in Seq(ColumnSet) : \E map_type : CreateLayer(tab, map_type)
  <2>1. /\ phase = "unbuilt" /\ phase' = "fields" /\ numObs' = N
        /\ poLayer' = [fields |-> <<>>, rows |-> <<>>]
        /\ UNCHANGED <<row, fieldNames, fieldNameIdx, kept, failed>>
    BY <1>1 DEF CreateLayer, N
  <2>2. NothingYet /\ row = 0 /\ kept = <<>> /\ failed.rows = {}
    BY <2>1 DEF DataSetInvariant, BuildKept, NoRows, CallsInvariant
  <2>3. /\ fieldNames' = <<>> /\ fieldNameIdx' = <<>> /\ DOMAIN <<>> = {} /\ Len(<<>>) = 0
        /\ fieldNames' \in Seq(Names)
        /\ failed'.fields = {} /\ failed'.names = {} /\ failed'.layer = "no"
    BY <2>1, <2>2 DEF NothingYet
  <2>4. IndexRight'
    BY <2>3 DEF IndexRight
  <2>5. FieldsRight' /\ KeptInOrder'
    BY <2>1, <2>2, <2>3 DEF FieldsRight, KeptInOrder
  <2> QED
    BY <2>1, <2>3, <2>4, <2>5 DEF CallsInvariant
<1>2. CASE NoLayerCreated \/ ReadBeyondColumn \/ \E file \in Files : OpenFails(file)
  <2>1. phase' = "undefined"
    BY <1>2 DEF NoLayerCreated, ReadBeyondColumn, OpenFails, GoUndefined
  <2> QED
    BY <2>1 DEF CallsInvariant
<1>3. CASE \E accepted \in BOOLEAN, written \in Names : CreateField(accepted, written)
  BY <1>3, FieldKeepsIndex
<1>4. CASE \E good, stored \in BOOLEAN : CreateFeature(good, stored)
  BY <1>4, FeatureKeepsCalls
<1>5. CASE \E file \in Files, name \in LayerNames : Open(file, name)
  BY <1>5, OpenKeepsCalls
<1>6. ASSUME UNCHANGED <<poLayer, row, table, numObs, fieldNames, fieldNameIdx, kept, failed>>
      PROVE  /\ IndexRight' = IndexRight /\ FieldsRight' = FieldsRight
             /\ KeptInOrder' = KeptInOrder
             /\ RowsInPlace' = RowsInPlace /\ NothingYet' = NothingYet
  BY <1>6 DEF IndexRight, FieldsRight, KeptInOrder, RowsInPlace, NothingYet
<1>7. CASE FieldsDone
  <2>1. /\ phase = "fields" /\ phase' = "features"
        /\ UNCHANGED <<poLayer, row, table, numObs, fieldNames, fieldNameIdx, kept, failed>>
    BY <1>7 DEF FieldsDone, building, schema
  <2> QED
    BY <1>6, <2>1 DEF CallsInvariant
<1>8. CASE FeaturesDone
  <2>1. /\ phase = "features" /\ phase' = "reading" /\ row = N
        /\ UNCHANGED <<poLayer, row, table, numObs, fieldNames, fieldNameIdx, kept, failed>>
    BY <1>8 DEF FeaturesDone, building, schema, N
  <2>2. KeptInOrder /\ Coherent
    BY <2>1 DEF CallsInvariant, DataSetInvariant, BuildKept
  <2>3. Len(poLayer.rows) = Len(kept) /\ Len(kept) \in Nat /\ poLayer.rows \in Seq(Stored)
    BY <2>1, <2>2 DEF Coherent, DataSetInvariant, LayerKept
  <2>4. \A r \in DOMAIN poLayer.rows : poLayer.rows[r].geom \in {NoGeometry, kept[r]}
    BY <2>2, <2>3 DEF Coherent
  <2>5. RowsInPlace
    BY <2>1, <2>2, <2>3, <2>4, StartFacts DEF RowsInPlace, KeptInOrder
  <2> QED
    BY <1>6, <2>1, <2>5 DEF CallsInvariant
<1>9. CASE ReadAllFeatures
  <2>1. /\ phase = "reading" /\ phase' = "ready" /\ features' = features \o Remaining
        /\ UNCHANGED <<poLayer, row, table, numObs, fieldNames, fieldNameIdx, kept, failed>>
    BY <1>9 DEF ReadAllFeatures, building, schema
  <2>2. features = <<>> /\ poLayer.rows \in Seq(Stored) /\ failed.layer = "no"
    BY <2>1 DEF DataSetInvariant, LayerKept, ListsKept, CallsInvariant
  <2>3. features' = poLayer.rows
    BY <2>1, <2>2, AllRemain
  <2> QED
    BY <1>6, <2>1, <2>2, <2>3 DEF CallsInvariant
<1>10. CASE \/ \E name : GetCol(name) \/ GetUndefinesCol(name) \/ LISA(name)
            \/ \E a, b \in Names : SKATER(<<a, b>>)
            \/ GetGeometry
            \/ CreateContiguityWeights
  <2>1. \E inBounds, value : Answer(inBounds, value)
    BY <1>10 DEF GetCol, GetUndefinesCol, LISA, SKATER, GetGeometry, CreateContiguityWeights
  <2>2. /\ phase = "ready" /\ phase' \in {"ready", "undefined"}
        /\ UNCHANGED <<poLayer, row, table, numObs, fieldNames, fieldNameIdx, kept, failed,
                       features>>
    BY <2>1 DEF Answer, building, schema
  <2> QED
    BY <1>6, <2>2 DEF CallsInvariant
<1>11. CASE UNCHANGED vars
  <2>1. UNCHANGED <<phase, poLayer, row, table, numObs, fieldNames, fieldNameIdx, kept, failed,
                    features>>
    BY <1>11 DEF vars, building, schema
  <2> QED
    BY <1>6, <2>1 DEF CallsInvariant
<1> QED
  BY <1>1, <1>2, <1>3, <1>4, <1>5, <1>7, <1>8, <1>9, <1>10, <1>11 DEF AnyStep

(* Whatever fails and whatever is asked: names are looked up at their last *)
(* place, fields are in place up to the first one refused, and features    *)
(* are as long as none was.                                                *)
THEOREM AlwaysCallsInvariant == FrameSpec => []CallsInvariant
<1>1. FrameInit => CallsInvariant
  BY DEF FrameInit, Init, CallsInvariant, NothingYet
<1>2. /\ FrameInvariant /\ DataSetInvariant /\ ColumnsKept /\ CallsInvariant
      /\ [FrameNext]_<<converting, vars>>
      => CallsInvariant'
  BY FrameSteps, AnyStepKeepsCalls
<1> QED
  BY <1>1, <1>2, DataSetIsInvariant, PTL DEF FrameSpec
-----------------------------------------------------------------------------
(* Some of the numbers up to n, in order.                                  *)
LEMMA BeforeFacts ==
  ASSUME NEW n \in Nat, NEW S \in SUBSET (1 .. n), NEW i
  PROVE  /\ IsFiniteSet(S) /\ Cardinality(S) \in Nat /\ Cardinality(S) <= n
         /\ Cardinality(S) = n => S = 1 .. n
         /\ IsFiniteSet({h \in S : h < i}) /\ Cardinality({h \in S : h < i}) \in Nat
<1>1. IsFiniteSet(1 .. n) /\ Cardinality(1 .. n) = n
  BY FS_Interval
<1>2. /\ IsFiniteSet(S) /\ Cardinality(S) <= n
      /\ Cardinality(S) = n => S = 1 .. n
  BY <1>1, FS_Subset
<1>3. {h \in S : h < i} \in SUBSET S
  OBVIOUS
<1>4. IsFiniteSet({h \in S : h < i})
  BY <1>2, <1>3, FS_Subset
<1> QED
  BY <1>2, <1>4, FS_CardinalityType

(* More of them are before a greater one.                                  *)
LEMMA MoreBefore ==
  ASSUME NEW n \in Nat, NEW S \in SUBSET (1 .. n), NEW i \in S, NEW j \in S, i < j
  PROVE  Cardinality({h \in S : h < i}) < Cardinality({h \in S : h < j})
<1> DEFINE before(k) == {h \in S : h < k}
<1>1. IsFiniteSet(before(i)) /\ Cardinality(before(i)) \in Nat
  BY BeforeFacts
<1>2. IsFiniteSet(before(j)) /\ Cardinality(before(j)) \in Nat
  BY BeforeFacts
<1>3. before(i) \cup {i} \in SUBSET before(j) /\ i \notin before(i)
  <2>1. /\ i \in Nat /\ j \in Nat /\ \A h \in S : h \in Nat
    OBVIOUS
  <2>2. \A h \in S : h < i => h < j
    BY <2>1
  <2>3. ~(i < i)
    BY <2>1
  <2> QED
    BY <2>2, <2>3
<1> HIDE DEF before
<1>4. Cardinality(before(i) \cup {i}) = Cardinality(before(i)) + 1
  BY <1>1, <1>3, FS_AddElement
<1>5. Cardinality(before(i) \cup {i}) <= Cardinality(before(j))
  BY <1>2, <1>3, FS_Subset
<1>6. Cardinality(before(i)) < Cardinality(before(j))
  BY <1>1, <1>2, <1>4, <1>5
<1> QED
  BY <1>6 DEF before

(* The k-th is the one that k - 1 are before.                              *)
LEMMA NthIs ==
  ASSUME NEW n \in Nat, NEW S \in SUBSET (1 .. n), NEW i \in S, NEW k,
         Cardinality({h \in S : h < i}) = k - 1
  PROVE  Nth(S, k) = i
<1> DEFINE Is(j) == Cardinality({h \in S : h < j}) = k - 1
           found == CHOOSE j \in S : Is(j)
<1>1. found \in S /\ Is(found)
  <2> SUFFICES \E j \in S : Is(j)
    <3> HIDE DEF Is
    <3> QED
      OBVIOUS
  <2> QED
    OBVIOUS
<1> HIDE DEF found
<1>2. Cardinality({h \in S : h < found}) = Cardinality({h \in S : h < i})
  BY <1>1
<1>3. Cardinality({h \in S : h < i}) \in Nat
  BY BeforeFacts
<1>4. ~(i < found)
  <2> SUFFICES ASSUME i < found PROVE FALSE
    OBVIOUS
  <2>1. Cardinality({h \in S : h < i}) < Cardinality({h \in S : h < found})
    BY <1>1, MoreBefore
  <2> QED
    BY <1>2, <1>3, <2>1
<1>5. ~(found < i)
  <2> SUFFICES ASSUME found < i PROVE FALSE
    OBVIOUS
  <2>1. Cardinality({h \in S : h < found}) < Cardinality({h \in S : h < i})
    BY <1>1, MoreBefore
  <2> QED
    BY <1>2, <1>3, <2>1
<1>6. found \in Nat /\ i \in Nat
  BY <1>1
<1>7. found = i
  BY <1>4, <1>5, <1>6
<1> QED
  BY <1>7 DEF found, Nth

(* There is no other order for features that all have a geometry, and the  *)
(* list is shorter than they are if one has none.                          *)
LEMMA LocatedFacts ==
  ASSUME NEW rows \in Seq(Stored)
  PROVE  /\ Len(LocatedIn(rows)) \in Nat /\ Len(LocatedIn(rows)) <= Len(rows)
         /\ DOMAIN LocatedIn(rows) = 1 .. Len(LocatedIn(rows))
         /\ Len(LocatedIn(rows)) = Len(rows) <=>
              \A r \in DOMAIN rows : rows[r].geom # NoGeometry
         /\ Len(LocatedIn(rows)) = Len(rows) =>
              \A k \in DOMAIN rows : LocatedIn(rows)[k] = rows[k].geom
<1> DEFINE located == {r \in DOMAIN rows : rows[r].geom # NoGeometry}
           n == Len(rows)
<1>1. n \in Nat /\ DOMAIN rows = 1 .. n /\ located \in SUBSET (1 .. n)
  OBVIOUS
<1>2. LocatedIn(rows) = [k \in 1 .. Cardinality(located) |-> rows[Nth(located, k)].geom]
  BY DEF LocatedIn
<1> HIDE DEF located
<1>3. /\ Cardinality(located) \in Nat /\ Cardinality(located) <= n
      /\ Cardinality(located) = n => located = 1 .. n
  BY <1>1, BeforeFacts
<1>4. Len(LocatedIn(rows)) = Cardinality(located)
  BY <1>2, <1>3
<1>5. located = 1 .. n => Cardinality(located) = n
  BY <1>1, FS_Interval
<1>6. ASSUME located = 1 .. n, NEW k \in 1 .. n PROVE Nth(located, k) = k
  <2>1. {h \in located : h < k} = 1 .. k - 1
    BY <1>1, <1>6
  <2>2. Cardinality(1 .. k - 1) = k - 1
    BY <1>1, FS_Interval
  <2>3. k \in located /\ Cardinality({h \in located : h < k}) = k - 1
    BY <1>6, <2>1, <2>2
  <2> QED
    BY <1>1, <2>3, NthIs
<1>7. located = 1 .. n <=> \A r \in DOMAIN rows : rows[r].geom # NoGeometry
  BY <1>1 DEF located
<1> HIDE DEF n
<1>8. Len(LocatedIn(rows)) = n => \A k \in DOMAIN rows : LocatedIn(rows)[k] = rows[k].geom
  BY <1>1, <1>2, <1>3, <1>4, <1>6
<1>9. Len(LocatedIn(rows)) = n <=> \A r \in DOMAIN rows : rows[r].geom # NoGeometry
  BY <1>3, <1>4, <1>5, <1>7
<1>10. DOMAIN LocatedIn(rows) = 1 .. Cardinality(located)
  BY <1>2
<1> QED
  BY <1>3, <1>4, <1>8, <1>9, <1>10 DEF n
-----------------------------------------------------------------------------
(* What is in bounds when a call returns.                                  *)
InBounds(a) ==
  /\ a.call = "lisa" => FeaturesInBounds /\ UndefinesInBounds(a.name)
  /\ a.call = "skater" => numObs <= Len(poLayer.rows) /\ SkaterAccepts(a.cols)
  /\ a.call = "weights" /\ mapType = "point" => numObs <= Len(LocatedIn(poLayer.rows))

LEMMA OtherInBounds ==
  ASSUME NEW a, a.call \in {"values", "undefines", "skater refused", "geometry", "no weights"}
                \/ (a.call = "weights" /\
                     (mapType = "point" => numObs <= Len(LocatedIn(poLayer.rows))))
  PROVE  InBounds(a)
BY DEF InBounds

(* An answer is none, or that of before on data that has not changed, or   *)
(* one that the layer determines.                                          *)
LEMMA AnswerGiven ==
  ASSUME DataSetInvariant, AnyStep \/ UNCHANGED vars
  PROVE  \/ answer' = NoAnswer
         \/ UNCHANGED <<poLayer, schema, features, answer, failed>>
         \/ /\ Ready /\ UNCHANGED <<poLayer, schema, features, failed>>
            /\ Determined(Data, answer') /\ InBounds(answer')
<1>1. CASE \/ \E tab \in Seq(ColumnSet) : \E map_type : CreateLayer(tab, map_type)
           \/ NoLayerCreated
           \/ \E accepted \in BOOLEAN, written \in Names : CreateField(accepted, written)
           \/ FieldsDone
           \/ \E good, stored \in BOOLEAN : CreateFeature(good, stored)
           \/ ReadBeyondColumn
           \/ FeaturesDone
           \/ \E file \in Files, name \in LayerNames : Open(file, name)
           \/ \E file \in Files : OpenFails(file)
           \/ ReadAllFeatures
  <2>1. phase \in {"unbuilt", "fields", "features", "reading"} /\ answer' = answer
    BY <1>1 DEF CreateLayer, NoLayerCreated, CreateField, FieldsDone, CreateFeature,
      ReadBeyondColumn, FeaturesDone, Open, OpenFails, ReadAllFeatures, GoUndefined
  <2> QED
    BY <2>1 DEF DataSetInvariant, ListsKept
<1>2. CASE UNCHANGED vars
  BY <1>2 DEF vars
<1>3. CASE \/ \E name : GetCol(name) \/ GetUndefinesCol(name) \/ LISA(name)
           \/ \E a, b \in Names : SKATER(<<a, b>>)
           \/ GetGeometry
           \/ CreateContiguityWeights
  <2>1. \E inBounds, value : Answer(inBounds, value)
    BY <1>3 DEF GetCol, GetUndefinesCol, LISA, SKATER, GetGeometry, CreateContiguityWeights
  <2>2. /\ Ready /\ UNCHANGED <<poLayer, schema, features, failed>>
        /\ phase' = "undefined" => answer' = answer
    BY <2>1 DEF Answer, Ready
  <2> SUFFICES ASSUME phase' # "undefined" PROVE Determined(Data, answer') /\ InBounds(answer')
    BY <2>2
  <2>3. Determined(Data, answer')
    BY <1>3, <2>2, CallsDetermined
  <2>4. ASSUME NEW name, GetCol(name) PROVE InBounds(answer')
    <3>1. answer'.call = "values"
      BY <2>4 DEF GetCol, Answer
    <3> QED
      BY <3>1, OtherInBounds
  <2>5. ASSUME NEW name, GetUndefinesCol(name) PROVE InBounds(answer')
    <3>1. answer'.call = "undefines"
      BY <2>5 DEF GetUndefinesCol, Answer
    <3> QED
      BY <3>1, OtherInBounds
  <2>6. ASSUME NEW name, LISA(name) PROVE InBounds(answer')
    <3>1. /\ FeaturesInBounds /\ UndefinesInBounds(name)
          /\ answer'.call = "lisa" /\ answer'.name = name
      BY <2>6 DEF LISA, Answer
    <3> QED
      BY <3>1 DEF InBounds
  <2>7. ASSUME NEW a \in Names, NEW b \in Names, SKATER(<<a, b>>) PROVE InBounds(answer')
    <3>1. CASE SkaterAccepts(<<a, b>>)
      <4>1. /\ numObs <= Len(Remaining)
            /\ answer' = [call |-> "skater", cols |-> <<a, b>>, data |-> SkaterData(<<a, b>>)]
        BY <2>7, <3>1 DEF SKATER, Answer
      <4>2. answer'.call = "skater" /\ answer'.cols = <<a, b>>
        BY <4>1
      <4> QED
        BY <2>2, <3>1, <4>1, <4>2, ReadyFacts DEF InBounds
    <3>2. CASE ~SkaterAccepts(<<a, b>>)
      <4>1. Answer(TRUE, [call |-> "skater refused", cols |-> <<a, b>>])
        BY <2>7, <3>2 DEF SKATER
      <4>2. answer' = [call |-> "skater refused", cols |-> <<a, b>>]
        BY <4>1 DEF Answer
      <4>3. answer'.call = "skater refused"
        BY <4>2
      <4> QED
        BY <4>3, OtherInBounds
    <3> QED
      BY <3>1, <3>2
  <2>8. ASSUME GetGeometry PROVE InBounds(answer')
    <3>1. answer'.call = "geometry"
      BY <2>8 DEF GetGeometry, Answer
    <3> QED
      BY <3>1, OtherInBounds
  <2>9. ASSUME CreateContiguityWeights PROVE InBounds(answer')
    <3>1. CASE mapType = "point"
      <4>1. /\ numObs <= Len(GetCentroids)
            /\ answer' = [call |-> "weights", value |-> Coordinates(GetCentroids)]
        BY <2>9, <3>1 DEF CreateContiguityWeights, Answer
      <4>2. GetCentroids = LocatedIn(poLayer.rows)
        BY <2>2, ReadyFacts DEF GetCentroids
      <4>3. answer'.call = "weights"
        BY <4>1
      <4> QED
        BY <4>1, <4>2, <4>3, OtherInBounds
    <3>2. CASE mapType # "point"
      <4>1. answer'.call \in {"weights", "no weights"}
        <5>1. CASE mapType = "polygon"
          <6>1. answer' = [call |-> "weights",
                           value |-> [r \in DOMAIN poLayer.rows |-> poLayer.rows[r].geom]]
            BY <2>9, <5>1 DEF CreateContiguityWeights, Answer
          <6> QED
            BY <6>1
        <5>2. CASE mapType = "line"
          <6>1. Answer(TRUE, [call |-> "no weights"])
            BY <2>9, <5>2 DEF CreateContiguityWeights
          <6>2. answer' = [call |-> "no weights"]
            BY <6>1 DEF Answer
          <6> QED
            BY <6>2
        <5> QED
          BY <2>9, <3>2, <5>1, <5>2 DEF CreateContiguityWeights
      <4> QED
        BY <3>2, <4>1, OtherInBounds
    <3> QED
      BY <3>1, <3>2
  <2> QED
    BY <1>3, <2>3, <2>4, <2>5, <2>6, <2>7, <2>8, <2>9
<1> QED
  BY <1>1, <1>2, <1>3 DEF AnyStep

(* A column in its place is looked up there, by index and by name.         *)
LEMMA InPlaceFacts ==
  ASSUME Ready, ColumnsKept, CallsInvariant, NEW name, InPlace(name)
  PROVE  /\ name \in DOMAIN fieldNameIdx /\ failed.layer = "no"
         /\ fieldNameIdx[name] + 1 \in DOMAIN poLayer.fields
         /\ FieldNamed(poLayer, name) = fieldNameIdx[name] + 1
<1>1. PICK j \in DOMAIN fieldNames :
        /\ fieldNames[j] = name
        /\ failed.fields \cap 1 .. j = {} /\ j \notin failed.names
        /\ \A k \in j + 1 .. Len(fieldNames) : fieldNames[k] # name
        /\ \A k \in 1 .. j - 1 : ~Alike(fieldNames[k], name)
  BY DEF InPlace
<1>2. /\ phase = "ready" /\ IndexRight /\ FieldsRight
      /\ fieldNames \in Seq(Names)
      /\ table = <<>> => failed.fields = {} /\ failed.names = {}
      /\ failed.layer # "no" => fieldNames = <<>>
      /\ poLayer \in [fields : Seq(Fields), rows : Seq(Stored)]
  BY DEF Ready, CallsInvariant, DataSetInvariant, LayerKept
<1>3. DOMAIN fieldNames = 1 .. Len(fieldNames) /\ Len(fieldNames) \in Nat /\ j \in Nat
  BY <1>2
<1>4. name \in DOMAIN fieldNameIdx /\ fieldNameIdx[name] = j - 1 /\ failed.layer = "no"
  <2>1. ASSUME NEW k \in DOMAIN fieldNames, fieldNames[k] = name PROVE k <= j
    BY <1>1, <1>3, <2>1
  <2>2. fieldNameIdx[fieldNames[j]] = j - 1
    BY <1>1, <1>2, <2>1 DEF IndexRight
  <2>3. fieldNames[j] \in DOMAIN fieldNameIdx
    BY <1>2 DEF IndexRight
  <2>4. failed.layer = "no"
    <3>1. fieldNames # <<>>
      BY <1>3
    <3> QED
      BY <1>2, <3>1
  <2> QED
    BY <1>1, <2>2, <2>3, <2>4
<1>5. fieldNameIdx[name] + 1 = j
  BY <1>3, <1>4
<1>6. j \in DOMAIN poLayer.fields /\ poLayer.fields[j].name = name
  BY <1>1, <1>2 DEF FieldsRight
<1>7. \A g \in 1 .. j - 1 : ~Alike(poLayer.fields[g].name, name)
  <2> SUFFICES ASSUME NEW g \in 1 .. j - 1, Alike(poLayer.fields[g].name, name) PROVE FALSE
    OBVIOUS
  <2>1. CASE table # <<>>
    <3>1. \A f, h \in DOMAIN poLayer.fields :
            Alike(poLayer.fields[f].name, poLayer.fields[h].name) => f = h
      BY <1>2, <2>1 DEF ColumnsKept, FieldsStored
    <3>2. g \in DOMAIN poLayer.fields /\ g # j
      BY <1>2, <1>3, <1>6
    <3> QED
      BY <1>6, <3>1, <3>2
  <2>2. CASE table = <<>>
    <3>1. g \in DOMAIN fieldNames
      BY <1>3
    <3>2. poLayer.fields[g].name = fieldNames[g]
      BY <1>2, <2>2, <3>1 DEF FieldsRight
    <3> QED
      BY <1>1, <3>2
  <2> QED
    BY <2>1, <2>2
<1>8. FieldNamed(poLayer, name) = j
  <2>1. Alike(poLayer.fields[j].name, name)
    BY <1>6 DEF Alike
  <2> QED
    BY <1>2, <1>6, <1>7, <2>1, FirstIsFound
<1> QED
  BY <1>4, <1>5, <1>6, <1>8

LEMMA FlagsMatch ==
  ASSUME Ready, ColumnsKept, CallsInvariant, NEW a, Determined(Data, a), InBounds(a),
         a.call = "lisa", InPlace(a.name), NEW i \in 1 .. numObs
  PROVE  a.undefs[i] <=> a.data[i] = Null
<1> DEFINE name == a.name
           j == fieldNameIdx[name] + 1
           f == FieldNamed(poLayer, name)
<1>1. /\ name \in DOMAIN fieldNameIdx /\ j \in DOMAIN poLayer.fields /\ f = j
      /\ numObs \in Nat /\ poLayer \in [fields : Seq(Fields), rows : Seq(Stored)]
  BY InPlaceFacts, ReadyFacts
<1>2. a.data = ColumnNamed(Data, name) /\ a.undefs = NullsNamed(Data, name)
  <2>1. Data.index = fieldNameIdx
    BY DEF Data
  <2> QED
    BY <1>1, <2>1 DEF Determined
<1>3. a.undefs[i] <=> poLayer.rows[i].cells[j] = Null
  BY <1>2 DEF NullsNamed, Data
<1>4. a.data[i] = IF f \in DOMAIN poLayer.fields THEN poLayer.rows[i].cells[f] ELSE Null
  BY <1>2 DEF ColumnNamed, Cell, Data
<1>5. i \in DOMAIN poLayer.rows
  <2>1. numObs <= Len(features) /\ features \in {<<>>, poLayer.rows}
    BY DEF InBounds, FeaturesInBounds, Ready, DataSetInvariant, ListsKept
  <2>2. Len(<<>>) = 0 /\ Len(poLayer.rows) \in Nat /\ numObs > 0
    BY <1>1
  <2>3. numObs <= Len(poLayer.rows)
    BY <1>1, <2>1, <2>2
  <2> QED
    BY <1>1, <2>3
<1> HIDE DEF f, j
<1> QED
  BY <1>1, <1>3, <1>4, <1>5

(* The flags of LISA are found by index and its values by name; for every  *)
(* column in its place both are of the same field, whatever else was       *)
(* refused, renamed or called alike.                                       *)
THEOREM FlagsAlwaysMatchValues == FrameSpec => []FlagsMatchValues
<1>1. FrameInit => FlagsMatchValues
  BY DEF FrameInit, Init, NoAnswer, FlagsMatchValues
<1>2. ASSUME DataSetInvariant, ColumnsKept, CallsInvariant, FlagsMatchValues,
             AnyStep \/ UNCHANGED vars
      PROVE  FlagsMatchValues'
  <2>1. CASE answer' = NoAnswer
    BY <2>1 DEF NoAnswer, FlagsMatchValues
  <2>2. CASE UNCHANGED <<poLayer, schema, features, answer, failed>>
    BY <1>2, <2>2 DEF schema, FlagsMatchValues, InPlace
  <2>3. ASSUME Ready, UNCHANGED <<poLayer, schema, features, failed>>,
               Determined(Data, answer'), InBounds(answer')
        PROVE  FlagsMatchValues'
    <3>1. answer'.call = "lisa" /\ InPlace(answer'.name) =>
            \A i \in 1 .. numObs : answer'.undefs[i] <=> answer'.data[i] = Null
      BY <1>2, <2>3, FlagsMatch
    <3> QED
      BY <2>3, <3>1 DEF schema, FlagsMatchValues, InPlace
  <2> QED
    BY <1>2, <2>1, <2>2, <2>3, AnswerGiven
<1>3. /\ FrameInvariant /\ DataSetInvariant /\ ColumnsKept /\ CallsInvariant
      /\ FlagsMatchValues /\ [FrameNext]_<<converting, vars>>
      => FlagsMatchValues'
  BY <1>2, FrameSteps
<1> QED
  BY <1>1, <1>3, DataSetIsInvariant, AlwaysCallsInvariant, PTL DEF FrameSpec

LEMMA SkaterSees ==
  ASSUME Ready, ColumnsKept, CallsInvariant, NEW a, Determined(Data, a), InBounds(a),
         a.call = "skater", NEW c \in DOMAIN a.cols, InPlace(a.cols[c]),
         NEW i \in 1 .. numObs
  PROVE  a.data[c][i] = ValuesOf(a.cols[c])[i]
<1> DEFINE name == a.cols[c]
           j == fieldNameIdx[name] + 1
           f == FieldNamed(poLayer, name)
<1>1. /\ j \in DOMAIN poLayer.fields /\ failed.layer = "no" /\ f = j
      /\ numObs \in Nat /\ poLayer \in [fields : Seq(Fields), rows : Seq(Stored)]
  BY InPlaceFacts, ReadyFacts
<1>2. i \in DOMAIN poLayer.rows /\ features = poLayer.rows
  <2>1. numObs <= Len(poLayer.rows)
    BY DEF InBounds
  <2>2. Len(poLayer.rows) \in Nat
    BY <1>1
  <2> QED
    BY <1>1, <2>1, <2>2 DEF Ready, CallsInvariant
<1>3. a.data[c][i] = poLayer.rows[i].cells[j]
  <2>1. Data.index = fieldNameIdx /\ Data.layer = poLayer
    BY DEF Data
  <2>2. a.data = [d \in DOMAIN a.cols |->
          [r \in DOMAIN Data.layer.rows |-> Cell(Data, Data.index[a.cols[d]] + 1, r)]]
    BY DEF Determined
  <2>3. a.data[c][i] = Cell(Data, j, i)
    BY <1>2, <2>1, <2>2
  <2> HIDE DEF j
  <2> QED
    BY <1>1, <2>1, <2>3 DEF Cell
<1>4. ValuesOf(name)[i] = IF f = 0 THEN Null ELSE poLayer.rows[i].cells[f]
  BY <1>2 DEF ValuesOf
<1>5. 0 \notin DOMAIN poLayer.fields
  BY <1>1
<1> HIDE DEF f, j
<1> QED
  BY <1>1, <1>2, <1>3, <1>4, <1>5

(* SKATER reads the layer by index, GetNumericCol the features by name:    *)
(* for every column in its place they are the same values, whatever else   *)
(* was refused, renamed or called alike.                                   *)
THEOREM SkaterAlwaysSeesTheColumns == FrameSpec => []SkaterSeesTheColumns
<1>1. FrameInit => SkaterSeesTheColumns
  BY DEF FrameInit, Init, NoAnswer, SkaterSeesTheColumns
<1>2. ASSUME DataSetInvariant, ColumnsKept, CallsInvariant, SkaterSeesTheColumns,
             AnyStep \/ UNCHANGED vars
      PROVE  SkaterSeesTheColumns'
  <2>1. CASE answer' = NoAnswer
    BY <2>1 DEF NoAnswer, SkaterSeesTheColumns
  <2>2. CASE UNCHANGED <<poLayer, schema, features, answer, failed>>
    BY <1>2, <2>2 DEF schema, SkaterSeesTheColumns, InPlace, ValuesOf
  <2>3. ASSUME Ready, UNCHANGED <<poLayer, schema, features, failed>>,
               Determined(Data, answer'), InBounds(answer')
        PROVE  SkaterSeesTheColumns'
    <3>1. answer'.call = "skater" =>
            \A c \in DOMAIN answer'.cols : InPlace(answer'.cols[c]) =>
              \A i \in 1 .. numObs : answer'.data[c][i] = ValuesOf(answer'.cols[c])[i]
      BY <1>2, <2>3, SkaterSees
    <3> QED
      BY <2>3, <3>1 DEF schema, SkaterSeesTheColumns, InPlace, ValuesOf
  <2> QED
    BY <1>2, <2>1, <2>2, <2>3, AnswerGiven
<1>3. /\ FrameInvariant /\ DataSetInvariant /\ ColumnsKept /\ CallsInvariant
      /\ SkaterSeesTheColumns /\ [FrameNext]_<<converting, vars>>
      => SkaterSeesTheColumns'
  BY <1>2, FrameSteps
<1> QED
  BY <1>1, <1>3, DataSetIsInvariant, AlwaysCallsInvariant, PTL DEF FrameSpec

LEMMA PointsMatch ==
  ASSUME Ready, CallsInvariant, NEW a, Determined(Data, a), InBounds(a),
         a.call = "weights", mapType = "point"
  PROVE  /\ DOMAIN a.value = 1 .. numObs
         /\ \A i \in 1 .. numObs : a.value[i].x.of = i /\ a.value[i].y.of = i
<1> DEFINE rows == poLayer.rows
           located == LocatedIn(rows)
<1>1. rows \in Seq(Stored) /\ numObs \in Nat /\ Len(rows) \in Nat /\ DOMAIN rows = 1 .. Len(rows)
  BY ReadyFacts
<1>2. /\ Len(rows) <= numObs
      /\ Len(rows) = numObs => \A r \in DOMAIN rows : rows[r].geom \in {NoGeometry, r}
  BY DEF Ready, CallsInvariant, RowsInPlace
<1>3. a.value = [i \in 1 .. numObs |-> [x |-> GetX(located[i]), y |-> GetX(located[i])]]
  BY DEF Determined, Data
<1>4. numObs <= Len(located)
  BY DEF InBounds
<1>5. /\ Len(located) \in Nat /\ Len(located) <= Len(rows)
      /\ DOMAIN located = 1 .. Len(located)
      /\ Len(located) = Len(rows) <=> \A r \in DOMAIN rows : rows[r].geom # NoGeometry
      /\ Len(located) = Len(rows) => \A k \in DOMAIN rows : located[k] = rows[k].geom
  BY <1>1, LocatedFacts
<1> HIDE DEF rows, located
<1>6. Len(located) = Len(rows) /\ Len(rows) = numObs
  <2>1. /\ Len(rows) \in Nat /\ numObs \in Nat /\ Len(located) \in Nat
        /\ Len(rows) <= numObs /\ numObs <= Len(located) /\ Len(located) <= Len(rows)
    BY <1>1, <1>2, <1>4, <1>5
  <2> QED
    BY <2>1
<1>7. \A k \in 1 .. numObs : located[k] = k
  BY <1>1, <1>2, <1>5, <1>6
<1> QED
  BY <1>3, <1>7 DEF GetX

(* The weights of a point map are made of one pair of coordinates for each *)
(* observation, taken from its own geometry, or the list of centroids is   *)
(* too short to be read: which geometry, not which of its coordinates.     *)
THEOREM PointsAlwaysInPlace == FrameSpec => []PointsInPlace
<1>1. FrameInit => PointsInPlace
  BY DEF FrameInit, Init, NoAnswer, PointsInPlace
<1>2. ASSUME DataSetInvariant, CallsInvariant, PointsInPlace, AnyStep \/ UNCHANGED vars
      PROVE  PointsInPlace'
  <2>1. CASE answer' = NoAnswer
    BY <2>1 DEF NoAnswer, PointsInPlace
  <2>2. CASE UNCHANGED <<poLayer, schema, features, answer, failed>>
    BY <1>2, <2>2 DEF schema, PointsInPlace
  <2>3. ASSUME Ready, UNCHANGED <<poLayer, schema, features, failed>>,
               Determined(Data, answer'), InBounds(answer')
        PROVE  PointsInPlace'
    BY <1>2, <2>3, PointsMatch DEF schema, PointsInPlace
  <2> QED
    BY <1>2, <2>1, <2>2, <2>3, AnswerGiven
<1>3. /\ FrameInvariant /\ DataSetInvariant /\ ColumnsKept /\ CallsInvariant
      /\ PointsInPlace /\ [FrameNext]_<<converting, vars>>
      => PointsInPlace'
  BY <1>2, FrameSteps
<1> QED
  BY <1>1, <1>3, DataSetIsInvariant, AlwaysCallsInvariant, PTL DEF FrameSpec
(* Nothing has failed, and no geometry is missing.                         *)
InFull ==
  /\ failed.layer = "no"
  /\ failed.fields \cup failed.geometries \cup failed.rows = {}
  /\ \A r \in DOMAIN poLayer.rows : poLayer.rows[r].geom # NoGeometry

(* No call goes out of bounds in a data set that is there in full.         *)
LEMMA FullIsInBounds ==
  ASSUME Ready, CallsInvariant, InFull
  PROVE  /\ FeaturesInBounds /\ \A name : UndefinesInBounds(name)
         /\ Len(Remaining) = numObs
         /\ \A r \in DOMAIN Remaining : Remaining[r].geom # NoGeometry
         /\ numObs <= Len(GetCentroids)
<1>1. /\ poLayer \in [fields : Seq(Fields), rows : Seq(Stored)] /\ numObs \in Nat
      /\ Remaining = poLayer.rows /\ centroids \in {<<>>, LocatedIn(poLayer.rows)}
  BY ReadyFacts
<1>2. /\ Len(poLayer.rows) = numObs /\ features = poLayer.rows
      /\ Len(poLayer.fields) = Len(fieldNames)
      /\ fieldNames \in Seq(Names) /\ IndexRight
  BY DEF Ready, CallsInvariant, InFull, RowsInPlace, FieldsRight
<1>3. FeaturesInBounds
  BY <1>1, <1>2 DEF FeaturesInBounds
<1>4. ASSUME NEW name \in DOMAIN fieldNameIdx
      PROVE  fieldNameIdx[name] < Len(poLayer.fields)
  <2> DEFINE named == {j \in DOMAIN fieldNames : fieldNames[j] = name}
  <2>1. named # {} /\ named \in SUBSET (1 .. Len(fieldNames)) /\ Len(fieldNames) \in Nat
    BY <1>2, <1>4 DEF IndexRight
  <2>2. PICK j \in named : \A k \in named : k <= j
    <3> HIDE DEF named
    <3> QED
      BY <2>1, Greatest
  <2>3. fieldNameIdx[name] = j - 1
    BY <1>2, <2>2 DEF IndexRight
  <2> QED
    BY <1>2, <2>1, <2>3
<1>5. numObs <= Len(GetCentroids)
  <2>1. GetCentroids = LocatedIn(poLayer.rows)
    BY <1>1 DEF GetCentroids
  <2>2. Len(LocatedIn(poLayer.rows)) = Len(poLayer.rows)
    BY <1>1, LocatedFacts DEF InFull
  <2> QED
    BY <1>1, <1>2, <2>1, <2>2
<1> QED
  BY <1>1, <1>2, <1>3, <1>4, <1>5 DEF UndefinesInBounds, InFull

LEMMA UndefinedStep ==
  ASSUME DataSetInvariant, CallsInvariant, UndefinedOnlyAfterFailure,
         AnyStep \/ UNCHANGED vars
  PROVE  UndefinedOnlyAfterFailure'
<1>1. CASE \/ \E tab \in Seq(ColumnSet) : \E map_type : CreateLayer(tab, map_type)
           \/ \E accepted \in BOOLEAN, written \in Names : CreateField(accepted, written)
           \/ FieldsDone
           \/ \E good, stored \in BOOLEAN : CreateFeature(good, stored)
           \/ FeaturesDone
           \/ \E file \in Files, name \in LayerNames : Open(file, name)
           \/ ReadAllFeatures
  <2>1. phase' # "undefined"
    BY <1>1 DEF CreateLayer, CreateField, FieldsDone, CreateFeature, FeaturesDone, Open,
      ReadAllFeatures
  <2> QED
    BY <2>1 DEF UndefinedOnlyAfterFailure
<1>2. CASE NoLayerCreated \/ \E file \in Files : OpenFails(file)
  <2>1. failed \in Failures
    BY DEF DataSetInvariant, TypesKept
  <2>2. failed'.layer \in {"not created", "not opened"}
    BY <1>2, <2>1 DEF NoLayerCreated, OpenFails, Failures
  <2> QED
    BY <2>2 DEF UndefinedOnlyAfterFailure
<1>3. CASE ReadBeyondColumn
  <2>1. row + 1 \in 1 .. N /\ ShortColumn(row + 1) /\ table' = table
    BY <1>3, StartFacts DEF ReadBeyondColumn, GoUndefined, building
  <2>2. PICK j \in Columns : Len(table[j].vals) < row + 1
    BY <2>1 DEF ShortColumn
  <2>3. table[j] \in ColumnSet
    BY DEF DataSetInvariant, TypesKept, Columns
  <2>4. Len(table[j].vals) < N
    <3>1. Len(table[j].vals) \in Nat
      BY <2>3 DEF ColumnSet
    <3> QED
      BY <2>1, <2>2, <3>1, StartFacts
  <2>5. ShortColumn(N)'
    BY <2>1, <2>4 DEF ShortColumn, Columns, N
  <2> QED
    BY <2>5 DEF UndefinedOnlyAfterFailure, N
<1>4. CASE \/ \E name : GetCol(name) \/ GetUndefinesCol(name) \/ LISA(name)
           \/ \E a, b \in Names : SKATER(<<a, b>>)
           \/ GetGeometry
           \/ CreateContiguityWeights
  <2>1. PICK inBounds, value : Answer(inBounds, value)
    BY <1>4 DEF GetCol, GetUndefinesCol, LISA, SKATER, GetGeometry, CreateContiguityWeights
  <2>2. Ready /\ UNCHANGED <<poLayer, failed>>
    BY <2>1 DEF Answer, Ready
  <2>3. CASE ~InFull
    BY <2>2, <2>3 DEF InFull, UndefinedOnlyAfterFailure
  <2>4. CASE InFull
    <3>1. /\ FeaturesInBounds /\ \A name : UndefinesInBounds(name)
          /\ Len(Remaining) = numObs /\ numObs \in Nat
          /\ \A r \in DOMAIN Remaining : Remaining[r].geom # NoGeometry
          /\ numObs <= Len(GetCentroids)
      BY <2>2, <2>4, FullIsInBounds, ReadyFacts
    <3>2. phase' = "ready"
      <4>1. ASSUME NEW name, GetCol(name) \/ GetUndefinesCol(name) \/ LISA(name)
            PROVE  phase' = "ready"
        BY <3>1, <4>1 DEF GetCol, GetUndefinesCol, LISA, Answer
      <4>2. ASSUME NEW a \in Names, NEW b \in Names, SKATER(<<a, b>>)
            PROVE  phase' = "ready"
        <5>1. \E v : Answer(numObs <= Len(Remaining), v) \/ Answer(TRUE, v)
          BY <4>2 DEF SKATER
        <5> QED
          BY <3>1, <5>1 DEF Answer
      <4>3. ASSUME GetGeometry PROVE phase' = "ready"
        BY <3>1, <4>3 DEF GetGeometry, Answer
      <4>4. ASSUME CreateContiguityWeights PROVE phase' = "ready"
        BY <3>1, <4>4 DEF CreateContiguityWeights, Answer
      <4> QED
        BY <1>4, <4>1, <4>2, <4>3, <4>4
    <3> QED
      BY <3>2 DEF UndefinedOnlyAfterFailure
  <2> QED
    BY <2>3, <2>4
<1>5. CASE UNCHANGED vars
  BY <1>5 DEF vars, building, UndefinedOnlyAfterFailure, ShortColumn, Columns
<1> QED
  BY <1>1, <1>2, <1>3, <1>4, <1>5 DEF AnyStep

(* Neither building from columns that are long enough, nor any sequence of *)
(* calls, goes out of bounds or uses a null pointer while nothing has      *)
(* failed and no geometry is missing.                                      *)
THEOREM OnlyFailureIsUndefined == FrameSpec => []UndefinedOnlyAfterFailure
<1>1. FrameInit => UndefinedOnlyAfterFailure
  BY DEF FrameInit, Init, UndefinedOnlyAfterFailure
<1>2. /\ FrameInvariant /\ DataSetInvariant /\ ColumnsKept /\ CallsInvariant
      /\ UndefinedOnlyAfterFailure /\ [FrameNext]_<<converting, vars>>
      => UndefinedOnlyAfterFailure'
  BY FrameSteps, UndefinedStep
<1> QED
  BY <1>1, <1>2, DataSetIsInvariant, AlwaysCallsInvariant, PTL DEF FrameSpec
-----------------------------------------------------------------------------
(* The part of TypeOK that follows, the layer being there.                 *)
SchemaTypes ==
  /\ poLayer \in [fields : Seq(Fields), rows : Seq(Stored)]
  /\ \A r \in DOMAIN poLayer.rows : DOMAIN poLayer.rows[r].cells = DOMAIN poLayer.fields
  /\ table \in Seq(ColumnSet) /\ row \in 0 .. N /\ numObs \in Nat
  /\ fieldNames \in Seq(Names)
  /\ DOMAIN fieldNameIdx \subseteq Names
  /\ \A n \in DOMAIN fieldNameIdx : fieldNameIdx[n] \in 0 .. Len(fieldNames) - 1
  /\ failed.fields \cup failed.names \subseteq DOMAIN fieldNames
  /\ failed \in Failures

Opened == phase \in {"fields", "features", "reading", "ready"}

LEMMA LayerHasTypes == DataSetInvariant /\ CallsInvariant /\ Opened => SchemaTypes
<1> SUFFICES ASSUME DataSetInvariant, CallsInvariant, Opened
             PROVE  SchemaTypes
  OBVIOUS
<1>1. /\ poLayer \in [fields : Seq(Fields), rows : Seq(Stored)]
      /\ \A r \in DOMAIN poLayer.rows : DOMAIN poLayer.rows[r].cells = DOMAIN poLayer.fields
      /\ table \in Seq(ColumnSet) /\ row \in 0 .. N /\ numObs \in Nat /\ failed \in Failures
  BY DEF Opened, DataSetInvariant, TypesKept, LayerKept
<1>2. /\ fieldNames \in Seq(Names) /\ IndexRight
      /\ failed.fields \cup failed.names \subseteq DOMAIN fieldNames
  BY DEF Opened, CallsInvariant
<1>3. DOMAIN fieldNameIdx \subseteq Names
  BY <1>2 DEF IndexRight
<1>4. ASSUME NEW name \in DOMAIN fieldNameIdx
      PROVE  fieldNameIdx[name] \in 0 .. Len(fieldNames) - 1
  <2> DEFINE named == {j \in DOMAIN fieldNames : fieldNames[j] = name}
  <2>1. named # {} /\ named \in SUBSET (1 .. Len(fieldNames)) /\ Len(fieldNames) \in Nat
    BY <1>2, <1>4 DEF IndexRight
  <2>2. PICK j \in named : \A k \in named : k <= j
    <3> HIDE DEF named
    <3> QED
      BY <2>1, Greatest
  <2>3. fieldNameIdx[name] = j - 1
    BY <1>2, <2>2 DEF IndexRight
  <2> QED
    BY <2>1, <2>3
<1> QED
  BY <1>1, <1>2, <1>3, <1>4 DEF SchemaTypes

(* The rest of it.                                                         *)
OtherTypes ==
  /\ poLayer # NoLayer =>
       /\ reading \in 0 .. Len(poLayer.rows)
       /\ Len(features) <= Len(poLayer.rows)
  /\ wkb_offset \in Nat
  /\ numCols \in Nat \cup SomeInts
  /\ mapType \in MapTypes \cup {Unset}
  /\ fieldTypes \in Seq(Types)
  /\ failed.geometries \cup failed.rows \subseteq 1 .. row
  /\ kept \in Seq(1 .. row)
  /\ Len(centroids) <= Len(features) \/ failed.layer = "unsupported"

(* Nothing has been read before the layer is there in full.                *)
TypeInvariant ==
  TypeOK /\ (phase \in {"unbuilt", "fields", "features", "reading"} => reading = 0)

LEMMA TypesFollow ==
  DataSetInvariant /\ SchemaTypes /\ OtherTypes => TypeOK
BY DEF DataSetInvariant, TypesKept, SchemaTypes, OtherTypes, TypeOK, ColumnSet, N

LEMMA TypeStep ==
  ASSUME DataSetInvariant, CallsInvariant, TypeInvariant,
         DataSetInvariant', CallsInvariant', AnyStep \/ UNCHANGED vars
  PROVE  TypeInvariant'
<1>1. /\ Opened' => SchemaTypes'
      /\ Opened' => Len(poLayer'.rows) \in Nat
  <2>1. Opened' => SchemaTypes'
    BY LayerHasTypes, PTL
  <2> QED
    BY <2>1 DEF SchemaTypes
<1>2. ASSUME Opened', OtherTypes', reading' = 0 \/ phase' = "ready" PROVE TypeInvariant'
  <2>1. SchemaTypes'
    BY <1>1, <1>2
  <2>2. TypeOK'
    BY <1>2, <2>1, TypesFollow, PTL
  <2> QED
    BY <1>2, <2>2 DEF TypeInvariant
<1>3. /\ phase \in {"unbuilt", "fields", "features", "reading"} =>
           reading = 0 /\ features = <<>> /\ centroids = <<>>
      /\ wkb_offset \in Nat /\ fieldTypes \in Seq(Types) /\ kept \in Seq(1 .. row)
      /\ numCols \in Nat \cup SomeInts /\ mapType \in MapTypes \cup {Unset}
      /\ failed.geometries \cup failed.rows \subseteq 1 .. row
      /\ failed \in Failures /\ row \in Nat /\ Len(<<>>) = 0
  BY StartFacts DEF TypeInvariant, TypeOK, DataSetInvariant, ListsKept, TypesKept
<1>4. CASE \E tab \in Seq(ColumnSet) : \E map_type : CreateLayer(tab, map_type)
  <2>1. /\ phase = "unbuilt" /\ phase' = "fields"
        /\ \E tab \in Seq(ColumnSet) : numCols' = Len(tab)
        /\ mapType' \in MapTypes
        /\ UNCHANGED <<reading, row, wkb_offset, fieldTypes, features, centroids, kept, failed>>
    BY <1>4 DEF CreateLayer
  <2>2. Opened' /\ numCols' \in Nat
    BY <2>1 DEF Opened
  <2>3. OtherTypes'
    BY <1>1, <1>3, <2>1, <2>2 DEF OtherTypes
  <2> QED
    BY <1>2, <1>3, <2>1, <2>2, <2>3
<1>5. CASE NoLayerCreated \/ ReadBeyondColumn \/ \E file \in Files : OpenFails(file)
  <2>1. /\ phase' = "undefined"
        /\ UNCHANGED <<poLayer, reading, building, schema, features, centroids, kept>>
        /\ failed'.fields = failed.fields /\ failed'.names = failed.names
        /\ failed'.geometries = failed.geometries /\ failed'.rows = failed.rows
        /\ failed.layer = "unsupported" => failed'.layer = failed.layer
    <3>1. phase = "unbuilt" => failed.layer = "no"
      BY DEF CallsInvariant, NothingYet
    <3> QED
      BY <1>3, <1>5, <3>1 DEF NoLayerCreated, ReadBeyondColumn, OpenFails, GoUndefined, Failures
  <2> QED
    BY <2>1 DEF TypeInvariant, TypeOK, building, schema
<1>6. CASE \E accepted \in BOOLEAN, written \in Names : CreateField(accepted, written)
  <2> DEFINE j == Len(fieldNames) + 1
  <2>1. PICK accepted \in BOOLEAN, written \in Names : CreateField(accepted, written)
    BY <1>6
  <2>2. /\ phase = "fields" /\ phase' = "fields"
        /\ fieldTypes' = Append(fieldTypes, table[j].type) /\ j \in Columns
        /\ UNCHANGED <<reading, row, wkb_offset, numCols, mapType, features, centroids, kept>>
    BY <2>1 DEF CreateField, building
  <2>3. failed'.geometries = failed.geometries /\ failed'.rows = failed.rows
    BY <1>3, <2>1 DEF CreateField, Failures
  <2>4. table[j] \in ColumnSet
    BY <2>2 DEF DataSetInvariant, TypesKept, Columns
  <2>5. table[j].type \in Types
    BY <2>4 DEF ColumnSet
  <2>6. Opened'
    BY <2>2 DEF Opened
  <2>7. fieldTypes' \in Seq(Types)
    <3> HIDE DEF j
    <3> QED
      BY <1>3, <2>2, <2>5
  <2>8. OtherTypes'
    BY <1>1, <1>3, <2>2, <2>3, <2>6, <2>7 DEF OtherTypes
  <2> QED
    BY <1>2, <1>3, <2>2, <2>6, <2>8
<1>7. CASE \E good, stored \in BOOLEAN : CreateFeature(good, stored)
  <2> DEFINE i == row + 1
  <2>1. PICK good \in BOOLEAN, stored \in BOOLEAN : CreateFeature(good, stored)
    BY <1>7
  <2>2. /\ phase = "features" /\ phase' = "features" /\ row' = i
        /\ i \in DOMAIN BytesLen /\ kept' \in {kept, Append(kept, i)}
        /\ wkb_offset' = wkb_offset + BytesLen[i]
        /\ failed' = [failed EXCEPT !.geometries = IF good THEN @ ELSE @ \cup {i},
                                    !.rows = IF stored THEN @ ELSE @ \cup {i}]
        /\ UNCHANGED <<reading, fieldTypes, numCols, mapType, features, centroids>>
    BY <2>1 DEF CreateFeature, schema, Advanced
  <2>3. /\ failed'.geometries \subseteq failed.geometries \cup {i}
        /\ failed'.rows \subseteq failed.rows \cup {i}
    <3> HIDE DEF i
    <3> QED
      BY <1>3, <2>2 DEF Failures
  <2>4. failed'.geometries \cup failed'.rows \subseteq 1 .. row'
    BY <1>3, <2>2, <2>3
  <2>5. kept' \in Seq(1 .. row')
    <3>1. kept \in Seq(1 .. i) /\ i \in 1 .. i
      BY <1>3
    <3> HIDE DEF i
    <3>2. Append(kept, i) \in Seq(1 .. i)
      BY <3>1
    <3> QED
      BY <2>2, <3>1, <3>2
  <2>6. wkb_offset' \in Nat
    BY <1>3, <2>2, StartFacts
  <2>7. Opened'
    BY <2>2 DEF Opened
  <2>8. OtherTypes'
    BY <1>1, <1>3, <2>2, <2>4, <2>5, <2>6, <2>7 DEF OtherTypes
  <2> QED
    BY <1>2, <1>3, <2>2, <2>7, <2>8
<1>8. CASE \E file \in Files, name \in LayerNames : Open(file, name)
  <2>1. PICK file \in Files, name \in LayerNames : Open(file, name)
    BY <1>8
  <2> DEFINE layer == file[LayerFor(file, name)]
  <2>2. /\ phase = "unbuilt" /\ phase' \in {"reading", "ready"} /\ file # <<>>
        /\ mapType' \in MapTypes /\ numCols' \in {Len(layer.fields)} \cup SomeInts
        /\ fieldTypes' \in {fieldTypes, [f \in DOMAIN layer.fields |-> layer.fields[f].type]}
        /\ failed' \in {failed, [failed EXCEPT !.layer = "unsupported"]}
        /\ UNCHANGED <<reading, row, wkb_offset, features, centroids, kept>>
    BY <2>1 DEF Open, building
  <2>3. layer \in Layers
    BY <2>2, LayerForFacts
  <2> HIDE DEF layer
  <2>4. layer.fields \in Seq(Fields)
    BY <2>3 DEF Layers
  <2>5. [f \in DOMAIN layer.fields |-> layer.fields[f].type] \in Seq(Types)
    <3> DEFINE F == layer.fields
    <3>1. F \in Seq(Fields)
      BY <2>4
    <3> HIDE DEF F
    <3>2. DOMAIN F = 1 .. Len(F) /\ Len(F) \in Nat /\ \A f \in 1 .. Len(F) : F[f] \in Fields
      BY <3>1
    <3>3. \A f \in 1 .. Len(F) : F[f].type \in Types
      BY <3>2 DEF Fields
    <3>4. [f \in DOMAIN F |-> F[f].type] \in Seq(Types)
      BY <3>2, <3>3
    <3> QED
      BY <3>4 DEF F
  <2>6. Len(layer.fields) \in Nat
    BY <2>4
  <2>7. failed'.geometries = failed.geometries /\ failed'.rows = failed.rows
    BY <1>3, <2>2 DEF Failures
  <2>8. Opened'
    BY <2>2 DEF Opened
  <2>9. fieldTypes' \in Seq(Types) /\ numCols' \in Nat \cup SomeInts
    BY <1>3, <2>2, <2>5, <2>6
  <2>10. OtherTypes'
    BY <1>1, <1>3, <2>2, <2>7, <2>8, <2>9 DEF OtherTypes
  <2> QED
    BY <1>2, <1>3, <2>2, <2>8, <2>10
<1>9. CASE FieldsDone \/ FeaturesDone
  <2>1. /\ phase \in {"fields", "features"} /\ phase' \in {"features", "reading"}
        /\ UNCHANGED <<reading, row, wkb_offset, fieldTypes, numCols, mapType, features,
                       centroids, kept, failed>>
    BY <1>9 DEF FieldsDone, FeaturesDone, building, schema
  <2>2. Opened'
    BY <2>1 DEF Opened
  <2>3. OtherTypes'
    BY <1>1, <1>3, <2>1, <2>2 DEF OtherTypes
  <2> QED
    BY <1>2, <1>3, <2>1, <2>2, <2>3
<1>10. CASE ReadAllFeatures
  <2>1. /\ phase = "reading" /\ phase' = "ready" /\ poLayer' = poLayer
        /\ features' = features \o Remaining /\ reading' = Len(poLayer.rows)
        /\ UNCHANGED <<row, wkb_offset, fieldTypes, numCols, mapType, centroids, kept, failed>>
    BY <1>10 DEF ReadAllFeatures, building, schema, ReadToEnd
  <2>2. features' = poLayer.rows
    BY <1>3, <2>1, AllRemain DEF DataSetInvariant, LayerKept
  <2>3. Opened'
    BY <2>1 DEF Opened
  <2>4. OtherTypes'
    BY <1>1, <1>3, <2>1, <2>2, <2>3 DEF OtherTypes
  <2> QED
    BY <1>2, <2>1, <2>3, <2>4
<1>11. CASE \/ \E name : GetCol(name) \/ GetUndefinesCol(name) \/ LISA(name)
            \/ \E a, b \in Names : SKATER(<<a, b>>)
            \/ GetGeometry
            \/ CreateContiguityWeights
  <2>1. PICK inBounds, value : Answer(inBounds, value)
    BY <1>11 DEF GetCol, GetUndefinesCol, LISA, SKATER, GetGeometry, CreateContiguityWeights
  <2>2. /\ phase = "ready" /\ phase' \in {"ready", "undefined"}
        /\ UNCHANGED <<poLayer, building, schema, features, kept, failed>>
    BY <2>1 DEF Answer
  <2>3. Ready
    BY <2>2 DEF Ready
  <2>4. /\ poLayer.rows \in Seq(Stored) /\ Len(poLayer.rows) \in Nat
        /\ Remaining = poLayer.rows /\ centroids \in {<<>>, LocatedIn(poLayer.rows)}
    BY <2>3, ReadyFacts
  <2>5. reading' \in {reading, Len(poLayer.rows)}
        /\ centroids' \in {<<>>, LocatedIn(poLayer.rows)}
    BY <1>11, <2>4 DEF GetCol, GetUndefinesCol, LISA, SKATER, GetGeometry,
      CreateContiguityWeights, ReadToEnd, GetCentroids
  <2>6. reading' \in 0 .. Len(poLayer'.rows) /\ Len(features') <= Len(poLayer'.rows)
    <3>1. poLayer # NoLayer
      BY <2>3, ReadyFacts DEF NoLayer
    <3> QED
      BY <2>2, <2>4, <2>5, <3>1 DEF TypeInvariant, TypeOK
  <2>7. Len(centroids') <= Len(features') \/ failed'.layer = "unsupported"
    <3>1. CASE failed.layer = "no"
      <4>1. features' = poLayer.rows
        BY <2>2, <3>1 DEF CallsInvariant
      <4> QED
        BY <1>3, <2>4, <2>5, <4>1, LocatedFacts
    <3>2. CASE failed.layer # "no"
      BY <2>2, <3>2 DEF CallsInvariant
    <3> QED
      BY <3>1, <3>2
  <2>8. OtherTypes'
    BY <1>3, <2>2, <2>6, <2>7 DEF OtherTypes, building, schema
  <2>9. CASE phase' = "ready"
    <3>1. Opened'
      BY <2>9 DEF Opened
    <3> QED
      BY <1>2, <2>8, <2>9, <3>1
  <2>10. CASE phase' = "undefined"
    <3>1. SchemaTypes
      BY <2>2, LayerHasTypes DEF Opened
    <3>2. SchemaTypes'
      BY <2>2, <3>1 DEF SchemaTypes, building, schema
    <3>3. TypeOK'
      BY <2>8, <3>2, TypesFollow, PTL
    <3> QED
      BY <2>10, <3>3 DEF TypeInvariant
  <2> QED
    BY <2>2, <2>9, <2>10
<1>12. CASE UNCHANGED vars
  BY <1>12 DEF vars, building, schema, TypeInvariant, TypeOK
<1> QED
  BY <1>4, <1>5, <1>6, <1>7, <1>8, <1>9, <1>10, <1>11, <1>12 DEF AnyStep

(* The variables have their types, whatever fails and whatever is asked.   *)
THEOREM DataSetTypes == FrameSpec => []TypeOK
<1>1. FrameInit => TypeInvariant
  <2> SUFFICES ASSUME FrameInit PROVE TypeInvariant
    OBVIOUS
  <2>1. /\ phase = "unbuilt" /\ poLayer = NoLayer /\ reading = 0
        /\ table = <<>> /\ row = 0 /\ wkb_offset = 0
        /\ numObs = 0 /\ numCols = 0 /\ mapType = Unset
        /\ fieldNames = <<>> /\ fieldTypes = <<>> /\ fieldNameIdx = <<>>
        /\ features = <<>> /\ centroids = <<>> /\ kept = <<>>
        /\ failed = [fields |-> {}, names |-> {}, geometries |-> {}, rows |-> {}, layer |-> "no"]
    BY DEF FrameInit, Init
  <2> QED
    BY <2>1, StartFacts DEF TypeInvariant, TypeOK, N
<1>2. /\ FrameInvariant /\ DataSetInvariant /\ ColumnsKept /\ CallsInvariant
      /\ DataSetInvariant' /\ CallsInvariant'
      /\ TypeInvariant /\ [FrameNext]_<<converting, vars>>
      => TypeInvariant'
  BY FrameSteps, TypeStep
<1>3. TypeInvariant => TypeOK
  BY DEF TypeInvariant
<1> QED
  BY <1>1, <1>2, <1>3, DataSetIsInvariant, AlwaysCallsInvariant, PTL DEF FrameSpec
-----------------------------------------------------------------------------
(* A data frame on its way.  The columns before the one that a loop has    *)
(* reached are in the table, in order and under a name that is theirs.     *)
Before(S, c) == {h \in S : h < c}

IsNth(S, columns, col, j) ==
  \E c \in S :
    /\ Cardinality(Before(S, c)) = j - 1
    /\ col.name = columns[c].name /\ col.type = ColumnType(columns[c].kind)
    /\ \A h \in DOMAIN columns : columns[h].name = columns[c].name => h = c

Wrote(j) == IsNth(TableColumns, frame.columns, tbl[j], j)

ToBuild == {"columns", "geometries"}

Made == {"dataset", "reading", "shapes", "read"}

StagesInOrder ==
  /\ frame \in Frames
  /\ stage \in ToBuild \cup Made \cup {"raised", "collected", "lost"}
  /\ stage \in ToBuild => phase = "unbuilt"
  /\ stage \in Made \cup {"collected"} => phase # "unbuilt"
  /\ stage \in {"reading", "shapes"} => phase \in {"ready", "undefined"}
  /\ stage = "read" => phase = "ready"
  /\ stage = "lost" => phase = "undefined" /\ failed.layer = "not created"
  /\ stage \in ToBuild \cup {"dataset"} => df = <<>> /\ geoms = <<>>

ColumnsTaken ==
  /\ stage = "columns" =>
       next \in 1 .. Len(frame.columns) + 1 /\ Len(tbl) = Cardinality(Before(TableColumns, next))
  /\ stage \in {"geometries"} \cup Made => Len(tbl) = Cardinality(TableColumns)
  /\ \A j \in DOMAIN tbl : Wrote(j)

GeometriesTaken ==
  wkb \in Seq(Rows) /\ (DefaultIndex => \A k \in DOMAIN wkb : wkb[k] = k)

(* The data set is that of the frame; only missing geometries have failed. *)
HandedIn ==
  phase # "unbuilt" /\ stage # "lost" =>
    /\ numObs = N /\ Len(wkb) = N
    /\ numCols = Len(tbl) /\ table = tbl
    /\ MapTypeOf(frame) \in MapTypes => mapType = MapTypeOf(frame)
    /\ \A i \in failed.geometries : frame.geoms[wkb[i]] = "missing"
    /\ failed.layer = "no"
    /\ phase \in {"reading", "ready"} => row = N

(* What has been read is what the data set answers.                        *)
ReadBack ==
  /\ stage \in {"reading", "read"} => \A name \in DOMAIN df :
       name \in Names /\ df[name] = ValuesOf(name) /\ FeaturesInBounds
  /\ stage = "reading" => next \in 1 .. numCols + 1
  /\ stage = "reading" /\ phase = "ready" =>
       DOMAIN df = {fieldNames[j] : j \in 1 .. next - 1}
  /\ stage = "shapes" => df = <<>> /\ frame.binding # "geopandas"
  /\ stage = "read" =>
       \/ DOMAIN df = {fieldNames[j] : j \in 1 .. numCols}
       \/ frame.binding # "geopandas" /\ df = <<>>
  /\ stage \in {"reading", "shapes", "read"} /\ (geoms # <<>> \/ stage = "read") =>
       \A i \in Rows : geoms[i] = i

OnItsWay ==
  stage # "direct" =>
    StagesInOrder /\ ColumnsTaken /\ GeometriesTaken /\ HandedIn /\ ReadBack

(* What a frame has.                                                       *)
LEMMA FrameFacts ==
  ASSUME StagesInOrder
  PROVE  /\ frame.columns \in
              Seq([name : Names \cup {"geometry"}, string : BOOLEAN, kind : Kinds,
                   vals : [Rows -> Forms]])
         /\ Len(frame.columns) \in Nat /\ DOMAIN frame.columns = 1 .. Len(frame.columns)
         /\ frame.binding \in {"geopandas", "sf", "sp"}
         /\ \A r \in Rows : frame.geoms[r] \in {"point", "polygon", "line", "missing"}
         /\ TableColumns \in SUBSET (1 .. Len(frame.columns))
         /\ frame.binding # "geopandas" =>
              \A j, k \in DOMAIN frame.columns :
                j # k => frame.columns[j].name # frame.columns[k].name
<1> DEFINE FrameColumnSet == [name : Names \cup {"geometry"}, string : BOOLEAN,
                              kind : Kinds, vals : [Rows -> Forms]]
<1>1. /\ frame.columns \in Seq(FrameColumnSet)
      /\ frame.binding \in {"geopandas", "sf", "sp"}
      /\ frame.geoms \in [Rows -> {"point", "polygon", "line", "missing"}]
      /\ frame.binding # "geopandas" =>
           \A j, k \in DOMAIN frame.columns :
             j # k => frame.columns[j].name # frame.columns[k].name
  BY FramesAssumption DEF StagesInOrder
<1> HIDE DEF FrameColumnSet
<1>2. Len(frame.columns) \in Nat /\ DOMAIN frame.columns = 1 .. Len(frame.columns)
  BY <1>1
<1>3. TableColumns \in SUBSET (1 .. Len(frame.columns))
  BY <1>2 DEF TableColumns
<1> QED
  BY <1>1, <1>2, <1>3 DEF FrameColumnSet

(* What is said of the columns is said of the frame and the table alone.   *)
LEMMA SameFrame ==
  ASSUME UNCHANGED <<frame, tbl>>
  PROVE  /\ TableColumns' = TableColumns
         /\ (\A j \in DOMAIN tbl : Wrote(j)) => \A j \in DOMAIN tbl' : Wrote(j)'
<1>1. TableColumns' = TableColumns
  BY DEF TableColumns
<1>2. ASSUME NEW j \in DOMAIN tbl, Wrote(j) PROVE Wrote(j)'
  BY <1>1, <1>2 DEF Wrote
<1> QED
  BY <1>1, <1>2

(* A column is taken under a name that no other has.                       *)
LEMMA NameIsItsOwn ==
  ASSUME StagesInOrder, next \in DOMAIN frame.columns,
         ~ColumnRefused(frame.columns[next])
  PROVE  \A h \in DOMAIN frame.columns :
           frame.columns[h].name = frame.columns[next].name => h = next
<1> DEFINE S == {j \in DOMAIN frame.columns : frame.columns[j].name = frame.columns[next].name}
<1>1. CASE frame.binding # "geopandas"
  BY <1>1, FrameFacts
<1>2. CASE frame.binding = "geopandas"
  <2>1. ~(Cardinality(S) > 1)
    BY <1>2 DEF ColumnRefused
  <2>2. S \in SUBSET (1 .. Len(frame.columns)) /\ Len(frame.columns) \in Nat /\ next \in S
    BY FrameFacts
  <2> SUFFICES ASSUME NEW h \in S, h # next PROVE FALSE
    OBVIOUS
  <2> HIDE DEF S
  <2>3. IsFiniteSet(S) /\ Cardinality(S) \in Nat
    BY <2>2, BeforeFacts
  <2>4. IsFiniteSet({next}) /\ Cardinality({next}) = 1
    BY FS_Singleton
  <2>5. Cardinality({next} \cup {h}) = 2
    <3>1. h \notin {next}
      OBVIOUS
    <3>2. Cardinality({next} \cup {h}) = Cardinality({next}) + 1
      BY <2>4, <3>1, FS_AddElement
    <3> QED
      BY <2>4, <3>2
  <2>6. {next} \cup {h} \in SUBSET S
    BY <2>2
  <2>7. 2 <= Cardinality(S)
    BY <2>3, <2>5, <2>6, FS_Subset
  <2> QED
    BY <2>1, <2>3, <2>7
<1> QED
  BY <1>1, <1>2

LEMMA AddColumnTakes ==
  ASSUME FrameInvariant, StagesInOrder, ColumnsTaken, AddColumn
  PROVE  ColumnsTaken'
<1> DEFINE col == frame.columns[next]
           column == [name |-> col.name, type |-> ColumnType(col.kind), vals |-> col.vals]
           n == Len(frame.columns)
<1>0. frame' = frame
  BY DEF AddColumn
<1>1. /\ stage = "columns" /\ stage' = stage /\ frame' = frame /\ next' = next + 1
      /\ tbl' = IF col.name = "geometry" THEN tbl ELSE Append(tbl, column)
      /\ next \in DOMAIN frame.columns
      /\ col.name = "geometry" \/ ~ColumnRefused(col)
  BY DEF AddColumn, N
<1>2. /\ n \in Nat /\ DOMAIN frame.columns = 1 .. n /\ TableColumns \in SUBSET (1 .. n)
  BY FrameFacts
<1>3. /\ tbl \in Seq(ColumnSet) /\ Len(tbl) \in Nat /\ DOMAIN tbl = 1 .. Len(tbl)
      /\ Len(tbl) = Cardinality(Before(TableColumns, next))
      /\ \A j \in DOMAIN tbl : Wrote(j)
  BY <1>1 DEF FrameInvariant, ColumnsTaken
<1>4. TableColumns' = TableColumns
  BY <1>1 DEF TableColumns
<1>5. IsFiniteSet(Before(TableColumns, next))
  BY <1>2, BeforeFacts DEF Before
<1>6. next' \in 1 .. n + 1
  BY <1>1, <1>2
<1>7. CASE col.name = "geometry"
  <2>1. next \notin TableColumns /\ tbl' = tbl
    BY <1>1, <1>7 DEF TableColumns
  <2>2. Before(TableColumns, next + 1) = Before(TableColumns, next)
    <3>1. \A h \in TableColumns : h < next + 1 <=> h < next
      BY <1>1, <1>2, <2>1
    <3> QED
      BY <3>1 DEF Before
  <2>3. Len(tbl') = Cardinality(Before(TableColumns, next + 1))
    BY <1>3, <2>1, <2>2
  <2>4. \A j \in DOMAIN tbl' : Wrote(j)'
    BY <1>1, <1>3, <2>1, SameFrame
  <2> QED
    BY <1>1, <1>4, <1>6, <2>3, <2>4 DEF ColumnsTaken, Made
<1>8. CASE col.name # "geometry"
  <2>1. next \in TableColumns /\ tbl' = Append(tbl, column)
    BY <1>1, <1>8 DEF TableColumns
  <2>2. Before(TableColumns, next + 1) = Before(TableColumns, next) \cup {next} /\ next \notin Before(TableColumns, next)
    <3>1. \A h \in TableColumns : h < next + 1 <=> h < next \/ h = next
      BY <1>1, <1>2
    <3>2. ~(next < next)
      BY <1>1, <1>2
    <3> QED
      BY <2>1, <3>1, <3>2 DEF Before
  <2>3. Cardinality(Before(TableColumns, next + 1)) = Len(tbl) + 1
    BY <1>3, <1>5, <2>2, FS_AddElement
  <2>4. /\ Len(tbl') = Len(tbl) + 1 /\ DOMAIN tbl' = DOMAIN tbl \cup {Len(tbl) + 1}
        /\ tbl'[Len(tbl) + 1] = column /\ \A j \in DOMAIN tbl : tbl'[j] = tbl[j]
    <3> HIDE DEF column
    <3> QED
      BY <1>3, <2>1
  <2>5. \A h \in DOMAIN frame.columns :
          frame.columns[h].name = frame.columns[next].name => h = next
    BY <1>1, <1>8, NameIsItsOwn
  <2>6. ASSUME NEW j, j = Len(tbl) + 1 PROVE Wrote(j)'
    <3>1. column.name = col.name /\ column.type = ColumnType(col.kind)
      OBVIOUS
    <3>2. Cardinality(Before(TableColumns, next)) = (Len(tbl) + 1) - 1
      BY <1>3
    <3>3. IsNth(TableColumns, frame.columns, column, Len(tbl) + 1)
      <4> HIDE DEF column
      <4> QED
        BY <2>1, <2>5, <3>1, <3>2 DEF IsNth
    <3> HIDE DEF column
    <3> QED
      BY <1>0, <1>4, <2>4, <2>6, <3>3 DEF Wrote
  <2>7. ASSUME NEW j \in DOMAIN tbl PROVE Wrote(j)'
    <3>1. Wrote(j) /\ tbl'[j] = tbl[j]
      BY <1>3, <2>4
    <3> QED
      BY <1>0, <1>4, <3>1 DEF Wrote
  <2>8. \A j \in DOMAIN tbl' : Wrote(j)'
    BY <2>4, <2>6, <2>7
  <2> HIDE DEF column, col
  <2> QED
    BY <1>1, <1>4, <1>6, <2>3, <2>4, <2>8 DEF ColumnsTaken, Made
<1> QED
  BY <1>7, <1>8

(* The rows are taken one after the other, if the labels are the places.   *)
LEMMA AddGeometryTakes ==
  ASSUME StagesInOrder, GeometriesTaken, AddGeometry
  PROVE  GeometriesTaken'
<1>1. PICK r \in RowsAt(Len(wkb)) : wkb' = Append(wkb, r)
  BY DEF AddGeometry
<1>2. wkb \in Seq(Rows) /\ frame' = frame /\ Len(wkb) \in Nat
  BY DEF GeometriesTaken, AddGeometry
<1>3. r \in Rows
  BY <1>1 DEF RowsAt
<1>4. /\ wkb' \in Seq(Rows) /\ DOMAIN wkb' = DOMAIN wkb \cup {Len(wkb) + 1}
      /\ wkb'[Len(wkb) + 1] = r /\ \A k \in DOMAIN wkb : wkb'[k] = wkb[k]
  BY <1>1, <1>2, <1>3
<1>5. DefaultIndex => r = Len(wkb) + 1
  <2> SUFFICES ASSUME DefaultIndex PROVE r = Len(wkb) + 1
    OBVIOUS
  <2>1. CASE frame.labels = <<>>
    BY <1>1, <2>1 DEF RowsAt
  <2>2. CASE frame.labels # <<>>
    <3>1. frame.labels[r] = Len(wkb) /\ frame.labels[r] = r - 1
      BY <1>1, <1>3, <2>2 DEF RowsAt, DefaultIndex
    <3>2. r \in Nat
      BY <1>3 DEF Rows
    <3> QED
      BY <1>2, <3>1, <3>2
  <2> QED
    BY <2>1, <2>2
<1>6. DefaultIndex' <=> DefaultIndex
  BY <1>2 DEF DefaultIndex
<1>7. DefaultIndex' => \A k \in DOMAIN wkb' : wkb'[k] = k
  BY <1>4, <1>5, <1>6 DEF GeometriesTaken
<1> QED
  BY <1>4, <1>7 DEF GeometriesTaken

LEMMA CallHandsIn ==
  ASSUME FrameInvariant, DataSetInvariant, CallsInvariant, CallGeoDa
  PROVE  HandedIn'
<1>1. /\ phase = "unbuilt" /\ phase' = "fields"
      /\ numObs' = N /\ Len(wkb') = N /\ numCols' = Len(tbl')
      /\ table' = tbl' /\ failed' = failed /\ UNCHANGED <<frame, tbl, wkb>>
      /\ mapType' \in IF MapTypeOf(frame) \in MapTypes THEN {MapTypeOf(frame)} ELSE MapTypes
  BY DEF CallGeoDa, CreateLayer, N
<1>2. failed.geometries = {} /\ failed.layer = "no"
  BY <1>1 DEF DataSetInvariant, BuildKept, NoRows, CallsInvariant, NothingYet
<1>3. MapTypeOf(frame)' = MapTypeOf(frame)
  BY <1>1
<1> QED
  BY <1>1, <1>2, <1>3 DEF HandedIn

(* Of the building steps, only one with a missing geometry fails in one.   *)
LEMMA BuildingHandsIn ==
  ASSUME DataSetInvariant, StagesInOrder, HandedIn, BuildDataset
  PROVE  HandedIn' /\ phase' # "unbuilt"
<1>1. /\ stage = "dataset" /\ phase # "unbuilt" /\ failed \in Failures
      /\ UNCHANGED <<frame, stage, tbl, wkb, df, geoms>>
  BY DEF BuildDataset, converting, StagesInOrder, Made, DataSetInvariant, TypesKept
<1>2. /\ numObs = N /\ Len(wkb) = N /\ numCols = Len(tbl) /\ table = tbl
      /\ MapTypeOf(frame) \in MapTypes => mapType = MapTypeOf(frame)
      /\ \A i \in failed.geometries : frame.geoms[wkb[i]] = "missing"
      /\ failed.layer = "no" /\ (phase \in {"reading", "ready"} => row = N)
  BY <1>1 DEF HandedIn
<1>3. MapTypeOf(frame)' = MapTypeOf(frame)
  BY <1>1
<1>4. ASSUME UNCHANGED <<numObs, numCols, table, mapType>>, failed'.layer = failed.layer,
             \A i \in failed'.geometries : frame.geoms[wkb[i]] = "missing",
             phase' \in {"reading", "ready"} => row' = N
      PROVE  HandedIn'
  BY <1>1, <1>2, <1>3, <1>4 DEF HandedIn
<1>5. CASE \E accepted \in BOOLEAN, written \in Names : CreateField(accepted, written)
  <2>1. /\ UNCHANGED <<numObs, numCols, table, mapType>> /\ phase' = "fields"
        /\ failed'.layer = failed.layer /\ failed'.geometries = failed.geometries
    BY <1>1, <1>5 DEF CreateField, building, Failures
  <2> QED
    BY <1>2, <1>4, <2>1
<1>6. CASE FieldsDone \/ FeaturesDone \/ ReadAllFeatures
  <2>1. /\ UNCHANGED <<numObs, numCols, table, mapType, failed, row>> /\ phase' # "unbuilt"
        /\ FieldsDone => phase' = "features"
        /\ FeaturesDone => row = N
        /\ ReadAllFeatures => phase = "reading"
    BY <1>6 DEF FieldsDone, FeaturesDone, ReadAllFeatures, building, schema, N
  <2>2. phase' \in {"reading", "ready"} => row' = N
    BY <1>2, <1>6, <2>1
  <2> QED
    BY <1>2, <1>4, <2>1, <2>2
<1>7. ASSUME NEW stored \in BOOLEAN,
             CreateFeature(frame.geoms[wkb[row + 1]] # "missing", stored)
      PROVE  HandedIn' /\ phase' # "unbuilt"
  <2> DEFINE i == row + 1
             good == frame.geoms[wkb[i]] # "missing"
  <2>1. /\ UNCHANGED <<numObs, numCols, table, mapType>> /\ phase' = "features"
        /\ failed' = [failed EXCEPT !.geometries = IF good THEN @ ELSE @ \cup {i},
                                    !.rows = IF stored THEN @ ELSE @ \cup {i}]
    BY <1>7 DEF CreateFeature, schema
  <2>2. /\ failed'.layer = failed.layer
        /\ failed'.geometries = IF good THEN failed.geometries ELSE failed.geometries \cup {i}
    <3> HIDE DEF i, good
    <3> QED
      BY <1>1, <2>1 DEF Failures
  <2>3. \A k \in failed'.geometries : frame.geoms[wkb[k]] = "missing"
    BY <1>2, <2>2
  <2> QED
    BY <1>4, <2>1, <2>2, <2>3
<1> QED
  BY <1>5, <1>6, <1>7 DEF BuildDataset

(* No answer changes another one.                                          *)
LEMMA SameData ==
  ASSUME UNCHANGED <<poLayer, schema, features>>
  PROVE  /\ \A name : ValuesOf(name)' = ValuesOf(name)
         /\ FeaturesInBounds' = FeaturesInBounds
BY DEF schema, ValuesOf, FieldNamed, FeaturesInBounds

LEMMA ReadColumnReads ==
  ASSUME FrameInvariant, DataSetInvariant, ColumnsKept, StagesInOrder, HandedIn, ReadBack,
         ReadColumn
  PROVE  ReadBack'
<1> DEFINE name == fieldNames[next]
<1>1. /\ stage = "reading" /\ stage' = stage /\ phase = "ready" /\ next \in 1 .. numCols
      /\ next' = next + 1 /\ geoms' = geoms /\ frame' = frame
      /\ UNCHANGED <<poLayer, schema, features>>
      /\ IF FeaturesInBounds
         THEN phase' = "ready"
              /\ answer' = [call |-> "values", name |-> name, value |-> ValuesOf(name)]
         ELSE phase' = "undefined"
      /\ df' = IF phase' = "ready" THEN Put(df, name, answer'.value) ELSE df
  BY DEF ReadColumn, GetCol, Answer
<1>2. /\ numCols = Len(tbl) /\ table = tbl /\ Len(tbl) \in Nat /\ numCols' = numCols
      /\ fieldNames' = fieldNames
  BY <1>1 DEF HandedIn, FrameInvariant, schema
<1>3. table # <<>>
  BY <1>1, <1>2
<1>4. fieldNames \in Seq(Names) /\ Len(fieldNames) = numCols
  BY <1>1, <1>2, <1>3 DEF ColumnsKept, NamesKept
<1>5. name \in Names
  BY <1>1, <1>4
<1> HIDE DEF name
<1>6. /\ \A n : ValuesOf(n)' = ValuesOf(n)
      /\ FeaturesInBounds' = FeaturesInBounds
  BY <1>1, SameData
<1>7. /\ \A n \in DOMAIN df : n \in Names /\ df[n] = ValuesOf(n) /\ FeaturesInBounds
      /\ DOMAIN df = {fieldNames[j] : j \in 1 .. next - 1}
      /\ geoms # <<>> => \A i \in Rows : geoms[i] = i
  BY <1>1 DEF ReadBack
<1>8. next' \in 1 .. numCols' + 1
  BY <1>1, <1>2
<1>9. CASE ~FeaturesInBounds
  <2>1. df' = df /\ phase' = "undefined"
    BY <1>1, <1>9
  <2> QED
    BY <1>1, <1>6, <1>7, <1>8, <2>1 DEF ReadBack
<1>10. CASE FeaturesInBounds
  <2>1. df' = Put(df, name, ValuesOf(name)) /\ phase' = "ready"
    <3>1. answer'.value = ValuesOf(name)
      BY <1>1, <1>10
    <3> QED
      BY <1>1, <1>10, <3>1
  <2>2. /\ DOMAIN df' = DOMAIN df \cup {name}
        /\ \A n \in DOMAIN df' : n \in Names /\ df'[n] = ValuesOf(n)
    BY <1>5, <1>7, <2>1 DEF Put
  <2>3. DOMAIN df' = {fieldNames[j] : j \in 1 .. next' - 1}
    <3>1. 1 .. next' - 1 = (1 .. next - 1) \cup {next}
      BY <1>1, <1>2
    <3> QED
      BY <1>7, <2>2, <3>1 DEF name
  <2> QED
    BY <1>1, <1>2, <1>6, <1>7, <1>8, <1>10, <2>1, <2>2, <2>3 DEF ReadBack
<1> QED
  BY <1>9, <1>10

(* As many geometries as rows, none of them missing, are all in place.     *)
LEMMA ReadGeometriesReads ==
  ASSUME FrameInvariant, DataSetInvariant, CallsInvariant, StagesInOrder, HandedIn, ReadBack,
         ReadGeometries
  PROVE  StagesInOrder' /\ ReadBack'
<1> DEFINE value == [i \in 1 .. numObs |->
                       IF i \in DOMAIN Remaining THEN Remaining[i].geom ELSE NoGeometry]
<1>1. /\ stage \in {"reading", "shapes"} /\ phase = "ready"
      /\ frame.binding = "geopandas" => next > numCols
      /\ UNCHANGED <<frame, next, df>> /\ UNCHANGED <<poLayer, schema, features>>
      /\ phase' \in {"ready", "undefined"}
      /\ IF phase' = "ready"
         THEN /\ geoms' = value
              /\ stage' = IF NoGeometry \in ToSet(value) THEN "raised"
                          ELSE IF frame.binding # "geopandas" /\ stage = "reading"
                               THEN "reading"
                          ELSE "read"
         ELSE UNCHANGED <<geoms, stage>>
  <2>1. /\ stage \in {"reading", "shapes"} /\ phase = "ready"
        /\ frame.binding = "geopandas" => next > numCols
        /\ UNCHANGED <<frame, next, df>> /\ UNCHANGED <<poLayer, schema, features>>
        /\ phase' \in {"ready", "undefined"}
        /\ phase' = "ready" => answer' = [call |-> "geometry", value |-> value]
    BY DEF ReadGeometries, GeometriesAreNext, GetGeometry, Answer
  <2>2. phase' = "ready" => answer'.value = value
    BY <2>1
  <2> HIDE DEF value
  <2> QED
    BY <2>1, <2>2 DEF ReadGeometries
<1>2. /\ \A n : ValuesOf(n)' = ValuesOf(n)
      /\ FeaturesInBounds' = FeaturesInBounds
      /\ numCols' = numCols /\ fieldNames' = fieldNames
  BY <1>1, SameData DEF schema
<1>3. /\ numObs = N /\ numCols = Len(tbl) /\ Len(tbl) \in Nat /\ N \in Nat
      /\ Remaining = poLayer.rows /\ poLayer.rows \in Seq(Stored)
  BY <1>1, ReadyFacts, StartFacts DEF HandedIn, FrameInvariant, Ready
<1>4. CASE phase' = "undefined"
  BY <1>1, <1>2, <1>4 DEF StagesInOrder, ReadBack, Made
<1>5. CASE phase' = "ready" /\ NoGeometry \in ToSet(value)
  <2>1. stage' = "raised"
    BY <1>1, <1>5
  <2> QED
    BY <1>1, <2>1 DEF StagesInOrder, ReadBack, Made, ToBuild
<1>6. CASE phase' = "ready" /\ NoGeometry \notin ToSet(value)
  <2>1. \A i \in Rows : value[i] = i
    <3> SUFFICES ASSUME NEW i \in 1 .. N PROVE value[i] = i
      BY DEF Rows, N
    <3>1. value[i] # NoGeometry
      <4>1. i \in DOMAIN value
        BY <1>3
      <4> HIDE DEF value
      <4> QED
        BY <1>6, <4>1 DEF ToSet
    <3>2. ASSUME NEW k \in 1 .. N PROVE k \in DOMAIN poLayer.rows
      <4>1. k \in DOMAIN value
        BY <1>3
      <4>2. value[k] # NoGeometry
        <5> HIDE DEF value
        <5> QED
          BY <1>6, <4>1 DEF ToSet
      <4> QED
        BY <1>3, <4>2
    <3>3. value[i] = poLayer.rows[i].geom
      BY <1>3, <3>2
    <3> HIDE DEF value
    <3>4. Len(poLayer.rows) <= N
      BY <1>1, <1>3 DEF CallsInvariant, RowsInPlace
    <3>5. Len(poLayer.rows) = N
      <4>1. N \in DOMAIN poLayer.rows
        BY <1>3, <3>2
      <4> QED
        BY <1>3, <3>4, <4>1
    <3>6. poLayer.rows[i].geom \in {NoGeometry, i}
      BY <1>1, <1>3, <3>2, <3>5 DEF CallsInvariant, RowsInPlace
    <3> QED
      BY <3>1, <3>3, <3>6
  <2> HIDE DEF value
  <2>2. /\ geoms' = value /\ phase' = "ready"
        /\ stage' = IF frame.binding # "geopandas" /\ stage = "reading" THEN "reading"
                    ELSE "read"
    BY <1>1, <1>6
  <2>3. StagesInOrder'
    BY <1>1, <2>2 DEF StagesInOrder, Made, ToBuild
  <2>4. CASE stage' = "reading"
    <3>1. stage = "reading"
      BY <1>1, <2>2, <2>4
    <3> QED
      BY <1>1, <1>2, <2>1, <2>2, <2>3, <2>4, <3>1 DEF ReadBack
  <2>5. CASE stage' = "read"
    <3>1. CASE stage = "shapes"
      <4>1. df' = <<>> /\ frame'.binding # "geopandas" /\ DOMAIN df' = {}
        BY <1>1, <3>1 DEF ReadBack
      <4> QED
        BY <1>1, <2>1, <2>2, <2>3, <2>5, <4>1 DEF ReadBack
    <3>2. CASE stage = "reading"
      <4>1. next = numCols + 1
        BY <1>1, <1>3, <2>2, <2>5, <3>2 DEF ReadBack
      <4>2. DOMAIN df' = {fieldNames'[j] : j \in 1 .. numCols'}
        <5>1. next - 1 = numCols
          BY <1>3, <4>1
        <5> QED
          BY <1>1, <1>2, <3>2, <5>1 DEF ReadBack
      <4> QED
        BY <1>1, <1>2, <2>1, <2>2, <2>3, <2>5, <3>2, <4>2 DEF ReadBack
    <3> QED
      BY <1>1, <3>1, <3>2
  <2> QED
    BY <2>2, <2>4, <2>5, <2>3
<1> QED
  BY <1>1, <1>4, <1>5, <1>6

LEMMA FrameStep ==
  ASSUME FrameInvariant, DataSetInvariant, ColumnsKept, CallsInvariant, OnItsWay,
         FrameNext \/ UNCHANGED <<converting, vars>>
  PROVE  OnItsWay'
<1>1. CASE stage = "direct"
  <2>1. UNCHANGED stage
    BY <1>1 DEF FrameNext, AddColumn, ColumnRaises, ColumnsDone, AddGeometry, GeometryRaises,
      CallGeoDa, GeoDaFails, CrsRaises, BuildDataset, GeodaToGeopandas, GeodaToSp, ReadColumn,
      ReadGeometries, GeometriesAreNext, ListCollected, SpComplete, DirectUse, Ended, converting
  <2> QED
    BY <1>1, <2>1 DEF OnItsWay
<1> SUFFICES ASSUME stage # "direct" PROVE OnItsWay'
  BY <1>1
<1>2. /\ StagesInOrder /\ ColumnsTaken /\ GeometriesTaken /\ HandedIn /\ ReadBack
      /\ stage \in ToBuild => phase = "unbuilt"
      /\ numCols = Len(tbl) \/ phase = "unbuilt" \/ stage = "lost"
      /\ Len(tbl) \in Nat
  <2>1. StagesInOrder /\ ColumnsTaken /\ GeometriesTaken /\ HandedIn /\ ReadBack
    BY DEF OnItsWay
  <2>2. stage \in ToBuild => phase = "unbuilt"
    BY <2>1 DEF StagesInOrder
  <2>3. numCols = Len(tbl) \/ phase = "unbuilt" \/ stage = "lost"
    BY <2>1 DEF HandedIn
  <2> QED
    BY <2>1, <2>2, <2>3 DEF FrameInvariant
<1>3. ASSUME UNCHANGED frame, UNCHANGED tbl PROVE
        /\ TableColumns' = TableColumns /\ \A j \in DOMAIN tbl' : Wrote(j)'
  BY <1>2, <1>3, SameFrame DEF ColumnsTaken
<1>4. ASSUME UNCHANGED <<frame, wkb>> PROVE GeometriesTaken'
  BY <1>2, <1>4 DEF GeometriesTaken, DefaultIndex
<1>5. ASSUME UNCHANGED <<frame, tbl, wkb, phase, numObs, numCols, table, row, mapType, failed>>,
             stage = "lost" => stage' = "lost"
      PROVE  HandedIn'
  <2>1. MapTypeOf(frame)' = MapTypeOf(frame)
    BY <1>5
  <2> QED
    BY <1>2, <1>5, <2>1 DEF HandedIn
<1>6. CASE AddColumn
  <2>1. /\ stage = "columns" /\ UNCHANGED <<frame, stage, wkb, df, geoms, vars>>
    BY <1>6 DEF AddColumn
  <2>2. phase' = "unbuilt"
    BY <1>2, <2>1 DEF vars, ToBuild
  <2>3. ColumnsTaken'
    BY <1>2, <1>6, AddColumnTakes
  <2>4. StagesInOrder'
    BY <1>2, <2>1, <2>2 DEF StagesInOrder, ToBuild, Made
  <2>5. HandedIn' /\ ReadBack'
    BY <2>1, <2>2 DEF HandedIn, ReadBack
  <2> QED
    BY <1>4, <2>1, <2>3, <2>4, <2>5 DEF OnItsWay
<1>7. CASE ColumnRaises \/ GeometryRaises \/ CrsRaises
  <2>1. /\ stage \in ToBuild /\ stage' = "raised"
        /\ UNCHANGED <<frame, next, tbl, wkb, df, geoms, vars>>
    BY <1>7 DEF ColumnRaises, GeometryRaises, CrsRaises, Raise, ToBuild
  <2>2. phase' = "unbuilt"
    BY <1>2, <2>1 DEF vars
  <2>3. StagesInOrder' /\ ColumnsTaken' /\ HandedIn' /\ ReadBack'
    BY <1>2, <1>3, <2>1, <2>2 DEF StagesInOrder, ColumnsTaken, HandedIn, ReadBack, ToBuild, Made
  <2> QED
    BY <1>4, <2>1, <2>3 DEF OnItsWay
<1>8. CASE ColumnsDone
  <2>1. /\ stage = "columns" /\ stage' = "geometries" /\ next > Len(frame.columns)
        /\ UNCHANGED <<frame, next, tbl, wkb, df, geoms, vars>>
    BY <1>8 DEF ColumnsDone
  <2>2. phase' = "unbuilt"
    BY <1>2, <2>1 DEF vars, ToBuild
  <2>3. Len(tbl) = Cardinality(TableColumns)
    <3>1. /\ Len(frame.columns) \in Nat /\ next \in 1 .. Len(frame.columns) + 1
          /\ TableColumns \in SUBSET (1 .. Len(frame.columns))
          /\ Len(tbl) = Cardinality(Before(TableColumns, next))
      BY <1>2, <2>1, FrameFacts DEF ColumnsTaken
    <3>2. \A h \in TableColumns : h < next
      BY <2>1, <3>1
    <3>3. Before(TableColumns, next) = TableColumns
      BY <3>2, Zenon DEF Before
    <3> QED
      BY <3>1, <3>3
  <2>4. ColumnsTaken'
    BY <1>3, <2>1, <2>3 DEF ColumnsTaken
  <2>5. StagesInOrder' /\ HandedIn' /\ ReadBack'
    BY <1>2, <2>1, <2>2 DEF StagesInOrder, HandedIn, ReadBack, ToBuild, Made
  <2> QED
    BY <1>4, <2>1, <2>4, <2>5 DEF OnItsWay
<1>9. CASE AddGeometry
  <2>1. /\ stage = "geometries" /\ UNCHANGED <<frame, stage, next, tbl, df, geoms, vars>>
    BY <1>9 DEF AddGeometry
  <2>2. phase' = "unbuilt"
    BY <1>2, <2>1 DEF vars, ToBuild
  <2>3. StagesInOrder' /\ ColumnsTaken' /\ HandedIn' /\ ReadBack'
    BY <1>2, <1>3, <2>1, <2>2 DEF StagesInOrder, ColumnsTaken, HandedIn, ReadBack, ToBuild, Made
  <2>4. GeometriesTaken'
    BY <1>2, <1>9, AddGeometryTakes
  <2> QED
    BY <2>3, <2>4 DEF OnItsWay
<1>10. CASE CallGeoDa
  <2>1. /\ stage = "geometries" /\ stage' = "dataset" /\ phase' = "fields"
        /\ UNCHANGED <<frame, next, tbl, wkb, df, geoms>>
    BY <1>10 DEF CallGeoDa, CreateLayer
  <2>2. StagesInOrder' /\ ColumnsTaken' /\ ReadBack'
    BY <1>2, <1>3, <2>1 DEF StagesInOrder, ColumnsTaken, ReadBack, ToBuild, Made
  <2>3. HandedIn'
    BY <1>10, CallHandsIn
  <2> QED
    BY <1>4, <2>1, <2>2, <2>3 DEF OnItsWay
<1>18. CASE GeoDaFails
  <2>1. /\ stage = "geometries" /\ stage' = "lost" /\ phase' = "undefined"
        /\ failed' = [failed EXCEPT !.layer = "not created"]
        /\ UNCHANGED <<frame, next, tbl, wkb, df, geoms>>
    BY <1>18 DEF GeoDaFails, NoLayerCreated, GoUndefined
  <2>2. failed'.layer = "not created"
    BY <2>1 DEF DataSetInvariant, TypesKept, Failures
  <2>3. StagesInOrder' /\ ColumnsTaken' /\ HandedIn' /\ ReadBack'
    BY <1>2, <1>3, <2>1, <2>2 DEF StagesInOrder, ColumnsTaken, HandedIn, ReadBack, ToBuild, Made
  <2> QED
    BY <1>4, <2>1, <2>3 DEF OnItsWay
<1>11. CASE BuildDataset
  <2>1. stage = "dataset" /\ UNCHANGED <<frame, stage, next, tbl, wkb, df, geoms>>
    BY <1>11 DEF BuildDataset, converting
  <2>2. HandedIn' /\ phase' # "unbuilt"
    BY <1>2, <1>11, BuildingHandsIn
  <2>3. StagesInOrder' /\ ColumnsTaken' /\ ReadBack'
    BY <1>2, <1>3, <2>1, <2>2 DEF StagesInOrder, ColumnsTaken, ReadBack, ToBuild, Made
  <2> QED
    BY <1>4, <2>1, <2>2, <2>3 DEF OnItsWay
<1>12. CASE GeodaToGeopandas \/ \E geometry_only \in BOOLEAN : GeodaToSp(geometry_only)
  <2>1. /\ stage = "dataset" /\ phase = "ready" /\ next' = 1
        /\ \/ stage' = "reading"
           \/ stage' = "shapes" /\ frame.binding # "geopandas"
        /\ UNCHANGED <<frame, tbl, wkb, df, geoms, vars>>
    BY <1>12 DEF GeodaToGeopandas, GeodaToSp
  <2>2. UNCHANGED <<phase, numObs, numCols, table, row, mapType, failed, fieldNames>>
    BY <2>1 DEF vars, building, schema
  <2>3. df = <<>> /\ geoms = <<>> /\ DOMAIN df = {}
    BY <1>2, <2>1 DEF StagesInOrder
  <2>4. StagesInOrder' /\ ColumnsTaken'
    BY <1>2, <1>3, <2>1, <2>2 DEF StagesInOrder, ColumnsTaken, ToBuild, Made
  <2>5. ReadBack'
    <3>1. next' \in 1 .. numCols' + 1 /\ 1 .. next' - 1 = {}
      BY <1>2, <2>1, <2>2
    <3> QED
      BY <2>1, <2>2, <2>3, <3>1 DEF ReadBack
  <2> QED
    BY <1>4, <1>5, <2>1, <2>2, <2>4, <2>5 DEF OnItsWay
<1>13. CASE ReadColumn
  <2>1. /\ stage = "reading" /\ phase = "ready" /\ phase' \in {"ready", "undefined"}
        /\ UNCHANGED <<frame, stage, tbl, wkb, geoms, numObs, numCols, table, row, mapType, failed>>
    BY <1>13 DEF ReadColumn, GetCol, Answer, building, schema
  <2>2. StagesInOrder' /\ ColumnsTaken'
    BY <1>2, <1>3, <2>1 DEF StagesInOrder, ColumnsTaken, ToBuild, Made
  <2>3. HandedIn'
    <3>1. MapTypeOf(frame)' = MapTypeOf(frame)
      BY <2>1
    <3> QED
      BY <1>2, <2>1, <3>1 DEF HandedIn
  <2>4. ReadBack'
    BY <1>2, <1>13, ReadColumnReads
  <2> QED
    BY <1>4, <2>1, <2>2, <2>3, <2>4 DEF OnItsWay
<1>14. CASE ReadGeometries
  <2>1. /\ stage \in {"reading", "shapes"} /\ phase = "ready"
        /\ phase' \in {"ready", "undefined"}
        /\ UNCHANGED <<frame, next, tbl, wkb, df, numObs, numCols, table, row, mapType, failed>>
    BY <1>14 DEF ReadGeometries, GeometriesAreNext, GetGeometry, Answer, building, schema
  <2>2. StagesInOrder' /\ ReadBack'
    BY <1>2, <1>14, ReadGeometriesReads
  <2>3. HandedIn'
    <3>1. MapTypeOf(frame)' = MapTypeOf(frame)
      BY <2>1
    <3> QED
      BY <1>2, <2>1, <3>1 DEF HandedIn
  <2>4. stage' # "columns" /\ Len(tbl) = Cardinality(TableColumns)
    BY <1>2, <1>14, <2>1 DEF ReadGeometries, ColumnsTaken, Made
  <2>5. ColumnsTaken'
    BY <1>3, <2>1, <2>4 DEF ColumnsTaken
  <2> QED
    BY <1>4, <2>1, <2>2, <2>3, <2>5 DEF OnItsWay
<1>15. CASE ListCollected \/ SpComplete
  <2>1. /\ stage \in {"reading", "shapes"} /\ phase = "ready"
        /\ stage' \in {"collected", "raised", "read"}
        /\ stage' = "read" => /\ stage = "reading" /\ frame.binding # "geopandas"
                              /\ geoms # <<>> /\ next > numCols
        /\ UNCHANGED <<frame, next, tbl, wkb, df, geoms, vars>>
    BY <1>15 DEF ListCollected, GeometriesAreNext, SpComplete
  <2>2. /\ UNCHANGED <<phase, numObs, numCols, table, row, mapType, failed, fieldNames>>
        /\ UNCHANGED <<poLayer, schema, features>>
    BY <2>1 DEF vars, building, schema
  <2>3. Len(tbl) = Cardinality(TableColumns)
    BY <1>2, <2>1 DEF ColumnsTaken, Made
  <2>4. StagesInOrder' /\ ColumnsTaken'
    BY <1>2, <1>3, <2>1, <2>2, <2>3 DEF StagesInOrder, ColumnsTaken, ToBuild, Made
  <2>5. CASE stage' # "read"
    <3>1. ReadBack'
      BY <2>1, <2>5 DEF ReadBack
    <3> QED
      BY <1>4, <1>5, <2>1, <2>2, <2>4, <3>1 DEF OnItsWay
  <2>6. CASE stage' = "read"
    <3>1. next - 1 = numCols
      BY <1>2, <2>1, <2>6 DEF ReadBack
    <3>2. /\ \A n : ValuesOf(n)' = ValuesOf(n)
          /\ FeaturesInBounds' = FeaturesInBounds
      BY <2>2, SameData
    <3>3. ReadBack'
      BY <1>2, <2>1, <2>2, <2>6, <3>1, <3>2 DEF ReadBack
    <3> QED
      BY <1>4, <1>5, <2>1, <2>2, <2>4, <3>3 DEF OnItsWay
  <2> QED
    BY <2>5, <2>6
<1>16. CASE DirectUse
  BY <1>16 DEF DirectUse
<1>17. CASE Ended \/ UNCHANGED <<converting, vars>>
  <2>1. /\ UNCHANGED <<frame, stage, next, tbl, wkb, df, geoms>>
        /\ UNCHANGED <<phase, numObs, numCols, table, row, mapType, failed, fieldNames>>
        /\ UNCHANGED <<poLayer, schema, features>>
    BY <1>17 DEF Ended, converting, vars, building, schema
  <2>2. /\ \A n : ValuesOf(n)' = ValuesOf(n)
        /\ FeaturesInBounds' = FeaturesInBounds
    BY <2>1, SameData
  <2>3. StagesInOrder' /\ ColumnsTaken'
    BY <1>2, <1>3, <2>1 DEF StagesInOrder, ColumnsTaken
  <2>4. ReadBack'
    BY <1>2, <2>1, <2>2 DEF ReadBack
  <2> QED
    BY <1>4, <1>5, <2>1, <2>3, <2>4 DEF OnItsWay
<1> QED
  BY <1>6, <1>7, <1>8, <1>9, <1>10, <1>11, <1>12, <1>13, <1>14, <1>15, <1>16, <1>17, <1>18
  DEF FrameNext

(* A frame is taken apart and put together in order: its columns under     *)
(* names of their own, its geometries by row, and what is read back is     *)
(* what the data set answers.                                              *)
THEOREM FramesStayInOrder == FrameSpec => []OnItsWay
<1>1. FrameInit => OnItsWay
  <2> SUFFICES ASSUME FrameInit, stage # "direct"
               PROVE  StagesInOrder /\ ColumnsTaken /\ GeometriesTaken /\ HandedIn /\ ReadBack
    BY DEF OnItsWay
  <2>1. /\ frame \in Frames /\ stage = "columns" /\ next = 1 /\ phase = "unbuilt"
        /\ tbl = <<>> /\ wkb = <<>> /\ df = <<>> /\ geoms = <<>>
    BY DEF FrameInit, Init
  <2>2. StagesInOrder /\ GeometriesTaken /\ HandedIn /\ ReadBack
    BY <2>1 DEF StagesInOrder, GeometriesTaken, HandedIn, ReadBack, ToBuild, Made
  <2>3. /\ Len(frame.columns) \in Nat
        /\ TableColumns \in SUBSET (1 .. Len(frame.columns))
    BY <2>2, FrameFacts
  <2>4. Before(TableColumns, next) = {}
    <3>1. \A h \in TableColumns : ~(h < next)
      BY <2>1, <2>3
    <3> QED
      BY <3>1, Zenon DEF Before
  <2>5. ColumnsTaken
    BY <2>1, <2>3, <2>4, FS_EmptySet DEF ColumnsTaken, Made
  <2> QED
    BY <2>2, <2>5
<1>2. /\ FrameInvariant /\ DataSetInvariant /\ ColumnsKept /\ CallsInvariant
      /\ OnItsWay /\ [FrameNext]_<<converting, vars>>
      => OnItsWay'
  BY FrameStep
<1> QED
  BY <1>1, <1>2, DataSetIsInvariant, AlwaysCallsInvariant, PTL DEF FrameSpec
-----------------------------------------------------------------------------
(* The j-th column of the table is the j-th of the frame.                  *)
LEMMA ColumnIs ==
  ASSUME OnItsWay, stage # "direct", NEW j \in DOMAIN tbl
  PROVE  \E c \in TableColumns :
           /\ Nth(TableColumns, j) = c /\ Cardinality(Before(TableColumns, c)) = j - 1
           /\ tbl[j].name = frame.columns[c].name
           /\ tbl[j].type = ColumnType(frame.columns[c].kind)
           /\ frame.columns[c].kind \in Kinds
           /\ \A h \in DOMAIN frame.columns :
                frame.columns[h].name = frame.columns[c].name => h = c
<1> DEFINE FrameColumnSet == [name : Names \cup {"geometry"}, string : BOOLEAN,
                              kind : Kinds, vals : [Rows -> Forms]]
<1>1. StagesInOrder /\ Wrote(j)
  BY DEF OnItsWay, ColumnsTaken
<1>2. PICK c \in TableColumns :
        /\ Cardinality(Before(TableColumns, c)) = j - 1
        /\ tbl[j].name = frame.columns[c].name
        /\ tbl[j].type = ColumnType(frame.columns[c].kind)
        /\ \A h \in DOMAIN frame.columns :
             frame.columns[h].name = frame.columns[c].name => h = c
  BY <1>1, Zenon DEF Wrote, IsNth
<1>3. /\ TableColumns \in SUBSET (1 .. Len(frame.columns)) /\ Len(frame.columns) \in Nat
      /\ frame.columns \in Seq(FrameColumnSet)
  BY <1>1, FrameFacts
<1>4. Nth(TableColumns, j) = c
  BY <1>2, <1>3, NthIs DEF Before
<1>5. frame.columns[c] \in FrameColumnSet
  <2> HIDE DEF FrameColumnSet
  <2> QED
    BY <1>3
<1>6. frame.columns[c].kind \in Kinds
  BY <1>5
<1> QED
  BY <1>2, <1>4, <1>6

(* No column is left out, and each has the type of its values.             *)
LEMMA EveryColumnGoesIn ==
  ASSUME FrameInvariant, OnItsWay,
         stage \in {"geometries", "dataset", "reading", "shapes", "read"}
  PROVE  /\ Len(tbl) = Len(FrameColumns)
         /\ \A j \in DOMAIN tbl :
              /\ tbl[j].name = FrameColumns[j].name
              /\ FrameColumns[j].kind \in {"float", "int"} <=> tbl[j].type # "string"
<1>1. StagesInOrder /\ stage # "direct" /\ Len(tbl) = Cardinality(TableColumns)
  BY DEF OnItsWay, ColumnsTaken, Made
<1>2. Cardinality(TableColumns) \in Nat
  BY <1>1, FrameFacts, BeforeFacts
<1>3. DOMAIN tbl = 1 .. Cardinality(TableColumns)
  BY <1>1 DEF FrameInvariant
<1>4. Len(FrameColumns) = Cardinality(TableColumns)
  BY <1>2 DEF FrameColumns
<1>5. ASSUME NEW j \in DOMAIN tbl
      PROVE  /\ tbl[j].name = FrameColumns[j].name
             /\ FrameColumns[j].kind \in {"float", "int"} <=> tbl[j].type # "string"
  <2>1. PICK c \in TableColumns :
          /\ Nth(TableColumns, j) = c /\ tbl[j].name = frame.columns[c].name
          /\ tbl[j].type = ColumnType(frame.columns[c].kind)
          /\ frame.columns[c].kind \in Kinds
    BY <1>1, ColumnIs
  <2>2. FrameColumns[j] = frame.columns[c]
    BY <1>3, <2>1 DEF FrameColumns
  <2>3. frame.columns[c].kind \in {"float", "int"} <=> tbl[j].type # "string"
    BY <2>1 DEF ColumnType, Kinds
  <2> QED
    BY <2>1, <2>2, <2>3
<1> QED
  BY <1>1, <1>4, <1>5

(* What has been read is the columns of the table.                         *)
LEMMA FrameIsRead ==
  ASSUME FrameInvariant, DataSetInvariant, ColumnsKept, CallsInvariant, OnItsWay,
         stage = "read", DefaultIndex
  PROVE  /\ \A i \in Rows : wkb[geoms[i]] = i
         /\ \/ DOMAIN df = {tbl[j].name : j \in DOMAIN tbl}
            \/ frame.binding # "geopandas" /\ df = <<>>
         /\ \A j \in DOMAIN tbl :
              tbl[j].name \in DOMAIN df => IsTheColumn(tbl[j].name, df[tbl[j].name])
<1>1. /\ StagesInOrder /\ ColumnsTaken /\ GeometriesTaken /\ HandedIn /\ ReadBack
      /\ phase = "ready" /\ Ready
  BY DEF OnItsWay, StagesInOrder, Ready
<1>2. /\ table = tbl /\ numObs = N /\ numCols = Len(tbl) /\ Len(wkb) = N
      /\ tbl \in Seq(ColumnSet) /\ Rows = 1 .. N /\ N \in Nat
  BY <1>1, StartFacts DEF HandedIn, FrameInvariant, Rows, N
<1>3. \A i \in Rows : wkb[geoms[i]] = i
  <2>1. wkb \in Seq(Rows) /\ \A k \in DOMAIN wkb : wkb[k] = k
    BY <1>1 DEF GeometriesTaken
  <2>2. \A i \in Rows : geoms[i] = i
    BY <1>1 DEF ReadBack
  <2> QED
    BY <1>2, <2>1, <2>2
<1>4. {fieldNames[j] : j \in 1 .. numCols} = {tbl[j].name : j \in DOMAIN tbl}
  <2>1. CASE tbl = <<>>
    BY <1>2, <2>1
  <2>2. CASE tbl # <<>>
    <3>1. Len(fieldNames) = numCols /\ fieldNames \in Seq(Names)
      BY <1>1, <1>2, <2>2 DEF ColumnsKept, NamesKept
    <3>2. \A j \in DOMAIN fieldNames : fieldNames[j] = tbl[j].name
      BY <1>1, <1>2, <2>2 DEF CallsInvariant
    <3>3. DOMAIN fieldNames = 1 .. numCols /\ DOMAIN tbl = 1 .. numCols
      BY <1>2, <3>1
    <3> QED
      BY <3>2, <3>3
  <2> QED
    BY <2>1, <2>2
<1>5. \/ DOMAIN df = {tbl[j].name : j \in DOMAIN tbl}
      \/ frame.binding # "geopandas" /\ df = <<>>
  BY <1>1, <1>4 DEF ReadBack
<1>6. ASSUME NEW j \in DOMAIN tbl, tbl[j].name \in DOMAIN df
      PROVE  IsTheColumn(tbl[j].name, df[tbl[j].name])
  <2>1. df[tbl[j].name] = ValuesOf(tbl[j].name) /\ FeaturesInBounds
    BY <1>1, <1>6 DEF ReadBack
  <2>2. table # <<>>
    BY <1>2, <1>6
  <2>3. IsTheColumn(tbl[j].name, ValuesOf(tbl[j].name))
    BY <1>1, <2>1, <2>2, ValuesFacts
  <2> QED
    BY <2>1, <2>3
<1> QED
  BY <1>3, <1>5, <1>6

(* What comes back, for every frame whose labels are the places: each row  *)
(* with its own geometry, and under each column's name the last column so  *)
(* called, case aside, as its field holds it, or nothing if the driver has *)
(* refused or renamed every field of the name.                             *)
THEOREM FramesComeBack == FrameSpec => []RoundTrip
<1>1. FrameInvariant /\ DataSetInvariant /\ ColumnsKept /\ CallsInvariant /\ OnItsWay
      => RoundTrip
  <2> SUFFICES ASSUME FrameInvariant, DataSetInvariant, ColumnsKept, CallsInvariant, OnItsWay
               PROVE  RoundTrip
    OBVIOUS
  <2> QED
    BY EveryColumnGoesIn, FrameIsRead DEF RoundTrip
<1> QED
  BY <1>1, DataSetIsInvariant, AlwaysCallsInvariant, FramesStayInOrder, PTL
-----------------------------------------------------------------------------
(* A frame with geometries of one kind, that its binding knows.            *)
OfOneKind == \E k \in MapTypes : Supported(k) /\ \A r \in Rows : frame.geoms[r] = k

RowRefused == \E i \in failed.rows : Fits(wkb[i])

EndsWell ==
  stage # "direct" /\ OfOneKind /\ EndsBadly =>
    \/ failed.layer = "not created"
    \/ RowRefused
    \/ CountsDown(numCols)
    \/ frame.binding # "geopandas" /\ stage = "collected"

(* Of such a frame every feature is stored, with its geometry, unless the  *)
(* driver refuses one that it could take.                                  *)
LEMMA EveryRowIsStored ==
  ASSUME DataSetInvariant, CallsInvariant, TypeOK, OnItsWay, stage # "direct", phase = "ready",
         OfOneKind, ~RowRefused
  PROVE  /\ FeaturesInBounds /\ Len(Remaining) = numObs
         /\ \A r \in DOMAIN Remaining : Remaining[r].geom # NoGeometry
<1>1. PICK k \in MapTypes : Supported(k) /\ \A r \in Rows : frame.geoms[r] = k
  BY DEF OfOneKind
<1>2. /\ StagesInOrder /\ wkb \in Seq(Rows) /\ Len(wkb) = N /\ numObs = N /\ row = N
      /\ MapTypeOf(frame) \in MapTypes => mapType = MapTypeOf(frame)
      /\ \A i \in failed.geometries : frame.geoms[wkb[i]] = "missing"
      /\ failed.layer = "no"
  <2>1. StagesInOrder /\ GeometriesTaken /\ HandedIn
    BY DEF OnItsWay
  <2>2. stage # "lost"
    BY <2>1 DEF StagesInOrder
  <2> QED
    BY <2>1, <2>2 DEF GeometriesTaken, HandedIn
<1>3. /\ failed.geometries \subseteq 1 .. N /\ failed.rows \subseteq 1 .. N
      /\ N \in Nat /\ Rows = 1 .. N
  BY <1>2, StartFacts DEF TypeOK, Rows, N
<1>4. ASSUME NEW i \in 1 .. N PROVE frame.geoms[wkb[i]] = k /\ 1 \in Rows
  <2>1. wkb[i] \in Rows
    BY <1>2, <1>3
  <2> QED
    BY <1>1, <1>3, <2>1
<1>5. k \in {"point", "polygon", "line"}
  BY DEF MapTypes
<1>6. failed.geometries = {}
  <2> SUFFICES ASSUME NEW i \in failed.geometries PROVE FALSE
    OBVIOUS
  <2>1. frame.geoms[wkb[i]] = "missing" /\ frame.geoms[wkb[i]] = k
    BY <1>2, <1>3, <1>4
  <2> QED
    BY <1>5, <2>1
<1>7. failed.rows = {}
  <2> SUFFICES ASSUME NEW i \in failed.rows PROVE FALSE
    OBVIOUS
  <2>1. frame.geoms[wkb[i]] = k /\ frame.geoms[1] = k
    BY <1>1, <1>3, <1>4
  <2>2. MapTypeOf(frame) = k
    <3>1. frame.binding \in {"geopandas", "sf", "sp"}
      BY <1>2, FrameFacts
    <3> QED
      BY <1>1, <1>5, <2>1, <3>1 DEF MapTypeOf, Supported
  <2>3. Fits(wkb[i])
    BY <1>2, <2>1, <2>2 DEF Fits
  <2> QED
    BY <2>3 DEF RowRefused
<1>8. Remaining = poLayer.rows /\ poLayer.rows \in Seq(Stored)
  BY ReadyFacts DEF Ready
<1>9. Len(poLayer.rows) = numObs /\ features = poLayer.rows
  BY <1>2, <1>7 DEF CallsInvariant, RowsInPlace
<1>10. ASSUME NEW r \in DOMAIN poLayer.rows PROVE poLayer.rows[r].geom # NoGeometry
  <2>1. row > 0 /\ r \in 1 .. N
    BY <1>2, <1>3, <1>8, <1>9
  <2>2. Coherent
    BY <2>1 DEF DataSetInvariant, BuildKept
  <2>3. /\ r \in DOMAIN kept /\ kept[r] \in (1 .. row) \ failed.rows
        /\ poLayer.rows[r].geom = kept[r]
    <3>1. r \in DOMAIN kept
      BY <1>8, <2>2 DEF Coherent
    <3>2. kept[r] \in {kept[s] : s \in DOMAIN kept}
      BY <3>1
    <3> QED
      BY <1>6, <2>2, <3>1, <3>2 DEF Coherent
  <2>4. kept[r] # 0
    BY <1>2, <1>3, <2>3
  <2> QED
    BY <2>3, <2>4 DEF NoGeometry
<1> QED
  BY <1>2, <1>3, <1>8, <1>9, <1>10 DEF FeaturesInBounds

LEMMA ReturnStep ==
  ASSUME FrameInvariant, DataSetInvariant, ColumnsKept, CallsInvariant, TypeOK, OnItsWay,
         EndsWell, FrameNext \/ UNCHANGED <<converting, vars>>
  PROVE  EndsWell'
<1>1. ASSUME ~EndsBadly' PROVE EndsWell'
  BY <1>1 DEF EndsWell
<1>2. ASSUME phase' # "undefined", stage' # "collected", phase' = "ready" => stage' # "raised"
      PROVE  EndsWell'
  BY <1>1, <1>2 DEF EndsBadly
<1>3. ASSUME UNCHANGED <<frame, wkb, mapType, numCols, failed>>
      PROVE  /\ OfOneKind' <=> OfOneKind
             /\ RowRefused' <=> RowRefused
             /\ CountsDown(numCols)' <=> CountsDown(numCols)
  <2>1. OfOneKind' <=> OfOneKind
    BY <1>3 DEF OfOneKind, Supported
  <2>2. RowRefused' <=> RowRefused
    BY <1>3 DEF RowRefused, Fits
  <2>3. CountsDown(numCols)' <=> CountsDown(numCols)
    BY <1>3 DEF CountsDown
  <2> QED
    BY <2>1, <2>2, <2>3
<1>4. CASE stage = "direct"
  <2>1. UNCHANGED stage
    BY <1>4 DEF FrameNext, AddColumn, ColumnRaises, ColumnsDone, AddGeometry, GeometryRaises,
      CallGeoDa, GeoDaFails, CrsRaises, BuildDataset, GeodaToGeopandas, GeodaToSp, ReadColumn,
      ReadGeometries, GeometriesAreNext, ListCollected, SpComplete, DirectUse, Ended, converting
  <2> QED
    BY <1>4, <2>1 DEF EndsWell
<1> SUFFICES ASSUME stage # "direct" PROVE EndsWell'
  BY <1>4
<1>5. stage \in ToBuild => phase = "unbuilt"
  BY DEF OnItsWay, StagesInOrder
<1>6. CASE \/ AddColumn \/ ColumnRaises \/ ColumnsDone \/ AddGeometry \/ GeometryRaises
           \/ CrsRaises
  <2>1. stage \in ToBuild /\ UNCHANGED vars /\ stage' # "collected"
    BY <1>6 DEF AddColumn, ColumnRaises, ColumnsDone, AddGeometry, GeometryRaises, CrsRaises,
      Raise, ToBuild
  <2>2. phase' = "unbuilt"
    BY <1>5, <2>1 DEF vars
  <2> QED
    BY <1>2, <2>1, <2>2
<1>7. CASE CallGeoDa
  <2>1. phase' = "fields" /\ stage' = "dataset"
    BY <1>7 DEF CallGeoDa, CreateLayer
  <2> QED
    BY <1>2, <2>1
<1>15. CASE GeoDaFails
  <2>1. failed' = [failed EXCEPT !.layer = "not created"]
    BY <1>15 DEF GeoDaFails, NoLayerCreated
  <2>2. failed'.layer = "not created"
    BY <2>1 DEF DataSetInvariant, TypesKept, Failures
  <2> QED
    BY <2>2 DEF EndsWell
<1>16. CASE ListCollected
  <2>1. frame'.binding # "geopandas" /\ stage' = "collected"
    BY <1>16 DEF ListCollected
  <2> QED
    BY <2>1 DEF EndsWell
<1>8. CASE BuildDataset
  <2>1. phase' \in {"fields", "features", "reading", "ready"} /\ stage' = "dataset"
    BY <1>8 DEF BuildDataset, converting, CreateField, FieldsDone, CreateFeature, FeaturesDone,
      ReadAllFeatures
  <2> QED
    BY <1>2, <2>1
<1>9. CASE GeodaToGeopandas \/ \E geometry_only \in BOOLEAN : GeodaToSp(geometry_only)
  <2>1. phase = "ready" /\ stage' \notin {"raised", "collected"} /\ UNCHANGED vars
    BY <1>9 DEF GeodaToGeopandas, GeodaToSp
  <2> QED
    BY <1>2, <2>1 DEF vars
<1>10. CASE SpComplete
  <2>1. /\ phase = "ready" /\ UNCHANGED <<frame, wkb>> /\ UNCHANGED vars
        /\ stage' \in {"raised", "read"} /\ (stage' = "raised" => CountsDown(numCols))
    BY <1>10 DEF SpComplete
  <2>2. phase' = "ready" /\ UNCHANGED <<frame, wkb, mapType, numCols, failed>>
    BY <2>1 DEF vars, schema
  <2>3. stage' = "raised" => CountsDown(numCols)'
    BY <1>3, <2>1, <2>2
  <2> QED
    BY <1>2, <2>1, <2>2, <2>3 DEF EndsWell
<1>11. CASE ReadColumn
  <2>1. /\ phase = "ready" /\ stage' = "reading"
        /\ UNCHANGED <<frame, wkb, mapType, numCols, failed>>
        /\ FeaturesInBounds => phase' = "ready"
    BY <1>11 DEF ReadColumn, GetCol, Answer, schema
  <2>2. OfOneKind' /\ ~RowRefused' => phase' = "ready"
    BY <1>3, <2>1, EveryRowIsStored
  <2> QED
    BY <1>2, <2>1, <2>2 DEF EndsWell
<1>12. CASE ReadGeometries
  <2> DEFINE value == [i \in 1 .. numObs |->
                         IF i \in DOMAIN Remaining THEN Remaining[i].geom ELSE NoGeometry]
  <2>1. /\ phase = "ready" /\ UNCHANGED <<frame, wkb, mapType, numCols, failed>>
        /\ stage \in {"reading", "shapes"}
        /\ IF /\ Len(Remaining) <= numObs
              /\ \A r \in DOMAIN Remaining : Remaining[r].geom # NoGeometry
           THEN phase' = "ready" /\ answer' = [call |-> "geometry", value |-> value]
           ELSE phase' = "undefined"
        /\ stage' # "collected"
    BY <1>12 DEF ReadGeometries, GeometriesAreNext, GetGeometry, Answer, schema
  <2>2. ASSUME OfOneKind, ~RowRefused PROVE phase' = "ready" /\ stage' # "raised"
    <3>1. /\ Len(Remaining) = numObs /\ numObs \in Nat
          /\ \A r \in DOMAIN Remaining : Remaining[r].geom # NoGeometry
          /\ Remaining \in Seq(Stored)
      BY <2>1, <2>2, EveryRowIsStored, ReadyFacts DEF Ready
    <3>2. phase' = "ready" /\ answer'.value = value
      BY <2>1, <3>1
    <3>3. NoGeometry \notin ToSet(value)
      <4>1. ASSUME NEW i \in DOMAIN value PROVE value[i] # NoGeometry
        BY <3>1
      <4> HIDE DEF value
      <4> QED
        BY <4>1 DEF ToSet
    <3> HIDE DEF value
    <3> QED
      BY <1>12, <2>1, <3>2, <3>3 DEF ReadGeometries
  <2>3. OfOneKind' /\ ~RowRefused' => phase' = "ready" /\ stage' # "raised"
    BY <1>3, <2>1, <2>2
  <2> QED
    BY <1>2, <2>1, <2>3 DEF EndsWell
<1>13. CASE DirectUse
  BY <1>13 DEF DirectUse
<1>14. CASE Ended \/ UNCHANGED <<converting, vars>>
  <2>1. UNCHANGED <<frame, stage, wkb, phase>> /\ UNCHANGED <<mapType, numCols, failed>>
    BY <1>14 DEF Ended, converting, vars, schema
  <2>2. EndsBadly' <=> EndsBadly
    BY <2>1 DEF EndsBadly
  <2> QED
    BY <1>3, <2>1, <2>2 DEF EndsWell
<1> QED
  BY <1>6, <1>7, <1>8, <1>9, <1>10, <1>11, <1>12, <1>13, <1>14, <1>15, <1>16 DEF FrameNext

(* A frame with geometries of one kind, that its binding knows, is read    *)
(* back without an exception, without a use of a null pointer and within   *)
(* bounds, unless the constructor had no layer to fill, the driver refused *)
(* a row that it could take, R counted down from no column, or R collected *)
(* the unprotected list of geometries.                                     *)
THEOREM SupportedFramesAlwaysReturn == FrameSpec => []SupportedFramesReturn
<1>1. FrameInit => EndsWell
  BY DEF FrameInit, Init, EndsWell, EndsBadly
<1>2. /\ FrameInvariant /\ DataSetInvariant /\ ColumnsKept /\ CallsInvariant
      /\ TypeOK /\ OnItsWay /\ EndsWell /\ [FrameNext]_<<converting, vars>>
      => EndsWell'
  BY ReturnStep
<1>3. EndsWell => SupportedFramesReturn
  BY DEF EndsWell, SupportedFramesReturn, OfOneKind, RowRefused
<1> QED
  BY <1>1, <1>2, <1>3, DataSetIsInvariant, AlwaysCallsInvariant, DataSetTypes,
    FramesStayInOrder, PTL DEF FrameSpec
=============================================================================
