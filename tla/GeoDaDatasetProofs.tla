-------------------------- MODULE GeoDaDatasetProofs --------------------------
(***************************************************************************)
(* What a data set keeps right, for all tables, geometries, data sources   *)
(* and frames, whichever fields, geometries and features OGR refuses and   *)
(* whatever is asked in which order.                                       *)
(***************************************************************************)
EXTENDS FrameRoundTrip, WellFoundedInduction, TLAPS

N == Len(BytesLen)

ColumnSet == [name : Names, type : Types, vals : Seq(Forms)]

Stored == [cells : Seq(Cells), geom : Nat]

Failures ==
  [fields : SUBSET Nat, names : SUBSET Nat, geometries : SUBSET Nat,
   rows : SUBSET Nat, layer : {"no", "not created", "not opened", "unsupported"}]

(* InField, of any fields and table.                                       *)
HeldIn(fields, tab, f, j, i) ==
  CASE fields[f].type # tab[j].type -> <<-j, i>>
    [] tab[j].vals[i] = "whole" -> <<j, i>>
    [] tab[j].vals[i] = "cut" -> <<-j, i>>
    [] OTHER -> Null

(* RowsCoherent, with the types that it rests on.                          *)
Coherent ==
  /\ kept \in Seq(Nat)
  /\ failed.rows \subseteq 1 .. row /\ failed.geometries \subseteq 1 .. row
  /\ {kept[r] : r \in DOMAIN kept} = (1 .. row) \ failed.rows
  /\ \A r, s \in DOMAIN kept : r < s => kept[r] < kept[s]
  /\ Len(poLayer.rows) = Len(kept)
  /\ \A r \in DOMAIN kept :
       /\ poLayer.rows[r].geom =
            IF kept[r] \in failed.geometries THEN NoGeometry ELSE kept[r]
       /\ \A f \in DOMAIN poLayer.fields :
            poLayer.rows[r].cells[f] \in
              {Null} \cup {HeldIn(poLayer.fields, table, f, j, kept[r]) : j \in Columns}

TypesKept ==
  /\ phase \in {"unbuilt", "fields", "features", "reading", "ready", "undefined"}
  /\ row \in 0 .. N
  /\ table \in Seq(ColumnSet)
  /\ failed \in Failures

LayerKept ==
  phase \in {"fields", "features", "reading", "ready"} =>
    /\ poLayer \in [fields : Seq(Fields), rows : Seq(Stored)]
    /\ \A r \in DOMAIN poLayer.rows : DOMAIN poLayer.rows[r].cells = DOMAIN poLayer.fields
    /\ numObs \in Nat

(* Nothing has been made of the geometries yet.                            *)
NoRows ==
  /\ row = 0 /\ wkb_offset = 0 /\ kept = <<>>
  /\ failed.rows = {} /\ failed.geometries = {}

(* The offset is where the next geometry starts.                           *)
BuildKept ==
  /\ phase = "unbuilt" => NoRows
  /\ phase = "fields" => NoRows /\ poLayer.rows = <<>>
  /\ phase = "features" => Coherent /\ (row < N => wkb_offset = Starts[row + 1])
  /\ row > 0 => Coherent

(* The list of features is that of the layer, and the centroids are those  *)
(* of its rows, if they have been made.                                    *)
ListsKept ==
  /\ phase \in {"unbuilt", "fields", "features", "reading"} =>
       features = <<>> /\ centroids = <<>> /\ answer = NoAnswer
  /\ phase = "ready" =>
       /\ features \in {<<>>, poLayer.rows}
       /\ centroids \in {<<>>, LocatedIn(poLayer.rows)}

DataSetInvariant == TypesKept /\ LayerKept /\ BuildKept /\ ListsKept

(* What building does to columns: the layer has a field of every column    *)
(* that was stored under its own name, no two fields have names that are   *)
(* alike, a row holds what was set in it, and as many rows as observations *)
(* are all of them, in their place.                                        *)
NamesKept ==
  /\ numObs = N /\ numCols = Len(table)
  /\ fieldNames \in Seq(Names) /\ Len(fieldNames) <= Len(table)
  /\ phase # "fields" => Len(fieldNames) = Len(table)
  /\ failed.fields \cup failed.names \subseteq DOMAIN fieldNames

FieldsStored ==
  /\ \A j \in DOMAIN fieldNames : j \notin failed.fields \cup failed.names =>
       \E f \in DOMAIN poLayer.fields : poLayer.fields[f].name = table[j].name
  /\ \A f, g \in DOMAIN poLayer.fields :
       Alike(poLayer.fields[f].name, poLayer.fields[g].name) => f = g

CellsKept == \A r \in DOMAIN kept : poLayer.rows[r].cells = CellsOf(kept[r])

InOrder ==
  /\ Len(kept) <= row
  /\ Len(kept) = row => \A r \in DOMAIN kept : kept[r] = r
  /\ phase \in {"reading", "ready"} => row = N

ColumnsKept ==
  /\ phase = "unbuilt" =>
       table = <<>> /\ fieldNames = <<>> /\ failed.fields = {} /\ failed.names = {}
  /\ table # <<>> /\ phase \in {"fields", "features", "reading", "ready"} =>
       NamesKept /\ FieldsStored /\ CellsKept /\ InOrder

(* What the owner of a data set does, be it a caller or a conversion: the  *)
(* table is anyone's.                                                      *)
AnyStep ==
  \/ \E tab \in Seq(ColumnSet) : \E map_type : CreateLayer(tab, map_type)
  \/ NoLayerCreated
  \/ \E accepted \in BOOLEAN, written \in Names : CreateField(accepted, written)
  \/ FieldsDone
  \/ \E good, stored \in BOOLEAN : CreateFeature(good, stored)
  \/ ReadBeyondColumn
  \/ FeaturesDone
  \/ \E file \in Files, name \in LayerNames : Open(file, name)
  \/ \E file \in Files : OpenFails(file)
  \/ ReadAllFeatures
  \/ \E name :
       /\ table # <<>> => name \in Names
       /\ GetCol(name) \/ GetUndefinesCol(name) \/ LISA(name)
  \/ \E a, b \in Names : SKATER(<<a, b>>)
  \/ GetGeometry
  \/ CreateContiguityWeights
-----------------------------------------------------------------------------
(* Indices have a least and a greatest.                                    *)
LEMMA Least ==
  ASSUME NEW S \in SUBSET Nat, S # {}
  PROVE  \E x \in S : \A y \in S : x <= y
<1>1. \E x \in S : \A y \in S : ~(<<y, x>> \in OpToRel(<, Nat))
  BY NatLessThanWellFounded, WFMin
<1>2. PICK x \in S : \A y \in S : ~(<<y, x>> \in OpToRel(<, Nat))
  BY <1>1
<1>3. \A y \in S : ~(y < x)
  BY <1>2 DEF OpToRel
<1> QED
  BY <1>3

LEMMA Greatest ==
  ASSUME NEW n \in Nat, NEW S \in SUBSET (1 .. n), S # {}
  PROVE  \E x \in S : \A y \in S : y <= x
<1> DEFINE T == {k \in Nat : \E x \in S : k = n - x}
<1>1. T # {}
  <2>1. PICK x \in S : TRUE
    OBVIOUS
  <2>2. n - x \in T
    BY <2>1
  <2> QED
    BY <2>2
<1>2. PICK k \in T : \A l \in T : k <= l
  <2> HIDE DEF T
  <2>1. T \in SUBSET Nat
    BY DEF T
  <2> QED
    BY <1>1, <2>1, Least
<1>3. PICK x \in S : k = n - x
  BY <1>2
<1>4. \A y \in S : y <= x
  <2> SUFFICES ASSUME NEW y \in S PROVE y <= x
    OBVIOUS
  <2>1. n - y \in T
    OBVIOUS
  <2>2. k <= n - y
    BY <1>2, <2>1
  <2> QED
    BY <1>3, <2>2
<1> QED
  BY <1>4

(* Geometries are where the caller has put them.                           *)
LEMMA StartFacts ==
  /\ N \in Nat /\ DOMAIN BytesLen = 1 .. N /\ DOMAIN Starts = 1 .. N
  /\ \A i \in 1 .. N : BytesLen[i] \in Nat /\ Starts[i] \in Nat
  /\ \A i \in 1 .. N : Starts[i] = IF i = 1 THEN 0 ELSE Starts[i - 1] + BytesLen[i - 1]
  /\ \A i, j \in 1 .. N : Starts[i] = Starts[j] => i = j
<1>1. /\ N \in Nat /\ DOMAIN BytesLen = 1 .. N /\ DOMAIN Starts = 1 .. N
      /\ \A i \in 1 .. N : BytesLen[i] \in Nat /\ Starts[i] \in Nat
  BY BytesLenAssumption, StartsAssumption DEF N
<1>2. /\ \A i \in 1 .. N : Starts[i] = IF i = 1 THEN 0 ELSE Starts[i - 1] + BytesLen[i - 1]
      /\ \A i, j \in 1 .. N : i < j => Starts[i] < Starts[j]
  BY <1>1, StartsAssumption
<1>3. ASSUME NEW i \in 1 .. N, NEW j \in 1 .. N, Starts[i] = Starts[j] PROVE i = j
  <2>1. i < j => Starts[i] < Starts[j]
    BY <1>2
  <2>2. j < i => Starts[j] < Starts[i]
    BY <1>2
  <2>3. Starts[i] \in Nat /\ Starts[j] \in Nat /\ i \in Nat /\ j \in Nat
    BY <1>1
  <2> QED
    BY <1>3, <2>1, <2>2, <2>3
<1> QED
  BY <1>1, <1>2, <1>3

(* The bytes of geometry i are found where it starts.                      *)
LEMMA GeometryFound ==
  ASSUME NEW i \in 1 .. N PROVE GeometryAt(Starts[i], BytesLen[i]) = i
<1> DEFINE there == {k \in DOMAIN BytesLen :
                       Starts[k] = Starts[i] /\ BytesLen[k] = BytesLen[i]}
<1>1. there = {i}
  BY StartFacts
<1> QED
  BY <1>1 DEF GeometryAt

(* The last of some columns is one of them.                                *)
LEMMA LastIsOne ==
  ASSUME NEW n \in Nat, NEW S \in SUBSET (1 .. n), S # {}
  PROVE  LastOf(S) \in S /\ \A k \in S : k <= LastOf(S)
BY Greatest DEF LastOf

(* What a field holds is a cell.                                           *)
LEMMA InFieldType ==
  ASSUME NEW f, NEW j \in Nat, NEW i \in Nat
  PROVE  InField(f, j, i) \in Cells
<1>1. <<j, i>> \in Cells /\ <<-j, i>> \in Cells /\ Null \in Cells
  BY DEF Cells, Null
<1>2. InField(f, j, i) \in {<<j, i>>, <<-j, i>>, Null}
  BY DEF InField
<1> QED
  BY <1>1, <1>2

LEMMA InFieldIs ==
  ASSUME NEW f, NEW j, NEW i
  PROVE  InField(f, j, i) = HeldIn(poLayer.fields, table, f, j, i)
BY DEF InField, HeldIn

(* A cell is of a column of the table, or never set.                       *)
LEMMA CellFacts ==
  ASSUME NEW i \in Nat, table \in Seq(ColumnSet), poLayer.fields \in Seq(Fields)
  PROVE  /\ CellsOf(i) \in Seq(Cells)
         /\ DOMAIN CellsOf(i) = DOMAIN poLayer.fields
         /\ \A f \in DOMAIN poLayer.fields :
              CellsOf(i)[f] \in {Null} \cup {HeldIn(poLayer.fields, table, f, j, i) : j \in Columns}
<1> DEFINE setters(f) == {j \in Columns : FieldNamed(poLayer, table[j].name) = f}
<1>1. Columns = 1 .. Len(table) /\ Len(table) \in Nat /\ Columns \subseteq Nat
  BY DEF Columns
<1>2. \A f \in DOMAIN poLayer.fields :
        CellsOf(i)[f] = IF setters(f) = {} THEN Null ELSE InField(f, LastOf(setters(f)), i)
  BY DEF CellsOf
<1>3. \A f \in DOMAIN poLayer.fields :
        CellsOf(i)[f] \in {Null} \cup {HeldIn(poLayer.fields, table, f, j, i) : j \in Columns}
  <2> SUFFICES ASSUME NEW f \in DOMAIN poLayer.fields, setters(f) # {}
               PROVE  CellsOf(i)[f] \in {HeldIn(poLayer.fields, table, f, j, i) : j \in Columns}
    BY <1>2
  <2>1. setters(f) \in SUBSET (1 .. Len(table))
    BY <1>1
  <2>2. LastOf(setters(f)) \in Columns
    <3> HIDE DEF setters
    <3> QED
      BY <1>1, <2>1, LastIsOne
  <2>3. CellsOf(i)[f] = HeldIn(poLayer.fields, table, f, LastOf(setters(f)), i)
    BY <1>2, InFieldIs
  <2> HIDE DEF setters
  <2> QED
    BY <2>2, <2>3
<1>4. DOMAIN CellsOf(i) = DOMAIN poLayer.fields
  BY DEF CellsOf
<1>5. \A f \in DOMAIN poLayer.fields : CellsOf(i)[f] \in Cells
  <2>1. Null \in Cells
    BY DEF Null, Cells
  <2> QED
    BY <1>1, <1>3, <2>1, InFieldIs, InFieldType
<1>6. CellsOf(i) \in Seq(Cells)
  <2>1. CellsOf(i) = [f \in 1 .. Len(poLayer.fields) |-> CellsOf(i)[f]]
    BY DEF CellsOf
  <2>2. Len(poLayer.fields) \in Nat /\ DOMAIN poLayer.fields = 1 .. Len(poLayer.fields)
    OBVIOUS
  <2> DEFINE n == Len(poLayer.fields)
             c == CellsOf(i)
  <2>3. n \in Nat /\ \A f \in 1 .. n : c[f] \in Cells
    BY <1>5, <2>2
  <2>4. c = [f \in 1 .. n |-> c[f]]
    BY <2>1
  <2> HIDE DEF c, n
  <2>5. c \in [1 .. n -> Cells]
    BY <2>3, <2>4
  <2>6. c \in Seq(Cells)
    BY <2>3, <2>5
  <2> QED
    BY <2>6 DEF c
<1> QED
  BY <1>3, <1>4, <1>6

(* The field that a name finds is the first one of the name, case aside.   *)
LEMMA FieldNamedFacts ==
  ASSUME NEW layer, layer.fields \in Seq(Fields), NEW name
  PROVE  /\ FieldNamed(layer, name) \in {0} \cup DOMAIN layer.fields
         /\ FieldNamed(layer, name) # 0 =>
              /\ Alike(layer.fields[FieldNamed(layer, name)].name, name)
              /\ \A g \in 1 .. FieldNamed(layer, name) - 1 : ~Alike(layer.fields[g].name, name)
         /\ 0 \notin DOMAIN layer.fields
         /\ (\E f \in DOMAIN layer.fields : Alike(layer.fields[f].name, name))
              => FieldNamed(layer, name) # 0
<1> DEFINE named == {f \in DOMAIN layer.fields : Alike(layer.fields[f].name, name)}
           first == CHOOSE f \in DOMAIN layer.fields :
                      /\ Alike(layer.fields[f].name, name)
                      /\ \A g \in 1 .. f - 1 : ~Alike(layer.fields[g].name, name)
<1>1. DOMAIN layer.fields = 1 .. Len(layer.fields) /\ Len(layer.fields) \in Nat
  OBVIOUS
<1>2. CASE named = {}
  BY <1>1, <1>2 DEF FieldNamed
<1>3. CASE named # {}
  <2>1. named \in SUBSET Nat
    BY <1>1
  <2>2. PICK f \in named : \A g \in named : f <= g
    <3> HIDE DEF named
    <3> QED
      BY <1>3, <2>1, Least
  <2>3. \A g \in 1 .. f - 1 : ~Alike(layer.fields[g].name, name)
    BY <1>1, <2>2
  <2>4. /\ first \in DOMAIN layer.fields /\ Alike(layer.fields[first].name, name)
        /\ \A g \in 1 .. first - 1 : ~Alike(layer.fields[g].name, name)
    BY <2>2, <2>3
  <2>5. FieldNamed(layer, name) = first
    BY <1>3 DEF FieldNamed
  <2> HIDE DEF first
  <2> QED
    BY <1>1, <2>4, <2>5
<1> QED
  BY <1>2, <1>3

(* No other field is the first of the name.                                *)
LEMMA FirstIsFound ==
  ASSUME NEW layer, layer.fields \in Seq(Fields), NEW name,
         NEW f \in DOMAIN layer.fields, Alike(layer.fields[f].name, name),
         \A g \in 1 .. f - 1 : ~Alike(layer.fields[g].name, name)
  PROVE  FieldNamed(layer, name) = f
<1> DEFINE found == FieldNamed(layer, name)
<1>1. DOMAIN layer.fields = 1 .. Len(layer.fields) /\ Len(layer.fields) \in Nat
  OBVIOUS
<1>2. /\ found \in DOMAIN layer.fields /\ Alike(layer.fields[found].name, name)
      /\ \A g \in 1 .. found - 1 : ~Alike(layer.fields[g].name, name)
  BY FieldNamedFacts
<1> HIDE DEF found
<1>3. ~(found < f) /\ ~(f < found)
  BY <1>1, <1>2
<1>4. found = f
  BY <1>1, <1>2, <1>3
<1> QED
  BY <1>4 DEF found

(* Names that are alike find one field, and layers with the same fields    *)
(* find it at one place.                                                   *)
LEMMA AlikeFindOne ==
  ASSUME NEW layer, layer.fields \in Seq(Fields), NEW other, other.fields = layer.fields,
         NEW a, NEW b, Alike(a, b)
  PROVE  FieldNamed(layer, a) = FieldNamed(other, b)
<1> DEFINE f == FieldNamed(layer, a)
           g == FieldNamed(other, b)
<1>1. \A name : Alike(name, a) <=> Alike(name, b)
  BY DEF Alike
<1>2. CASE g = 0
  <2>1. \A h \in DOMAIN layer.fields : ~Alike(layer.fields[h].name, b)
    BY <1>2, FieldNamedFacts
  <2>2. f = 0
    BY <1>1, <2>1, FieldNamedFacts
  <2> QED
    BY <1>2, <2>2
<1>3. CASE g # 0
  <2>1. /\ g \in DOMAIN layer.fields /\ Alike(layer.fields[g].name, b)
        /\ \A h \in 1 .. g - 1 : ~Alike(layer.fields[h].name, b)
    BY <1>3, FieldNamedFacts
  <2> HIDE DEF g
  <2>2. f = g
    BY <1>1, <2>1, FirstIsFound
  <2> QED
    BY <2>2 DEF g
<1> QED
  BY <1>2, <1>3

(* What is set in a row depends on the fields and the table.               *)
LEMMA CellsAreKept ==
  ASSUME table' = table, poLayer'.fields = poLayer.fields,
         poLayer.fields \in Seq(Fields), NEW i
  PROVE  CellsOf(i)' = CellsOf(i)
<1>1. \A name : FieldNamed(poLayer', name) = FieldNamed(poLayer, name)
  BY AlikeFindOne DEF Alike
<1> DEFINE setters(f) == {j \in Columns : FieldNamed(poLayer, table[j].name) = f}
           after(f) == {j \in Columns' : FieldNamed(poLayer', table'[j].name) = f}
           held(f, j) == HeldIn(poLayer'.fields, table', f, j, i)
<1>2. \A f : after(f) = setters(f)
  BY <1>1 DEF Columns
<1>3. CellsOf(i) = [f \in DOMAIN poLayer.fields |->
        IF setters(f) = {} THEN Null ELSE InField(f, LastOf(setters(f)), i)]
  BY DEF CellsOf
<1>4. CellsOf(i)' = [f \in DOMAIN poLayer.fields |->
        IF after(f) = {} THEN Null ELSE held(f, LastOf(after(f)))]
  BY DEF CellsOf, InField, HeldIn
<1>5. \A f, j : held(f, j) = InField(f, j, i)
  BY InFieldIs
<1> HIDE DEF setters, after, held
<1> QED
  BY <1>2, <1>3, <1>4, <1>5

(* What stays the same while the layer and what was made of it do.         *)
LEMMA CoherentKept ==
  ASSUME UNCHANGED <<poLayer, row, table, wkb_offset, kept, failed>>
  PROVE  Coherent' = Coherent /\ NoRows' = NoRows
BY DEF Coherent, NoRows, Columns
-----------------------------------------------------------------------------
LEMMA InitDataSet == Init => DataSetInvariant
<1> SUFFICES ASSUME Init PROVE DataSetInvariant
  OBVIOUS
<1>1. failed \in Failures /\ failed.rows = {} /\ failed.geometries = {}
  BY DEF Init, Failures
<1> QED
  BY <1>1, StartFacts DEF Init, DataSetInvariant, TypesKept, LayerKept, BuildKept,
    ListsKept, NoRows

(* A step after which the data set is undefined.                           *)
LEMMA UndefinedKeeps ==
  ASSUME DataSetInvariant, GoUndefined, failed' \in Failures,
         failed' = failed \/ row = 0
  PROVE  DataSetInvariant'
<1>1. /\ phase' = "undefined"
      /\ UNCHANGED <<poLayer, row, table, wkb_offset, kept>>
  BY DEF GoUndefined, building
<1>2. (row > 0 => Coherent)'
  <2>1. CASE failed' = failed
    BY <1>1, <2>1, CoherentKept DEF DataSetInvariant, BuildKept
  <2>2. CASE row = 0
    BY <1>1, <2>2
  <2> QED
    BY <2>1, <2>2
<1> QED
  BY <1>1, <1>2 DEF DataSetInvariant, TypesKept, LayerKept, BuildKept, ListsKept

LEMMA CreateLayerKeeps ==
  ASSUME DataSetInvariant, NEW tab \in Seq(ColumnSet), NEW map_type,
         CreateLayer(tab, map_type)
  PROVE  DataSetInvariant'
<1>1. /\ phase = "unbuilt" /\ phase' = "fields" /\ table' = tab
      /\ numObs' = N /\ poLayer' = [fields |-> <<>>, rows |-> <<>>]
      /\ UNCHANGED <<row, wkb_offset, features, centroids, kept, failed, answer>>
  BY DEF CreateLayer, N
<1>2. NoRows'
  BY <1>1 DEF DataSetInvariant, BuildKept, NoRows
<1>3. LayerKept'
  BY <1>1, StartFacts DEF LayerKept
<1> QED
  BY <1>1, <1>2, <1>3 DEF DataSetInvariant, TypesKept, BuildKept, ListsKept, NoRows

LEMMA CreateFieldKeeps ==
  ASSUME DataSetInvariant, NEW accepted \in BOOLEAN, NEW written \in Names,
         CreateField(accepted, written)
  PROVE  DataSetInvariant'
<1> DEFINE j == Len(fieldNames) + 1
           field == [name |-> written, type |-> table[j].type]
<1>1. /\ phase = "fields" /\ phase' = phase /\ j \in Columns
      /\ poLayer' = IF accepted THEN [poLayer EXCEPT !.fields = Append(@, field)]
                    ELSE poLayer
      /\ failed' = IF ~accepted THEN [failed EXCEPT !.fields = @ \cup {j}]
                   ELSE IF written = table[j].name THEN failed
                   ELSE [failed EXCEPT !.names = @ \cup {j}]
      /\ UNCHANGED <<row, table, wkb_offset, numObs, features, centroids, kept, answer>>
  BY DEF CreateField, building
<1>2. /\ table \in Seq(ColumnSet) /\ failed \in Failures /\ NoRows
      /\ poLayer \in [fields : Seq(Fields), rows : Seq(Stored)] /\ poLayer.rows = <<>>
      /\ numObs \in Nat
  BY <1>1 DEF DataSetInvariant, TypesKept, LayerKept, BuildKept
<1>3. table[j] \in ColumnSet /\ j \in Nat
  BY <1>1, <1>2 DEF Columns
<1>4. field \in Fields
  BY <1>3 DEF Fields, ColumnSet
<1>5. /\ poLayer' \in [fields : Seq(Fields), rows : Seq(Stored)]
      /\ poLayer'.rows = <<>>
  <2> DEFINE added == Append(poLayer.fields, field)
  <2>1. added \in Seq(Fields)
    <3> HIDE DEF field
    <3> QED
      BY <1>2, <1>4
  <2>2. accepted => poLayer' = [poLayer EXCEPT !.fields = added]
    BY <1>1
  <2>3. ~accepted => poLayer' = poLayer
    BY <1>1
  <2> HIDE DEF added
  <2> QED
    BY <1>2, <2>1, <2>2, <2>3
<1>6. failed' \in Failures /\ failed'.rows = {} /\ failed'.geometries = {}
  <2> HIDE DEF j
  <2> QED
    BY <1>1, <1>2, <1>3 DEF Failures, NoRows
<1> QED
  BY <1>1, <1>2, <1>5, <1>6 DEF DataSetInvariant, TypesKept, LayerKept, BuildKept,
    ListsKept, NoRows

LEMMA FieldsDoneKeeps ==
  ASSUME DataSetInvariant, FieldsDone
  PROVE  DataSetInvariant'
<1>1. /\ phase = "fields" /\ phase' = "features"
      /\ UNCHANGED <<poLayer, row, table, wkb_offset, numObs, features, centroids,
                     kept, failed, answer>>
  BY DEF FieldsDone, building, schema
<1>2. NoRows /\ poLayer.rows = <<>>
  BY <1>1 DEF DataSetInvariant, BuildKept
<1>3. Coherent
  BY <1>2 DEF Coherent, NoRows
<1>4. row < N => wkb_offset = Starts[row + 1]
  BY <1>2, StartFacts DEF NoRows
<1> QED
  BY <1>1, <1>2, <1>3, <1>4, CoherentKept DEF DataSetInvariant, TypesKept, LayerKept,
    BuildKept, ListsKept, NoRows

(* A feature is made of values and of a geometry that belong together.     *)
LEMMA CreateFeatureKeeps ==
  ASSUME DataSetInvariant, NEW good \in BOOLEAN, NEW stored \in BOOLEAN,
         CreateFeature(good, stored)
  PROVE  DataSetInvariant'
<1> DEFINE i == row + 1
           geom == IF good THEN i ELSE NoGeometry
           feature == [cells |-> CellsOf(i), geom |-> geom]
<1>1. /\ phase = "features" /\ phase' = phase /\ row' = i /\ i \in 1 .. N
      /\ poLayer' = IF stored THEN
                      [poLayer EXCEPT !.rows =
                        Append(@, [cells |-> CellsOf(i), geom |->
                          IF good THEN GeometryAt(wkb_offset, BytesLen[i]) ELSE NoGeometry])]
                    ELSE poLayer
      /\ kept' = IF stored THEN Append(kept, i) ELSE kept
      /\ failed' = [failed EXCEPT !.geometries = IF good THEN @ ELSE @ \cup {i},
                                  !.rows = IF stored THEN @ ELSE @ \cup {i}]
      /\ wkb_offset' = wkb_offset + BytesLen[i]
      /\ UNCHANGED <<table, numObs, features, centroids, answer>>
  BY StartFacts DEF CreateFeature, schema, Advanced
<1>2. /\ table \in Seq(ColumnSet) /\ failed \in Failures /\ Coherent
      /\ poLayer \in [fields : Seq(Fields), rows : Seq(Stored)]
      /\ \A r \in DOMAIN poLayer.rows : DOMAIN poLayer.rows[r].cells = DOMAIN poLayer.fields
      /\ numObs \in Nat /\ row \in 0 .. N /\ N \in Nat
      /\ row < N => wkb_offset = Starts[row + 1]
  BY <1>1, StartFacts DEF DataSetInvariant, TypesKept, LayerKept, BuildKept
<1>3. wkb_offset = Starts[i] /\ i \in Nat /\ row \in Nat
  BY <1>1, <1>2
<1>4. poLayer' = IF stored THEN [poLayer EXCEPT !.rows = Append(@, feature)] ELSE poLayer
  BY <1>1, <1>3, GeometryFound
<1>5. i' - 1 = i /\ (i < N => wkb_offset' = Starts[i + 1])
  <2>1. i' - 1 = i /\ wkb_offset' = Starts[i] + BytesLen[i]
    BY <1>1, <1>3
  <2>2. i < N => i + 1 \in 1 .. N /\ i + 1 # 1 /\ (i + 1) - 1 = i
    BY <1>2, <1>3
  <2>3. i < N => Starts[i + 1] = Starts[i] + BytesLen[i]
    BY <2>2, StartFacts
  <2> QED
    BY <2>1, <2>3
<1>6. /\ CellsOf(i) \in Seq(Cells)
      /\ DOMAIN CellsOf(i) = DOMAIN poLayer.fields
      /\ \A f \in DOMAIN poLayer.fields :
           CellsOf(i)[f] \in
             {Null} \cup {HeldIn(poLayer.fields, table, f, j, i) : j \in Columns}
  BY <1>2, <1>3, CellFacts
<1>7. feature \in Stored /\ feature.cells = CellsOf(i) /\ feature.geom = geom
  BY <1>3, <1>6 DEF Stored, NoGeometry
<1>8. /\ failed' \in Failures
      /\ failed'.geometries = IF good THEN failed.geometries ELSE failed.geometries \cup {i}
      /\ failed'.rows = IF stored THEN failed.rows ELSE failed.rows \cup {i}
  <2> HIDE DEF i
  <2> QED
    BY <1>1, <1>2, <1>3 DEF Failures
<1>9. /\ kept \in Seq(Nat) /\ Len(kept) = Len(poLayer.rows)
      /\ failed.rows \subseteq 1 .. row /\ failed.geometries \subseteq 1 .. row
      /\ {kept[r] : r \in DOMAIN kept} = (1 .. row) \ failed.rows
      /\ \A r \in DOMAIN kept : kept[r] \in 1 .. row
  BY <1>2 DEF Coherent
<1>10. CASE stored
  <2> DEFINE n == Len(kept) + 1
  <2> HIDE DEF feature, geom
  <2>1. /\ kept' = Append(kept, i) /\ kept' \in Seq(Nat) /\ Len(kept') = n
        /\ DOMAIN kept' = DOMAIN kept \cup {n} /\ n \notin DOMAIN kept
        /\ kept'[n] = i /\ \A r \in DOMAIN kept : kept'[r] = kept[r] /\ r < n
    BY <1>1, <1>3, <1>9, <1>10
  <2>2. /\ poLayer'.fields = poLayer.fields
        /\ poLayer'.rows = Append(poLayer.rows, feature)
        /\ poLayer' \in [fields : Seq(Fields), rows : Seq(Stored)]
    <3> DEFINE added == Append(poLayer.rows, feature)
    <3>1. added \in Seq(Stored)
      BY <1>2, <1>7
    <3>2. poLayer' = [poLayer EXCEPT !.rows = added]
      BY <1>4, <1>10
    <3> HIDE DEF added
    <3>3. /\ poLayer'.fields = poLayer.fields /\ poLayer'.rows = added
          /\ poLayer' \in [fields : Seq(Fields), rows : Seq(Stored)]
      BY <1>2, <3>1, <3>2
    <3> QED
      BY <3>3 DEF added
  <2>3. /\ Len(poLayer'.rows) = n /\ poLayer'.rows[n] = feature
        /\ \A r \in DOMAIN kept : poLayer'.rows[r] = poLayer.rows[r]
    BY <1>2, <1>7, <1>9, <2>2
  <2>4. DOMAIN poLayer'.rows = DOMAIN kept \cup {n} /\ DOMAIN kept = DOMAIN poLayer.rows
    BY <1>2, <1>9, <2>1, <2>2, <2>3
  <2>5. {kept'[r] : r \in DOMAIN kept'} = {kept[r] : r \in DOMAIN kept} \cup {i}
    BY <2>1
  <2>6. {kept'[r] : r \in DOMAIN kept'} = (1 .. i) \ failed'.rows
    <3>1. {kept[r] : r \in DOMAIN kept} \cup {i} = ((1 .. row) \ failed.rows) \cup {i}
      BY <1>9
    <3>2. ((1 .. row) \ failed.rows) \cup {i} = (1 .. i) \ failed.rows
      BY <1>3, <1>9
    <3> QED
      BY <1>8, <1>10, <2>5, <3>1, <3>2
  <2>7. \A r, s \in DOMAIN kept' : r < s => kept'[r] < kept'[s]
    BY <1>2, <1>3, <1>9, <2>1 DEF Coherent
  <2>8. ASSUME NEW r \in DOMAIN kept'
        PROVE  /\ poLayer'.rows[r].geom =
                    IF kept'[r] \in failed'.geometries THEN NoGeometry ELSE kept'[r]
               /\ \A f \in DOMAIN poLayer'.fields :
                    poLayer'.rows[r].cells[f] \in
                      {Null} \cup {HeldIn(poLayer.fields, table, f, j, kept'[r]) : j \in Columns}
    <3>1. CASE r = n
      <4>1. i \in failed'.geometries <=> ~good
        BY <1>3, <1>8, <1>9
      <4> QED
        BY <1>6, <1>7, <2>1, <2>2, <2>3, <3>1, <4>1 DEF geom
    <3>2. CASE r \in DOMAIN kept
      <4>1. kept[r] \in failed'.geometries <=> kept[r] \in failed.geometries
        BY <1>3, <1>8, <1>9, <3>2
      <4>2. /\ poLayer.rows[r].geom =
                 IF kept[r] \in failed.geometries THEN NoGeometry ELSE kept[r]
            /\ \A f \in DOMAIN poLayer.fields :
                 poLayer.rows[r].cells[f] \in
                   {Null} \cup {HeldIn(poLayer.fields, table, f, j, kept[r]) : j \in Columns}
        BY <1>2, <3>2 DEF Coherent
      <4> QED
        BY <2>1, <2>2, <2>3, <3>2, <4>1, <4>2
    <3> QED
      BY <2>1, <3>1, <3>2
  <2>9. failed'.rows \subseteq 1 .. i /\ failed'.geometries \subseteq 1 .. i
    BY <1>3, <1>8, <1>9
  <2>10. Coherent'
    <3>1. Columns' = Columns /\ table' = table /\ row' = i
      BY <1>1 DEF Columns
    <3>2. ASSUME NEW r \in DOMAIN kept'
          PROVE  /\ poLayer'.rows[r].geom =
                      IF kept'[r] \in failed'.geometries THEN NoGeometry ELSE kept'[r]
                 /\ \A f \in DOMAIN poLayer'.fields :
                      poLayer'.rows[r].cells[f] \in
                        {Null} \cup {HeldIn(poLayer'.fields, table', f, j, kept'[r]) : j \in Columns'}
      <4>1. poLayer'.fields = poLayer.fields
        BY <2>2
      <4> HIDE DEF i, n
      <4>2. poLayer'.rows[r].geom = IF kept'[r] \in failed'.geometries THEN NoGeometry ELSE kept'[r]
        BY <2>8
      <4>3. ASSUME NEW f \in DOMAIN poLayer'.fields
            PROVE  poLayer'.rows[r].cells[f] \in
                     {Null} \cup {HeldIn(poLayer'.fields, table', f, j, kept'[r]) : j \in Columns'}
        BY <2>8, <3>1, <4>1
      <4> QED
        BY <4>2, <4>3
    <3>3. /\ kept' \in Seq(Nat) /\ failed'.rows \subseteq 1 .. row'
          /\ failed'.geometries \subseteq 1 .. row'
          /\ {kept'[r] : r \in DOMAIN kept'} = (1 .. row') \ failed'.rows
          /\ Len(poLayer'.rows) = Len(kept')
      <4> HIDE DEF i, n
      <4> QED
        BY <2>1, <2>3, <2>6, <2>9, <3>1
    <3> HIDE DEF i, n
    <3> QED
      BY <2>7, <3>2, <3>3 DEF Coherent
  <2>11. LayerKept'
    BY <1>1, <1>2, <1>6, <1>7, <2>2, <2>3, <2>4 DEF LayerKept
  <2> QED
    BY <1>1, <1>2, <1>3, <1>5, <1>8, <2>10, <2>11 DEF DataSetInvariant, TypesKept,
      BuildKept, ListsKept
<1>11. CASE ~stored
  <2>1. kept' = kept /\ poLayer' = poLayer /\ Columns' = Columns
    BY <1>1, <1>11 DEF Columns
  <2>2. (1 .. i) \ failed'.rows = (1 .. row) \ failed.rows
    BY <1>3, <1>8, <1>9, <1>11
  <2>3. \A r \in DOMAIN kept : kept[r] \in failed'.geometries <=> kept[r] \in failed.geometries
    BY <1>3, <1>8, <1>9
  <2>4. failed'.rows \subseteq 1 .. i /\ failed'.geometries \subseteq 1 .. i
    BY <1>3, <1>8, <1>9
  <2>5. Coherent'
    <3> HIDE DEF i
    <3> QED
      BY <1>1, <1>2, <2>1, <2>2, <2>3, <2>4 DEF Coherent, Columns
  <2>6. LayerKept'
    BY <1>1, <1>2, <2>1 DEF LayerKept
  <2> QED
    BY <1>1, <1>2, <1>3, <1>5, <1>8, <2>5, <2>6 DEF DataSetInvariant, TypesKept,
      BuildKept, ListsKept
<1> QED
  BY <1>10, <1>11

LEMMA FeaturesDoneKeeps ==
  ASSUME DataSetInvariant, FeaturesDone
  PROVE  DataSetInvariant'
<1>1. /\ phase = "features" /\ phase' = "reading"
      /\ UNCHANGED <<poLayer, row, table, wkb_offset, numObs, features, centroids,
                     kept, failed, answer>>
  BY DEF FeaturesDone, building, schema
<1> QED
  BY <1>1, CoherentKept DEF DataSetInvariant, TypesKept, LayerKept, BuildKept,
    ListsKept

(* The layer of a data source is one of its own.                           *)
LEMMA LayerForFacts ==
  ASSUME NEW file \in Files, file # <<>>, NEW name
  PROVE  /\ file[LayerFor(file, name)] \in Layers
         /\ LET layer == file[LayerFor(file, name)] IN
              \A i \in DOMAIN layer.rows :
                DOMAIN layer.rows[i].cells = DOMAIN layer.fields
<1> DEFINE named == {k \in DOMAIN file : file[k].name = name}
<1>1. file \in Seq(Layers) /\ DOMAIN file = 1 .. Len(file) /\ Len(file) \in Nat
  BY FilesAssumption
<1>2. 1 \in DOMAIN file
  BY <1>1
<1>3. named # {} => (CHOOSE k \in named : \A l \in named : k <= l) \in named
  <2> SUFFICES ASSUME named # {}
               PROVE  \E k \in named : \A l \in named : k <= l
    OBVIOUS
  <2>1. named \in SUBSET Nat
    BY <1>1
  <2> QED
    <3> HIDE DEF named
    <3> QED
      BY <2>1, Least
<1>4. LayerFor(file, name) \in DOMAIN file
  BY <1>2, <1>3 DEF LayerFor
<1> QED
  BY <1>1, <1>4, FilesAssumption

LEMMA OpenKeeps ==
  ASSUME DataSetInvariant, NEW file \in Files, NEW name, Open(file, name)
  PROVE  DataSetInvariant'
<1> DEFINE layer == file[LayerFor(file, name)]
<1>1. /\ phase = "unbuilt" /\ file # <<>>
      /\ poLayer' = [fields |-> layer.fields, rows |-> layer.rows]
      /\ numObs' = Len(layer.rows)
      /\ \/ phase' = "reading" /\ failed' = failed
         \/ phase' = "ready" /\ failed' = [failed EXCEPT !.layer = "unsupported"]
      /\ UNCHANGED <<row, table, wkb_offset, features, centroids, kept, answer>>
  BY DEF Open, building
<1>2. /\ layer \in Layers
      /\ \A i \in DOMAIN layer.rows : DOMAIN layer.rows[i].cells = DOMAIN layer.fields
  BY <1>1, LayerForFacts
<1>3. /\ NoRows /\ failed \in Failures /\ features = <<>> /\ centroids = <<>>
      /\ answer = NoAnswer
  BY <1>1 DEF DataSetInvariant, TypesKept, BuildKept, ListsKept
<1>4. failed' \in Failures
  BY <1>1, <1>3 DEF Failures
<1>5. LayerKept'
  <2> HIDE DEF layer
  <2>1. layer.fields \in Seq(Fields) /\ layer.rows \in Seq(Stored)
    BY <1>2 DEF Layers, Stored
  <2> QED
    BY <1>1, <1>2, <2>1 DEF LayerKept
<1> QED
  BY <1>1, <1>3, <1>4, <1>5 DEF DataSetInvariant, TypesKept, BuildKept, ListsKept,
    NoRows

(* A reader that was reset passes all of the layer.                        *)
LEMMA AllRemain ==
  ASSUME poLayer.rows \in Seq(Stored) PROVE Remaining = poLayer.rows
<1>1. Len(poLayer.rows) \in Nat
  OBVIOUS
<1> QED
  BY <1>1 DEF Remaining, ResetReading

LEMMA ReadAllKeeps ==
  ASSUME DataSetInvariant, ReadAllFeatures
  PROVE  DataSetInvariant'
<1>1. /\ phase = "reading" /\ phase' = "ready" /\ features' = features \o Remaining
      /\ UNCHANGED <<poLayer, row, table, wkb_offset, numObs, centroids, kept, failed,
                     answer>>
  BY DEF ReadAllFeatures, building, schema
<1>2. /\ poLayer \in [fields : Seq(Fields), rows : Seq(Stored)]
      /\ features = <<>> /\ centroids = <<>>
  BY <1>1 DEF DataSetInvariant, LayerKept, ListsKept
<1>3. features' = poLayer.rows
  BY <1>1, <1>2, AllRemain
<1> QED
  BY <1>1, <1>2, <1>3, CoherentKept DEF DataSetInvariant, TypesKept, LayerKept,
    BuildKept, ListsKept

(* A call that leaves the data alone, and makes the right centroids if it  *)
(* makes any.                                                              *)
LEMMA AnswerKeeps ==
  ASSUME DataSetInvariant, NEW inBounds, NEW value, Answer(inBounds, value),
         centroids' \in {centroids, LocatedIn(poLayer.rows)}
  PROVE  DataSetInvariant'
<1>1. /\ phase = "ready" /\ phase' \in {"ready", "undefined"}
      /\ UNCHANGED <<poLayer, row, table, wkb_offset, numObs, features, kept, failed>>
  BY DEF Answer, building, schema
<1> QED
  BY <1>1, CoherentKept DEF DataSetInvariant, TypesKept, LayerKept, BuildKept,
    ListsKept

(* Every call is of that kind.                                             *)
LEMMA CallsKeep ==
  ASSUME DataSetInvariant,
         \/ \E name : GetCol(name) \/ GetUndefinesCol(name) \/ LISA(name)
         \/ \E a, b \in Names : SKATER(<<a, b>>)
         \/ GetGeometry
         \/ CreateContiguityWeights
  PROVE  DataSetInvariant'
<1>1. CASE \E name : GetCol(name) \/ GetUndefinesCol(name) \/ LISA(name)
  BY <1>1, AnswerKeeps DEF GetCol, GetUndefinesCol, LISA
<1>2. CASE \E a, b \in Names : SKATER(<<a, b>>)
  BY <1>2, AnswerKeeps DEF SKATER
<1>3. CASE GetGeometry
  BY <1>3, AnswerKeeps DEF GetGeometry
<1>4. CASE CreateContiguityWeights
  <2>1. phase = "ready"
    BY <1>4 DEF CreateContiguityWeights, Answer
  <2>2. Remaining = poLayer.rows /\ centroids \in {<<>>, LocatedIn(poLayer.rows)}
    BY <2>1, AllRemain DEF DataSetInvariant, LayerKept, ListsKept
  <2>3. GetCentroids \in {centroids, LocatedIn(poLayer.rows)}
    BY <2>2 DEF GetCentroids
  <2>4. centroids' \in {centroids, LocatedIn(poLayer.rows)}
    BY <1>4, <2>3 DEF CreateContiguityWeights
  <2>5. PICK inBounds, value : Answer(inBounds, value)
    BY <1>4 DEF CreateContiguityWeights
  <2> QED
    BY <2>4, <2>5, AnswerKeeps
<1> QED
  BY <1>1, <1>2, <1>3, <1>4

(* No step breaks the invariant.                                           *)
LEMMA AnyStepKeeps ==
  ASSUME DataSetInvariant, AnyStep \/ UNCHANGED vars
  PROVE  DataSetInvariant'
<1>1. CASE \E tab \in Seq(ColumnSet) : \E map_type : CreateLayer(tab, map_type)
  BY <1>1, CreateLayerKeeps
<1>2. CASE NoLayerCreated
  <2>1. row = 0 /\ failed' \in Failures /\ GoUndefined
    BY <1>2 DEF NoLayerCreated, DataSetInvariant, BuildKept, NoRows, TypesKept, Failures
  <2> QED
    BY <2>1, UndefinedKeeps
<1>3. CASE \E accepted \in BOOLEAN, written \in Names : CreateField(accepted, written)
  BY <1>3, CreateFieldKeeps
<1>4. CASE FieldsDone
  BY <1>4, FieldsDoneKeeps
<1>5. CASE \E good, stored \in BOOLEAN : CreateFeature(good, stored)
  BY <1>5, CreateFeatureKeeps
<1>6. CASE ReadBeyondColumn
  BY <1>6, UndefinedKeeps DEF ReadBeyondColumn, DataSetInvariant, TypesKept
<1>7. CASE FeaturesDone
  BY <1>7, FeaturesDoneKeeps
<1>8. CASE \E file \in Files, name \in LayerNames : Open(file, name)
  BY <1>8, OpenKeeps
<1>9. CASE \E file \in Files : OpenFails(file)
  <2>1. row = 0 /\ failed' \in Failures /\ GoUndefined
    BY <1>9 DEF OpenFails, DataSetInvariant, BuildKept, NoRows, TypesKept, Failures
  <2> QED
    BY <2>1, UndefinedKeeps
<1>10. CASE ReadAllFeatures
  BY <1>10, ReadAllKeeps
<1>11. CASE \/ \E name : GetCol(name) \/ GetUndefinesCol(name) \/ LISA(name)
            \/ \E a, b \in Names : SKATER(<<a, b>>)
            \/ GetGeometry
            \/ CreateContiguityWeights
  BY <1>11, CallsKeep
<1>12. CASE UNCHANGED vars
  <2>1. UNCHANGED <<phase, poLayer, row, table, wkb_offset, numObs, features, centroids,
                    kept, failed, answer>>
    BY <1>12 DEF vars, building, schema
  <2> QED
    BY <2>1, CoherentKept DEF DataSetInvariant, TypesKept, LayerKept, BuildKept,
      ListsKept
<1> QED
  BY <1>1, <1>2, <1>3, <1>4, <1>5, <1>6, <1>7, <1>8, <1>9, <1>10, <1>11, <1>12
  DEF AnyStep
-----------------------------------------------------------------------------
LEMMA FieldKeepsColumns ==
  ASSUME DataSetInvariant, ColumnsKept, NEW accepted \in BOOLEAN, NEW written \in Names,
         CreateField(accepted, written)
  PROVE  ColumnsKept'
<1> DEFINE j == Len(fieldNames) + 1
           field == [name |-> written, type |-> table[j].type]
           lost == failed.fields \cup failed.names
           own == accepted /\ written = table[j].name
<1> SUFFICES ASSUME table # <<>> PROVE (NamesKept /\ FieldsStored /\ CellsKept /\ InOrder)'
  BY DEF CreateField, building, ColumnsKept
<1>1. /\ phase = "fields" /\ phase' = "fields" /\ j \in Columns
      /\ accepted => ~Taken(written)
      /\ poLayer' = IF accepted THEN [poLayer EXCEPT !.fields = Append(@, field)]
                    ELSE poLayer
      /\ failed' = IF ~accepted THEN [failed EXCEPT !.fields = @ \cup {j}]
                   ELSE IF written = table[j].name THEN failed
                   ELSE [failed EXCEPT !.names = @ \cup {j}]
      /\ fieldNames' = Append(fieldNames, table[j].name)
      /\ UNCHANGED <<row, table, numObs, numCols, kept>>
  BY DEF CreateField, CallsField, building
<1>2. /\ table \in Seq(ColumnSet) /\ failed \in Failures /\ row = 0 /\ kept = <<>>
      /\ poLayer \in [fields : Seq(Fields), rows : Seq(Stored)]
      /\ NamesKept /\ FieldsStored
  BY <1>1 DEF DataSetInvariant, TypesKept, LayerKept, BuildKept, NoRows, ColumnsKept
<1>3. /\ fieldNames \in Seq(Names) /\ j \in Nat /\ j \in 1 .. Len(table)
      /\ DOMAIN fieldNames = 1 .. Len(fieldNames) /\ lost \subseteq DOMAIN fieldNames
      /\ table[j] \in ColumnSet /\ j \notin DOMAIN fieldNames
  BY <1>1, <1>2 DEF NamesKept, Columns
<1>4. table[j].name \in Names /\ field \in Fields
  BY <1>3 DEF ColumnSet, Fields
<1>5. /\ fieldNames' \in Seq(Names) /\ Len(fieldNames') = j
      /\ DOMAIN fieldNames' = DOMAIN fieldNames \cup {j}
  BY <1>1, <1>3, <1>4
<1>6. (failed.fields \cup failed.names)' = IF own THEN lost ELSE lost \cup {j}
  <2> HIDE DEF j
  <2> QED
    BY <1>1, <1>2 DEF Failures
<1>7. NamesKept'
  <2>1. Len(fieldNames') <= Len(table)
    BY <1>3, <1>5
  <2>2. (failed.fields \cup failed.names)' \subseteq DOMAIN fieldNames'
    BY <1>3, <1>5, <1>6
  <2> QED
    BY <1>1, <1>2, <1>5, <2>1, <2>2 DEF NamesKept
<1>8. FieldsStored'
  <2> DEFINE F == poLayer.fields
             G == poLayer'.fields
             n == Len(F) + 1
  <2>0. F \in Seq(Fields) /\ Len(F) \in Nat /\ DOMAIN F = 1 .. Len(F)
    BY <1>2
  <2>1. G = IF accepted THEN Append(F, field) ELSE F
    BY <1>1, <1>2
  <2>2. /\ ~Taken(written) <=> \A f \in DOMAIN F : ~Alike(F[f].name, written)
        /\ \A f, g \in DOMAIN F : Alike(F[f].name, F[g].name) => f = g
        /\ \A k \in DOMAIN fieldNames : k \notin lost =>
             \E f \in DOMAIN F : F[f].name = table[k].name
    BY <1>2 DEF Taken, FieldsStored
  <2> HIDE DEF F, G, field
  <2>3. /\ accepted => /\ DOMAIN G = DOMAIN F \cup {n} /\ G[n] = field
                       /\ \A f \in DOMAIN F : G[f] = F[f]
        /\ ~accepted => G = F
    <3>1. CASE accepted
      <4> DEFINE A == Append(F, field)
      <4>1. DOMAIN A = DOMAIN F \cup {n} /\ A[n] = field /\ \A f \in DOMAIN F : A[f] = F[f]
        BY <1>4, <2>0
      <4>2. G = A
        BY <2>1, <3>1
      <4> HIDE DEF A
      <4> QED
        BY <3>1, <4>1, <4>2
    <3>2. CASE ~accepted
      BY <2>1, <3>2
    <3> QED
      BY <3>1, <3>2
  <2>4. \A f, g \in DOMAIN G : Alike(G[f].name, G[g].name) => f = g
    <3>1. field.name = written
      BY DEF field
    <3>2. accepted => \A f \in DOMAIN F : ~Alike(F[f].name, written) /\ ~Alike(written, F[f].name)
      BY <1>1, <2>2 DEF Alike
    <3> QED
      BY <2>2, <2>3, <3>1, <3>2
  <2>5. ASSUME NEW k \in DOMAIN fieldNames', k \notin (failed.fields \cup failed.names)'
        PROVE  \E f \in DOMAIN G : G[f].name = table'[k].name
    <3>1. CASE k = j
      <4>1. own
        BY <1>6, <2>5, <3>1
      <4> QED
        BY <1>1, <2>3, <3>1, <4>1 DEF field
    <3>2. CASE k \in DOMAIN fieldNames
      <4>1. k \notin lost
        BY <1>6, <2>5
      <4>2. PICK f \in DOMAIN F : F[f].name = table[k].name
        BY <2>2, <3>2, <4>1
      <4> HIDE DEF j, lost
      <4> QED
        BY <1>1, <2>3, <4>2
    <3> QED
      BY <1>5, <3>1, <3>2
  <2> QED
    BY <2>4, <2>5 DEF FieldsStored, G
<1>9. CellsKept' /\ InOrder'
  <2>1. kept' = <<>> /\ row' = 0 /\ phase' = "fields" /\ DOMAIN kept' = {} /\ Len(kept') = 0
    BY <1>1, <1>2
  <2> QED
    BY <2>1 DEF CellsKept, InOrder
<1> QED
  BY <1>7, <1>8, <1>9

LEMMA FeatureKeepsColumns ==
  ASSUME DataSetInvariant, ColumnsKept, NEW good \in BOOLEAN, NEW stored \in BOOLEAN,
         CreateFeature(good, stored)
  PROVE  ColumnsKept'
<1> DEFINE i == row + 1
           geom == IF good THEN GeometryAt(wkb_offset, BytesLen[i]) ELSE NoGeometry
           feature == [cells |-> CellsOf(i), geom |-> geom]
<1> SUFFICES ASSUME table # <<>> PROVE (NamesKept /\ FieldsStored /\ CellsKept /\ InOrder)'
  BY DEF CreateFeature, ColumnsKept
<1>1. /\ phase = "features" /\ phase' = "features" /\ row' = i
      /\ poLayer' = IF stored THEN [poLayer EXCEPT !.rows = Append(@, feature)] ELSE poLayer
      /\ kept' = IF stored THEN Append(kept, i) ELSE kept
      /\ failed'.fields = failed.fields /\ failed'.names = failed.names
      /\ UNCHANGED <<table, numObs, numCols, fieldNames>>
  <2>1. failed \in Failures
    BY DEF DataSetInvariant, TypesKept
  <2>2. failed'.fields = failed.fields /\ failed'.names = failed.names
    BY <2>1 DEF CreateFeature, Failures
  <2> QED
    BY <2>2 DEF CreateFeature, schema
<1>2. /\ table \in Seq(ColumnSet) /\ row \in Nat
      /\ poLayer \in [fields : Seq(Fields), rows : Seq(Stored)]
      /\ NamesKept /\ FieldsStored /\ CellsKept /\ InOrder
      /\ kept \in Seq(Nat) /\ Len(poLayer.rows) = Len(kept)
  BY <1>1, StartFacts DEF DataSetInvariant, TypesKept, LayerKept, BuildKept, Coherent,
    ColumnsKept
<1>3. poLayer'.fields = poLayer.fields
  BY <1>1, <1>2
<1>4. NamesKept' /\ FieldsStored'
  <2> HIDE DEF i, feature
  <2> QED
    BY <1>1, <1>2, <1>3 DEF NamesKept, FieldsStored
<1>5. CASE ~stored
  <2>1. poLayer' = poLayer /\ kept' = kept /\ Len(kept) <= row /\ row' = row + 1
        /\ Len(kept) \in Nat
    BY <1>1, <1>2, <1>5 DEF InOrder
  <2>2. CellsKept'
    <3>1. poLayer' = poLayer /\ kept' = kept /\ table' = table /\ CellsKept
      BY <1>1, <1>2, <2>1
    <3>2. \A o : CellsOf(o)' = CellsOf(o)
      BY <1>2, <3>1, CellsAreKept
    <3> QED
      BY <3>1, <3>2 DEF CellsKept
  <2>3. InOrder'
    BY <1>1, <1>2, <2>1 DEF InOrder
  <2> QED
    BY <1>4, <2>2, <2>3
<1>6. CASE stored
  <2> DEFINE n == Len(kept) + 1
             rows == Append(poLayer.rows, feature)
  <2>1. feature \in Stored
    <3>1. CellsOf(i) \in Seq(Cells)
      <4>1. i \in Nat /\ poLayer.fields \in Seq(Fields)
        BY <1>2
      <4> HIDE DEF i
      <4> QED
        BY <1>2, <4>1, CellFacts
    <3>2. geom \in Nat
      <4>1. good => geom = GeometryAt(Starts[i], BytesLen[i]) /\ i \in 1 .. N
        BY <1>1, <1>2, StartFacts DEF CreateFeature, DataSetInvariant, TypesKept, BuildKept
      <4>2. good => geom = i
        BY <4>1, GeometryFound
      <4> QED
        BY <1>2, <4>2 DEF NoGeometry
    <3> QED
      BY <3>1, <3>2 DEF Stored
  <2>2. poLayer'.rows = rows
    BY <1>1, <1>2, <1>6
  <2>3. /\ rows[n] = feature /\ \A r \in DOMAIN kept : rows[r] = poLayer.rows[r]
        /\ DOMAIN kept = 1 .. Len(kept) /\ Len(kept) \in Nat
    <3> HIDE DEF feature
    <3> QED
      BY <1>2, <2>1
  <2>4. /\ DOMAIN kept' = DOMAIN kept \cup {n} /\ kept'[n] = i /\ Len(kept') = n
        /\ \A r \in DOMAIN kept : kept'[r] = kept[r]
    BY <1>1, <1>2, <1>6
  <2>5. InOrder'
    <3>1. Len(kept) <= row /\ (Len(kept) = row => \A r \in DOMAIN kept : kept[r] = r)
      BY <1>2 DEF InOrder
    <3>2. Len(kept') <= row' /\ (Len(kept') = row' => \A r \in DOMAIN kept' : kept'[r] = r)
      BY <1>1, <1>2, <2>3, <2>4, <3>1
    <3> QED
      BY <1>1, <3>2 DEF InOrder
  <2>6. ASSUME NEW r \in DOMAIN kept' PROVE rows[r].cells = CellsOf(kept'[r])
    <3>1. CASE r = n
      <4>0. feature.cells = CellsOf(i)
        OBVIOUS
      <4> HIDE DEF rows, feature, i
      <4> QED
        BY <2>3, <2>4, <3>1, <4>0
    <3>2. CASE r \in DOMAIN kept
      <4>1. poLayer.rows[r].cells = CellsOf(kept[r])
        BY <1>2, <3>2 DEF CellsKept
      <4> HIDE DEF rows
      <4> QED
        BY <2>3, <2>4, <3>2, <4>1
    <3> QED
      BY <2>4, <3>1, <3>2
  <2>7. CellsKept'
    <3>1. \A o : CellsOf(o)' = CellsOf(o)
      BY <1>1, <1>2, <1>3, CellsAreKept
    <3> HIDE DEF rows, i, feature, n
    <3> QED
      BY <2>2, <2>6, <3>1 DEF CellsKept
  <2> QED
    BY <1>4, <2>5, <2>7
<1> QED
  BY <1>5, <1>6

(* A step that leaves the layer and the table alone.                       *)
LEMMA SameColumns ==
  ASSUME FieldsStored, CellsKept, poLayer.fields \in Seq(Fields),
         UNCHANGED <<poLayer, table, fieldNames, kept, failed>>
  PROVE  FieldsStored' /\ CellsKept'
<1>1. \A o : CellsOf(o)' = CellsOf(o)
  BY CellsAreKept
<1> QED
  BY <1>1 DEF FieldsStored, CellsKept

LEMMA AnyStepKeepsColumns ==
  ASSUME DataSetInvariant, ColumnsKept, AnyStep \/ UNCHANGED vars
  PROVE  ColumnsKept'
<1>0. phase \in {"fields", "features", "reading", "ready"} => poLayer.fields \in Seq(Fields)
  BY DEF DataSetInvariant, LayerKept
<1>1. CASE \E tab \in Seq(ColumnSet) : \E map_type : CreateLayer(tab, map_type)
  <2>1. /\ phase = "unbuilt" /\ phase' = "fields" /\ table' \in Seq(ColumnSet)
        /\ numObs' = N /\ numCols' = Len(table')
        /\ poLayer' = [fields |-> <<>>, rows |-> <<>>]
        /\ UNCHANGED <<row, fieldNames, kept, failed>>
    BY <1>1 DEF CreateLayer, N
  <2>2. /\ row = 0 /\ kept = <<>> /\ fieldNames = <<>>
        /\ failed.fields = {} /\ failed.names = {}
    BY <2>1 DEF DataSetInvariant, BuildKept, NoRows, ColumnsKept
  <2>3. Len(table') \in Nat /\ DOMAIN <<>> = {} /\ Len(<<>>) = 0 /\ <<>> \in Seq(Names)
    BY <2>1
  <2>4. NamesKept'
    BY <2>1, <2>2, <2>3 DEF NamesKept
  <2>5. FieldsStored' /\ CellsKept' /\ InOrder'
    BY <2>1, <2>2, <2>3 DEF FieldsStored, CellsKept, InOrder
  <2> QED
    BY <2>1, <2>4, <2>5 DEF ColumnsKept
<1>2. CASE NoLayerCreated \/ ReadBeyondColumn \/ \E file \in Files : OpenFails(file)
  BY <1>2 DEF NoLayerCreated, ReadBeyondColumn, OpenFails, GoUndefined, ColumnsKept
<1>3. CASE \E accepted \in BOOLEAN, written \in Names : CreateField(accepted, written)
  BY <1>3, FieldKeepsColumns
<1>4. CASE \E good, stored \in BOOLEAN : CreateFeature(good, stored)
  BY <1>4, FeatureKeepsColumns
<1>5. CASE \E file \in Files, name \in LayerNames : Open(file, name)
  <2>1. phase = "unbuilt" /\ phase' # "unbuilt" /\ table' = table
    BY <1>5 DEF Open, building
  <2> QED
    BY <2>1 DEF ColumnsKept
<1>6. CASE FieldsDone \/ FeaturesDone
  <2>1. /\ UNCHANGED <<poLayer, row, table, numObs, numCols, fieldNames, kept, failed>>
        /\ \/ phase = "fields" /\ phase' = "features" /\ Len(fieldNames) = Len(table)
           \/ phase = "features" /\ phase' = "reading" /\ row = N
    BY <1>6 DEF FieldsDone, FeaturesDone, building, schema, N
  <2> QED
    BY <1>0, <2>1, SameColumns DEF ColumnsKept, NamesKept, InOrder
<1>7. CASE \/ ReadAllFeatures
           \/ \E name : GetCol(name) \/ GetUndefinesCol(name) \/ LISA(name)
           \/ \E a, b \in Names : SKATER(<<a, b>>)
           \/ GetGeometry
           \/ CreateContiguityWeights
  <2>1. CASE ReadAllFeatures
    <3>1. /\ UNCHANGED <<poLayer, row, table, numObs, numCols, fieldNames, kept, failed>>
          /\ phase = "reading" /\ phase' = "ready"
      BY <2>1 DEF ReadAllFeatures, building, schema
    <3> QED
      BY <1>0, <3>1, SameColumns DEF ColumnsKept, NamesKept, InOrder
  <2>2. CASE ~ReadAllFeatures
    <3>1. \E inBounds, value : Answer(inBounds, value)
      BY <1>7, <2>2 DEF GetCol, GetUndefinesCol, LISA, SKATER, GetGeometry,
        CreateContiguityWeights
    <3>2. /\ UNCHANGED <<poLayer, row, table, numObs, numCols, fieldNames, kept, failed>>
          /\ phase = "ready" /\ phase' \in {"ready", "undefined"}
      BY <3>1 DEF Answer, building, schema
    <3> QED
      BY <1>0, <3>2, SameColumns DEF ColumnsKept, NamesKept, InOrder
  <2> QED
    BY <2>1, <2>2
<1>8. CASE UNCHANGED vars
  <2>1. UNCHANGED <<phase, poLayer, row, table, numObs, numCols, fieldNames, kept, failed>>
    BY <1>8 DEF vars, building, schema
  <2> QED
    BY <1>0, <2>1, SameColumns DEF ColumnsKept, NamesKept, InOrder
<1> QED
  BY <1>1, <1>2, <1>3, <1>4, <1>5, <1>6, <1>7, <1>8 DEF AnyStep

-----------------------------------------------------------------------------
(* A conversion hands in a table that is as GeoDa needs it.                *)
FrameInvariant ==
  /\ stage = "columns" => frame \in Frames /\ next \in Nat
  /\ tbl \in Seq(ColumnSet)

LEMMA AddColumnKeeps ==
  ASSUME FrameInvariant, AddColumn
  PROVE  FrameInvariant'
<1> DEFINE FrameColumnSet == [name : Names \cup {"geometry"}, string : BOOLEAN,
                              kind : Kinds, vals : [Rows -> Forms]]
           col == frame.columns[next]
           column == [name |-> col.name, type |-> ColumnType(col.kind), vals |-> col.vals]
<1>1. /\ stage = "columns" /\ stage' = stage /\ frame' = frame /\ next' = next + 1
      /\ tbl' = IF col.name = "geometry" THEN tbl ELSE Append(tbl, column)
      /\ next \in DOMAIN frame.columns
  BY DEF AddColumn
<1>2. frame \in Frames /\ next \in Nat /\ tbl \in Seq(ColumnSet)
  BY <1>1 DEF FrameInvariant
<1>3. col \in FrameColumnSet
  <2>1. frame.columns \in Seq(FrameColumnSet)
    BY <1>2, FramesAssumption
  <2> HIDE DEF FrameColumnSet
  <2> QED
    BY <1>1, <2>1
<1>4. ColumnType(col.kind) \in Types
  BY DEF ColumnType, Types
<1>5. col.name # "geometry" => column \in ColumnSet
  <2>1. [Rows -> Forms] \subseteq Seq(Forms)
    BY StartFacts DEF Rows, N
  <2> HIDE DEF col
  <2> QED
    BY <1>3, <1>4, <2>1 DEF ColumnSet
<1>6. tbl' \in Seq(ColumnSet)
  <2> HIDE DEF column
  <2> QED
    BY <1>1, <1>2, <1>5
<1> QED
  BY <1>1, <1>2, <1>6 DEF FrameInvariant

(* What the program does with a data set is what its owner may do.         *)
LEMMA FrameSteps ==
  ASSUME FrameInvariant, ColumnsKept, FrameNext \/ UNCHANGED <<converting, vars>>
  PROVE  FrameInvariant' /\ (AnyStep \/ UNCHANGED vars)
<1>1. CASE AddColumn
  BY <1>1, AddColumnKeeps DEF AddColumn
<1>2. CASE \/ ColumnRaises \/ GeometryRaises \/ CrsRaises \/ GeodaToGeopandas
           \/ \E geometry_only \in BOOLEAN : GeodaToSp(geometry_only)
           \/ ListCollected \/ SpComplete
  <2>1. /\ stage' # "columns" /\ tbl' = tbl /\ UNCHANGED vars
    BY <1>2 DEF ColumnRaises, GeometryRaises, CrsRaises, Raise, GeodaToGeopandas,
      GeodaToSp, ListCollected, SpComplete
  <2> QED
    BY <2>1 DEF FrameInvariant
<1>3. CASE ColumnsDone \/ AddGeometry
  BY <1>3 DEF ColumnsDone, AddGeometry, FrameInvariant
<1>4. CASE CallGeoDa \/ GeoDaFails
  <2>1. /\ stage' \in {"dataset", "lost"} /\ tbl' = tbl
        /\ NoLayerCreated \/ \E map_type : CreateLayer(tbl, map_type)
    BY <1>4 DEF CallGeoDa, GeoDaFails
  <2> QED
    BY <2>1 DEF FrameInvariant, AnyStep
<1>5. CASE BuildDataset
  <2>1. UNCHANGED <<frame, stage, next, tbl>>
    BY <1>5 DEF BuildDataset, converting
  <2>2. stage = "dataset"
    BY <1>5 DEF BuildDataset
  <2> QED
    BY <1>5, <2>1, <2>2 DEF BuildDataset, FrameInvariant, AnyStep
<1>6. CASE ReadColumn \/ ReadGeometries
  <2>1. tbl' = tbl /\ stage' # "columns"
    BY <1>6 DEF ReadColumn, ReadGeometries, GeometriesAreNext
  <2>2. ASSUME ReadColumn, table # <<>> PROVE fieldNames[next] \in Names
    <3>1. phase = "ready" /\ next \in 1 .. numCols
      BY <2>2 DEF ReadColumn, GetCol, Answer
    <3> QED
      BY <2>2, <3>1 DEF ColumnsKept, NamesKept
  <2> QED
    BY <1>6, <2>1, <2>2 DEF ReadColumn, ReadGeometries, FrameInvariant, AnyStep
<1>7. CASE DirectUse
  <2>1. UNCHANGED <<frame, stage, next, tbl>> /\ Next
    BY <1>7 DEF DirectUse, converting
  <2>2. Tables \subseteq Seq(ColumnSet)
    BY TablesAssumption DEF ColumnSet
  <2>3. AnyStep \/ UNCHANGED vars
    BY <2>1, <2>2 DEF Next, Build, Call, Stopped, AnyStep
  <2> QED
    BY <2>1, <2>3 DEF FrameInvariant
<1>8. CASE Ended \/ UNCHANGED <<converting, vars>>
  <2>1. UNCHANGED <<frame, stage, next, tbl>> /\ UNCHANGED vars
    BY <1>8 DEF Ended, converting
  <2> QED
    BY <2>1 DEF FrameInvariant
<1> QED
  BY <1>1, <1>2, <1>3, <1>4, <1>5, <1>6, <1>7, <1>8 DEF FrameNext

LEMMA InitFrame == FrameInit => FrameInvariant /\ DataSetInvariant /\ ColumnsKept
<1> SUFFICES ASSUME FrameInit PROVE FrameInvariant /\ DataSetInvariant /\ ColumnsKept
  OBVIOUS
<1>1. tbl \in Seq(ColumnSet)
  BY DEF FrameInit
<1>2. ColumnsKept
  BY DEF FrameInit, Init, ColumnsKept
<1> QED
  BY <1>1, <1>2, InitDataSet DEF FrameInit, FrameInvariant

(* However a data set is made, and whatever is then asked of it, the list  *)
(* of its features is that of its layer, and its centroids are those of    *)
(* the layer's rows.                                                       *)
THEOREM DataSetIsInvariant ==
  FrameSpec => [](FrameInvariant /\ DataSetInvariant /\ ColumnsKept)
<1>1. /\ FrameInvariant /\ DataSetInvariant /\ ColumnsKept
      /\ [FrameNext]_<<converting, vars>>
      => (FrameInvariant /\ DataSetInvariant /\ ColumnsKept)'
  BY FrameSteps, AnyStepKeeps, AnyStepKeepsColumns
<1> QED
  BY <1>1, InitFrame, PTL DEF FrameSpec

(* Whatever fails while a data set is built, the features in its layer are *)
(* those that were not refused, in order, and each holds the values and    *)
(* the geometry of one observation.                                        *)
THEOREM RowsStayTogether == FrameSpec => []RowsCoherent
<1>1. DataSetInvariant => RowsCoherent
  BY InFieldIs DEF DataSetInvariant, BuildKept, Coherent, RowsCoherent
<1> QED
  BY <1>1, DataSetIsInvariant, PTL
-----------------------------------------------------------------------------
(* Every answer is what the layer determines.                              *)
Ready ==
  /\ DataSetInvariant /\ phase = "ready"

LEMMA ReadyFacts ==
  ASSUME Ready
  PROVE  /\ poLayer \in [fields : Seq(Fields), rows : Seq(Stored)] /\ numObs \in Nat
         /\ Remaining = poLayer.rows
         /\ FeaturesInBounds => numObs = 0 \/ features = poLayer.rows
         /\ centroids \in {<<>>, LocatedIn(poLayer.rows)}
<1>1. /\ poLayer \in [fields : Seq(Fields), rows : Seq(Stored)] /\ numObs \in Nat
      /\ features \in {<<>>, poLayer.rows}
      /\ centroids \in {<<>>, LocatedIn(poLayer.rows)}
  BY DEF Ready, DataSetInvariant, LayerKept, ListsKept
<1>2. Remaining = poLayer.rows
  BY <1>1, AllRemain
<1>3. Len(<<>>) = 0
  OBVIOUS
<1> QED
  BY <1>1, <1>2, <1>3 DEF FeaturesInBounds

LEMMA ValuesDetermined ==
  ASSUME Ready, FeaturesInBounds, NEW name
  PROVE  ValuesOf(name) = ColumnNamed(Data, name)
<1> DEFINE f == FieldNamed(poLayer, name)
<1>1. f \in {0} \cup DOMAIN poLayer.fields /\ 0 \notin DOMAIN poLayer.fields
  BY ReadyFacts, FieldNamedFacts
<1>2. ColumnNamed(Data, name) =
        [r \in 1 .. numObs |-> IF f \in DOMAIN poLayer.fields THEN poLayer.rows[r].cells[f] ELSE Null]
  BY DEF ColumnNamed, Cell, Data
<1>3. ValuesOf(name) = [r \in 1 .. numObs |-> IF f = 0 THEN Null ELSE features[r].cells[f]]
  BY DEF ValuesOf
<1>4. f = 0 <=> f \notin DOMAIN poLayer.fields
  BY <1>1
<1>5. numObs = 0 \/ features = poLayer.rows
  BY ReadyFacts
<1>6. numObs = 0 => 1 .. numObs = {}
  OBVIOUS
<1> HIDE DEF f
<1> QED
  BY <1>2, <1>3, <1>4, <1>5, <1>6

LEMMA UndefinesDetermined ==
  ASSUME Ready, NEW name, UndefinesInBounds(name), name \in DOMAIN fieldNameIdx
  PROVE  UndefinesOf(name) = NullsNamed(Data, name)
<1>1. numObs = 0 \/ features = poLayer.rows
  <2>1. numObs > 0 => FeaturesInBounds
    BY DEF UndefinesInBounds
  <2> QED
    BY <2>1, ReadyFacts
<1>2. UndefinesOf(name) =
        [i \in 1 .. numObs |-> features[i].cells[fieldNameIdx[name] + 1] = Null]
  BY DEF UndefinesOf
<1>3. NullsNamed(Data, name) =
        [i \in 1 .. numObs |-> poLayer.rows[i].cells[fieldNameIdx[name] + 1] = Null]
  BY DEF NullsNamed, Data
<1>4. CASE features = poLayer.rows
  BY <1>2, <1>3, <1>4
<1>5. CASE numObs = 0
  <2>1. 1 .. numObs = {}
    BY <1>5
  <2> QED
    BY <1>2, <1>3, <2>1
<1> QED
  BY <1>1, <1>4, <1>5

LEMMA FlagsDetermined ==
  ASSUME Ready, NEW name, UndefinesInBounds(name)
  PROVE  LisaFlags(UndefinesOf(name)) =
           IF name \in DOMAIN fieldNameIdx THEN NullsNamed(Data, name)
           ELSE [r \in 1 .. numObs |-> FALSE]
<1>1. CASE name \notin DOMAIN fieldNameIdx
  BY <1>1 DEF LisaFlags, UndefinesOf
<1>2. CASE name \in DOMAIN fieldNameIdx
  <2>1. UndefinesOf(name) = NullsNamed(Data, name)
    BY <1>2, UndefinesDetermined
  <2>2. CASE NullsNamed(Data, name) # <<>>
    BY <1>2, <2>1, <2>2 DEF LisaFlags
  <2>3. CASE NullsNamed(Data, name) = <<>>
    <3>1. DOMAIN NullsNamed(Data, name) = 1 .. numObs
      BY DEF NullsNamed, Data
    <3>2. 1 .. numObs = {}
      <4>1. DOMAIN <<>> = {}
        OBVIOUS
      <4> QED
        BY <2>3, <3>1, <4>1
    <3>3. NullsNamed(Data, name) = [r \in 1 .. numObs |-> FALSE]
      BY <3>2 DEF NullsNamed, Data
    <3> QED
      BY <1>2, <2>1, <2>3, <3>3 DEF LisaFlags
  <2> QED
    BY <2>2, <2>3
<1> QED
  BY <1>1, <1>2

LEMMA CallsDetermined ==
  ASSUME Ready, phase' # "undefined",
         \/ \E name : GetCol(name) \/ GetUndefinesCol(name) \/ LISA(name)
         \/ \E a, b \in Names : SKATER(<<a, b>>)
         \/ GetGeometry
         \/ CreateContiguityWeights
  PROVE  Determined(Data, answer')
<1>1. ASSUME NEW name, GetCol(name) PROVE Determined(Data, answer')
  <2>1. /\ FeaturesInBounds
        /\ answer' = [call |-> "values", name |-> name, value |-> ValuesOf(name)]
    BY <1>1 DEF GetCol, Answer
  <2> QED
    BY <2>1, ValuesDetermined DEF Determined
<1>2. ASSUME NEW name, GetUndefinesCol(name) PROVE Determined(Data, answer')
  <2>1. /\ UndefinesInBounds(name)
        /\ answer' = [call |-> "undefines", name |-> name, value |-> UndefinesOf(name)]
    BY <1>2 DEF GetUndefinesCol, Answer
  <2>2. Data.index = fieldNameIdx
    BY DEF Data
  <2>3. UndefinesOf(name) = IF name \in DOMAIN Data.index THEN NullsNamed(Data, name) ELSE <<>>
    BY <2>1, <2>2, UndefinesDetermined DEF UndefinesOf
  <2> QED
    BY <2>1, <2>3 DEF Determined
<1>3. ASSUME NEW name, LISA(name) PROVE Determined(Data, answer')
  <2>1. /\ FeaturesInBounds /\ UndefinesInBounds(name)
        /\ answer' = [call |-> "lisa", name |-> name, data |-> ValuesOf(name),
                      undefs |-> LisaFlags(UndefinesOf(name))]
    BY <1>3 DEF LISA, Answer
  <2>2. Data.index = fieldNameIdx /\ Data.obs = numObs
    BY DEF Data
  <2> QED
    BY <2>1, <2>2, ValuesDetermined, FlagsDetermined DEF Determined
<1>4. ASSUME NEW a \in Names, NEW b \in Names, SKATER(<<a, b>>)
      PROVE  Determined(Data, answer')
  <2>1. CASE SkaterAccepts(<<a, b>>)
    <3>1. answer' = [call |-> "skater", cols |-> <<a, b>>, data |-> SkaterData(<<a, b>>)]
      BY <1>4, <2>1 DEF SKATER, Answer
    <3>2. SkaterData(<<a, b>>) =
            [c \in DOMAIN <<a, b>> |->
               [r \in DOMAIN Data.layer.rows |-> Cell(Data, Data.index[<<a, b>>[c]] + 1, r)]]
      BY ReadyFacts DEF SkaterData, Cell, Data
    <3> QED
      BY <3>1, <3>2 DEF Determined
  <2>2. CASE ~SkaterAccepts(<<a, b>>)
    <3>1. Answer(TRUE, [call |-> "skater refused", cols |-> <<a, b>>])
      BY <1>4, <2>2 DEF SKATER
    <3>2. answer' = [call |-> "skater refused", cols |-> <<a, b>>]
      BY <3>1 DEF Answer
    <3>3. answer'.call = "skater refused"
      BY <3>2
    <3> QED
      BY <3>3 DEF Determined
  <2> QED
    BY <2>1, <2>2
<1>5. CASE GetGeometry
  <2>1. answer' = [call |-> "geometry",
                   value |-> [i \in 1 .. numObs |->
                     IF i \in DOMAIN Remaining THEN Remaining[i].geom ELSE NoGeometry]]
    BY <1>5 DEF GetGeometry, Answer
  <2>2. Data.layer = poLayer /\ Data.obs = numObs
    BY DEF Data
  <2> QED
    BY <2>1, <2>2, ReadyFacts DEF Determined
<1>6. CASE CreateContiguityWeights
  <2>0. Data.layer = poLayer /\ Data.obs = numObs /\ Data.type = mapType
    BY DEF Data
  <2>1. CASE mapType = "point"
    <3>1. answer' = [call |-> "weights", value |-> Coordinates(GetCentroids)]
      BY <1>6, <2>1 DEF CreateContiguityWeights, Answer
    <3>2. GetCentroids = LocatedIn(poLayer.rows)
      BY ReadyFacts DEF GetCentroids
    <3> QED
      BY <2>0, <2>1, <3>1, <3>2 DEF Determined, Coordinates
  <2>2. CASE mapType = "polygon"
    <3>1. answer' = [call |-> "weights",
                     value |-> [r \in DOMAIN poLayer.rows |-> poLayer.rows[r].geom]]
      BY <1>6, <2>2 DEF CreateContiguityWeights, Answer
    <3> QED
      BY <2>0, <2>2, <3>1 DEF Determined, GeometriesOf
  <2>3. CASE mapType = "line"
    <3>1. Answer(TRUE, [call |-> "no weights"])
      BY <1>6, <2>3 DEF CreateContiguityWeights
    <3>2. answer' = [call |-> "no weights"]
      BY <3>1 DEF Answer
    <3>3. answer'.call = "no weights"
      BY <3>2
    <3> QED
      BY <3>3 DEF Determined
  <2> QED
    BY <1>6, <2>1, <2>2, <2>3 DEF CreateContiguityWeights
<1> QED
  BY <1>1, <1>2, <1>3, <1>4, <1>5, <1>6

(* Under a name is the last column that is called so, or nothing.          *)
LEMMA ValuesFacts ==
  ASSUME Ready, ColumnsKept, table # <<>>, FeaturesInBounds, NEW name
  PROVE  IsTheColumn(name, ValuesOf(name))
<1> DEFINE named == {j \in Columns : Alike(table[j].name, name)}
           f == FieldNamed(poLayer, name)
<1>1. /\ poLayer \in [fields : Seq(Fields), rows : Seq(Stored)] /\ numObs = N /\ row = N
      /\ N \in Nat
      /\ numObs = 0 \/ features = poLayer.rows
      /\ FieldsStored /\ CellsKept /\ InOrder
      /\ Columns = 1 .. Len(table) /\ Len(table) \in Nat /\ DOMAIN fieldNames = Columns
  <2>1. phase = "ready" /\ table \in Seq(ColumnSet)
    BY DEF Ready, DataSetInvariant, TypesKept
  <2>2. NamesKept /\ FieldsStored /\ CellsKept /\ InOrder
    BY <2>1 DEF ColumnsKept
  <2>3. Columns = 1 .. Len(table) /\ Len(table) \in Nat
    BY <2>1 DEF Columns
  <2>4. DOMAIN fieldNames = Columns /\ numObs = N /\ row = N
    BY <2>1, <2>2, <2>3 DEF NamesKept, InOrder
  <2> QED
    BY <2>2, <2>3, <2>4, ReadyFacts, StartFacts
<1>2. /\ f \in {0} \cup DOMAIN poLayer.fields
      /\ f # 0 => Alike(poLayer.fields[f].name, name)
      /\ f # 0 <=> Taken(name)
      /\ \A k \in Columns : FieldNamed(poLayer, table[k].name) # 0 =>
           Alike(poLayer.fields[FieldNamed(poLayer, table[k].name)].name, table[k].name)
  BY <1>1, FieldNamedFacts DEF Taken
<1>3. ValuesOf(name) = [i \in 1 .. numObs |-> IF f = 0 THEN Null ELSE features[i].cells[f]]
  BY DEF ValuesOf
<1>4. CASE f = 0
  <2>1. \A j \in named : j \in failed.fields \cup failed.names
    BY <1>1, <1>2, <1>4 DEF FieldsStored, Taken
  <2> QED
    BY <1>2, <1>3, <1>4, <2>1 DEF IsTheColumn
<1>5. CASE f # 0
  <2>1. {k \in Columns : FieldNamed(poLayer, table[k].name) = f} = named
    <3>1. ASSUME NEW k \in Columns, Alike(table[k].name, name)
          PROVE  FieldNamed(poLayer, table[k].name) = f
      BY <1>1, <3>1, AlikeFindOne
    <3>2. ASSUME NEW k \in Columns, FieldNamed(poLayer, table[k].name) = f
          PROVE  Alike(table[k].name, name)
      BY <1>2, <1>5, <3>2 DEF Alike
    <3> QED
      BY <3>1, <3>2
  <2>2. ASSUME NEW i \in 1 .. numObs
        PROVE  ValuesOf(name)[i] = IF named = {} THEN Null ELSE InField(f, LastOf(named), i)
    <3>1. features = poLayer.rows /\ numObs <= Len(poLayer.rows) /\ numObs > 0
      BY <1>1 DEF FeaturesInBounds
    <3>2. kept \in Seq(Nat) /\ Len(poLayer.rows) = Len(kept)
      BY <1>1, <3>1 DEF Ready, DataSetInvariant, BuildKept, Coherent
    <3>3. i \in DOMAIN kept /\ kept[i] = i
      <4> DEFINE n == Len(kept)
      <4>1. /\ n \in Nat /\ DOMAIN kept = 1 .. n /\ numObs \in Nat /\ row \in Nat
            /\ numObs = row /\ numObs <= n /\ n <= row
        BY <1>1, <3>1, <3>2 DEF InOrder
      <4>2. n = row
        <5> HIDE DEF n
        <5> QED
          BY <4>1
      <4>3. i \in 1 .. numObs
        OBVIOUS
      <4>4. i \in DOMAIN kept
        BY <4>1, <4>2, <4>3
      <4> QED
        BY <1>1, <4>2, <4>4 DEF InOrder
    <3>4. poLayer.rows[i].cells = CellsOf(i)
      BY <1>1, <3>3 DEF CellsKept
    <3>5. f \in DOMAIN poLayer.fields
      BY <1>2, <1>5
    <3>6. CellsOf(i)[f] = IF named = {} THEN Null ELSE InField(f, LastOf(named), i)
      <4> HIDE DEF named, f
      <4> QED
        BY <2>1, <3>5 DEF CellsOf
    <3> HIDE DEF f, named
    <3> QED
      BY <1>3, <1>5, <3>1, <3>4, <3>6
  <2>3. Taken(name)
    BY <1>2, <1>5
  <2> QED
    BY <2>2, <2>3 DEF IsTheColumn
<1> QED
  BY <1>4, <1>5

LEMMA ValuesStep ==
  ASSUME DataSetInvariant, ColumnsKept, ValuesAreTheColumn, AnyStep \/ UNCHANGED vars
  PROVE  ValuesAreTheColumn'
<1>1. ASSUME answer'.call # "values" PROVE ValuesAreTheColumn'
  BY <1>1 DEF ValuesAreTheColumn
<1>2. ASSUME UNCHANGED <<poLayer, table, failed, numObs, answer>> PROVE ValuesAreTheColumn'
  BY <1>2 DEF ValuesAreTheColumn, IsTheColumn, FromTable, Columns, Taken, InField
<1>3. CASE \/ \E tab \in Seq(ColumnSet) : \E map_type : CreateLayer(tab, map_type)
           \/ NoLayerCreated
           \/ \E accepted \in BOOLEAN, written \in Names : CreateField(accepted, written)
           \/ FieldsDone
           \/ \E good, stored \in BOOLEAN : CreateFeature(good, stored)
           \/ ReadBeyondColumn
           \/ FeaturesDone
           \/ \E file \in Files, name \in LayerNames : Open(file, name)
           \/ \E file \in Files : OpenFails(file)
           \/ ReadAllFeatures
  <2>1. phase \in {"unbuilt", "fields", "features", "reading"} /\ answer' = answer
    BY <1>3 DEF CreateLayer, NoLayerCreated, CreateField, FieldsDone, CreateFeature,
      ReadBeyondColumn, FeaturesDone, Open, OpenFails, ReadAllFeatures, GoUndefined
  <2>2. answer' = NoAnswer
    BY <2>1 DEF DataSetInvariant, ListsKept
  <2> QED
    BY <1>1, <2>2 DEF NoAnswer
<1>4. ASSUME NEW inBounds, NEW value, Answer(inBounds, value), value.call # "values"
      PROVE  ValuesAreTheColumn'
  <2>1. answer' = value \/ UNCHANGED <<poLayer, table, failed, numObs, answer>>
    BY <1>4 DEF Answer, building, schema
  <2> QED
    BY <1>1, <1>2, <1>4, <2>1
<1>5. ASSUME NEW name, GetUndefinesCol(name) \/ LISA(name) PROVE ValuesAreTheColumn'
  BY <1>4, <1>5 DEF GetUndefinesCol, LISA
<1>6. ASSUME NEW a \in Names, NEW b \in Names, SKATER(<<a, b>>) PROVE ValuesAreTheColumn'
  <2>1. \E inBounds, value : Answer(inBounds, value) /\ value.call # "values"
    <3>1. CASE SkaterAccepts(<<a, b>>)
      <4>1. [call |-> "skater", cols |-> <<a, b>>, data |-> SkaterData(<<a, b>>)].call # "values"
        OBVIOUS
      <4> QED
        BY <1>6, <3>1, <4>1 DEF SKATER
    <3>2. CASE ~SkaterAccepts(<<a, b>>)
      <4>1. [call |-> "skater refused", cols |-> <<a, b>>].call # "values"
        OBVIOUS
      <4> QED
        BY <1>6, <3>2, <4>1 DEF SKATER
    <3> QED
      BY <3>1, <3>2
  <2> QED
    BY <1>4, <2>1
<1>7. CASE GetGeometry
  BY <1>4, <1>7 DEF GetGeometry
<1>8. CASE CreateContiguityWeights
  <2>1. \A v : [call |-> "weights", value |-> v].call # "values"
    OBVIOUS
  <2>2. [call |-> "no weights"].call # "values"
    OBVIOUS
  <2>3. \E inBounds, value : Answer(inBounds, value) /\ value.call # "values"
    BY <1>8, <2>1, <2>2 DEF CreateContiguityWeights
  <2> QED
    BY <1>4, <2>3
<1>9. ASSUME NEW name, table # <<>> => name \in Names, GetCol(name)
      PROVE  ValuesAreTheColumn'
  <2>1. CASE ~FeaturesInBounds
    BY <1>2, <1>9, <2>1 DEF GetCol, Answer, building, schema
  <2>2. CASE FeaturesInBounds
    <3>1. /\ answer' = [call |-> "values", name |-> name, value |-> ValuesOf(name)]
          /\ UNCHANGED <<poLayer, table, failed, numObs>> /\ phase = "ready"
      BY <1>9, <2>2 DEF GetCol, Answer, building, schema
    <3>2. answer'.name = name /\ answer'.value = ValuesOf(name)
      BY <3>1
    <3>3. CASE table = <<>>
      BY <3>1, <3>3 DEF ValuesAreTheColumn, FromTable
    <3>4. CASE table # <<>>
      <4>1. IsTheColumn(name, ValuesOf(name))
        BY <2>2, <3>1, <3>4, ValuesFacts DEF Ready
      <4> QED
        BY <3>1, <3>2, <4>1
        DEF ValuesAreTheColumn, IsTheColumn, Columns, Taken, InField
    <3> QED
      BY <3>3, <3>4
  <2> QED
    BY <2>1, <2>2
<1>10. CASE UNCHANGED vars
  BY <1>2, <1>10 DEF vars, building, schema
<1> QED
  BY <1>3, <1>5, <1>6, <1>7, <1>8, <1>9, <1>10 DEF AnyStep

(* A name finds the last column so called, case aside, as far as its field *)
(* holds it, or all zeros if the driver refused or renamed the field of    *)
(* each: for all tables, whatever names the driver makes up, whether or    *)
(* not others were refused, or a geometry or a feature was.                *)
THEOREM NamesFindTheirColumn == FrameSpec => []ValuesAreTheColumn
<1>1. FrameInit => ValuesAreTheColumn
  BY DEF FrameInit, Init, NoAnswer, ValuesAreTheColumn
<1>2. /\ FrameInvariant /\ DataSetInvariant /\ ColumnsKept /\ ValuesAreTheColumn
      /\ [FrameNext]_<<converting, vars>>
      => ValuesAreTheColumn'
  BY FrameSteps, ValuesStep
<1> QED
  BY <1>1, <1>2, DataSetIsInvariant, PTL DEF FrameSpec

(* A step of a data set is one that DataSet allows.                        *)
LEMMA DataSetStep ==
  ASSUME DataSetInvariant, AnyStep \/ UNCHANGED vars
  PROVE  Service!Next \/ UNCHANGED <<AbsState, AbsData, answer>>
<1>1. CASE \/ \E tab \in Seq(ColumnSet) : \E map_type : CreateLayer(tab, map_type)
           \/ \E accepted \in BOOLEAN, written \in Names : CreateField(accepted, written)
           \/ FieldsDone
           \/ \E good, stored \in BOOLEAN : CreateFeature(good, stored)
           \/ FeaturesDone
  <2>1. phase \notin {"ready", "undefined"} /\ phase' \notin {"ready", "undefined"}
    BY <1>1 DEF CreateLayer, CreateField, FieldsDone, CreateFeature, FeaturesDone
  <2>2. answer' = answer
    BY <1>1 DEF CreateLayer, CreateField, FieldsDone, CreateFeature, FeaturesDone
  <2> QED
    BY <2>1, <2>2 DEF AbsState, AbsData
<1>2. CASE NoLayerCreated \/ ReadBeyondColumn \/ \E file \in Files : OpenFails(file)
  <2>1. phase # "undefined" /\ phase' = "undefined" /\ answer' = answer
    BY <1>2 DEF NoLayerCreated, ReadBeyondColumn, OpenFails, GoUndefined
  <2> QED
    BY <2>1 DEF Service!Next, Service!Lose, AbsState
<1>3. CASE ReadAllFeatures \/ \E file \in Files, name \in LayerNames : Open(file, name)
  <2>1. /\ phase \notin {"ready", "undefined"} /\ phase' \in {"reading", "ready"}
        /\ answer' = answer
    BY <1>3 DEF ReadAllFeatures, Open
  <2> QED
    BY <2>1 DEF Service!Next, Service!Make, AbsState, AbsData
<1>4. CASE \/ \E name : GetCol(name) \/ GetUndefinesCol(name) \/ LISA(name)
           \/ \E a, b \in Names : SKATER(<<a, b>>)
           \/ GetGeometry
           \/ CreateContiguityWeights
  <2>1. \E inBounds, value : Answer(inBounds, value)
    BY <1>4 DEF GetCol, GetUndefinesCol, LISA, SKATER, GetGeometry, CreateContiguityWeights
  <2>2. /\ phase = "ready"
        /\ UNCHANGED <<poLayer, numObs, mapType, fieldNameIdx>>
        /\ phase' = "ready" \/ (phase' = "undefined" /\ answer' = answer)
    BY <2>1 DEF Answer, schema
  <2>3. CASE phase' = "ready"
    <3>1. Determined(Data, answer')
      BY <1>4, <2>2, <2>3, CallsDetermined DEF Ready
    <3>2. Data' = Data
      BY <2>2 DEF Data
    <3>3. AbsState = "there" /\ AbsData = Data /\ UNCHANGED <<AbsState, AbsData>>
      BY <2>2, <2>3, <3>2 DEF AbsState, AbsData
    <3> QED
      BY <3>1, <3>3 DEF Service!Next, Service!Ask
  <2>4. CASE phase' = "undefined" /\ answer' = answer
    BY <2>2, <2>4 DEF Service!Next, Service!Lose, AbsState
  <2> QED
    BY <2>2, <2>3, <2>4
<1>5. CASE UNCHANGED vars
  <2>1. UNCHANGED <<phase, poLayer, numObs, mapType, fieldNameIdx, answer>>
    BY <1>5 DEF vars, schema
  <2> QED
    BY <2>1 DEF AbsState, AbsData, Data
<1> QED
  BY <1>1, <1>2, <1>3, <1>4, <1>5 DEF AnyStep

(* The data set never changes, and no answer of it depends on the calls    *)
(* before: neither on where they left the one reader of the layer, nor on  *)
(* which of them made the centroids, nor on what failed.                   *)
THEOREM AnswersAreDetermined == FrameSpec => ImplementsDataSet
<1>1. FrameInit => Service!Init
  BY DEF FrameInit, Init, Service!Init, AbsState
<1>2. /\ FrameInvariant /\ DataSetInvariant /\ ColumnsKept
      /\ [FrameNext]_<<converting, vars>>
      => [Service!Next]_<<AbsState, AbsData, answer>>
  BY FrameSteps, DataSetStep
<1> QED
  BY <1>1, <1>2, DataSetIsInvariant, PTL DEF FrameSpec, ImplementsDataSet, Service!Spec
=============================================================================
