----------------------- MODULE GeoDaDatasetProperties -----------------------
(***************************************************************************)
(* What a data set keeps right although building it may have failed in     *)
(* part, and although its calls share the reader of the layer.             *)
(***************************************************************************)
EXTENDS GeoDaDataset

\* Made from a table that has a column.
FromTable == table # <<>>

(* The types of the variables.                                             *)
TypeOK ==
  /\ phase \in {"unbuilt", "fields", "features", "reading", "ready", "undefined"}
  /\ poLayer # NoLayer =>
       /\ poLayer.fields \in Seq(Fields)
       /\ \A r \in DOMAIN poLayer.rows :
            DOMAIN poLayer.rows[r].cells = DOMAIN poLayer.fields
       /\ reading \in 0 .. Len(poLayer.rows)
  /\ table \in Seq([name : Names, type : Types, vals : Seq(Forms)])
  /\ row \in 0 .. Len(BytesLen) /\ wkb_offset \in Nat
  /\ numObs \in Nat /\ numCols \in Nat \cup SomeInts
  /\ mapType \in MapTypes \cup {Unset}
  /\ fieldNames \in Seq(Names) /\ fieldTypes \in Seq(Types)
  /\ DOMAIN fieldNameIdx \subseteq Names
  /\ \A n \in DOMAIN fieldNameIdx : fieldNameIdx[n] \in 0 .. Len(fieldNames) - 1
  /\ failed.fields \cup failed.names \subseteq DOMAIN fieldNames
  /\ failed.geometries \cup failed.rows \subseteq 1 .. row
  /\ kept \in Seq(1 .. row)
  /\ poLayer # NoLayer => Len(features) <= Len(poLayer.rows)
  /\ Len(centroids) <= Len(features) \/ failed.layer = "unsupported"

(* The features in the layer are those that were not refused, in order,    *)
(* and each holds values and geometry of one observation: a geometry that  *)
(* cannot be read, and features and fields that the driver refuses, shift  *)
(* nothing between the two.  They come by different ways, the values by    *)
(* data[i] and the geometry by a running offset.                           *)
RowsCoherent ==
  row > 0 =>
    /\ {kept[r] : r \in DOMAIN kept} = (1 .. row) \ failed.rows
    /\ \A r, s \in DOMAIN kept : r < s => kept[r] < kept[s]
    /\ Len(poLayer.rows) = Len(kept)
    /\ \A r \in DOMAIN kept :
         /\ poLayer.rows[r].geom =
              IF kept[r] \in failed.geometries THEN NoGeometry ELSE kept[r]
         /\ \A f \in DOMAIN poLayer.fields :
              poLayer.rows[r].cells[f] \in
                {Null} \cup {InField(f, j, kept[r]) : j \in Columns}

(* What the getters find under a name: the last column that is called so,  *)
(* upper or lower case, as far as the field of that name can hold it;      *)
(* nothing if no field is called so.                                       *)
IsTheColumn(name, values) ==
  LET named == {j \in Columns : Alike(table[j].name, name)} IN
  IF named # {} /\ Taken(name)
  THEN \A i \in 1 .. numObs : values[i] = InField(FieldNamed(poLayer, name), LastOf(named), i)
  ELSE /\ named \subseteq failed.fields \cup failed.names
       /\ \A i \in 1 .. numObs : values[i] = Null

(* What a name finds is the last column of that name, case aside, whatever *)
(* fields were refused or named otherwise before it, or all zeros.  Zeros  *)
(* are right only if no column of the table has the name, or the driver    *)
(* refused or renamed the field of each; the name that it made up for a    *)
(* field instead finds nothing of the column the field was made for.  A    *)
(* column's own values are not promised: "ID" returns those of a later     *)
(* "id", and "population2010", cut to the name of a later "population",    *)
(* leaves its field to that column.                                        *)
ValuesAreTheColumn ==
  FromTable /\ answer.call = "values" => IsTheColumn(answer.name, answer.value)

(* The place of the field in the layer is that in fieldNameIdx, and a      *)
(* lookup by name goes there, too: no column up to it was refused and it   *)
(* was not renamed itself, no later column has its name, and none before   *)
(* it has it in upper or lower case.                                       *)
InPlace(name) ==
  \E j \in DOMAIN fieldNames :
    /\ fieldNames[j] = name
    /\ failed.fields \cap 1 .. j = {} /\ j \notin failed.names
    /\ \A k \in j + 1 .. Len(fieldNames) : fieldNames[k] # name
    /\ \A k \in 1 .. j - 1 : ~Alike(fieldNames[k], name)

(* The flags that LISA is given mark the observations whose value is not   *)
(* there, although the flags are looked up by index and the values by      *)
(* name: so it is for every column that is in its place, also when its     *)
(* values are those of a later column of the name in another case.  After  *)
(* "population2010" a column "population" is not in its place: its own     *)
(* field is renamed, its values are in the field before, and the flags     *)
(* come from the one that is never set.                                    *)
FlagsMatchValues ==
  answer.call = "lisa" /\ InPlace(answer.name) =>
    \A i \in 1 .. numObs : answer.undefs[i] <=> answer.data[i] = Null

(* SKATER clusters by the values that GetNumericCol returns, for every     *)
(* column in its place, although one reads the layer by index and the      *)
(* other the features by name.                                             *)
SkaterSeesTheColumns ==
  answer.call = "skater" =>
    \A c \in DOMAIN answer.cols : InPlace(answer.cols[c]) =>
      \A i \in 1 .. numObs : answer.data[c][i] = ValuesOf(answer.cols[c])[i]

(* When the weights of a point map are made at all, both coordinates of    *)
(* neighbour candidate i are taken from observation i: with a missing      *)
(* geometry or feature GetCentroids is too short, and never one off.       *)
(* Which observation is all this says, and not where it lies: the code     *)
(* fills y from getX(), so that every candidate is on the diagonal.        *)
PointsInPlace ==
  mapType = "point" /\ answer.call = "weights" =>
    /\ DOMAIN answer.value = 1 .. numObs
    /\ \A i \in 1 .. numObs : answer.value[i].x.of = i /\ answer.value[i].y.of = i

(* Nothing goes out of bounds unless something failed before: neither      *)
(* building from columns that are long enough, nor any sequence of calls   *)
(* on a data set that was built or opened in full.                         *)
UndefinedOnlyAfterFailure ==
  phase = "undefined" =>
    \/ failed.layer # "no"
    \/ failed.fields \cup failed.geometries \cup failed.rows # {}
    \/ ShortColumn(Len(BytesLen))
    \/ \E r \in DOMAIN poLayer.rows : poLayer.rows[r].geom = NoGeometry
-----------------------------------------------------------------------------
(***************************************************************************)
(* The answers, as the layer alone determines them: no reader, no list of  *)
(* features and no cached centroids.                                       *)
(***************************************************************************)
Data == [layer |-> poLayer, obs |-> numObs, type |-> mapType, index |-> fieldNameIdx]

Cell(d, f, r) == IF f \in DOMAIN d.layer.fields THEN d.layer.rows[r].cells[f] ELSE Null

ColumnNamed(d, name) == [r \in 1 .. d.obs |-> Cell(d, FieldNamed(d.layer, name), r)]

NullsNamed(d, name) ==
  [r \in 1 .. d.obs |-> d.layer.rows[r].cells[d.index[name] + 1] = Null]

GeometriesOf(d) == [r \in DOMAIN d.layer.rows |-> d.layer.rows[r].geom]

Determined(d, a) ==
  CASE a.call = "values" -> a.value = ColumnNamed(d, a.name)
    [] a.call = "undefines" ->
         a.value = IF a.name \in DOMAIN d.index THEN NullsNamed(d, a.name) ELSE <<>>
    [] a.call = "lisa" ->
         /\ a.data = ColumnNamed(d, a.name)
         /\ a.undefs = IF a.name \in DOMAIN d.index THEN NullsNamed(d, a.name)
                       ELSE [r \in 1 .. d.obs |-> FALSE]
    [] a.call = "skater" ->
         a.data = [c \in DOMAIN a.cols |->
           [r \in DOMAIN d.layer.rows |-> Cell(d, d.index[a.cols[c]] + 1, r)]]
    [] a.call = "geometry" ->
         a.value = [r \in 1 .. d.obs |->
           IF r \in DOMAIN d.layer.rows THEN d.layer.rows[r].geom ELSE NoGeometry]
    [] a.call = "weights" ->
         IF d.type = "point"
         THEN a.value = [i \in 1 .. d.obs |->
                [x |-> GetX(LocatedIn(d.layer.rows)[i]), y |-> GetX(LocatedIn(d.layer.rows)[i])]]
         ELSE a.value = GeometriesOf(d)
    [] OTHER -> TRUE

AbsState ==
  CASE phase = "ready" -> "there" [] phase = "undefined" -> "lost" [] OTHER -> "none"

AbsData == IF phase = "ready" THEN Data ELSE <<>>

Service == INSTANCE DataSet WITH state <- AbsState, data <- AbsData

(* The data set is one that never changes, and no answer of it depends on  *)
(* the calls before: neither on where they left the one reader of the      *)
(* layer nor on which of them made the centroids.                          *)
ImplementsDataSet == Service!Spec
=============================================================================
