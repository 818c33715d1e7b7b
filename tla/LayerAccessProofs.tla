-------------------------- MODULE LayerAccessProofs --------------------------
(***************************************************************************)
(* The functions that open a data source leave nothing behind and tell     *)
(* their caller the truth, for all data sources, layer indices,            *)
(* transformations and vectors of geometries.                              *)
(***************************************************************************)
EXTENDS LayerAccess, FiniteSetTheorems, TLAPS

Geometries == Points \cup {NoPoint}

(* Feature i, as GetFeatures returns it.                                   *)
Cloned(i) ==
  IF poCT /\ i \notin failed /\ layer[i] # NoPoint
  THEN Transform(layer[i]) ELSE layer[i]

(* What is known of the loop of GetFeatures.                               *)
Cloning ==
  /\ results \in Seq(Geometries)
  /\ Len(results) <= Len(layer)
  /\ failed \subseteq 1 .. Len(results)
  /\ \A i \in 1 .. Len(results) : results[i] = Cloned(i)
  /\ memory = Len(results)

(* What is known of the loop of SaveFeaturesToShapefile.                   *)
Writing ==
  /\ file \in Seq([id : Int, geom : Geometries])
  /\ Len(file) <= Len(fn.geoms)
  /\ \A i \in 1 .. Len(file) : file[i] = [id |-> i - 1, geom |-> fn.geoms[i]]

(* At each stage, what is open and what has been done.                     *)
AtCall ==
  stage = "idle" =>
    /\ open = 0
    /\ fn.name = "features" =>
         /\ memory = Len(results)
         /\ results = <<>> \/ results = [i \in DOMAIN layer |-> Cloned(i)]
    /\ fn.name = "save" =>
         /\ Writing
         /\ fn.geoms \in GeomVectors
         /\ IF results[1] THEN failed = {} /\ Len(file) = Len(fn.geoms)
                          ELSE failed = {} \/ \E i \in Nat : failed = {i}
         /\ memory = Cardinality(failed)
    /\ fn.name \notin {"features", "save"} => memory = 0

AtOpened ==
  stage = "opened" =>
    /\ open = 1 /\ memory = 0 /\ failed = {}
    /\ fn \in Calls
    /\ fn.name = "features" => results = <<>>

AtLayer ==
  stage = "layer" =>
    /\ open = 1
    /\ fn \in Calls /\ fn.name \in Readers
    /\ fn.idx \in 0 .. Len(fn.src) - 1 /\ layer = fn.src[fn.idx + 1]
    /\ IF fn.name = "features" THEN Cloning ELSE memory = 0

AtSaving ==
  stage \in {"creating", "writing"} =>
    /\ open = 1 /\ memory = 0 /\ failed = {}
    /\ fn.name = "save" /\ fn.geoms \in GeomVectors
    /\ Writing

AccessInvariant ==
  /\ stage \in {"idle", "opened", "layer", "creating", "writing", "undefined"}
  /\ poCT \in BOOLEAN
  /\ layer \in Seq(Geometries)
  /\ AtCall /\ AtOpened /\ AtLayer /\ AtSaving
  /\ UndefinedOnlyUnchecked

(* A data source's layers are sequences, and their points are transformed  *)
(* into points.                                                            *)
LEMMA LayerFacts ==
  ASSUME NEW src \in Sources, NEW k \in 1 .. Len(src)
  PROVE  /\ src \in Seq(Seq(Geometries))
         /\ src[k] \in Seq(Geometries)
         /\ \A i \in 1 .. Len(src[k]) :
              src[k][i] # NoPoint => Transform(src[k][i]) \in Points
<1>1. src \in Seq(Seq(Geometries))
  BY SourcesAssumption DEF Geometries
<1>2. src[k] \in Seq(Geometries)
  BY <1>1
<1>3. DOMAIN src = 1 .. Len(src) /\ DOMAIN src[k] = 1 .. Len(src[k])
  BY <1>1, <1>2
<1> QED
  BY <1>1, <1>2, <1>3, TransformAssumption

(* Before the first call nothing is open.                                  *)
LEMMA InitAccess == Init => AccessInvariant
<1> SUFFICES ASSUME Init PROVE AccessInvariant
  OBVIOUS
<1>1. /\ fn = [name |-> "none"] /\ stage = "idle" /\ open = 0 /\ layer = <<>>
      /\ poCT = FALSE /\ results = <<>> /\ memory = 0 /\ file = <<>> /\ failed = {}
  BY DEF Init, NoFunction
<1>2. fn.name = "none"
  BY <1>1
<1>3. AtCall
  BY <1>1, <1>2 DEF AtCall
<1>4. layer \in Seq(Geometries)
  BY <1>1
<1> QED
  BY <1>1, <1>3, <1>4 DEF AccessInvariant, AtOpened, AtLayer, AtSaving,
    UndefinedOnlyUnchecked

(* The calls that are made have one of four names.                         *)
LEMMA CallNames ==
  ASSUME NEW f \in Calls
  PROVE  f.name \in Readers \cup {"names"}
BY DEF Calls, Readers

LEMMA OpenAccess ==
  ASSUME AccessInvariant, NEW f \in Calls, Open(f) \/ OpenFails(f)
  PROVE  AccessInvariant'
<1>1. f.name \in {"features", "bbox", "bboxshape", "names"}
  BY CallNames DEF Readers
<1>2. /\ stage = "idle" /\ fn' = f /\ results' = <<>> /\ memory' = 0
      /\ failed' = {} /\ layer' = layer /\ poCT' = poCT /\ open = 0
      /\ poCT \in BOOLEAN /\ layer \in Seq(Geometries)
  BY DEF Open, OpenFails, Called, layers, AccessInvariant, AtCall
<1>3. CASE Open(f)
  <2>1. stage' = "opened" /\ open' = 1
    BY <1>2, <1>3 DEF Open
  <2> QED
    BY <1>1, <1>2, <2>1 DEF AccessInvariant, AtCall, AtOpened, AtLayer, AtSaving,
      UndefinedOnlyUnchecked
<1>4. CASE OpenFails(f)
  <2>1. /\ open' = 0
        /\ stage' = IF f.name = "bboxshape" THEN "undefined" ELSE "idle"
    BY <1>2, <1>4 DEF OpenFails
  <2>2. AtCall'
    BY <1>1, <1>2, <2>1 DEF AtCall
  <2> QED
    BY <1>1, <1>2, <2>1, <2>2 DEF AccessInvariant, AtOpened, AtLayer, AtSaving,
      UndefinedOnlyUnchecked
<1> QED
  BY <1>3, <1>4

LEMMA PickAccess ==
  ASSUME AccessInvariant, LayerRefused \/ LayerPicked
  PROVE  AccessInvariant'
<1>1. /\ stage = "opened" /\ fn.name \in Readers /\ fn \in Calls /\ open = 1
      /\ memory = 0 /\ failed = {} /\ poCT \in BOOLEAN /\ layer \in Seq(Geometries)
      /\ fn.name = "features" => results = <<>>
      /\ UNCHANGED <<fn, results, memory, failed>>
  BY DEF LayerRefused, LayerPicked, AccessInvariant, AtOpened
<1>2. CASE LayerRefused
  <2>1. /\ open' = 0 /\ UNCHANGED <<layer, poCT>>
        /\ stage' = IF fn.name = "bboxshape" THEN "undefined" ELSE "idle"
    BY <1>1, <1>2 DEF LayerRefused, CloseAndReturn, layers
  <2>2. AtCall'
    BY <1>1, <2>1 DEF AtCall, Readers
  <2> QED
    BY <1>1, <2>1, <2>2 DEF AccessInvariant, AtOpened, AtLayer, AtSaving,
      UndefinedOnlyUnchecked
<1>3. CASE LayerPicked
  <2>1. /\ stage' = "layer" /\ open' = open
        /\ fn.idx \in 0 .. Len(fn.src) - 1 /\ layer' = fn.src[fn.idx + 1]
        /\ poCT' \in {FALSE, fn.dest_sr}
    BY <1>3 DEF LayerPicked, LayerThere
  <2>2. fn \in [name : Readers, src : Sources, idx : LayerIdxs, dest_sr : BOOLEAN]
    BY <1>1 DEF Calls, Readers
  <2>3. fn.src \in Sources /\ fn.idx \in Int /\ fn.dest_sr \in BOOLEAN
    BY <2>2, LayerIdxsAssumption
  <2>4. fn.idx + 1 \in 1 .. Len(fn.src)
    <3>1. Len(fn.src) \in Nat
      BY <2>3, SourcesAssumption
    <3> QED
      BY <2>1, <2>3, <3>1
  <2>5. layer' \in Seq(Geometries)
    BY <2>1, <2>3, <2>4, LayerFacts
  <2>6. fn.name = "features" => Cloning'
    BY <1>1, <2>1, <2>5 DEF Cloning
  <2> QED
    BY <1>1, <2>1, <2>3, <2>5, <2>6 DEF AccessInvariant, AtCall, AtOpened, AtLayer,
      AtSaving, UndefinedOnlyUnchecked
<1> QED
  BY <1>2, <1>3

LEMMA NamesAccess ==
  ASSUME AccessInvariant, CopyName \/ NamesDone
  PROVE  AccessInvariant'
<1>1. /\ stage = "opened" /\ fn.name = "names" /\ fn \in Calls /\ open = 1
      /\ memory = 0 /\ failed = {} /\ poCT \in BOOLEAN /\ layer \in Seq(Geometries)
      /\ UNCHANGED <<fn, memory, failed, layer, poCT>>
  BY DEF CopyName, NamesDone, GoUndefined, layers, AccessInvariant, AtOpened
<1>2. \/ stage' = "idle" /\ open' = 0
      \/ stage' \in {"opened", "undefined"} /\ open' = open
  BY <1>1 DEF CopyName, NamesDone, GoUndefined, CloseAndReturn
<1> QED
  BY <1>1, <1>2 DEF AccessInvariant, AtCall, AtOpened, AtLayer, AtSaving,
    UndefinedOnlyUnchecked

(* GetFeatures clones one feature after the other.                         *)
LEMMA CloneAccess ==
  ASSUME AccessInvariant, GetNextFeature
  PROVE  AccessInvariant'
<1> DEFINE n == Len(results) + 1
           geom == layer[n]
<1>1. /\ stage = "layer" /\ fn.name = "features" /\ open = 1
      /\ poCT \in BOOLEAN /\ layer \in Seq(Geometries)
      /\ fn \in Calls /\ fn.name \in Readers
      /\ fn.idx \in 0 .. Len(fn.src) - 1 /\ layer = fn.src[fn.idx + 1]
      /\ Len(results) < Len(layer) /\ Cloning
  BY DEF GetNextFeature, AccessInvariant, AtLayer
<1>2. /\ n \in 1 .. Len(layer) /\ geom \in Geometries
      /\ Len(results) \in Nat /\ results \in Seq(Geometries)
  BY <1>1 DEF Cloning
<1>3. geom # NoPoint => Transform(geom) \in Points
  <2>1. fn \in [name : Readers, src : Sources, idx : LayerIdxs, dest_sr : BOOLEAN]
    BY <1>1 DEF Calls, Readers
  <2>2. fn.src \in Sources /\ fn.idx \in Int
    BY <2>1, LayerIdxsAssumption
  <2>3. fn.idx + 1 \in 1 .. Len(fn.src)
    <3>1. Len(fn.src) \in Nat
      BY <2>2, SourcesAssumption
    <3> QED
      BY <1>1, <2>2, <3>1
  <2> QED
    BY <1>1, <1>2, <2>2, <2>3, LayerFacts
<1>4. CASE poCT /\ geom = NoPoint
  <2>1. /\ stage' = "undefined"
        /\ UNCHANGED <<fn, open, layer, poCT, results, box, memory, file, failed>>
    BY <1>1, <1>4 DEF GetNextFeature, GoUndefined, layers
  <2>2. NoPoint \in ToSet(layer)
    BY <1>1, <1>2, <1>4 DEF ToSet
  <2> QED
    BY <1>1, <1>4, <2>1, <2>2 DEF AccessInvariant, AtCall, AtOpened, AtLayer, AtSaving,
      UndefinedOnlyUnchecked
<1>5. CASE ~(poCT /\ geom = NoPoint)
  <2>1. AppendClone(geom)
    BY <1>1, <1>5 DEF GetNextFeature
  <2>2. PICK done \in Transformable :
          /\ results' = Append(results, IF done THEN Transform(geom) ELSE geom)
          /\ failed' = IF poCT /\ ~done THEN failed \cup {n} ELSE failed
    BY <2>1 DEF AppendClone
  <2>3. /\ memory' = memory + 1
        /\ UNCHANGED <<fn, stage, open, layer, poCT, box, file>>
    BY <2>1 DEF AppendClone, CloneKept, layers
  <2>4. done \in BOOLEAN /\ (done => poCT)
    BY <1>1, <2>2 DEF Transformable
  <2>5. (IF done THEN Transform(geom) ELSE geom) \in Geometries
    BY <1>2, <1>3, <1>5, <2>4 DEF Geometries
  <2>6. /\ results' \in Seq(Geometries) /\ Len(results') = n
        /\ results'[n] = (IF done THEN Transform(geom) ELSE geom)
        /\ \A i \in 1 .. Len(results) : results'[i] = results[i]
    BY <1>2, <2>2, <2>5
  <2>7. failed' \subseteq 1 .. n /\ (n \in failed' <=> poCT /\ ~done)
        /\ \A i \in 1 .. Len(results) : i \in failed' <=> i \in failed
    <3>1. failed \subseteq 1 .. Len(results) /\ n \notin failed
      BY <1>1, <1>2 DEF Cloning
    <3>2. failed' = failed \/ failed' = failed \cup {n}
      BY <2>2
    <3>3. n \in failed' <=> poCT /\ ~done
      BY <2>2, <3>1
    <3>4. 1 .. Len(results) \subseteq 1 .. n /\ n \in 1 .. n /\ n \notin 1 .. Len(results)
      BY <1>2
    <3> QED
      <4> HIDE DEF n
      <4> QED
        BY <3>1, <3>2, <3>3, <3>4
  <2>8. \A i \in 1 .. n : results'[i] = Cloned(i)'
    <3> SUFFICES ASSUME NEW i \in 1 .. n PROVE results'[i] = Cloned(i)'
      OBVIOUS
    <3>1. CASE i = n
      BY <1>2, <1>5, <2>3, <2>4, <2>6, <2>7, <3>1 DEF Cloned
    <3>2. CASE i \in 1 .. Len(results)
      BY <1>1, <2>3, <2>6, <2>7, <3>2 DEF Cloned, Cloning
    <3> QED
      BY <1>2, <3>1, <3>2
  <2>9. Cloning'
    BY <1>1, <1>2, <2>3, <2>6, <2>7, <2>8 DEF Cloning
  <2> QED
    BY <1>1, <2>3, <2>9 DEF AccessInvariant, AtCall, AtOpened, AtLayer, AtSaving,
      UndefinedOnlyUnchecked
<1> QED
  BY <1>4, <1>5

(* The loop has reached the end of the layer.                              *)
LEMMA ClonedAccess ==
  ASSUME AccessInvariant, FeaturesDone
  PROVE  AccessInvariant'
<1>1. /\ stage = "layer" /\ fn.name = "features" /\ open = 1
      /\ poCT \in BOOLEAN /\ layer \in Seq(Geometries)
      /\ Len(results) = Len(layer) /\ Cloning
  BY DEF FeaturesDone, AccessInvariant, AtLayer
<1>2. /\ stage' = "idle" /\ open' = 0
      /\ UNCHANGED <<fn, layer, poCT, results, memory, failed>>
  BY <1>1 DEF FeaturesDone, CloseAndReturn, layers
<1>3. results = [i \in DOMAIN layer |-> Cloned(i)]
  BY <1>1 DEF Cloning
<1>4. results' = [i \in DOMAIN layer |-> Cloned(i)]'
  BY <1>2, <1>3 DEF Cloned
<1>5. AtCall'
  BY <1>1, <1>2, <1>4 DEF AtCall, Cloning
<1> QED
  BY <1>1, <1>2, <1>5 DEF AccessInvariant, AtOpened, AtLayer, AtSaving,
    UndefinedOnlyUnchecked

LEMMA ExtentAccess ==
  ASSUME AccessInvariant, GetExtent
  PROVE  AccessInvariant'
<1>1. /\ stage = "layer" /\ fn.name \in {"bbox", "bboxshape"} /\ open = 1
      /\ poCT \in BOOLEAN /\ layer \in Seq(Geometries) /\ memory = 0
  BY DEF GetExtent, AccessInvariant, AtLayer
<1>2. /\ stage' = "idle" /\ open' = 0
      /\ UNCHANGED <<fn, layer, poCT, memory>>
  BY <1>1 DEF GetExtent, CloseAndReturn, layers
<1> QED
  BY <1>1, <1>2 DEF AccessInvariant, AtCall, AtOpened, AtLayer, AtSaving,
    UndefinedOnlyUnchecked

LEMMA SaveAccess ==
  ASSUME AccessInvariant, NEW geoms \in GeomVectors, Save(geoms) \/ SaveRefused(geoms)
  PROVE  AccessInvariant'
<1>1. /\ stage = "idle" /\ open = 0 /\ poCT \in BOOLEAN /\ layer \in Seq(Geometries)
      /\ fn' = [name |-> "save", geoms |-> geoms]
      /\ memory' = 0 /\ file' = <<>> /\ failed' = {} /\ UNCHANGED <<layer, poCT>>
  BY DEF Save, SaveRefused, Called, layers, AccessInvariant, AtCall
<1>2. fn'.name = "save" /\ fn'.geoms = geoms /\ Len(geoms) \in Nat
  BY <1>1, GeomVectorsAssumption
<1>3. Writing'
  BY <1>1, <1>2 DEF Writing
<1>4. CASE Save(geoms)
  BY <1>1, <1>2, <1>3, <1>4 DEF Save, AccessInvariant, AtCall, AtOpened, AtLayer,
    AtSaving, UndefinedOnlyUnchecked
<1>5. CASE SaveRefused(geoms)
  <2>1. stage' = "idle" /\ open' = 0 /\ results' = <<FALSE>>
    BY <1>1, <1>5 DEF SaveRefused
  <2>2. Cardinality({}) = 0 /\ ~results'[1]
    BY <2>1, FS_EmptySet
  <2>3. AtCall'
    BY <1>1, <1>2, <1>3, <2>1, <2>2 DEF AtCall
  <2> QED
    BY <1>1, <2>1, <2>3 DEF AccessInvariant, AtOpened, AtLayer, AtSaving,
      UndefinedOnlyUnchecked
<1> QED
  BY <1>4, <1>5

LEMMA WriteAccess ==
  ASSUME AccessInvariant,
         CreateFails \/ Create \/ WriteFeature \/ WriteFails \/ SaveDone
  PROVE  AccessInvariant'
<1>1. /\ stage \in {"creating", "writing"} /\ open = 1 /\ memory = 0 /\ failed = {}
      /\ fn.name = "save" /\ fn.geoms \in GeomVectors /\ Writing
      /\ poCT \in BOOLEAN /\ layer \in Seq(Geometries)
      /\ UNCHANGED <<fn, layer, poCT>>
  BY DEF CreateFails, Create, WriteFeature, WriteFails, SaveDone, AccessInvariant,
    AtSaving, layers
<1>2. /\ fn.geoms \in Seq(Geometries) /\ Len(fn.geoms) \in Nat
      /\ file \in Seq([id : Int, geom : Geometries]) /\ Len(file) \in Nat
      /\ Len(file) <= Len(fn.geoms)
  BY <1>1, GeomVectorsAssumption DEF Writing, Geometries
<1>3. CASE CreateFails
  <2>1. /\ stage' = "idle" /\ open' = 0 /\ results' = <<FALSE>>
        /\ UNCHANGED <<memory, file, failed>>
    BY <1>1, <1>3 DEF CreateFails, CloseAndReturn
  <2>2. Cardinality({}) = 0 /\ ~results'[1] /\ Writing'
    BY <1>1, <2>1, FS_EmptySet DEF Writing
  <2>3. AtCall'
    BY <1>1, <2>1, <2>2 DEF AtCall
  <2> QED
    BY <1>1, <2>1, <2>3 DEF AccessInvariant, AtOpened, AtLayer, AtSaving,
      UndefinedOnlyUnchecked
<1>4. CASE Create
  <2>1. stage' = "writing" /\ UNCHANGED <<open, memory, file, failed>> /\ Writing'
    BY <1>1, <1>4 DEF Create, Writing
  <2> QED
    BY <1>1, <2>1 DEF AccessInvariant, AtCall, AtOpened, AtLayer, AtSaving,
      UndefinedOnlyUnchecked
<1>5. CASE WriteFeature
  <2> DEFINE n == Len(file) + 1
             written == [id |-> Len(file), geom |-> fn.geoms[n]]
  <2>1. /\ file' = Append(file, written) /\ Len(file) < Len(fn.geoms)
        /\ stage' = "writing" /\ UNCHANGED <<open, memory, failed>>
    BY <1>1, <1>5 DEF WriteFeature
  <2>2. written \in [id : Int, geom : Geometries]
    BY <1>2, <2>1
  <2>3. /\ file' \in Seq([id : Int, geom : Geometries]) /\ Len(file') = n
        /\ file'[n] = written
        /\ \A i \in 1 .. Len(file) : file'[i] = file[i]
    BY <1>2, <2>1, <2>2
  <2>4. \A i \in 1 .. n : file'[i] = [id |-> i - 1, geom |-> fn.geoms[i]]
    <3> SUFFICES ASSUME NEW i \in 1 .. n
                 PROVE  file'[i] = [id |-> i - 1, geom |-> fn.geoms[i]]
      OBVIOUS
    <3>1. CASE i = n
      BY <1>2, <2>3, <3>1
    <3>2. CASE i \in 1 .. Len(file)
      BY <1>1, <2>3, <3>2 DEF Writing
    <3> QED
      BY <1>2, <3>1, <3>2
  <2>5. Writing'
    <3> HIDE DEF n, written
    <3>1. n <= Len(fn.geoms)
      BY <1>2, <2>1 DEF n
    <3> QED
      BY <1>1, <2>3, <2>4, <3>1 DEF Writing
  <2> QED
    BY <1>1, <2>1, <2>5 DEF AccessInvariant, AtCall, AtOpened, AtLayer, AtSaving,
      UndefinedOnlyUnchecked
<1>6. CASE WriteFails
  <2>1. /\ stage' = "idle" /\ open' = 0 /\ results' = <<FALSE>> /\ memory' = 1
        /\ failed' = {Len(file) + 1} /\ UNCHANGED file
    BY <1>1, <1>6 DEF WriteFails, CloseAndReturn
  <2>2. Cardinality({Len(file) + 1}) = 1
    BY FS_Singleton
  <2>3. ~results'[1] /\ Len(file) + 1 \in Nat
    BY <1>2, <2>1
  <2>4. Writing'
    BY <1>1, <2>1 DEF Writing
  <2>5. AtCall'
    BY <1>1, <2>1, <2>2, <2>3, <2>4 DEF AtCall
  <2> QED
    BY <1>1, <2>1, <2>5 DEF AccessInvariant, AtOpened, AtLayer, AtSaving,
      UndefinedOnlyUnchecked
<1>7. CASE SaveDone
  <2>1. /\ stage' = "idle" /\ open' = 0 /\ results' = <<TRUE>>
        /\ UNCHANGED <<memory, file, failed>> /\ Len(file) = Len(fn.geoms)
    BY <1>1, <1>7 DEF SaveDone, CloseAndReturn
  <2>2. Cardinality({}) = 0 /\ results'[1] /\ Writing'
    BY <1>1, <2>1, FS_EmptySet DEF Writing
  <2>3. AtCall'
    BY <1>1, <2>1, <2>2 DEF AtCall
  <2> QED
    BY <1>1, <2>1, <2>3 DEF AccessInvariant, AtOpened, AtLayer, AtSaving,
      UndefinedOnlyUnchecked
<1> QED
  BY <1>3, <1>4, <1>5, <1>6, <1>7

(* No step, of any of the five functions, breaks the invariant.            *)
LEMMA NextAccess == AccessInvariant /\ [Next]_vars => AccessInvariant'
<1> SUFFICES ASSUME AccessInvariant, [Next]_vars PROVE AccessInvariant'
  OBVIOUS
<1>1. CASE \E f \in Calls : Open(f) \/ OpenFails(f)
  BY <1>1, OpenAccess
<1>2. CASE LayerRefused \/ LayerPicked
  BY <1>2, PickAccess
<1>3. CASE CopyName \/ NamesDone
  BY <1>3, NamesAccess
<1>4. CASE GetNextFeature
  BY <1>4, CloneAccess
<1>5. CASE FeaturesDone
  BY <1>5, ClonedAccess
<1>6. CASE GetExtent
  BY <1>6, ExtentAccess
<1>7. CASE \E geoms \in GeomVectors : Save(geoms) \/ SaveRefused(geoms)
  BY <1>7, SaveAccess
<1>8. CASE CreateFails \/ Create \/ WriteFeature \/ WriteFails \/ SaveDone
  BY <1>8, WriteAccess
<1>9. CASE UNCHANGED vars
  BY <1>9 DEF vars, layers, AccessInvariant, AtCall, AtOpened, AtLayer, AtSaving,
    UndefinedOnlyUnchecked, Writing, Cloning, Cloned
<1> QED
  BY <1>1, <1>2, <1>3, <1>4, <1>5, <1>6, <1>7, <1>8, <1>9 DEF Next, Undefined

(* The inductive invariant of the five functions.                          *)
THEOREM AccessIsInvariant == Spec => []AccessInvariant
BY InitAccess, NextAccess, PTL DEF Spec

(* Every function closes what it has opened and frees what it has read,    *)
(* wherever GDAL makes it give up.                                         *)
THEOREM NothingIsLeft == Spec => []NothingLeftBehind
<1>1. AccessInvariant => NothingLeftBehind
  <2> SUFFICES ASSUME AccessInvariant, stage = "idle"
               PROVE  /\ open = 0
                      /\ memory = (IF fn.name = "features" THEN Len(results) ELSE 0)
                                    + (IF fn.name = "save" THEN Cardinality(failed) ELSE 0)
    BY DEF NothingLeftBehind
  <2>1. AtCall
    BY DEF AccessInvariant
  <2>2. CASE fn.name = "features"
    <3>1. Len(results) \in Nat
      BY <2>1, <2>2 DEF AtCall, AccessInvariant
    <3> QED
      BY <2>1, <2>2, <3>1 DEF AtCall
  <2>3. CASE fn.name = "save"
    <3>1. Cardinality(failed) \in Nat
      <4>1. failed = {} \/ \E i \in Nat : failed = {i}
        BY <2>1, <2>3 DEF AtCall
      <4>2. CASE failed = {}
        BY <4>2, FS_EmptySet
      <4>3. CASE \E i \in Nat : failed = {i}
        <5>1. PICK i \in Nat : failed = {i}
          BY <4>3
        <5>2. Cardinality({i}) = 1
          BY FS_Singleton
        <5> QED
          BY <5>1, <5>2
      <4> QED
        BY <4>1, <4>2, <4>3
    <3> QED
      BY <2>1, <2>3, <3>1 DEF AtCall
  <2> QED
    BY <2>1, <2>2, <2>3 DEF AtCall
<1> QED
  BY <1>1, AccessIsInvariant, PTL

(* GetFeatures returns all features of the layer or none.                  *)
THEOREM AllOrNone == Spec => []AllOrNothing
<1>1. AccessInvariant => AllOrNothing
  BY DEF AccessInvariant, AtCall, AllOrNothing, Returned, Cloned
<1> QED
  BY <1>1, AccessIsInvariant, PTL

(* SaveFeaturesToShapefile tells the truth about the file.                 *)
THEOREM SaveTruthful == Spec => []SaveTellsTheTruth
<1>1. AccessInvariant => SaveTellsTheTruth
  <2> SUFFICES ASSUME AccessInvariant, Returned("save")
               PROVE  /\ Len(file) <= Len(fn.geoms)
                      /\ \A i \in DOMAIN file : file[i] = [id |-> i - 1, geom |-> fn.geoms[i]]
                      /\ results[1] => failed = {} /\ Len(file) = Len(fn.geoms)
    BY DEF SaveTellsTheTruth
  <2>1. AtCall /\ stage = "idle" /\ fn.name = "save"
    BY DEF AccessInvariant, Returned
  <2>2. Writing /\ (results[1] => failed = {} /\ Len(file) = Len(fn.geoms))
    BY <2>1 DEF AtCall
  <2>3. DOMAIN file = 1 .. Len(file)
    BY <2>2 DEF Writing
  <2> QED
    BY <2>2, <2>3 DEF Writing
<1> QED
  BY <1>1, AccessIsInvariant, PTL

(* Only three functions can use memory that is not there.                  *)
THEOREM UndefinedIsUnchecked == Spec => []UndefinedOnlyUnchecked
<1>1. AccessInvariant => UndefinedOnlyUnchecked
  BY DEF AccessInvariant
<1> QED
  BY <1>1, AccessIsInvariant, PTL
=============================================================================
