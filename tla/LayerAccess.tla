----------------------------- MODULE LayerAccess -----------------------------
(***************************************************************************)
(* The functions of OGRDataUtils and OGRShapeUtils that open a data source *)
(* of their own: GetLayerNames, GetFeatures, SaveFeaturesToShapefile,      *)
(* GetBBox and GetBBoxShape.  Each of them has several places where it     *)
(* gives up, and is to leave nothing open or allocated at any of them.     *)
(*                                                                         *)
(* A layer is a sequence of points; a transformation is a function from    *)
(* points to points.  OGR itself is external: what it may refuse, to       *)
(* transform a point among it, is a choice.                                *)
(***************************************************************************)
EXTENDS Integers, Sequences, FiniteSets, SequencesExt

CONSTANTS
  Sources,      \* data sources: sequences of layers
  LayerIdxs,    \* the layer_idx that a caller may pass
  Transform(_), \* what poCT makes of a point
  GeomVectors   \* the vectors of geometries that may be saved

NoPoint == <<>>
Points == Int \X Int

ASSUME SourcesAssumption ==
  \A src \in Sources : src \in Seq(Seq(Points \cup {NoPoint}))
ASSUME LayerIdxsAssumption == LayerIdxs \subseteq Int
ASSUME GeomVectorsAssumption == GeomVectors \subseteq Seq(Points \cup {NoPoint})
ASSUME TransformAssumption ==
  \A src \in Sources : \A k \in DOMAIN src : \A i \in DOMAIN src[k] :
    src[k][i] # NoPoint => Transform(src[k][i]) \in Points

VARIABLES
  fn,       \* the function that is executing, or the latest one, with arguments
  stage,    \* "idle", "opened", "layer", "creating", "writing"; "undefined"
            \* once a null pointer or freed memory has been used
  open,     \* how many data sources it has open
  layer,    \* poLayer
  poCT,     \* there is a transformation
  results,  \* what it has so far, and then returns
  box,      \* pEnvelope
  memory,   \* how many features exist
  file,     \* what SaveFeaturesToShapefile has written: [id, geom]
  failed    \* auxiliary: what could not be written or transformed

layers == <<layer, poCT>>
vars == <<fn, stage, open, layers, results, box, memory, file, failed>>

Null == [min |-> NoPoint, max |-> NoPoint]
NoFunction == [name |-> "none"]
-----------------------------------------------------------------------------
Init ==
  /\ fn = NoFunction /\ stage = "idle" /\ open = 0
  /\ layer = <<>> /\ poCT = FALSE /\ results = <<>> /\ box = Null
  /\ memory = 0 /\ file = <<>> /\ failed = {}

(* A new call; the caller has released what the one before returned.       *)
Called(f) ==
  /\ stage = "idle"
  /\ fn' = f
  /\ results' = <<>> /\ box' = Null /\ memory' = 0 /\ file' = <<>>
  /\ failed' = {}
  /\ UNCHANGED layers

\* GDALClose(poDS) and return.  Mutant: without the former.
ReturnOnly == stage' = "idle" /\ UNCHANGED open

CloseAndReturn == stage' = "idle" /\ open' = open - 1

GoUndefined ==
  /\ stage' = "undefined"
  /\ UNCHANGED <<fn, open, layers, results, box, memory, file, failed>>
-----------------------------------------------------------------------------
(***************************************************************************)
(* Opening, and picking the layer.  GetBBoxShape uses the envelope that    *)
(* GetBBox returns without asking whether there is one.                    *)
(***************************************************************************)
Readers == {"features", "bbox", "bboxshape"}

Open(f) ==
  /\ Called(f)
  /\ stage' = "opened" /\ open' = open + 1

OpenFails(f) ==
  /\ Called(f)
  /\ stage' = IF f.name = "bboxshape" THEN "undefined" ELSE "idle"
  /\ UNCHANGED open

LayerThere == fn.idx \in 0 .. Len(fn.src) - 1

\* Mutant: a layer that is not there is used by the others, too.
LayerUnchecked ==
  /\ stage = "opened" /\ fn.name \in Readers
  /\ stage' = "undefined"
  /\ UNCHANGED <<fn, open, layers, results, box, memory, file, failed>>

\* Out of range, or GetLayer returns NULL.
LayerRefused ==
  /\ stage = "opened" /\ fn.name \in Readers
  /\ IF fn.name = "bboxshape"
     THEN stage' = "undefined" /\ open' = open - 1
     ELSE CloseAndReturn
  /\ UNCHANGED <<fn, layers, results, box, memory, file, failed>>

(* There is a transformation if the caller asks for one, the layer has a   *)
(* reference system, and OGR knows the way.                                *)
LayerPicked ==
  /\ stage = "opened" /\ fn.name \in Readers
  /\ LayerThere
  /\ layer' = fn.src[fn.idx + 1]
  /\ poCT' \in {FALSE, fn.dest_sr}
  /\ stage' = "layer"
  /\ UNCHANGED <<fn, open, results, box, memory, file, failed>>
-----------------------------------------------------------------------------
(* GetLayerNames: a name is copied into one byte less than it needs, with  *)
(* or without consequences.                                                *)
CopyName ==
  /\ stage = "opened" /\ fn.name = "names"
  /\ Len(results) < Len(fn.src)
  /\ \/ /\ results' = Append(results, Len(results))
        /\ UNCHANGED <<fn, stage, open, layers, box, memory, file, failed>>
     \/ GoUndefined

NamesDone ==
  /\ stage = "opened" /\ fn.name = "names"
  /\ Len(results) = Len(fn.src)
  /\ CloseAndReturn
  /\ UNCHANGED <<fn, layers, results, box, memory, file, failed>>
-----------------------------------------------------------------------------
\* The clone stays, the original goes.  Mutant: both stay.
BothKept == memory + 2

CloneKept == memory + 1

(* One turn of GetFeatures' loop; a missing geometry is transformed, too,  *)
(* and nobody asks whether a transformation succeeded.                     *)
(* Mutant: a missing geometry ends the loop.                               *)
Transformable == IF poCT THEN BOOLEAN ELSE {FALSE}

AppendClone(geom) ==
  \E done \in Transformable :
    /\ results' = Append(results, IF done THEN Transform(geom) ELSE geom)
    /\ failed' = IF poCT /\ ~done THEN failed \cup {Len(results) + 1} ELSE failed
    /\ memory' = CloneKept
    /\ UNCHANGED <<fn, stage, open, layers, box, file>>

StopAtMissing ==
  LET geom == layer[Len(results) + 1] IN
  /\ stage = "layer" /\ fn.name = "features"
  /\ Len(results) < Len(layer)
  /\ IF poCT /\ geom = NoPoint
     THEN CloseAndReturn /\ UNCHANGED <<fn, layers, results, box, memory, file, failed>>
     ELSE AppendClone(geom)

GetNextFeature ==
  LET geom == layer[Len(results) + 1] IN
  /\ stage = "layer" /\ fn.name = "features"
  /\ Len(results) < Len(layer)
  /\ IF poCT /\ geom = NoPoint THEN GoUndefined ELSE AppendClone(geom)

FeaturesDone ==
  /\ stage = "layer" /\ fn.name = "features"
  /\ Len(results) = Len(layer)
  /\ CloseAndReturn
  /\ UNCHANGED <<fn, layers, results, box, memory, file, failed>>
-----------------------------------------------------------------------------
(***************************************************************************)
(* GetBBox transforms two corners of the extent.  GetBBoxShape frees the   *)
(* envelope and then reads it: what it finds may be that or anything.  Its *)
(* ring has two points and is then closed.                                 *)
(***************************************************************************)
Located == ToSet(layer) \ {NoPoint}

Extent ==
  LET Least(S) == CHOOSE a \in S : \A b \in S : a <= b
      Greatest(S) == CHOOSE a \in S : \A b \in S : b <= a
      xs == {p[1] : p \in Located}
      ys == {p[2] : p \in Located}
  IN [min |-> <<Least(xs), Least(ys)>>, max |-> <<Greatest(xs), Greatest(ys)>>]

\* OGREnvelope(): nothing is inside.
EmptyExtent == [min |-> <<1, 1>>, max |-> <<0, 0>>]

\* A corner that cannot be transformed stays where it is.
Refused == IF poCT THEN SUBSET {"min", "max"} ELSE {{}}

BoxOf(refused) ==
  IF Located = {} THEN EmptyExtent
  ELSE [c \in {"min", "max"} |->
          IF poCT /\ c \notin refused THEN Transform(Extent[c]) ELSE Extent[c]]

Freed(bbox) == {bbox, EmptyExtent}

GetExtent ==
  /\ stage = "layer" /\ fn.name \in {"bbox", "bboxshape"}
  /\ CloseAndReturn
  /\ failed' \in Refused
  /\ box' = BoxOf(failed')
  /\ IF fn.name = "bboxshape"
     THEN \E b \in Freed(box') : results' = <<b.min, b.max, b.min>>
     ELSE UNCHANGED results
  /\ UNCHANGED <<fn, layers, memory, file>>
-----------------------------------------------------------------------------
(***************************************************************************)
(* SaveFeaturesToShapefile: every call of OGR's may fail and ends it.      *)
(***************************************************************************)
Save(geoms) ==
  /\ Called([name |-> "save", geoms |-> geoms])
  /\ stage' = "creating" /\ open' = open + 1

\* No driver, or no data source.
SaveRefused(geoms) ==
  /\ stage = "idle"
  /\ fn' = [name |-> "save", geoms |-> geoms]
  /\ results' = <<FALSE>>
  /\ box' = Null /\ memory' = 0 /\ file' = <<>> /\ failed' = {}
  /\ UNCHANGED <<stage, open, layers>>

\* The layer or its field cannot be created.
CreateFails ==
  /\ stage = "creating"
  /\ CloseAndReturn
  /\ results' = <<FALSE>>
  /\ UNCHANGED <<fn, layers, box, memory, file, failed>>

Create ==
  /\ stage = "creating"
  /\ stage' = "writing"
  /\ UNCHANGED <<fn, open, layers, results, box, memory, file, failed>>

WriteFeature ==
  /\ stage = "writing"
  /\ Len(file) < Len(fn.geoms)
  /\ file' = Append(file, [id |-> Len(file), geom |-> fn.geoms[Len(file) + 1]])
  /\ UNCHANGED <<fn, stage, open, layers, results, box, memory, failed>>

(* The feature that could not be written is not destroyed.                 *)
(* Mutant: the loop stops and the function goes on as after the last.      *)
WriteFailureIgnored ==
  /\ stage = "writing"
  /\ Len(file) < Len(fn.geoms)
  /\ CloseAndReturn
  /\ results' = <<TRUE>>
  /\ memory' = memory + 1
  /\ failed' = {Len(file) + 1}
  /\ UNCHANGED <<fn, layers, box, file>>

WriteFails ==
  /\ stage = "writing"
  /\ Len(file) < Len(fn.geoms)
  /\ CloseAndReturn
  /\ results' = <<FALSE>>
  /\ memory' = memory + 1
  /\ failed' = {Len(file) + 1}
  /\ UNCHANGED <<fn, layers, box, file>>

SaveDone ==
  /\ stage = "writing"
  /\ Len(file) = Len(fn.geoms)
  /\ CloseAndReturn
  /\ results' = <<TRUE>>
  /\ UNCHANGED <<fn, layers, box, memory, file, failed>>
-----------------------------------------------------------------------------
Undefined == stage = "undefined" /\ UNCHANGED vars

Calls ==
  [name : {"names"}, src : Sources]
    \cup [name : Readers, src : Sources, idx : LayerIdxs, dest_sr : BOOLEAN]

Next ==
  \/ \E f \in Calls : Open(f) \/ OpenFails(f)
  \/ LayerRefused \/ LayerPicked
  \/ CopyName \/ NamesDone
  \/ GetNextFeature \/ FeaturesDone
  \/ GetExtent
  \/ \E geoms \in GeomVectors : Save(geoms) \/ SaveRefused(geoms)
  \/ CreateFails \/ Create \/ WriteFeature \/ WriteFails \/ SaveDone
  \/ Undefined

\* Each call runs to its end.
Spec == Init /\ [][Next]_vars
-----------------------------------------------------------------------------
Returned(name) == stage = "idle" /\ fn.name = name

(* Every function closes the data source that it opened, wherever it gives *)
(* up; and of the features that it has read or made, only those exist that *)
(* the caller was given, and one that could not be written.  Coordinate    *)
(* transformations, and the ring of which addRing keeps a copy, are never  *)
(* freed, and are not counted.                                             *)
NothingLeftBehind ==
  stage = "idle" =>
    /\ open = 0
    /\ memory = (IF fn.name = "features" THEN Len(results) ELSE 0)
                  + (IF fn.name = "save" THEN Cardinality(failed) ELSE 0)

(* GetFeatures returns the features of the layer, all of them in their     *)
(* order and all of them in one reference system but for those that could  *)
(* not be transformed, or nothing.                                         *)
AllOrNothing ==
  Returned("features") =>
    \/ results = <<>>
    \/ results = [i \in DOMAIN layer |->
         IF poCT /\ i \notin failed /\ layer[i] # NoPoint
         THEN Transform(layer[i]) ELSE layer[i]]

(* SaveFeaturesToShapefile says true only if every geometry is in the      *)
(* file; the file holds a beginning of them in any case, with ids that are *)
(* their places.                                                           *)
SaveTellsTheTruth ==
  Returned("save") =>
    /\ Len(file) <= Len(fn.geoms)
    /\ \A i \in DOMAIN file : file[i] = [id |-> i - 1, geom |-> fn.geoms[i]]
    /\ results[1] => failed = {} /\ Len(file) = Len(fn.geoms)

(* A null pointer or an array that is too short is used only by the two    *)
(* functions that do not look, and by GetFeatures when it transforms a     *)
(* feature without geometry.                                               *)
UndefinedOnlyUnchecked ==
  stage = "undefined" =>
    \/ fn.name \in {"names", "bboxshape"}
    \/ fn.name = "features" /\ poCT /\ NoPoint \in ToSet(layer)
=============================================================================
