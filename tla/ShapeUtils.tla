------------------------------ MODULE ShapeUtils ------------------------------
(***************************************************************************)
(* OGRShapeUtils: lengths, areas and the outline of a vector of features,  *)
(* and GetFeaturesWithin, which narrows the vector down and may destroy    *)
(* what it leaves out.  The caller goes on with the vector it was returned *)
(* and keeps one vector of undefined flags, which calls only ever set.     *)
(*                                                                         *)
(* A geometry is a type and a sequence of parts, a part a set of cells:    *)
(* OGR measures a line by the number of its cells, and so a polygon.       *)
(* Bounding boxes are in module LayerAccess.                               *)
(***************************************************************************)
EXTENDS Integers, Sequences, FiniteSets, FiniteSetsExt, SequencesExt

CONSTANTS
  Features,     \* the features that the caller has been given
  Cells,
  Geometries,   \* the geometries that a feature may have
  Contours      \* the contours that a caller may pass

Lines == {"LineString", "MultiLineString"}
Polygons == {"Polygon", "MultiPolygon"}
OtherTypes == {"MultiPoint", "CurvePolygon"}
GeometryTypes == {"Point"} \cup Lines \cup Polygons \cup OtherTypes

NoGeometry == [type |-> "none", parts |-> <<>>]

ASSUME FeaturesAssumption == IsFiniteSet(Features)
ASSUME GeometriesAssumption ==
  \A g \in Geometries :
    /\ g = NoGeometry \/ g.type \in GeometryTypes
    /\ g.parts \in Seq(SUBSET Cells)
    /\ g.type \in {"Point", "LineString", "Polygon", "CurvePolygon"} => Len(g.parts) = 1
ASSUME ContoursAssumption == Contours \subseteq SUBSET Cells

Units == {"meter", "kilometer", "mile"}

VARIABLES
  geom,       \* the geometry of each feature
  features,   \* the vector that the caller goes on with
  destroyed,  \* the features whose memory is freed
  undefs,     \* the caller's vector of flags
  call,       \* the function that is executing and its arguments
  at,         \* its loop index
  results,    \* what it has so far, and then returns
  state,      \* "idle", "running", or "undefined": nothing is said of it
  released,   \* auxiliary: left out without being destroyed
  fresh       \* auxiliary: undefs was all false when the call began

vars == <<geom, features, destroyed, undefs, call, at, results, state, released, fresh>>
caller == <<geom, features, destroyed, released>>

NoCall == [op |-> "none"]
-----------------------------------------------------------------------------
Init ==
  /\ geom \in [Features -> Geometries]
  /\ features = SetToSeq(Features)
  /\ destroyed = {} /\ released = {}
  /\ undefs = <<>> /\ fresh = FALSE
  /\ call = NoCall /\ at = 0 /\ results = <<>> /\ state = "idle"

Begin(c) ==
  /\ state = "idle"
  /\ state' = "running"
  /\ call' = c /\ at' = 1 /\ results' = <<>>
  /\ UNCHANGED caller

(* The caller brings a vector of flags, new ones or those of a call before *)
(* that has left enough of them.                                           *)
GetMeasures(op, is_arc, geographic, d_unit) ==
  /\ Begin([op |-> op, is_arc |-> is_arc, geographic |-> geographic, d_unit |-> d_unit])
  /\ undefs' \in {[i \in DOMAIN features |-> FALSE]}
                   \cup (IF Len(undefs) >= Len(features) THEN {undefs} ELSE {})
  /\ fresh' = (TRUE \notin {undefs'[i] : i \in DOMAIN undefs'})

GetFeaturesWithin(contour, delete_outside) ==
  /\ Begin([op |-> "within", contour |-> contour, delete |-> delete_outside])
  /\ UNCHANGED <<undefs, fresh>>

\* Without a contour the features are returned as they are.
GetFeaturesWithinNull ==
  /\ state = "idle"
  /\ call' = [op |-> "within"]
  /\ results' = features
  /\ UNCHANGED <<caller, undefs, at, state, fresh>>

GetMapOutline ==
  /\ Begin([op |-> "outline"])
  /\ UNCHANGED <<undefs, fresh>>

-----------------------------------------------------------------------------
Feature == features[at]

InLoop(ops) == state = "running" /\ call.op \in ops /\ at <= Len(features)

Finished(ops) == state = "running" /\ call.op \in ops /\ at > Len(features)

\* A null pointer is used, or the memory of a feature that is destroyed.
GoUndefined ==
  /\ state' = "undefined"
  /\ UNCHANGED <<caller, undefs, call, at, results, fresh>>

(***************************************************************************)
(* GetShapeLength and GetShapeArea.  With poCT they measure a clone, which *)
(* nobody transforms: the result is in the units of the source.            *)
(***************************************************************************)
\* What OGR measures: all parts together.
Size(g) == MapThenSumSet(LAMBDA p : Cardinality(g.parts[p]), DOMAIN g.parts)

\* Mutant: a multi-part line is measured by its first part.
FirstPartLength(g) ==
  IF g.type \in {"Point"} \cup Polygons THEN 0 ELSE Cardinality(g.parts[1])

GetShapeLength(g) == IF g.type \in {"Point"} \cup Polygons THEN 0 ELSE Size(g)

GetShapeArea(g) == IF g.type = "Polygon" THEN Size(g) ELSE 0

\* The cast to OGRLineString of what is neither a line nor handled before.
BadCast(g) == call.op = "lengths" /\ g.type \in OtherTypes

Measure(amount) ==
  [amount |-> amount,
   in |-> IF call.geographic THEN "degree" ELSE "meter",
   unit |-> IF call.is_arc THEN call.d_unit ELSE "meter"]

\* results[i]; 0 if there is no geometry.
WithResult(g, amount) == Append(results, Measure(IF g = NoGeometry THEN 0 ELSE amount))

\* undefs[i] = true.  Mutant: the index is not that of the feature.
FlaggedFirst(g) == IF g = NoGeometry THEN [undefs EXCEPT ![1] = TRUE] ELSE undefs

WithFlag(g) == IF g = NoGeometry THEN [undefs EXCEPT ![at] = TRUE] ELSE undefs

MeasureFeature ==
  LET g == geom[Feature] IN
  /\ InLoop({"lengths", "areas"})
  /\ IF Feature \in destroyed \/ BadCast(g)
     THEN GoUndefined
     ELSE /\ results' = WithResult(g, IF call.op = "lengths" THEN GetShapeLength(g)
                                      ELSE GetShapeArea(g))
          /\ undefs' = WithFlag(g)
          /\ at' = at + 1
          /\ UNCHANGED <<caller, call, state, fresh>>

MeasureDone ==
  /\ Finished({"lengths", "areas"})
  /\ state' = "idle"
  /\ UNCHANGED <<caller, undefs, call, at, results, fresh>>
-----------------------------------------------------------------------------
(***************************************************************************)
(* GetMapOutline collects polygons, all parts of them.  Anything else ends *)
(* it with NULL, which is <<>> here; a collection of polygons may refuse a *)
(* curve polygon.                                                          *)
(***************************************************************************)
\* Mutant: the loop over the parts uses the index of the features.
SharedIndex(g) == at + Len(g.parts) + 1

NextIndex(g) == at + 1

OutlineFeature ==
  LET g == geom[Feature] IN
  /\ InLoop({"outline"})
  /\ IF Feature \in destroyed \/ g = NoGeometry
     THEN GoUndefined
     ELSE /\ IF g.type \in Polygons \cup {"CurvePolygon"}
             THEN /\ results' \in {results \o g.parts}
                                    \cup (IF g.type = "CurvePolygon" THEN {results} ELSE {})
                  /\ at' = NextIndex(g)
                  /\ UNCHANGED state
             ELSE /\ results' = <<>>
                  /\ state' = "idle"
                  /\ UNCHANGED at
          /\ UNCHANGED <<caller, undefs, call, fresh>>

\* UnionCascaded.
OutlineDone ==
  /\ Finished({"outline"})
  /\ results' = <<UNION ToSet(results)>>
  /\ state' = "idle"
  /\ UNCHANGED <<caller, undefs, call, at, fresh>>
-----------------------------------------------------------------------------
Within(g, contour) == g # NoGeometry /\ UNION ToSet(g.parts) \subseteq contour

\* Mutants: keep is not reset for each feature; it means the opposite.
KeepInverted(keep) == ~keep

StillKept(keep) == keep \/ results # <<>>

Kept(keep) == keep

NarrowFeature ==
  LET keep == Within(geom[Feature], call.contour)
      out == IF Kept(keep) THEN {} ELSE {Feature}
  IN
  /\ InLoop({"within"})
  /\ IF Feature \in destroyed
     THEN GoUndefined
     ELSE /\ results' = IF keep THEN Append(results, Feature) ELSE results
          /\ destroyed' = IF call.delete THEN destroyed \cup out ELSE destroyed
          /\ released' = IF call.delete THEN released ELSE released \cup out
          /\ at' = at + 1
          /\ UNCHANGED <<geom, features, undefs, call, state, fresh>>

\* The caller goes on with the vector it is returned.
NarrowDone ==
  /\ Finished({"within"})
  /\ features' = results
  /\ state' = "idle"
  /\ UNCHANGED <<geom, destroyed, released, undefs, call, at, results, fresh>>
-----------------------------------------------------------------------------
Undefined == state = "undefined" /\ UNCHANGED vars

Next ==
  \/ \E op \in {"lengths", "areas"}, is_arc, geographic \in BOOLEAN, d_unit \in Units :
       GetMeasures(op, is_arc, geographic, d_unit)
  \/ \E contour \in Contours, d \in BOOLEAN : GetFeaturesWithin(contour, d)
  \/ GetFeaturesWithinNull
  \/ GetMapOutline
  \/ MeasureFeature \/ MeasureDone
  \/ OutlineFeature \/ OutlineDone
  \/ NarrowFeature \/ NarrowDone
  \/ Undefined

Spec == Init /\ [][Next]_vars
-----------------------------------------------------------------------------
\* The latest call was op and has returned.
Returned(ops) == state = "idle" /\ call.op \in ops

(* However often the vector is narrowed down, each feature is in exactly   *)
(* one place: once in the vector that the caller goes on with, destroyed,  *)
(* or left to the caller by a call that was told not to destroy.  None is  *)
(* lost, and none that is still to be used is gone.                        *)
EachFeatureInOnePlace ==
  state = "idle" =>
    /\ IsInjective(features)
    /\ ToSet(features) \cup destroyed \cup released = Features
    /\ ToSet(features) \cap (destroyed \cup released) = {}
    /\ destroyed \cap released = {}

(* No sequence of calls on the returned vectors is undefined, except by    *)
(* measuring the length of a type that the header does not name, or by     *)
(* drawing the outline of a feature without a geometry.                    *)
UndefinedOnlyByGeometry ==
  state = "undefined" =>
    \/ call.op = "lengths" /\ \E f \in Features : geom[f].type \in OtherTypes
    \/ call.op = "outline" /\ \E f \in Features : geom[f] = NoGeometry

(* Lengths are those of all parts of a line, areas those of a polygon,     *)
(* each at the place of its feature, whatever was missing before it.       *)
MeasuresInPlace ==
  Returned({"lengths", "areas"}) =>
    \A i \in DOMAIN features :
      LET g == geom[features[i]]
          measured == IF call.op = "lengths" THEN Lines ELSE {"Polygon"}
      IN g.type # "MultiPolygon" =>
           results[i].amount = IF g.type \in measured THEN Size(g) ELSE 0

(* A value that is not there is always flagged; and with a vector of flags *)
(* that was all false, nothing else is.  A vector that is used again after *)
(* features were taken out keeps flags that are no longer true.            *)
FlagsMeanMissing ==
  Returned({"lengths", "areas"}) =>
    \A i \in DOMAIN features :
      /\ geom[features[i]] = NoGeometry => undefs[i]
      /\ fresh /\ undefs[i] => geom[features[i]] = NoGeometry

(* The outline is that of all polygons, every part of them, and there is   *)
(* none as soon as one feature is no polygon.                              *)
OutlineCovers ==
  Returned({"outline"}) =>
    LET types == {geom[features[i]].type : i \in DOMAIN features} IN
    IF types \subseteq Polygons
    THEN results = <<UNION {UNION ToSet(geom[features[i]].parts) : i \in DOMAIN features}>>
    ELSE results = <<>> \/ types \subseteq Polygons \cup {"CurvePolygon"}
-----------------------------------------------------------------------------
(* "Compute area of a shape (Polygon or MultiPolygon)".                    *)
(* src/ogr/OGRShapeUtils.h:31                                              *)
AreaOfMultiPolygons ==
  Returned({"areas"}) =>
    \A i \in DOMAIN features :
      geom[features[i]].type = "MultiPolygon" =>
        results[i].amount = Size(geom[features[i]])
=============================================================================
