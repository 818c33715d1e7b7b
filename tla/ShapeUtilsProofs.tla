--------------------------- MODULE ShapeUtilsProofs ---------------------------
(***************************************************************************)
(* Whatever features there are and whatever their geometries, a caller who *)
(* measures them, draws their outline and narrows them down in any order   *)
(* keeps track of every one of them, and is told what is there.            *)
(***************************************************************************)
EXTENDS ShapeUtils, FunctionTheorems, FiniteSetTheorems, SequenceTheorems, TLAPS

(* What the loops have passed.                                             *)
Past == {features[i] : i \in 1 .. at - 1}

Measuring == state = "running" /\ call.op \in {"lengths", "areas"}
Narrowing == state = "running" /\ call.op = "within"
Outlining == state = "running" /\ call.op = "outline"

TypesKept ==
  /\ geom \in [Features -> Geometries]
  /\ features \in Seq(Features) /\ IsInjective(features)
  /\ undefs \in Seq(BOOLEAN) /\ fresh \in BOOLEAN
  /\ at \in Nat
  /\ state \in {"idle", "running", "undefined"}
  /\ state = "running" =>
       /\ call.op \in {"lengths", "areas", "within", "outline"}
       /\ at \in 1 .. Len(features) + 1

(* No feature that is still in the vector is gone; one that the loop of    *)
(* GetFeaturesWithin has passed is in the result or has been left out.     *)
EachInPlace ==
  state # "undefined" =>
    /\ destroyed \cap released = {}
    /\ IF Narrowing
       THEN /\ results \in Seq(Features) /\ IsInjective(results)
            /\ ToSet(results) \subseteq Past
            /\ ToSet(results) \cup (ToSet(features) \ Past) \cup destroyed \cup released
                 = Features
            /\ (ToSet(results) \cup (ToSet(features) \ Past))
                 \cap (destroyed \cup released) = {}
       ELSE /\ ToSet(features) \cup destroyed \cup released = Features
            /\ ToSet(features) \cap (destroyed \cup released) = {}

Measured ==
  [amount : {Size(g) : g \in Geometries} \cup {0}, in : {"degree", "meter"}, unit : Units]

(* The first n features have been measured rightly.                        *)
AmountDue(g) ==
  IF g.type \in (IF call.op = "lengths" THEN Lines ELSE {"Polygon"}) THEN Size(g) ELSE 0

MeasuredTo(n) ==
  \A i \in 1 .. n :
    LET g == geom[features[i]] IN
    /\ g.type # "MultiPolygon" => results[i].amount = AmountDue(g)
    /\ g = NoGeometry => undefs[i]
    /\ fresh /\ undefs[i] => g = NoGeometry

MeasuresKept ==
  /\ Measuring =>
       /\ Len(undefs) >= Len(features)
       /\ call.d_unit \in Units
       /\ results \in Seq(Measured)
       /\ Len(results) = at - 1
       /\ MeasuredTo(at - 1)
       /\ fresh => \A i \in at .. Len(features) : ~undefs[i]
  /\ Returned({"lengths", "areas"}) => MeasuredTo(Len(features))

(* The outline so far has every part of the polygons passed.               *)
TypesTo(n) == {geom[features[i]].type : i \in 1 .. n}

CoverOf(n) == UNION {UNION ToSet(geom[features[i]].parts) : i \in 1 .. n}

OutlineKept ==
  Outlining =>
    /\ results \in Seq(SUBSET Cells)
    /\ TypesTo(at - 1) \subseteq Polygons \cup {"CurvePolygon"}
    /\ TypesTo(at - 1) \subseteq Polygons => UNION ToSet(results) = CoverOf(at - 1)

ShapeInvariant ==
  TypesKept /\ EachInPlace /\ MeasuresKept /\ OutlineKept /\ OutlineCovers
            /\ UndefinedOnlyByGeometry
-----------------------------------------------------------------------------
(* What is in a sequence that has grown.                                   *)
LEMMA ToSetOfAppend ==
  ASSUME NEW S, NEW s \in Seq(S), NEW e \in S
  PROVE  ToSet(Append(s, e)) = ToSet(s) \cup {e}
<1>1. /\ Len(Append(s, e)) = Len(s) + 1 /\ Append(s, e)[Len(s) + 1] = e
      /\ \A i \in 1 .. Len(s) : Append(s, e)[i] = s[i]
      /\ DOMAIN Append(s, e) = 1 .. Len(s) + 1 /\ DOMAIN s = 1 .. Len(s) /\ Len(s) \in Nat
  OBVIOUS
<1> DEFINE t == Append(s, e)
           n == Len(s)
<1>2. /\ t[n + 1] = e /\ \A i \in 1 .. n : t[i] = s[i]
      /\ DOMAIN t = 1 .. n + 1 /\ DOMAIN s = 1 .. n /\ n \in Nat
  BY <1>1
<1> HIDE DEF t, n
<1>3. ToSet(t) \subseteq ToSet(s) \cup {e}
  BY <1>2 DEF ToSet
<1>4. ToSet(s) \cup {e} \subseteq ToSet(t)
  BY <1>2 DEF ToSet
<1> QED
  BY <1>3, <1>4 DEF t

LEMMA ToSetOfConcat ==
  ASSUME NEW S, NEW s \in Seq(S), NEW t \in Seq(S)
  PROVE  ToSet(s \o t) = ToSet(s) \cup ToSet(t)
<1> DEFINE u == s \o t
           m == Len(s)
           n == Len(t)
<1>1. /\ m \in Nat /\ n \in Nat
      /\ DOMAIN s = 1 .. m /\ DOMAIN t = 1 .. n /\ DOMAIN u = 1 .. m + n
      /\ \A i \in 1 .. m : u[i] = s[i]
      /\ \A i \in 1 .. n : u[m + i] = t[i]
  OBVIOUS
<1> HIDE DEF u, m, n
<1>2. ToSet(s) \subseteq ToSet(u)
  BY <1>1 DEF ToSet
<1>3. ToSet(t) \subseteq ToSet(u)
  <2> SUFFICES ASSUME NEW i \in 1 .. n PROVE t[i] \in ToSet(u)
    BY <1>1 DEF ToSet
  <2>1. m + i \in 1 .. m + n /\ u[m + i] = t[i]
    BY <1>1
  <2> QED
    BY <1>1, <2>1 DEF ToSet
<1>4. ToSet(u) \subseteq ToSet(s) \cup ToSet(t)
  <2> SUFFICES ASSUME NEW i \in 1 .. m + n PROVE u[i] \in ToSet(s) \cup ToSet(t)
    BY <1>1 DEF ToSet
  <2>1. CASE i \in 1 .. m
    BY <1>1, <2>1 DEF ToSet
  <2>2. CASE i \notin 1 .. m
    <3>1. i - m \in 1 .. n /\ m + (i - m) = i
      BY <1>1, <2>2
    <3>2. u[i] = t[i - m]
      BY <1>1, <3>1
    <3> QED
      BY <1>1, <3>1, <3>2 DEF ToSet
  <2> QED
    BY <2>1, <2>2
<1> QED
  BY <1>2, <1>3, <1>4 DEF u

(* The caller has each feature once.                                       *)
LEMMA AllFeatures ==
  /\ SetToSeq(Features) \in Seq(Features)
  /\ IsInjective(SetToSeq(Features))
  /\ ToSet(SetToSeq(Features)) = Features
<1> DEFINE n == Cardinality(Features)
           s == SetToSeq(Features)
<1>1. n \in Nat /\ ExistsBijection(1 .. n, Features)
  BY FeaturesAssumption, FS_CardinalityType
<1>2. \E f \in [1 .. n -> Features] : IsInjective(f)
  BY <1>1 DEF ExistsBijection, Bijection, Injection
<1>3. s \in [1 .. n -> Features] /\ IsInjective(s)
  BY <1>2 DEF SetToSeq
<1>4. s \in Injection(1 .. n, Features)
  BY <1>3 DEF Injection
<1>5. IsFiniteSet(1 .. n) /\ Cardinality(1 .. n) = n
  <2>1. 1 \in Int /\ n \in Int
    BY <1>1
  <2>2. Cardinality(1 .. n) = IF 1 > n THEN 0 ELSE n - 1 + 1
    BY <2>1, FS_Interval
  <2> HIDE DEF n
  <2> QED
    BY <1>1, <2>1, <2>2, FS_Interval
<1>6. s \in Surjection(1 .. n, Features)
  BY <1>4, <1>5, FeaturesAssumption, FS_Injection
<1> HIDE DEF n, s
<1>7. ToSet(s) = Features
  BY <1>3, <1>6 DEF ToSet, Surjection
<1>8. s \in Seq(Features)
  BY <1>1, <1>3
<1> QED
  BY <1>3, <1>7, <1>8 DEF s

(* A feature is at one index, and those before it are the ones passed.     *)
LEMMA FeatureFacts ==
  ASSUME TypesKept, state = "running", at <= Len(features)
  PROVE  /\ at \in DOMAIN features /\ Feature \in Features /\ Feature \in ToSet(features)
         /\ Feature \notin Past
         /\ {features[i] : i \in 1 .. at} = Past \cup {Feature}
         /\ geom[Feature] \in Geometries
<1>1. /\ features \in Seq(Features) /\ at \in 1 .. Len(features)
      /\ DOMAIN features = 1 .. Len(features) /\ Len(features) \in Nat
      /\ IsInjective(features)
  BY DEF TypesKept
<1>2. at \in DOMAIN features /\ Feature \in Features /\ Feature \in ToSet(features)
  BY <1>1 DEF Feature, ToSet
<1>3. Feature \notin Past
  BY <1>1 DEF Feature, Past, IsInjective
<1>4. {features[i] : i \in 1 .. at} = Past \cup {Feature}
  BY <1>1 DEF Past, Feature
<1> QED
  BY <1>2, <1>3, <1>4 DEF TypesKept

(* Before the loop, and after it.                                          *)
LEMMA PastFacts ==
  ASSUME TypesKept
  PROVE  /\ at = 1 => Past = {}
         /\ state = "running" /\ at > Len(features) => Past = ToSet(features)
<1>1. /\ features \in Seq(Features) /\ at \in Nat
      /\ DOMAIN features = 1 .. Len(features) /\ Len(features) \in Nat
      /\ state = "running" => at \in 1 .. Len(features) + 1
  BY DEF TypesKept
<1> QED
  BY <1>1 DEF Past, ToSet
-----------------------------------------------------------------------------
LEMMA InitShapes == Init => ShapeInvariant
<1> SUFFICES ASSUME Init PROVE ShapeInvariant
  OBVIOUS
<1>1. TypesKept
  <2>1. undefs \in Seq(BOOLEAN)
    BY DEF Init
  <2> QED
    BY <2>1, AllFeatures DEF Init, TypesKept
<1>2. EachInPlace
  BY AllFeatures DEF Init, EachInPlace, Narrowing
<1> QED
  BY <1>1, <1>2 DEF Init, ShapeInvariant, MeasuresKept, OutlineKept, OutlineCovers,
    UndefinedOnlyByGeometry, Measuring, Outlining, Returned, NoCall

(* A step after which nothing is said of the features.                     *)
LEMMA UndefinedKeeps ==
  ASSUME ShapeInvariant, GoUndefined, UndefinedOnlyByGeometry'
  PROVE  ShapeInvariant'
<1>1. /\ state' = "undefined"
      /\ UNCHANGED <<geom, features, undefs, call, at, fresh>>
  BY DEF GoUndefined, caller
<1> QED
  BY <1>1 DEF ShapeInvariant, TypesKept, EachInPlace, MeasuresKept, OutlineKept,
    OutlineCovers, Measuring, Outlining, Returned

(* Outside GetFeaturesWithin the features stay where they are.             *)
LEMMA PlacesKept ==
  ASSUME EachInPlace, state # "undefined", ~Narrowing, ~Narrowing',
         UNCHANGED <<features, destroyed, released>>
  PROVE  EachInPlace'
<1>1. /\ destroyed \cap released = {}
      /\ ToSet(features) \cup destroyed \cup released = Features
      /\ ToSet(features) \cap (destroyed \cup released) = {}
  BY DEF EachInPlace
<1> QED
  BY <1>1 DEF EachInPlace, ToSet

LEMMA GetMeasuresKeeps ==
  ASSUME ShapeInvariant, NEW op \in {"lengths", "areas"}, NEW is_arc \in BOOLEAN,
         NEW geographic \in BOOLEAN, NEW d_unit \in Units,
         GetMeasures(op, is_arc, geographic, d_unit)
  PROVE  ShapeInvariant'
<1>1. /\ state = "idle" /\ state' = "running" /\ at' = 1 /\ results' = <<>>
      /\ call'.op = op /\ call'.d_unit = d_unit
      /\ UNCHANGED <<geom, features, destroyed, released>>
  BY DEF GetMeasures, Begin, caller
<1>2. /\ \/ undefs' = [i \in DOMAIN features |-> FALSE]
         \/ Len(undefs) >= Len(features) /\ undefs' = undefs
      /\ fresh' = (TRUE \notin {undefs'[i] : i \in DOMAIN undefs'})
  BY DEF GetMeasures
<1>3. features \in Seq(Features) /\ undefs \in Seq(BOOLEAN)
  BY DEF ShapeInvariant, TypesKept
<1>4. /\ undefs' \in Seq(BOOLEAN) /\ Len(undefs') >= Len(features)
  <2> DEFINE n == Len(features)
             none == [i \in 1 .. n |-> FALSE]
  <2>1. n \in Nat /\ DOMAIN features = 1 .. n
    BY <1>3
  <2>2. none \in Seq(BOOLEAN) /\ Len(none) = n
    <3> HIDE DEF n
    <3> QED
      BY <2>1
  <2>3. CASE undefs' = none
    <3> HIDE DEF n, none
    <3>1. undefs' \in Seq(BOOLEAN) /\ Len(undefs') = n
      BY <2>2, <2>3
    <3> QED
      BY <2>1, <3>1 DEF n
  <2>4. CASE undefs' = undefs /\ Len(undefs) >= Len(features)
    BY <1>3, <2>4
  <2> QED
    BY <1>2, <2>1, <2>3, <2>4
<1>5. fresh' => \A i \in 1 .. Len(features) : ~undefs'[i]
  <2> SUFFICES ASSUME fresh', NEW i \in 1 .. Len(features) PROVE ~undefs'[i]
    OBVIOUS
  <2>1. i \in DOMAIN undefs'
    BY <1>3, <1>4
  <2>2. TRUE \notin {undefs'[k] : k \in DOMAIN undefs'}
    BY <1>2
  <2>3. undefs'[i] # TRUE
    BY <2>1, <2>2
  <2>4. undefs'[i] \in BOOLEAN
    BY <1>4, <2>1
  <2> QED
    BY <2>3, <2>4
<1>6. TypesKept'
  <2>1. fresh' \in BOOLEAN
    BY <1>2
  <2>2. at' \in Nat /\ at' \in 1 .. Len(features) + 1
    BY <1>1, <1>3
  <2> QED
    BY <1>1, <1>4, <2>1, <2>2 DEF ShapeInvariant, TypesKept
<1>7. EachInPlace'
  BY <1>1, PlacesKept DEF ShapeInvariant, Narrowing
<1>8. MeasuresKept'
  <2>1. results' \in Seq(Measured)' /\ Len(results') = at' - 1
    BY <1>1
  <2>2. MeasuredTo(at - 1)'
    BY <1>1 DEF MeasuredTo
  <2> QED
    BY <1>1, <1>4, <1>5, <2>1, <2>2 DEF MeasuresKept, Returned, Measuring
<1> QED
  BY <1>1, <1>6, <1>7, <1>8 DEF ShapeInvariant, OutlineKept, Outlining, OutlineCovers,
    Returned, UndefinedOnlyByGeometry

LEMMA GetFeaturesWithinKeeps ==
  ASSUME ShapeInvariant, NEW contour \in Contours, NEW d \in BOOLEAN,
         GetFeaturesWithin(contour, d)
  PROVE  ShapeInvariant'
<1>1. /\ state = "idle" /\ state' = "running" /\ at' = 1 /\ results' = <<>>
      /\ call'.op = "within"
      /\ UNCHANGED <<geom, features, destroyed, released, undefs, fresh>>
  BY DEF GetFeaturesWithin, Begin, caller
<1>2. TypesKept'
  BY <1>1 DEF ShapeInvariant, TypesKept
<1>3. EachInPlace'
  <2>1. /\ destroyed \cap released = {}
        /\ ToSet(features) \cup destroyed \cup released = Features
        /\ ToSet(features) \cap (destroyed \cup released) = {}
    BY <1>1 DEF ShapeInvariant, EachInPlace, Narrowing
  <2>2. Past' = {} /\ ToSet(features)' = ToSet(features)
    BY <1>1 DEF Past, ToSet
  <2>3. ToSet(results)' = {} /\ results' \in Seq(Features) /\ IsInjective(results)'
    BY <1>1 DEF ToSet, IsInjective
  <2> QED
    BY <1>1, <2>1, <2>2, <2>3 DEF EachInPlace, Narrowing
<1> QED
  BY <1>1, <1>2, <1>3 DEF ShapeInvariant, MeasuresKept, OutlineKept, OutlineCovers,
    UndefinedOnlyByGeometry, Measuring, Outlining, Returned

LEMMA GetFeaturesWithinNullKeeps ==
  ASSUME ShapeInvariant, GetFeaturesWithinNull
  PROVE  ShapeInvariant'
<1>1. /\ state = "idle" /\ state' = "idle" /\ call'.op = "within"
      /\ UNCHANGED <<geom, features, destroyed, released, undefs, at, fresh>>
  BY DEF GetFeaturesWithinNull, caller
<1>2. EachInPlace'
  BY <1>1, PlacesKept DEF ShapeInvariant, Narrowing
<1> QED
  BY <1>1, <1>2 DEF ShapeInvariant, TypesKept, MeasuresKept, OutlineKept, OutlineCovers,
    UndefinedOnlyByGeometry, Measuring, Outlining, Returned

LEMMA GetMapOutlineKeeps ==
  ASSUME ShapeInvariant, GetMapOutline
  PROVE  ShapeInvariant'
<1>1. /\ state = "idle" /\ state' = "running" /\ at' = 1 /\ results' = <<>>
      /\ call'.op = "outline"
      /\ UNCHANGED <<geom, features, destroyed, released, undefs, fresh>>
  BY DEF GetMapOutline, Begin, caller
<1>2. TypesKept'
  BY <1>1 DEF ShapeInvariant, TypesKept
<1>3. EachInPlace'
  BY <1>1, PlacesKept DEF ShapeInvariant, Narrowing
<1>4. OutlineKept'
  <2>1. TypesTo(at - 1)' = {} /\ CoverOf(at - 1)' = {}
    BY <1>1 DEF TypesTo, CoverOf
  <2>2. results' \in Seq(SUBSET Cells) /\ ToSet(results)' = {}
    BY <1>1 DEF ToSet
  <2> QED
    BY <2>1, <2>2 DEF OutlineKept
<1> QED
  BY <1>1, <1>2, <1>3, <1>4 DEF ShapeInvariant, MeasuresKept, OutlineCovers,
    UndefinedOnlyByGeometry, Measuring, Returned

(* A feature is measured, and flagged if it has no geometry: the index is  *)
(* that of the feature in all three vectors.                               *)
LEMMA MeasureFeatureKeeps ==
  ASSUME ShapeInvariant, MeasureFeature
  PROVE  ShapeInvariant'
<1> DEFINE g == geom[Feature]
           amount == IF call.op = "lengths" THEN GetShapeLength(g) ELSE GetShapeArea(g)
<1>1. /\ state = "running" /\ call.op \in {"lengths", "areas"} /\ at <= Len(features)
      /\ TypesKept /\ MeasuresKept
  BY DEF MeasureFeature, InLoop, ShapeInvariant
<1>2. /\ at \in DOMAIN features /\ Feature \in Features /\ Feature \in ToSet(features)
      /\ g \in Geometries
  BY <1>1, FeatureFacts
<1>3. Feature \notin destroyed
  BY <1>1, <1>2 DEF ShapeInvariant, EachInPlace, Narrowing
<1>4. CASE BadCast(g)
  <2>1. GoUndefined
    BY <1>4 DEF MeasureFeature
  <2>2. UndefinedOnlyByGeometry'
    BY <1>2, <1>4, <2>1 DEF GoUndefined, caller, UndefinedOnlyByGeometry, BadCast
  <2> QED
    BY <2>1, <2>2, UndefinedKeeps
<1>5. CASE ~BadCast(g)
  <2>1. /\ results' = Append(results, Measure(IF g = NoGeometry THEN 0 ELSE amount))
        /\ undefs' = IF g = NoGeometry THEN [undefs EXCEPT ![at] = TRUE] ELSE undefs
        /\ at' = at + 1
        /\ UNCHANGED <<geom, features, destroyed, released, call, state, fresh>>
    BY <1>3, <1>5 DEF MeasureFeature, WithResult, WithFlag, caller
  <2>2. /\ undefs \in Seq(BOOLEAN) /\ Len(undefs) >= Len(features)
        /\ features \in Seq(Features) /\ at \in 1 .. Len(features)
        /\ at \in 1 .. Len(undefs)
        /\ results \in Seq(Measured) /\ Len(results) = at - 1 /\ call.d_unit \in Units
    BY <1>1, <1>2 DEF TypesKept, MeasuresKept, Measuring
  <2>3. /\ undefs' \in Seq(BOOLEAN) /\ Len(undefs') = Len(undefs)
        /\ \A i \in 1 .. Len(undefs) : i # at => undefs'[i] = undefs[i]
        /\ g = NoGeometry => undefs'[at]
        /\ g # NoGeometry => undefs'[at] = undefs[at]
    <3>1. CASE g = NoGeometry
      <4>1. undefs' = [undefs EXCEPT ![at] = TRUE]
        BY <2>1, <3>1
      <4> HIDE DEF g, amount
      <4> QED
        BY <2>2, <3>1, <4>1
    <3>2. CASE g # NoGeometry
      BY <2>1, <2>2, <3>2
    <3> QED
      BY <3>1, <3>2
  <2>4. (IF g = NoGeometry THEN 0 ELSE amount) \in {Size(h) : h \in Geometries} \cup {0}
    BY <1>2 DEF GetShapeLength, GetShapeArea
  <2>5. /\ results' \in Seq(Measured) /\ Len(results') = at
        /\ \A i \in 1 .. at - 1 : results'[i] = results[i]
        /\ results'[at].amount = IF g = NoGeometry THEN 0 ELSE amount
    <3> DEFINE m == Measure(IF g = NoGeometry THEN 0 ELSE amount)
    <3>1. m \in Measured /\ m.amount = IF g = NoGeometry THEN 0 ELSE amount
      <4> HIDE DEF amount, g
      <4> QED
        BY <2>2, <2>4 DEF Measure, Measured, Units
    <3> HIDE DEF m, amount
    <3> QED
      BY <2>1, <2>2, <3>1 DEF m
  <2>6. g.type # "MultiPolygon" => results'[at].amount = AmountDue(g)
    <3>1. g = NoGeometry \/ g.type \in GeometryTypes
      BY <1>2, GeometriesAssumption
    <3>2. CASE g = NoGeometry
      BY <2>5, <3>2 DEF AmountDue, NoGeometry, Lines
    <3>3. CASE g # NoGeometry /\ g.type \in GeometryTypes
      BY <1>1, <1>5, <2>5, <3>3 DEF AmountDue, GetShapeLength, GetShapeArea, BadCast,
        GeometryTypes, Lines, Polygons, OtherTypes
    <3> QED
      BY <3>1, <3>2, <3>3
  <2>7. MeasuredTo(at - 1)'
    <3>1. MeasuredTo(at - 1) /\ (fresh => ~undefs[at])
      BY <1>1, <1>2, <2>2 DEF MeasuresKept, Measuring
    <3> SUFFICES ASSUME NEW i \in 1 .. at
                 PROVE  LET h == geom[features[i]] IN
                        /\ h.type # "MultiPolygon" => results'[i].amount = AmountDue(h)
                        /\ h = NoGeometry => undefs'[i]
                        /\ fresh /\ undefs'[i] => h = NoGeometry
      BY <2>1, <2>2 DEF MeasuredTo, AmountDue
    <3>2. CASE i = at
      BY <2>3, <2>6, <3>1, <3>2 DEF Feature
    <3>3. CASE i \in 1 .. at - 1
      <4>1. undefs'[i] = undefs[i] /\ results'[i] = results[i]
        BY <2>2, <2>3, <2>5, <3>3
      <4> QED
        BY <3>1, <3>3, <4>1 DEF MeasuredTo
    <3> QED
      BY <2>2, <3>2, <3>3
  <2>8. fresh => \A i \in at + 1 .. Len(features) : ~undefs'[i]
    <3> SUFFICES ASSUME fresh, NEW i \in at + 1 .. Len(features) PROVE ~undefs'[i]
      OBVIOUS
    <3>1. i \in at .. Len(features) /\ i \in 1 .. Len(undefs) /\ i # at
      BY <2>2
    <3>2. ~undefs[i]
      BY <1>1, <3>1 DEF MeasuresKept, Measuring
    <3> QED
      BY <2>3, <3>1, <3>2
  <2>9. TypesKept'
    BY <1>1, <2>1, <2>2, <2>3 DEF TypesKept
  <2>10. MeasuresKept'
    BY <1>1, <2>1, <2>2, <2>3, <2>5, <2>7, <2>8 DEF MeasuresKept, Measuring, Returned,
      Measured
  <2>11. EachInPlace'
    BY <1>1, <2>1, PlacesKept DEF ShapeInvariant, Narrowing
  <2> QED
    BY <1>1, <2>1, <2>9, <2>10, <2>11 DEF ShapeInvariant, OutlineKept, Outlining,
      OutlineCovers, Returned, UndefinedOnlyByGeometry
<1> QED
  BY <1>4, <1>5

LEMMA MeasureDoneKeeps ==
  ASSUME ShapeInvariant, MeasureDone
  PROVE  ShapeInvariant'
<1>1. /\ state = "running" /\ call.op \in {"lengths", "areas"} /\ at > Len(features)
      /\ state' = "idle"
      /\ UNCHANGED <<geom, features, destroyed, released, undefs, call, at, results, fresh>>
  BY DEF MeasureDone, Finished, caller
<1>2. EachInPlace'
  BY <1>1, PlacesKept DEF ShapeInvariant, Narrowing
<1>3. MeasuredTo(Len(features))'
  <2>1. MeasuredTo(at - 1) /\ at - 1 = Len(features)
    BY <1>1 DEF ShapeInvariant, TypesKept, MeasuresKept, Measuring
  <2> QED
    BY <1>1, <2>1 DEF MeasuredTo, AmountDue
<1> QED
  BY <1>1, <1>2, <1>3 DEF ShapeInvariant, TypesKept, MeasuresKept, OutlineKept,
    OutlineCovers, UndefinedOnlyByGeometry, Measuring, Outlining, Returned

(* The outline so far has the parts of one polygon more.                   *)
LEMMA OutlineFeatureKeeps ==
  ASSUME ShapeInvariant, OutlineFeature
  PROVE  ShapeInvariant'
<1> DEFINE g == geom[Feature]
<1>1. /\ state = "running" /\ call.op = "outline" /\ at <= Len(features)
      /\ TypesKept /\ OutlineKept /\ Outlining
  BY DEF OutlineFeature, InLoop, ShapeInvariant, Outlining
<1>2. /\ at \in DOMAIN features /\ Feature \in Features /\ Feature \in ToSet(features)
      /\ g \in Geometries /\ at \in Nat
  BY <1>1, FeatureFacts DEF TypesKept
<1>3. Feature \notin destroyed
  BY <1>1, <1>2 DEF ShapeInvariant, EachInPlace, Narrowing
<1>4. CASE g = NoGeometry
  <2>1. GoUndefined
    BY <1>4 DEF OutlineFeature
  <2>2. UndefinedOnlyByGeometry'
    BY <1>1, <1>2, <1>4, <2>1 DEF GoUndefined, caller, UndefinedOnlyByGeometry
  <2> QED
    BY <2>1, <2>2, UndefinedKeeps
<1>5. CASE g # NoGeometry /\ g.type \in Polygons \cup {"CurvePolygon"}
  <2>1. /\ \/ results' = results \o g.parts
           \/ g.type = "CurvePolygon" /\ results' = results
        /\ at' = at + 1 /\ state' = state
        /\ UNCHANGED <<geom, features, destroyed, released, undefs, call, fresh>>
    BY <1>3, <1>5 DEF OutlineFeature, NextIndex, caller
  <2>2. /\ results \in Seq(SUBSET Cells) /\ g.parts \in Seq(SUBSET Cells)
    BY <1>1, <1>2, GeometriesAssumption DEF OutlineKept
  <2>3. /\ TypesTo(at) = TypesTo(at - 1) \cup {g.type}
        /\ CoverOf(at) = CoverOf(at - 1) \cup (UNION ToSet(g.parts))
    <3>1. 1 .. at = (1 .. at - 1) \cup {at}
      BY <1>1 DEF TypesKept
    <3>2. TypesTo(at) = TypesTo(at - 1) \cup {g.type}
      BY <3>1 DEF TypesTo, Feature
    <3> DEFINE parts(i) == UNION ToSet(geom[features[i]].parts)
    <3>3. parts(at) = UNION ToSet(g.parts)
      BY DEF Feature
    <3>4. {parts(i) : i \in 1 .. at} = {parts(i) : i \in 1 .. at - 1} \cup {parts(at)}
      <4> HIDE DEF parts
      <4> QED
        BY <3>1
    <3>5. UNION {parts(i) : i \in 1 .. at}
            = (UNION {parts(i) : i \in 1 .. at - 1}) \cup parts(at)
      <4> HIDE DEF parts
      <4> QED
        BY <3>4
    <3> QED
      BY <3>2, <3>3, <3>5 DEF CoverOf
  <2>4. results' \in Seq(SUBSET Cells)
    <3> DEFINE parts == g.parts
    <3> HIDE DEF parts, g
    <3>1. results \o parts \in Seq(SUBSET Cells)
      BY <2>2 DEF parts
    <3> QED
      BY <2>1, <2>2, <3>1 DEF parts
  <2>5. TypesTo(at) \subseteq Polygons => UNION ToSet(results') = CoverOf(at)
    <3> SUFFICES ASSUME TypesTo(at) \subseteq Polygons
                 PROVE  UNION ToSet(results') = CoverOf(at)
      OBVIOUS
    <3>1. g.type # "CurvePolygon"
      BY <2>3 DEF Polygons
    <3>2. ToSet(results') = ToSet(results) \cup ToSet(g.parts)
      <4>1. results' = results \o g.parts
        BY <2>1, <3>1
      <4>2. ToSet(results \o g.parts) = ToSet(results) \cup ToSet(g.parts)
        BY <2>2, ToSetOfConcat
      <4> QED
        BY <4>1, <4>2
    <3>3. UNION ToSet(results) = CoverOf(at - 1)
      BY <1>1, <2>3 DEF OutlineKept
    <3>4. UNION ToSet(results') = (UNION ToSet(results)) \cup (UNION ToSet(g.parts))
      BY <3>2
    <3> QED
      BY <2>3, <3>3, <3>4
  <2>6. OutlineKept'
    <3>1. TypesTo(at - 1)' = TypesTo(at) /\ CoverOf(at - 1)' = CoverOf(at)
      <4>1. at' - 1 = at
        BY <1>2, <2>1
      <4>2. TypesTo(at - 1)' = TypesTo(at)
        BY <2>1, <4>1 DEF TypesTo
      <4>3. CoverOf(at - 1)' = CoverOf(at)
        <5> DEFINE parts(i) == UNION ToSet(geom[features[i]].parts)
        <5>1. \A i : parts(i)' = parts(i)
          BY <2>1 DEF ToSet
        <5>2. {parts(i) : i \in 1 .. at - 1}' = {parts(i) : i \in 1 .. at}
          <6> HIDE DEF parts
          <6> QED
            BY <4>1, <5>1
        <5> QED
          BY <5>2 DEF CoverOf
      <4> QED
        BY <4>2, <4>3
    <3>2. TypesTo(at) \subseteq Polygons \cup {"CurvePolygon"}
      BY <1>1, <1>5, <2>3 DEF OutlineKept
    <3>3. ToSet(results)' = ToSet(results')
      OBVIOUS
    <3> QED
      BY <2>4, <2>5, <3>1, <3>2, <3>3 DEF OutlineKept
  <2>7. EachInPlace'
    BY <1>1, <2>1, PlacesKept DEF ShapeInvariant, Narrowing
  <2> QED
    BY <1>1, <2>1, <2>6, <2>7 DEF ShapeInvariant, TypesKept, MeasuresKept, Measuring,
      OutlineCovers, Returned, UndefinedOnlyByGeometry
<1>6. CASE g # NoGeometry /\ g.type \notin Polygons \cup {"CurvePolygon"}
  <2>1. /\ results' = <<>> /\ state' = "idle"
        /\ UNCHANGED <<geom, features, destroyed, released, undefs, call, at, fresh>>
    BY <1>3, <1>6 DEF OutlineFeature, caller
  <2>2. OutlineCovers'
    <3>1. g.type \in {geom[features[i]].type : i \in DOMAIN features}
      BY <1>2 DEF Feature
    <3> QED
      BY <1>6, <2>1, <3>1 DEF OutlineCovers
  <2>3. EachInPlace'
    BY <1>1, <2>1, PlacesKept DEF ShapeInvariant, Narrowing
  <2> QED
    BY <1>1, <2>1, <2>2, <2>3 DEF ShapeInvariant, TypesKept, MeasuresKept, Measuring,
      OutlineKept, Outlining, Returned, UndefinedOnlyByGeometry
<1> QED
  BY <1>4, <1>5, <1>6

LEMMA OutlineDoneKeeps ==
  ASSUME ShapeInvariant, OutlineDone
  PROVE  ShapeInvariant'
<1>1. /\ state = "running" /\ call.op = "outline" /\ at > Len(features)
      /\ results' = <<UNION ToSet(results)>> /\ state' = "idle"
      /\ UNCHANGED <<geom, features, destroyed, released, undefs, call, at, fresh>>
  BY DEF OutlineDone, Finished, caller
<1>2. EachInPlace'
  BY <1>1, PlacesKept DEF ShapeInvariant, Narrowing
<1>3. OutlineCovers'
  <2>1. at - 1 = Len(features) /\ DOMAIN features = 1 .. Len(features)
    BY <1>1 DEF ShapeInvariant, TypesKept
  <2>2. /\ TypesTo(at - 1) = {geom[features[i]].type : i \in DOMAIN features}
        /\ CoverOf(at - 1) = UNION {UNION ToSet(geom[features[i]].parts) : i \in DOMAIN features}
    BY <2>1 DEF TypesTo, CoverOf
  <2>3. /\ TypesTo(at - 1) \subseteq Polygons \cup {"CurvePolygon"}
        /\ TypesTo(at - 1) \subseteq Polygons => UNION ToSet(results) = CoverOf(at - 1)
    BY <1>1 DEF ShapeInvariant, OutlineKept, Outlining
  <2>4. /\ CoverOf(at - 1)
             = (UNION {UNION ToSet(geom[features[i]].parts) : i \in DOMAIN features})'
        /\ TypesTo(at - 1) = {geom[features[i]].type : i \in DOMAIN features}'
    BY <1>1, <2>2 DEF ToSet
  <2> QED
    BY <1>1, <2>3, <2>4 DEF OutlineCovers
<1> QED
  BY <1>1, <1>2, <1>3 DEF ShapeInvariant, TypesKept, MeasuresKept, Measuring, OutlineKept,
    Outlining, Returned, UndefinedOnlyByGeometry

(* A feature goes into the result, or where the caller has asked for.      *)
LEMMA NarrowFeatureKeeps ==
  ASSUME ShapeInvariant, NarrowFeature
  PROVE  ShapeInvariant'
<1> DEFINE keep == Within(geom[Feature], call.contour)
           out == IF keep THEN {} ELSE {Feature}
<1>1. /\ state = "running" /\ call.op = "within" /\ at <= Len(features)
      /\ TypesKept /\ EachInPlace /\ Narrowing
  BY DEF NarrowFeature, InLoop, ShapeInvariant, Narrowing
<1>2. /\ at \in DOMAIN features /\ Feature \in Features /\ Feature \in ToSet(features)
      /\ Feature \notin Past /\ {features[i] : i \in 1 .. at} = Past \cup {Feature}
      /\ features \in Seq(Features) /\ at \in 1 .. Len(features)
  BY <1>1, FeatureFacts DEF TypesKept
<1>3. /\ destroyed \cap released = {}
      /\ results \in Seq(Features) /\ IsInjective(results) /\ ToSet(results) \subseteq Past
      /\ ToSet(results) \cup (ToSet(features) \ Past) \cup destroyed \cup released = Features
      /\ (ToSet(results) \cup (ToSet(features) \ Past)) \cap (destroyed \cup released) = {}
  BY <1>1 DEF EachInPlace
<1>4. Feature \notin destroyed /\ Feature \notin released
  BY <1>2, <1>3
<1>5. /\ results' = IF keep THEN Append(results, Feature) ELSE results
      /\ destroyed' = IF call.delete THEN destroyed \cup out ELSE destroyed
      /\ released' = IF call.delete THEN released ELSE released \cup out
      /\ at' = at + 1
      /\ UNCHANGED <<geom, features, undefs, call, state, fresh>>
  BY <1>4 DEF NarrowFeature, Kept
<1>6. Past' = Past \cup {Feature} /\ ToSet(features)' = ToSet(features)
  <2>1. at' - 1 = at
    BY <1>2, <1>5
  <2>2. Past' = {features[i] : i \in 1 .. at}
    BY <1>5, <2>1 DEF Past
  <2> QED
    BY <1>2, <1>5, <2>2 DEF ToSet
<1>7. /\ results' \in Seq(Features) /\ IsInjective(results')
      /\ ToSet(results') = ToSet(results) \cup ({Feature} \ out)
  <2>1. CASE keep
    <3>1. results' = Append(results, Feature) /\ out = {}
      BY <1>5, <2>1
    <3>2. /\ Len(results) \in Nat /\ DOMAIN results = 1 .. Len(results)
          /\ DOMAIN Append(results, Feature) = 1 .. Len(results) + 1
          /\ \A i \in DOMAIN results : /\ Append(results, Feature)[i] = results[i]
                                       /\ results[i] # Feature
          /\ Append(results, Feature)[Len(results) + 1] = Feature
      BY <1>2, <1>3 DEF ToSet
    <3>3. IsInjective(Append(results, Feature))
      <4> DEFINE t == Append(results, Feature)
                 n == Len(results)
      <4>1. /\ n \in Nat /\ DOMAIN t = 1 .. n + 1 /\ t[n + 1] = Feature
            /\ \A i \in 1 .. n : t[i] = results[i] /\ results[i] # Feature
            /\ \A i, j \in 1 .. n : results[i] = results[j] => i = j
        BY <1>3, <3>2 DEF IsInjective
      <4> HIDE DEF t, n
      <4> SUFFICES ASSUME NEW i \in 1 .. n + 1, NEW j \in 1 .. n + 1, t[i] = t[j]
                   PROVE  i = j
        BY <4>1 DEF IsInjective, t
      <4>2. CASE i = n + 1 \/ j = n + 1
        BY <4>1, <4>2
      <4>3. CASE i \in 1 .. n /\ j \in 1 .. n
        BY <4>1, <4>3
      <4> QED
        BY <4>1, <4>2, <4>3
    <3>4. ToSet(results') = ToSet(results) \cup {Feature}
      BY <1>2, <1>3, <3>1, ToSetOfAppend
    <3> QED
      BY <1>2, <1>3, <3>1, <3>3, <3>4
  <2>2. CASE ~keep
    BY <1>3, <1>5, <2>2
  <2> QED
    BY <2>1, <2>2
<1>8. destroyed' \cup released' = destroyed \cup released \cup out
      /\ destroyed' \cap released' = {}
  BY <1>3, <1>4, <1>5
<1>9. EachInPlace'
  <2>1. ToSet(results)' = ToSet(results) \cup ({Feature} \ out)
    BY <1>7
  <2>2. out \subseteq {Feature}
    OBVIOUS
  <2> HIDE DEF out, keep
  <2>3. Narrowing' /\ state' = "running"
    BY <1>1, <1>5 DEF Narrowing
  <2>4. /\ ToSet(results)' \subseteq Past'
        /\ ToSet(results)' \cup (ToSet(features)' \ Past') \cup destroyed' \cup released'
             = Features
    BY <1>2, <1>3, <1>6, <1>8, <2>1, <2>2
  <2>5. (ToSet(results)' \cup (ToSet(features)' \ Past')) \cap (destroyed' \cup released')
          = {}
    BY <1>2, <1>3, <1>4, <1>6, <1>8, <2>1, <2>2
  <2> QED
    BY <1>7, <1>8, <2>3, <2>4, <2>5 DEF EachInPlace
<1>10. TypesKept'
  BY <1>1, <1>2, <1>5 DEF TypesKept
<1> QED
  BY <1>1, <1>5, <1>9, <1>10 DEF ShapeInvariant, MeasuresKept, OutlineKept, OutlineCovers,
    UndefinedOnlyByGeometry, Measuring, Outlining, Returned

(* The caller goes on with what the loop has kept.                         *)
LEMMA NarrowDoneKeeps ==
  ASSUME ShapeInvariant, NarrowDone
  PROVE  ShapeInvariant'
<1>1. /\ state = "running" /\ call.op = "within" /\ at > Len(features) /\ Narrowing
      /\ features' = results /\ state' = "idle"
      /\ UNCHANGED <<geom, destroyed, released, undefs, call, at, results, fresh>>
  BY DEF NarrowDone, Finished, Narrowing
<1>2. /\ destroyed \cap released = {}
      /\ results \in Seq(Features) /\ IsInjective(results)
      /\ ToSet(results) \cup (ToSet(features) \ Past) \cup destroyed \cup released = Features
      /\ (ToSet(results) \cup (ToSet(features) \ Past)) \cap (destroyed \cup released) = {}
  BY <1>1 DEF ShapeInvariant, EachInPlace
<1>3. ToSet(features) \ Past = {}
  BY <1>1, PastFacts DEF ShapeInvariant
<1>4. ToSet(features)' = ToSet(results)
  BY <1>1 DEF ToSet
<1>5. EachInPlace'
  BY <1>1, <1>2, <1>3, <1>4 DEF EachInPlace, Narrowing
<1>6. TypesKept'
  BY <1>1, <1>2 DEF ShapeInvariant, TypesKept, IsInjective
<1> QED
  BY <1>1, <1>5, <1>6 DEF ShapeInvariant, MeasuresKept, OutlineKept, OutlineCovers,
    UndefinedOnlyByGeometry, Measuring, Outlining, Returned

LEMMA NextKeeps ==
  ASSUME ShapeInvariant, [Next]_vars
  PROVE  ShapeInvariant'
<1>1. CASE UNCHANGED vars
  <2>1. /\ UNCHANGED <<geom, features, destroyed, undefs, call, at>>
        /\ UNCHANGED <<results, state, released, fresh>>
    BY <1>1 DEF vars
  <2>2. TypesKept'
    BY <2>1 DEF ShapeInvariant, TypesKept
  <2>3. EachInPlace'
    BY <2>1 DEF ShapeInvariant, EachInPlace, Narrowing, Past, ToSet
  <2>4. MeasuresKept'
    <3>1. MeasuredTo(at - 1) => MeasuredTo(at - 1)'
      BY <2>1 DEF MeasuredTo, AmountDue
    <3>2. MeasuredTo(Len(features)) => MeasuredTo(Len(features))'
      BY <2>1 DEF MeasuredTo, AmountDue
    <3> QED
      BY <2>1, <3>1, <3>2 DEF ShapeInvariant, MeasuresKept, Measuring, Returned, Measured
  <2>5. OutlineKept'
    <3>1. TypesTo(at - 1)' = TypesTo(at - 1) /\ CoverOf(at - 1)' = CoverOf(at - 1)
      BY <2>1 DEF TypesTo, CoverOf, ToSet
    <3>2. ToSet(results)' = ToSet(results)
      BY <2>1 DEF ToSet
    <3> QED
      BY <2>1, <3>1, <3>2 DEF ShapeInvariant, OutlineKept, Outlining
  <2>6. OutlineCovers' /\ UndefinedOnlyByGeometry'
    BY <2>1 DEF ShapeInvariant, OutlineCovers, UndefinedOnlyByGeometry, Returned, ToSet
  <2> QED
    BY <2>2, <2>3, <2>4, <2>5, <2>6 DEF ShapeInvariant
<1>2. CASE \E op \in {"lengths", "areas"}, is_arc, geographic \in BOOLEAN, d_unit \in Units :
             GetMeasures(op, is_arc, geographic, d_unit)
  BY <1>2, GetMeasuresKeeps
<1>3. CASE \E contour \in Contours, d \in BOOLEAN : GetFeaturesWithin(contour, d)
  BY <1>3, GetFeaturesWithinKeeps
<1>4. CASE Undefined
  BY <1>1, <1>4 DEF Undefined
<1> QED
  BY <1>1, <1>2, <1>3, <1>4, GetFeaturesWithinNullKeeps, GetMapOutlineKeeps,
    MeasureFeatureKeeps, MeasureDoneKeeps, OutlineFeatureKeeps, OutlineDoneKeeps,
    NarrowFeatureKeeps, NarrowDoneKeeps DEF Next

(* What every call on the vectors keeps.                                   *)
THEOREM ShapesAreInvariant == Spec => []ShapeInvariant
BY InitShapes, NextKeeps, PTL DEF Spec
-----------------------------------------------------------------------------
(* However often the vector is narrowed down, each feature is in one place.*)
THEOREM FeaturesStayInOnePlace == Spec => []EachFeatureInOnePlace
<1>1. ShapeInvariant => EachFeatureInOnePlace
  BY DEF ShapeInvariant, TypesKept, EachInPlace, Narrowing, EachFeatureInOnePlace
<1> QED
  BY <1>1, ShapesAreInvariant, PTL

(* Only a geometry that a call cannot take makes it undefined, never the   *)
(* memory of a feature that is gone.                                       *)
THEOREM OnlyGeometryIsUndefined == Spec => []UndefinedOnlyByGeometry
<1>1. ShapeInvariant => UndefinedOnlyByGeometry
  BY DEF ShapeInvariant
<1> QED
  BY <1>1, ShapesAreInvariant, PTL

(* Every length and area is that of the feature at its index.              *)
THEOREM MeasuresStayInPlace == Spec => []MeasuresInPlace
<1>1. ShapeInvariant => MeasuresInPlace
  BY DEF ShapeInvariant, TypesKept, MeasuresKept, MeasuresInPlace, MeasuredTo, AmountDue,
    Returned
<1> QED
  BY <1>1, ShapesAreInvariant, PTL

(* A value that is not there is flagged, and with new flags nothing else.  *)
THEOREM FlagsAlwaysMeanMissing == Spec => []FlagsMeanMissing
<1>1. ShapeInvariant => FlagsMeanMissing
  BY DEF ShapeInvariant, TypesKept, MeasuresKept, FlagsMeanMissing, MeasuredTo, Returned
<1> QED
  BY <1>1, ShapesAreInvariant, PTL

(* The outline has every part of every polygon.                            *)
THEOREM OutlineAlwaysCovers == Spec => []OutlineCovers
<1>1. ShapeInvariant => OutlineCovers
  BY DEF ShapeInvariant
<1> QED
  BY <1>1, ShapesAreInvariant, PTL
=============================================================================
