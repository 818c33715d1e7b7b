----------------------------- MODULE SkaterProofs -----------------------------
(***************************************************************************)
(* GeoDa::SKATER over vectors gives the clustering the caller's data, its  *)
(* labels tell the regions apart, and what it leaves allocated is known:   *)
(* for every number of observations, of columns and of calls, and every    *)
(* set of disjoint regions.                                                *)
(***************************************************************************)
EXTENDS Skater, TLAPS

(* What is assumed of the regions, for the ones at hand.                   *)
LEMMA RegionFacts ==
  ASSUME LabelInvariant
  PROVE  /\ Len(cluster_ids) \in Nat
         /\ DOMAIN cluster_ids = 1 .. Len(cluster_ids)
         /\ \A c \in DOMAIN cluster_ids : cluster_ids[c] \subseteq Obs
         /\ \A c, d \in DOMAIN cluster_ids :
              c # d => cluster_ids[c] \cap cluster_ids[d] = {}
<1>1. cluster_ids \in Seq(SUBSET Obs)
  BY RegioningsAssumption DEF LabelInvariant
<1>2. \A c, d \in DOMAIN cluster_ids : c # d => cluster_ids[c] \cap cluster_ids[d] = {}
  BY RegioningsAssumption DEF LabelInvariant
<1> QED
  BY <1>1, <1>2

(* At the call nothing is labelled.                                        *)
LEMMA InitLabels == Init => LabelInvariant
<1> SUFFICES ASSUME Init PROVE LabelInvariant
  OBVIOUS
<1>1. Len(cluster_ids) \in Nat
  <2>1. cluster_ids \in Seq(SUBSET Obs)
    BY RegioningsAssumption DEF Init
  <2> QED
    BY <2>1
<1> QED
  BY <1>1 DEF Init, LabelInvariant

(* Labelling a region touches its own observations, which have no label    *)
(* yet, and no others.                                                     *)
LEMMA NextLabels == LabelInvariant /\ [Next]_vars => LabelInvariant'
<1> SUFFICES ASSUME LabelInvariant, [Next]_vars PROVE LabelInvariant'
  OBVIOUS
<1> DEFINE n == Len(cluster_ids)
<1>f. /\ n \in Nat
      /\ DOMAIN cluster_ids = 1 .. n
      /\ \A c \in 1 .. n : cluster_ids[c] \subseteq Obs
      /\ \A c, d \in 1 .. n : c # d => cluster_ids[c] \cap cluster_ids[d] = {}
  BY RegionFacts
<1>1. CASE RefuseWeights
  BY <1>1 DEF RefuseWeights, LabelInvariant
<1>2. CASE Partition
  BY <1>2, <1>f DEF Partition, LabelInvariant
<1>3. CASE LabelRegion
  <2> DEFINE c == labelled + 1
  <2>1. /\ phase = "labelling" /\ labelled < n /\ labelled \in 0 .. n
        /\ rst \in [Obs -> 0 .. labelled]
        /\ \A o \in Obs, d \in 1 .. labelled : rst[o] = d <=> o \in cluster_ids[d]
    BY <1>3 DEF LabelRegion, LabelInvariant
  <2>2. /\ rst' = [o \in Obs |-> IF o \in cluster_ids[c] THEN c ELSE rst[o]]
        /\ labelled' = c
        /\ UNCHANGED <<phase, weight_type, cluster_ids>>
    BY <1>3, <2>1 DEF LabelRegion, LabelOf
  <2>3. rst' \in [Obs -> 0 .. labelled']
    BY <1>f, <2>1, <2>2
  <2>4. ASSUME NEW o \in Obs, NEW d \in 1 .. labelled'
        PROVE  rst'[o] = d <=> o \in cluster_ids[d]
    <3>1. CASE o \in cluster_ids[c]
      <4>1. rst'[o] = c
        BY <2>2, <3>1
      <4>2. d # c => o \notin cluster_ids[d]
        BY <1>f, <2>1, <2>2, <2>4, <3>1
      <4> QED
        BY <3>1, <4>1, <4>2
    <3>2. CASE o \notin cluster_ids[c]
      <4>1. rst'[o] = rst[o] /\ rst[o] \in 0 .. labelled
        BY <2>1, <2>2, <3>2
      <4>2. CASE d = c
        BY <1>f, <2>1, <3>2, <4>1, <4>2
      <4>3. CASE d # c
        <5>1. d \in 1 .. labelled
          BY <1>f, <2>1, <2>2, <2>4, <4>3
        <5> QED
          BY <2>1, <4>1, <5>1
      <4> QED
        BY <4>2, <4>3
    <3> QED
      BY <3>1, <3>2
  <2> QED
    BY <1>f, <2>1, <2>2, <2>3, <2>4 DEF LabelInvariant
<1>4. CASE LabelRest
  <2>1. /\ phase = "labelling" /\ labelled = n
        /\ rst \in [Obs -> 0 .. n]
        /\ \A o \in Obs, d \in 1 .. n : rst[o] = d <=> o \in cluster_ids[d]
    BY <1>4 DEF LabelRest, LabelInvariant
  <2>2. /\ rst' = [o \in Obs |-> IF rst[o] = 0 THEN n + 1 ELSE rst[o]]
        /\ phase' = "returned"
        /\ UNCHANGED <<weight_type, cluster_ids, labelled>>
    BY <1>4 DEF LabelRest, RestLabel
  <2>3. rst' \in [Obs -> 1 .. n + 1]
    BY <1>f, <2>1, <2>2
  <2>4. ASSUME NEW o \in Obs, NEW d \in 1 .. n
        PROVE  rst'[o] = d <=> o \in cluster_ids[d]
    BY <1>f, <2>1, <2>2, <2>4
  <2> QED
    BY <1>f, <2>1, <2>2, <2>3, <2>4 DEF LabelInvariant
<1>5. CASE UNCHANGED vars
  BY <1>5 DEF vars, LabelInvariant
<1> QED
  BY <1>1, <1>2, <1>3, <1>4, <1>5 DEF Next, Returned

(* The inductive invariant of the labelling in GeoDa::SKATER.              *)
THEOREM LabelsInvariant == Spec => []LabelInvariant
<1> QED
  BY InitLabels, NextLabels, PTL DEF Spec

(* Equal labels are equal regions; the rest is a region of its own.        *)
LEMMA LabelsFollow == LabelInvariant => LabelsTellRegions
<1> SUFFICES ASSUME LabelInvariant, phase = "returned", weight_type = "gal_type",
                    NEW o \in Obs, NEW p \in Obs
             PROVE  rst[o] = rst[p] <=> Together(o, p)
  BY DEF LabelsTellRegions
<1> DEFINE n == Len(cluster_ids)
<1>1. /\ n \in Nat
      /\ DOMAIN cluster_ids = 1 .. n
      /\ \A c, d \in 1 .. n : c # d => cluster_ids[c] \cap cluster_ids[d] = {}
  BY RegionFacts
<1>2. /\ rst[o] \in 1 .. n + 1 /\ rst[p] \in 1 .. n + 1
      /\ \A c \in 1 .. n : rst[o] = c <=> o \in cluster_ids[c]
      /\ \A c \in 1 .. n : rst[p] = c <=> p \in cluster_ids[c]
  BY <1>1 DEF LabelInvariant
<1>3. ASSUME rst[o] = rst[p] PROVE Together(o, p)
  <2>1. CASE rst[o] \in 1 .. n
    BY <1>1, <1>2, <1>3, <2>1 DEF Together
  <2>2. CASE rst[o] = n + 1
    <3>1. \A c \in 1 .. n : o \notin cluster_ids[c] /\ p \notin cluster_ids[c]
      BY <1>1, <1>2, <1>3, <2>2
    <3> QED
      BY <1>1, <3>1 DEF Together
  <2> QED
    BY <1>1, <1>2, <2>1, <2>2
<1>4. ASSUME Together(o, p) PROVE rst[o] = rst[p]
  <2>1. CASE \E c \in 1 .. n : {o, p} \subseteq cluster_ids[c]
    BY <1>2, <2>1
  <2>2. CASE \A c \in 1 .. n : {o, p} \cap cluster_ids[c] = {}
    <3>1. rst[o] \notin 1 .. n /\ rst[p] \notin 1 .. n
      BY <1>2, <2>2
    <3> QED
      BY <1>1, <1>2, <3>1
  <2> QED
    BY <1>1, <1>4, <2>1, <2>2 DEF Together
<1> QED
  BY <1>3, <1>4

(* The labels that GeoDa::SKATER returns tell the regions apart.           *)
THEOREM RegionsTold == Spec => []LabelsTellRegions
<1> QED
  BY LabelsInvariant, LabelsFollow, PTL

-----------------------------------------------------------------------------

\* The first k columns, filled in.
Filled(k) == [c \in 1 .. k |-> [r \in Obs |-> <<c, r>>]]

\* fullRaggedMatrix has copied the distance of a and b.
Copied(a, b) ==
  \/ a < i /\ b < i
  \/ a = i /\ b < j
  \/ b = i /\ a < j

(* What is known of fullRaggedMatrix' loops.                               *)
Mirroring ==
  /\ i \in Nat /\ j \in Nat /\ j < i
  /\ distances \in [Obs \X Obs -> SUBSET Int]
  /\ \A a, b \in Obs :
       distances[<<a, b>>] = IF a # b /\ Copied(a, b) THEN {a, b} ELSE {}

(* A distance for every two observations.                                  *)
Complete == \A a, b \in Obs : distances[<<a, b>>] = IF a = b THEN {} ELSE {a, b}

(* What k calls have left behind.                                          *)
Left(k) ==
  {b \in (1 .. k) \X {"mask", "distances"} \X All : b[2] = "mask" \/ b[3] = 0}

(* The blocks of the call at hand, from one stage to the next.             *)
OfFilling == Block("matrix", All) \cup Block("mask", All)
OfClustering == OfFilling \cup Block("weight", {-1}) \cup Block("distances", All)
OfMirroring == OfClustering \cup Block("ragged", All \ {0})

AtIdle == stage = "idle" => heap = Left(call)

AtFilling ==
  stage = "filling" =>
    /\ call # 0
    /\ heap = Left(call - 1) \cup OfFilling
    /\ \E k \in 0 .. Len(data) : matrix = Filled(k)

AtMirroring ==
  stage = "mirroring" =>
    /\ call # 0
    /\ heap = Left(call - 1) \cup OfMirroring
    /\ matrix = Filled(Len(data))
    /\ Mirroring

AtClustering ==
  stage \in {"clustering", "freeing"} =>
    /\ call # 0
    /\ heap = Left(call - 1) \cup OfClustering
    /\ matrix = Filled(Len(data))
    /\ Complete

SkaterInvariant ==
  /\ stage \in {"idle", "filling", "mirroring", "clustering", "freeing", "undefined"}
  /\ call \in Nat
  /\ data \in Seq(Nat)
  /\ AtIdle /\ AtFilling /\ AtMirroring /\ AtClustering
  /\ LabelInvariant
-----------------------------------------------------------------------------
(* What a call adds to what the calls before it have left.                 *)
LEMMA LeftGrows ==
  ASSUME NEW k \in Nat, k # 0
  PROVE  \A x : x \in Left(k) <=>
           \/ x \in Left(k - 1)
           \/ \E r \in All : x = <<k, "mask", r>>
           \/ 0 \in All /\ x = <<k, "distances", 0>>
<1> SUFFICES ASSUME NEW x
             PROVE  x \in Left(k) <=>
                      \/ x \in Left(k - 1)
                      \/ \E r \in All : x = <<k, "mask", r>>
                      \/ 0 \in All /\ x = <<k, "distances", 0>>
  OBVIOUS
<1>1. 1 .. k = 1 .. (k - 1) \cup {k}
  OBVIOUS
<1>2. ASSUME NEW n \in Nat
      PROVE  x \in Left(n) <=>
               \E c \in 1 .. n, m \in {"mask", "distances"}, r \in All :
                 x = <<c, m, r>> /\ (m = "mask" \/ r = 0)
  BY DEF Left
<1>3. k - 1 \in Nat
  OBVIOUS
<1> QED
  BY <1>1, <1>2, <1>3

(* Before the first call nothing is allocated.                             *)
LEMMA InitSkater == SkaterInit => SkaterInvariant
<1> SUFFICES ASSUME SkaterInit PROVE SkaterInvariant
  OBVIOUS
<1>1. stage = "idle" /\ call = 0 /\ data = <<>> /\ heap = {}
  BY DEF SkaterInit
<1>2. Left(0) = {}
  BY DEF Left
<1>3. LabelInvariant
  BY InitLabels DEF SkaterInit
<1> QED
  BY <1>1, <1>2, <1>3 DEF SkaterInvariant, AtIdle, AtFilling, AtMirroring, AtClustering

(* What stays the same while the tables, the call and the heap do.         *)
LEMMA TablesKept ==
  ASSUME UNCHANGED <<call, tables, heap>>
  PROVE  /\ call' = call /\ data' = data /\ heap' = heap /\ matrix' = matrix
         /\ Filled(Len(data))' = Filled(Len(data))
         /\ Complete' = Complete /\ Mirroring' = Mirroring
         /\ Left(call - 1)' = Left(call - 1) /\ Left(call)' = Left(call)
         /\ OfFilling' = OfFilling /\ OfClustering' = OfClustering
         /\ OfMirroring' = OfMirroring
<1>1. /\ call' = call /\ data' = data /\ heap' = heap /\ matrix' = matrix
      /\ i' = i /\ j' = j /\ distances' = distances
  BY DEF tables
<1>2. Complete' = Complete
  BY <1>1 DEF Complete
<1>3. Mirroring' = Mirroring
  BY <1>1 DEF Mirroring, Copied
<1>5. /\ OfFilling' = OfFilling /\ OfClustering' = OfClustering
      /\ OfMirroring' = OfMirroring
  BY <1>1 DEF OfFilling, OfClustering, OfMirroring, Block
<1>6. /\ Filled(Len(data))' = Filled(Len(data))
      /\ Left(call - 1)' = Left(call - 1) /\ Left(call)' = Left(call)
  BY <1>1 DEF Filled, Left
<1> QED
  BY <1>1, <1>2, <1>3, <1>5, <1>6

(* Nothing but the clustering touches the labels.                          *)
LEMMA LabelsKept ==
  ASSUME LabelInvariant, UNCHANGED labels PROVE LabelInvariant'
BY NextLabels DEF labels, vars

LEMMA CallSkater ==
  ASSUME SkaterInvariant, NEW d \in Datas, Call(d) PROVE SkaterInvariant'
<1>1. /\ stage = "idle" /\ call \in Nat /\ heap = Left(call) /\ LabelInvariant
      /\ stage' = "filling" /\ call' = call + 1 /\ data' = d /\ matrix' = <<>>
      /\ heap' = heap \cup Block("matrix", All)' \cup Block("mask", All)'
      /\ UNCHANGED labels
  BY DEF Call, SkaterInvariant, AtIdle
<1>2. data' \in Seq(Nat) /\ Len(data') \in Nat
  BY <1>1, SkaterAssumption
<1>3. matrix' = Filled(0)
  BY <1>1 DEF Filled
<1>4. heap' = Left(call' - 1) \cup OfFilling'
  BY <1>1 DEF OfFilling
<1>5. AtFilling'
  BY <1>1, <1>2, <1>3, <1>4 DEF AtFilling
<1>6. LabelInvariant'
  BY <1>1, LabelsKept
<1> QED
  BY <1>1, <1>2, <1>5, <1>6 DEF SkaterInvariant, AtIdle, AtMirroring, AtClustering

LEMMA FillSkater ==
  ASSUME SkaterInvariant, FillColumn PROVE SkaterInvariant'
<1>1. /\ stage = "filling" /\ call \in Nat /\ call # 0 /\ data \in Seq(Nat)
      /\ heap = Left(call - 1) \cup OfFilling
      /\ \E k \in 0 .. Len(data) : matrix = Filled(k)
      /\ LabelInvariant
      /\ Len(matrix) + 1 <= Len(data)
  BY DEF FillColumn, SkaterInvariant, AtFilling
<1>2. CASE GoUndefined
  <2>1. LabelInvariant'
    BY <1>1, <1>2, LabelsKept DEF GoUndefined
  <2> QED
    BY <1>1, <1>2, <2>1 DEF GoUndefined, tables, SkaterInvariant, AtIdle, AtFilling,
      AtMirroring, AtClustering
<1>3. CASE /\ matrix' = Append(matrix, [r \in Obs |-> <<Len(matrix) + 1, r>>])
           /\ UNCHANGED <<stage, call, data, i, j, distances, heap, labels>>
  <2>1. PICK k \in 0 .. Len(data) : matrix = Filled(k)
    BY <1>1
  <2>2. Len(matrix) = k /\ DOMAIN matrix = 1 .. k /\ k \in Nat
    BY <1>1, <2>1 DEF Filled
  <2>3. matrix' = Filled(k + 1)
    BY <1>3, <2>1, <2>2 DEF Filled
  <2>4. k + 1 \in 0 .. Len(data)
    BY <1>1, <2>2
  <2>5. AtFilling'
    BY <1>1, <1>3, <2>3, <2>4 DEF AtFilling, OfFilling, Block
  <2>6. LabelInvariant'
    BY <1>1, <1>3, LabelsKept
  <2> QED
    BY <1>1, <1>3, <2>5, <2>6 DEF SkaterInvariant, AtIdle, AtMirroring, AtClustering
<1> QED
  BY <1>2, <1>3 DEF FillColumn

(* fullRaggedMatrix begins with zeros.                                     *)
LEMMA DistanceSkater ==
  ASSUME SkaterInvariant, DistanceMatrix PROVE SkaterInvariant'
<1>1. /\ stage = "filling" /\ call \in Nat /\ call # 0 /\ data \in Seq(Nat)
      /\ heap = Left(call - 1) \cup OfFilling
      /\ \E k \in 0 .. Len(data) : matrix = Filled(k)
      /\ LabelInvariant
      /\ Len(matrix) = Len(data)
  BY DEF DistanceMatrix, SkaterInvariant, AtFilling
<1>2. /\ stage' = "mirroring" /\ i' = 1 /\ j' = 0 /\ distances' = NoDistances
      /\ heap' = heap \cup Block("weight", {-1}) \cup Block("ragged", All \ {0})
                   \cup Block("distances", All)
      /\ UNCHANGED <<call, data, matrix, labels>>
  BY DEF DistanceMatrix
<1>3. matrix = Filled(Len(data))
  <2>1. PICK k \in 0 .. Len(data) : matrix = Filled(k)
    BY <1>1
  <2>2. Len(matrix) = k
    BY <1>1, <2>1 DEF Filled
  <2> QED
    BY <1>1, <2>1, <2>2
<1>4. \A a, b \in Obs : a # b => ~Copied(a, b)'
  BY <1>2, NumObsAssumption DEF Copied, Obs
<1>5. Mirroring'
  BY <1>2, <1>4 DEF Mirroring, NoDistances
<1>6. heap' = Left(call' - 1) \cup OfMirroring'
  BY <1>1, <1>2 DEF OfMirroring, OfClustering, OfFilling, Block
<1>7. LabelInvariant'
  BY <1>1, <1>2, LabelsKept
<1>8. AtMirroring'
  BY <1>1, <1>2, <1>3, <1>5, <1>6 DEF AtMirroring, Filled
<1> QED
  BY <1>1, <1>2, <1>7, <1>8 DEF SkaterInvariant, AtIdle, AtFilling, AtClustering

(* One distance is copied both ways, and the others stay.                  *)
LEMMA CopySkater ==
  ASSUME SkaterInvariant, CopyDistance PROVE SkaterInvariant'
<1>1. /\ stage = "mirroring" /\ call \in Nat /\ call # 0 /\ data \in Seq(Nat)
      /\ heap = Left(call - 1) \cup OfMirroring
      /\ matrix = Filled(Len(data)) /\ Mirroring /\ LabelInvariant
  BY DEF CopyDistance, SkaterInvariant, AtMirroring
<1>2. /\ i < NumObs
      /\ distances' = [distances EXCEPT ![<<i, j>>] = {i, j}, ![<<j, i>>] = {i, j}]
      /\ IF j + 1 < i THEN j' = j + 1 /\ i' = i ELSE j' = 0 /\ i' = i + 1
      /\ UNCHANGED <<stage, call, data, matrix, heap, labels>>
  BY DEF CopyDistance, Mirrored
<1>3. i \in Nat /\ j \in Nat /\ j < i /\ i \in Obs /\ j \in Obs /\ Obs \subseteq Nat
  BY <1>1, <1>2, NumObsAssumption DEF Mirroring, Obs
<1>4. \A a, b \in Obs :
        a # b => (Copied(a, b)' <=> Copied(a, b) \/ (a = i /\ b = j) \/ (a = j /\ b = i))
  BY <1>2, <1>3 DEF Copied
<1>5. distances \in [Obs \X Obs -> SUBSET Int]
  BY <1>1 DEF Mirroring
<1>6. \A a, b \in Obs :
        distances'[<<a, b>>] = IF (a = i /\ b = j) \/ (a = j /\ b = i) THEN {i, j}
                               ELSE distances[<<a, b>>]
  <2> SUFFICES ASSUME NEW a \in Obs, NEW b \in Obs
               PROVE  distances'[<<a, b>>] =
                        IF (a = i /\ b = j) \/ (a = j /\ b = i) THEN {i, j}
                        ELSE distances[<<a, b>>]
    OBVIOUS
  <2>1. /\ <<a, b>> \in Obs \X Obs
        /\ (<<a, b>> = <<i, j>> <=> a = i /\ b = j)
        /\ (<<a, b>> = <<j, i>> <=> a = j /\ b = i)
    OBVIOUS
  <2> QED
    BY <1>2, <1>5, <2>1
<1>7. distances' \in [Obs \X Obs -> SUBSET Int]
  <2>1. {i, j} \in SUBSET Int
    BY <1>3
  <2> QED
    BY <1>2, <1>5, <2>1
<1>8. Mirroring'
  <2>1. i' \in Nat /\ j' \in Nat /\ j' < i'
    BY <1>2, <1>3
  <2>2. ASSUME NEW a \in Obs, NEW b \in Obs
        PROVE  distances'[<<a, b>>] = IF a # b /\ Copied(a, b)' THEN {a, b} ELSE {}
    <3>1. distances[<<a, b>>] = IF a # b /\ Copied(a, b) THEN {a, b} ELSE {}
      BY <1>1 DEF Mirroring
    <3>2. CASE (a = i /\ b = j) \/ (a = j /\ b = i)
      <4>1. {i, j} = {a, b} /\ a # b
        BY <1>3, <3>2
      <4> QED
        BY <1>4, <1>6, <3>2, <4>1
    <3>3. CASE ~((a = i /\ b = j) \/ (a = j /\ b = i))
      BY <1>4, <1>6, <3>1, <3>3
    <3> QED
      BY <3>2, <3>3
  <2> QED
    BY <1>7, <2>1, <2>2 DEF Mirroring
<1>9. LabelInvariant'
  BY <1>1, <1>2, LabelsKept
<1>10. AtMirroring'
  BY <1>1, <1>2, <1>8 DEF AtMirroring, OfMirroring, OfClustering, OfFilling, Block,
    Filled
<1> QED
  BY <1>1, <1>2, <1>9, <1>10 DEF SkaterInvariant, AtIdle, AtFilling, AtClustering

(* All is copied; the triangle is there to be freed.                       *)
LEMMA RaggedSkater ==
  ASSUME SkaterInvariant, RaggedFreed PROVE SkaterInvariant'
<1>1. /\ stage = "mirroring" /\ call \in Nat /\ call # 0 /\ data \in Seq(Nat)
      /\ heap = Left(call - 1) \cup OfMirroring
      /\ matrix = Filled(Len(data)) /\ Mirroring /\ LabelInvariant
      /\ UNCHANGED <<call, tables>> /\ i >= NumObs
  BY DEF RaggedFreed, SkaterInvariant, AtMirroring
<1>2. Block("ragged", All \ {0}) \subseteq heap
  BY <1>1 DEF OfMirroring
<1>3. stage' = "clustering" /\ heap' = heap \ Block("ragged", All \ {0})
  BY <1>2 DEF RaggedFreed, Free
<1>4. heap' = Left(call - 1) \cup OfClustering
  <2>1. \A x \in Left(call - 1) \cup OfClustering : x \notin Block("ragged", All \ {0})
    BY DEF Left, OfClustering, OfFilling, Block
  <2> QED
    BY <1>1, <1>3, <2>1 DEF OfMirroring
<1>5. Complete
  <2>1. \A a, b \in Obs : Copied(a, b)
    BY <1>1, NumObsAssumption DEF Copied, Obs, Mirroring
  <2> QED
    BY <1>1, <2>1 DEF Complete, Mirroring
<1>6. AtClustering'
  <2>1. /\ call' = call /\ data' = data /\ matrix' = matrix /\ distances' = distances
    BY <1>1 DEF tables
  <2>2. Complete'
    BY <1>5, <2>1 DEF Complete
  <2>3. matrix' = Filled(Len(data))'
    BY <1>1, <2>1 DEF Filled
  <2>4. heap' = (Left(call - 1) \cup OfClustering)'
    BY <1>4, <2>1 DEF Left, OfClustering, OfFilling, Block
  <2> QED
    BY <1>1, <2>1, <2>2, <2>3, <2>4 DEF AtClustering
<1>7. LabelInvariant'
  <2>1. /\ phase' = "called" /\ cluster_ids' \in Regionings
        /\ labelled' = 0 /\ rst' = <<>>
    BY DEF RaggedFreed
  <2>2. Len(cluster_ids') \in Nat
    BY <2>1, RegioningsAssumption
  <2> QED
    BY <2>1, <2>2 DEF LabelInvariant
<1> QED
  BY <1>1, <1>3, <1>6, <1>7 DEF SkaterInvariant, AtIdle, AtFilling, AtMirroring, tables

LEMMA ClusterSkater ==
  ASSUME SkaterInvariant, Cluster \/ ClusteringReturns PROVE SkaterInvariant'
<1>1. /\ stage = "clustering" /\ UNCHANGED <<call, tables, heap>>
      /\ stage' \in {"clustering", "freeing"} /\ LabelInvariant
      /\ call \in Nat /\ data \in Seq(Nat) /\ AtClustering
  BY DEF Cluster, ClusteringReturns, SkaterInvariant
<1>2. LabelInvariant'
  <2>1. CASE Cluster
    BY <1>1, <2>1, NextLabels DEF Cluster
  <2>2. CASE ClusteringReturns
    BY <1>1, <2>2, LabelsKept DEF ClusteringReturns
  <2> QED
    BY <2>1, <2>2
<1>3. AtClustering'
  BY <1>1, TablesKept DEF AtClustering
<1> QED
  BY <1>1, <1>2, <1>3 DEF SkaterInvariant, AtIdle, AtFilling, AtMirroring, tables

(* What is freed was allocated; the mask and one row stay.                 *)
LEMMA FreeSkater ==
  ASSUME SkaterInvariant, FreeMemory PROVE SkaterInvariant'
<1> DEFINE blocks == FreedDistances \cup Block("weight", {-1}) \cup Block("matrix", All)
<1>1. /\ stage = "freeing" /\ call \in Nat /\ call # 0 /\ data \in Seq(Nat)
      /\ heap = Left(call - 1) \cup OfClustering /\ LabelInvariant
      /\ UNCHANGED <<call, tables, labels>>
  BY DEF FreeMemory, SkaterInvariant, AtClustering
<1>2. FreedDistances \subseteq Block("distances", All)
  BY DEF FreedDistances, Block
<1>3. blocks \subseteq heap
  BY <1>1, <1>2 DEF OfClustering, OfFilling
<1>4. stage' = "idle" /\ heap' = heap \ blocks
  BY <1>3 DEF FreeMemory, Free
<1>5. heap' = Left(call)
  <2>1. \A x \in Left(call - 1) \cup Block("mask", All) : x \notin blocks
    BY <1>1 DEF Left, FreedDistances, Block
  <2>2. \A x \in Block("distances", All) :
          x \notin blocks <=> 0 \in All /\ x = <<call, "distances", 0>>
    BY DEF FreedDistances, Block
  <2>3. \A x : x \in heap' <=>
          \/ x \in Left(call - 1)
          \/ x \in Block("mask", All)
          \/ 0 \in All /\ x = <<call, "distances", 0>>
    <3>1. 0 \in All => <<call, "distances", 0>> \in Block("distances", All)
      BY DEF Block
    <3>2. heap' = (Left(call - 1) \cup OfClustering) \ blocks
      BY <1>1, <1>4
    <3> QED
      BY <2>1, <2>2, <3>1, <3>2 DEF OfClustering, OfFilling
  <2>4. \A x : x \in Block("mask", All) <=> \E r \in All : x = <<call, "mask", r>>
    BY DEF Block
  <2> QED
    BY <1>1, <2>3, <2>4, LeftGrows
<1>6. LabelInvariant'
  BY <1>1, LabelsKept
<1> QED
  BY <1>1, <1>4, <1>5, <1>6 DEF SkaterInvariant, AtIdle, AtFilling, AtMirroring,
    AtClustering, tables, Left

(* No step of SKATER's breaks the invariant.                               *)
LEMMA NextSkater ==
  SkaterInvariant /\ [SkaterNext]_skaterVars => SkaterInvariant'
<1> SUFFICES ASSUME SkaterInvariant, [SkaterNext]_skaterVars PROVE SkaterInvariant'
  OBVIOUS
<1>1. CASE \E d \in Datas : Call(d)
  BY <1>1, CallSkater
<1>2. CASE FillColumn
  BY <1>2, FillSkater
<1>3. CASE DistanceMatrix
  BY <1>3, DistanceSkater
<1>4. CASE CopyDistance
  BY <1>4, CopySkater
<1>5. CASE RaggedFreed
  BY <1>5, RaggedSkater
<1>6. CASE Cluster \/ ClusteringReturns
  BY <1>6, ClusterSkater
<1>7. CASE FreeMemory
  BY <1>7, FreeSkater
<1>8. CASE MismatchedFree
  <2>1. LabelInvariant'
    BY <1>8, LabelsKept DEF MismatchedFree, GoUndefined, SkaterInvariant
  <2> QED
    BY <1>8, <2>1 DEF MismatchedFree, GoUndefined, tables, SkaterInvariant, AtIdle,
      AtFilling, AtMirroring, AtClustering
<1>9. CASE UNCHANGED skaterVars
  <2>1. LabelInvariant' /\ UNCHANGED <<stage, call, tables, heap>>
    BY <1>9, LabelsKept DEF skaterVars, SkaterInvariant
  <2> QED
    <3>1. AtIdle'
      BY <2>1, TablesKept DEF SkaterInvariant, AtIdle
    <3>2. AtFilling'
      BY <2>1, TablesKept DEF SkaterInvariant, AtFilling, Filled
    <3>3. AtMirroring'
      BY <2>1, TablesKept DEF SkaterInvariant, AtMirroring
    <3>4. AtClustering'
      BY <2>1, TablesKept DEF SkaterInvariant, AtClustering
    <3> QED
      BY <2>1, <3>1, <3>2, <3>3, <3>4, TablesKept DEF SkaterInvariant
<1> QED
  BY <1>1, <1>2, <1>3, <1>4, <1>5, <1>6, <1>7, <1>8, <1>9 DEF SkaterNext, Stopped

(* The inductive invariant of GeoDa::SKATER over vectors.                  *)
THEOREM SkaterIsInvariant == SkaterSpec => []SkaterInvariant
BY InitSkater, NextSkater, PTL DEF SkaterSpec

(* Within SKATER, too, the labels tell the regions apart.                  *)
THEOREM SkaterTellsRegions == SkaterSpec => []LabelsTellRegions
<1>1. SkaterInvariant => LabelsTellRegions
  BY LabelsFollow DEF SkaterInvariant
<1> QED
  BY <1>1, SkaterIsInvariant, PTL

(* The clustering works on all of the data and on complete distances.      *)
THEOREM DataClustered == SkaterSpec => []ClustersTheData
<1>1. SkaterInvariant => ClustersTheData
  <2> SUFFICES ASSUME SkaterInvariant, stage = "clustering"
               PROVE  /\ matrix = [c \in DOMAIN data |-> [r \in Obs |-> <<c, r>>]]
                      /\ \A p \in Obs \X Obs :
                           distances[p] = IF p[1] = p[2] THEN {} ELSE {p[1], p[2]}
    BY DEF ClustersTheData
  <2>1. matrix = Filled(Len(data)) /\ Complete /\ DOMAIN data = 1 .. Len(data)
    BY DEF SkaterInvariant, AtClustering
  <2>2. matrix = [c \in DOMAIN data |-> [r \in Obs |-> <<c, r>>]]
    BY <2>1 DEF Filled
  <2>3. ASSUME NEW p \in Obs \X Obs
        PROVE  distances[p] = IF p[1] = p[2] THEN {} ELSE {p[1], p[2]}
    <3>1. p = <<p[1], p[2]>> /\ p[1] \in Obs /\ p[2] \in Obs
      OBVIOUS
    <3>2. distances[<<p[1], p[2]>>] = IF p[1] = p[2] THEN {} ELSE {p[1], p[2]}
      BY <2>1, <3>1 DEF Complete
    <3> QED
      BY <3>1, <3>2
  <2> QED
    BY <2>2, <2>3
<1> QED
  BY <1>1, SkaterIsInvariant, PTL

(* Nothing is freed twice or too early, and each call leaves the same.     *)
THEOREM MemoryIsKept == SkaterSpec => []MemoryKept
<1>1. SkaterInvariant => MemoryKept
  BY DEF SkaterInvariant, MemoryKept, AtIdle, AtClustering, OfClustering, OfFilling, Left
<1> QED
  BY <1>1, SkaterIsInvariant, PTL
=============================================================================
