------------------------------- MODULE Skater -------------------------------
(***************************************************************************)
(* GeoDa::SKATER over vectors of values: the matrix of the standardized    *)
(* values, the distances between observations, first as the lower triangle *)
(* that distancematrix returns and then in full, the clustering, whose end *)
(* is module RegionLabels, and the memory that all of it takes.  Rows and  *)
(* columns count from 0.                                                   *)
(*                                                                         *)
(* The value of column c for observation r is <<c, r>>, and the distance   *)
(* of i and j is the set of the two.  Standardizing, distancematrix and    *)
(* the clustering are external.                                            *)
(***************************************************************************)
EXTENDS RegionLabels

CONSTANTS
  Datas,      \* the data of a call: how many values each column has
  MaxCalls    \* bound on the number of calls

ASSUME SkaterAssumption == Datas \subseteq Seq(Nat) /\ MaxCalls \in Nat

VARIABLES
  stage,      \* "idle", "filling", "mirroring", "clustering", "freeing"; "undefined"
  call,       \* how many calls there have been
  data,
  matrix,     \* the columns that have been filled in
  i, j,       \* of fullRaggedMatrix
  distances,
  heap        \* the blocks that are allocated: <<call, name, row>>

labels == <<phase, weight_type, cluster_ids, labelled, rst>>
tables == <<data, matrix, i, j, distances>>
skaterVars == <<stage, call, tables, heap, labels>>

\* The array of the rows of a matrix is its row -1.
Block(name, rows) == {<<call, name, r>> : r \in rows}

All == Obs \cup {-1}

NoDistances == [p \in Obs \X Obs |-> {}]
-----------------------------------------------------------------------------
SkaterInit ==
  /\ Init
  /\ stage = "idle" /\ call = 0 /\ data = <<>>
  /\ matrix = <<>> /\ i = 0 /\ j = 0 /\ distances = NoDistances
  /\ heap = {}

GoUndefined ==
  /\ stage' = "undefined"
  /\ UNCHANGED <<call, tables, heap, labels>>

Call(d) ==
  /\ stage = "idle" /\ call < MaxCalls
  /\ stage' = "filling" /\ call' = call + 1
  /\ data' = d /\ matrix' = <<>>
  /\ heap' = heap \cup Block("matrix", All)' \cup Block("mask", All)'
  /\ UNCHANGED <<i, j, distances, labels>>

\* matrix[r][i] = vals[r] for every r below numObs.
FillColumn ==
  LET c == Len(matrix) + 1 IN
  /\ stage = "filling"
  /\ c <= Len(data)
  /\ IF data[c] < NumObs
     THEN GoUndefined
     ELSE /\ matrix' = Append(matrix, [r \in Obs |-> <<c, r>>])
          /\ UNCHANGED <<stage, call, data, i, j, distances, heap, labels>>

(* distancematrix gives row r the distances to the r observations before   *)
(* it; there is no row 0.  fullRaggedMatrix starts with zeros.             *)
DistanceMatrix ==
  /\ stage = "filling"
  /\ Len(matrix) = Len(data)
  /\ stage' = "mirroring"
  /\ heap' = heap \cup Block("weight", {-1}) \cup Block("ragged", All \ {0})
               \cup Block("distances", All)
  /\ i' = 1 /\ j' = 0
  /\ distances' = NoDistances
  /\ UNCHANGED <<call, data, matrix, labels>>

\* Mutant: only the triangle is copied.
Unmirrored == distances' = [distances EXCEPT ![<<i, j>>] = {i, j}]

Mirrored == distances' = [distances EXCEPT ![<<i, j>>] = {i, j}, ![<<j, i>>] = {i, j}]

\* One turn of the inner loop; isSqrt makes no difference.
CopyDistance ==
  /\ stage = "mirroring"
  /\ i < NumObs
  /\ Mirrored
  /\ IF j + 1 < i THEN j' = j + 1 /\ UNCHANGED i
                  ELSE j' = 0 /\ i' = i + 1
  /\ UNCHANGED <<stage, call, data, matrix, heap, labels>>

(* Blocks are freed that are there, or nobody knows what happens.          *)
Free(blocks, then) ==
  IF blocks \subseteq heap
  THEN heap' = heap \ blocks /\ stage' = then
  ELSE stage' = "undefined" /\ UNCHANGED heap

(* The matrices are complete; the clustering is called with weights and a  *)
(* result of its own.                                                      *)
RaggedFreed ==
  /\ stage = "mirroring"
  /\ i >= NumObs
  /\ Free(Block("ragged", All \ {0}), "clustering")
  /\ phase' = "called"
  /\ weight_type' \in {"gal_type", "gwt_type"}
  /\ cluster_ids' \in Regionings
  /\ labelled' = 0 /\ rst' = <<>>
  /\ UNCHANGED <<call, tables>>

Cluster ==
  /\ stage = "clustering"
  /\ phase # "returned"
  /\ Next
  /\ UNCHANGED <<stage, call, tables, heap>>

ClusteringReturns ==
  /\ stage = "clustering"
  /\ phase = "returned"
  /\ stage' = "freeing"
  /\ UNCHANGED <<call, tables, heap, labels>>

\* Mutant: the rows of the distances are not freed, only their array.
OnlyTheArray == Block("distances", {-1})

FreedDistances == Block("distances", All \ {0})

(* What fullRaggedMatrix has allocated with new[] is given to free, which  *)
(* goes well where both use one heap; elsewhere it is MismatchedFree.      *)
FreeMemory ==
  /\ stage = "freeing"
  /\ Free(FreedDistances \cup Block("weight", {-1}) \cup Block("matrix", All), "idle")
  /\ UNCHANGED <<call, tables, labels>>

MismatchedFree == stage = "freeing" /\ GoUndefined

Stopped ==
  /\ stage = "undefined" \/ (stage = "idle" /\ call = MaxCalls)
  /\ UNCHANGED skaterVars

SkaterNext ==
  \/ \E d \in Datas : Call(d)
  \/ FillColumn \/ DistanceMatrix \/ CopyDistance \/ RaggedFreed
  \/ Cluster \/ ClusteringReturns
  \/ FreeMemory \/ MismatchedFree \/ Stopped

SkaterSpec == SkaterInit /\ [][SkaterNext]_skaterVars
-----------------------------------------------------------------------------
(* The clustering is given every value in its place, and a distance for    *)
(* every two observations that is the same both ways, whatever an earlier  *)
(* call has left.                                                          *)
ClustersTheData ==
  stage = "clustering" =>
    /\ matrix = [c \in DOMAIN data |-> [r \in Obs |-> <<c, r>>]]
    /\ \A p \in Obs \X Obs : distances[p] = IF p[1] = p[2] THEN {} ELSE {p[1], p[2]}

(* While the clustering reads the matrix and the distances they are        *)
(* allocated, and what a call leaves behind is its mask and the first row  *)
(* of its distances: nothing else, and nothing is freed twice.             *)
MemoryKept ==
  /\ stage = "clustering" => Block("matrix", All) \cup Block("distances", All) \subseteq heap
  /\ stage = "idle" =>
       heap = {b \in (1 .. call) \X {"mask", "distances"} \X All : b[2] = "mask" \/ b[3] = 0}
=============================================================================
