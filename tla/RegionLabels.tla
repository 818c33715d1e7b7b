---------------------------- MODULE RegionLabels ----------------------------
(***************************************************************************)
(* The end of GeoDa::SKATER: the regions that the external clustering has  *)
(* found become one label per observation.  Region c is labelled c, and    *)
(* the observations in no region get the label after the last one.         *)
(***************************************************************************)
EXTENDS Integers, Sequences

CONSTANTS
  NumObs,     \* numObs
  Regionings  \* what GetRegions returns, sorted: sequences of sets

Obs == 0 .. NumObs - 1

ASSUME NumObsAssumption == NumObs \in Nat

(* The regions are parts of a tree that edges have been cut from: no       *)
(* observation is in two of them.                                          *)
ASSUME RegioningsAssumption ==
  \A regions \in Regionings :
    /\ regions \in Seq(SUBSET Obs)
    /\ \A c, d \in DOMAIN regions : c # d => regions[c] \cap regions[d] = {}

VARIABLES
  phase,        \* "called", "labelling" or "returned"
  weight_type,  \* of the weights w
  cluster_ids,
  labelled,     \* how many regions have been labelled
  rst           \* the labels, <<>> before resize

vars == <<phase, weight_type, cluster_ids, labelled, rst>>
-----------------------------------------------------------------------------
Init ==
  /\ phase = "called"
  /\ weight_type \in {"gal_type", "gwt_type"}
  /\ cluster_ids \in Regionings
  /\ labelled = 0
  /\ rst = <<>>

(* Only weights of gal_type are clustered; others return an empty vector.  *)
RefuseWeights ==
  /\ phase = "called"
  /\ weight_type # "gal_type"
  /\ phase' = "returned"
  /\ UNCHANGED <<weight_type, cluster_ids, labelled, rst>>

\* Partitioning, GetRegions, resize and sort.
Partition ==
  /\ phase = "called"
  /\ weight_type = "gal_type"
  /\ phase' = "labelling"
  /\ rst' = [o \in Obs |-> 0]
  /\ UNCHANGED <<weight_type, cluster_ids, labelled>>

\* int c = i + 1, where i counts from 0.
LabelOf(i) == i + 1

LabelRegion ==
  /\ phase = "labelling"
  /\ labelled < Len(cluster_ids)
  /\ rst' = [o \in Obs |-> IF o \in cluster_ids[labelled + 1]
                           THEN LabelOf(labelled) ELSE rst[o]]
  /\ labelled' = labelled + 1
  /\ UNCHANGED <<phase, weight_type, cluster_ids>>

\* ncluster + 1.  Mutant: the label of the last region.
LastLabel == Len(cluster_ids)

RestLabel == Len(cluster_ids) + 1

LabelRest ==
  /\ phase = "labelling"
  /\ labelled = Len(cluster_ids)
  /\ rst' = [o \in Obs |-> IF rst[o] = 0 THEN RestLabel ELSE rst[o]]
  /\ phase' = "returned"
  /\ UNCHANGED <<weight_type, cluster_ids, labelled>>

Returned == phase = "returned" /\ UNCHANGED vars

Next == RefuseWeights \/ Partition \/ LabelRegion \/ LabelRest \/ Returned

Spec == Init /\ [][Next]_vars
-----------------------------------------------------------------------------
Together(o, p) ==
  \/ \E c \in DOMAIN cluster_ids : {o, p} \subseteq cluster_ids[c]
  \/ \A c \in DOMAIN cluster_ids : {o, p} \cap cluster_ids[c] = {}

(* Two observations have the same label if and only if they are in one     *)
(* region, or both in none: 0 is the mark of the unlabelled while the      *)
(* regions are labelled, and the label of the rest must be nobody else's.  *)
LabelsTellRegions ==
  phase = "returned" /\ weight_type = "gal_type" =>
    \A o, p \in Obs : rst[o] = rst[p] <=> Together(o, p)

(* The inductive strengthening: the label says which of the regions that   *)
(* have been labelled the observation is in, and 0 that it is in none.     *)
LabelInvariant ==
  /\ phase \in {"called", "labelling", "returned"}
  /\ cluster_ids \in Regionings
  /\ phase = "labelling" => weight_type = "gal_type"
  /\ labelled \in 0 .. Len(cluster_ids)
  /\ phase = "called" => labelled = 0
  /\ phase = "labelling" =>
       /\ rst \in [Obs -> 0 .. labelled]
       /\ \A o \in Obs, c \in 1 .. labelled : rst[o] = c <=> o \in cluster_ids[c]
  /\ phase = "returned" /\ weight_type = "gal_type" =>
       /\ rst \in [Obs -> 1 .. Len(cluster_ids) + 1]
       /\ \A o \in Obs, c \in DOMAIN cluster_ids :
            rst[o] = c <=> o \in cluster_ids[c]
=============================================================================
