-------------------------- MODULE MCPermutationRange --------------------------
(***************************************************************************)
(* PermutationRange for four observations, every symmetric graph of them,  *)
(* and directed ones: no neighbour, observation 0, or all but it.          *)
(***************************************************************************)
EXTENDS PermutationRange

Pairs == {e \in SUBSET (0 .. NumObs - 1) : Cardinality(e) = 2}

SymmetricGraphs ==
  {[o \in 0 .. NumObs - 1 |-> {n \in 0 .. NumObs - 1 : {o, n} \in E /\ n # o}]
     : E \in SUBSET Pairs}

Digraphs == [0 .. NumObs - 1 -> {{}, {0}, 1 .. NumObs - 1}]

MCGraphs == SymmetricGraphs \cup Digraphs

\* Repeats and all four observations within one period of the seeds.
MCCandidate == [s \in Seeds |-> <<2, 1, 1, 0, 3, 2, 0>>[s + 1]]

MCData == [o \in Obs |-> <<2, 0, -3, 1>>[o + 1]]
=============================================================================
