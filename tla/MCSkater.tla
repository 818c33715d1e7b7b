------------------------------ MODULE MCSkater ------------------------------
(***************************************************************************)
(* Calls with no column, with two, and with one that is too short; every   *)
(* sequence of up to three disjoint regions, empty ones included.          *)
(***************************************************************************)
EXTENDS Skater

Subsets == SUBSET (0 .. NumObs - 1)

MCRegionings ==
  {regions \in UNION {[1 .. k -> Subsets] : k \in 0 .. 3} :
     \A c, d \in DOMAIN regions : c # d => regions[c] \cap regions[d] = {}}

MCDatas == {<<>>, <<NumObs, NumObs + 1>>, <<NumObs, NumObs - 1>>}
=============================================================================
