------------------------------ MODULE MCLocalSA ------------------------------
(***************************************************************************)
(* Small instances of LocalSA.                                             *)
(***************************************************************************)
EXTENDS LocalSAProperties

(* Some deterministic test: its p-value is (seed + 1)/(permutations + 1),  *)
(* reached from below for one half of the observations and from above for  *)
(* the other, except that row-standardizing changes the count by one.      *)
MCCountLarger(o, s, n, b) ==
  LET k == (IF b THEN s ELSE s + 1) % (n + 1)
  IN IF o % 2 = 0 THEN k ELSE n - k

MCSeedAfter(o, s, n) == (s + 2 + ((o + n) % 2)) % SeedMod

\* High-low, an undefined one, an island, low-low and one at the mean.
MCData == [o \in Obs |-> CASE o = 0 -> 2 [] o = 3 -> -1 [] o = 4 -> 0 [] OTHER -> 1]
MCLag == [o \in Obs |-> CASE o = 0 -> -1 [] o = 2 -> 0 [] o = 3 -> -2 [] OTHER -> 1]

\* Half of 1/10000, for a cutoff that SetSignificanceFilter does not offer.
TinyCutoff == <<1, 20000>>

MCFilters == -1 .. 5

MCCutoffs == {TinyCutoff}
=============================================================================
