---------------------------- MODULE PseudoPValue ----------------------------
(***************************************************************************)
(* The pseudo p-value of a permutation test and its category, as           *)
(* CalcPseudoP_range computes them from the count of permutations that     *)
(* were at least as large as the observed value.                           *)
(***************************************************************************)
EXTENDS Integers

(* A p-value and a cutoff are fractions <<numerator, denominator>>: the    *)
(* doubles of the code are quotients of small integers, and two of those   *)
(* compare as the fractions do.                                            *)
Fractions == Nat \X (Nat \ {0})

AtMost(p, q) == p[1] * q[2] <= q[1] * p[2]

Zero == <<0, 1>>

\* Mutant: without the observed value counted as one of the permutations.
UncorrectedP(larger, perms) ==
  <<(IF perms - larger <= larger THEN perms - larger ELSE larger), perms + 1>>

(* "pick the smallest counts", then (countLarger + 1.0) / (permutations+1) *)
PseudoP(larger, perms) ==
  <<(IF perms - larger <= larger THEN perms - larger ELSE larger) + 1,
    perms + 1>>

(* The thresholds stand in the code three times: for the filters 1 .. 4,   *)
(* for the categories, and for the caller to ask for.                      *)
FilterCutoff == << <<5, 100>>, <<1, 100>>, <<1, 1000>>, <<1, 10000>> >>

CategoryBound == << <<5, 100>>, <<1, 100>>, <<1, 1000>>, <<1, 10000>> >>

DefaultCutoffs == << <<5, 100>>, <<1, 100>>, <<1, 1000>>, <<1, 10000>> >>

(* sig_cat_vec: the strictest of the four bounds that the p-value meets.   *)
(* Mutant: the comparisons in the opposite order.                          *)
LoosestCutoffFirst(p) ==
  IF AtMost(p, CategoryBound[1]) THEN 1
  ELSE IF AtMost(p, CategoryBound[2]) THEN 2
  ELSE IF AtMost(p, CategoryBound[3]) THEN 3
  ELSE IF AtMost(p, CategoryBound[4]) THEN 4 ELSE 0

Category(p) ==
  IF AtMost(p, CategoryBound[4]) THEN 4
  ELSE IF AtMost(p, CategoryBound[3]) THEN 3
  ELSE IF AtMost(p, CategoryBound[2]) THEN 2
  ELSE IF AtMost(p, CategoryBound[1]) THEN 1 ELSE 0

\* sig_cat_vec of an observation without neighbours.
NeighborlessCat == 5
=============================================================================
