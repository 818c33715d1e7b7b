--------------------------- MODULE MCLocalSAFaults ---------------------------
(***************************************************************************)
(* Small instances of LocalSAFaults.                                       *)
(***************************************************************************)
EXTENDS LocalSAFaults

\* Some deterministic test that differs by observation, seed and parameters.
MCCountLarger(o, s, n, b) ==
  LET k == (o + (IF b THEN s ELSE s + 2)) % (n + 1)
  IN IF o % 2 = 0 THEN k ELSE n - k

MCSeedAfter(o, s, n) == (s + 1 + (n % 2)) % SeedMod

MCData == [o \in Obs |-> IF o = 0 THEN 2 ELSE -1]
MCLag == [o \in Obs |-> 0]

\* A p-value that no test of the instance has.
MCStrayValues == {<<1, 7>>}
=============================================================================
