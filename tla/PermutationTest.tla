--------------------------- MODULE PermutationTest ---------------------------
(***************************************************************************)
(* The conditional permutation test of one observation, seen from outside  *)
(* CalcPseudoP_range: how many of the permutations were at least as large  *)
(* as the observed value (CountLarger), and where the random stream stands *)
(* afterwards (SeedAfter).  Both are functions of the observation, of the  *)
(* place in the stream and of the parameters of the run, and of nothing    *)
(* else; module PermutationRange looks inside and checks that.             *)
(*                                                                         *)
(* On top of them: what the result of a whole run has to be.               *)
(***************************************************************************)
EXTENDS WorkPartition, PseudoPValue

CONSTANTS
  NumObs,               \* num_obs
  Isolates,             \* the observations with GetNbrSize = 0
  SeedMod,              \* a seed is a uint64_t: 2^64, smaller for TLC
  CountLarger(_, _, _, _),  \* observation, seed, permutations, row_standardize
  SeedAfter(_, _, _)        \* observation, seed, permutations

Obs == 0 .. NumObs - 1

Seeds == 0 .. SeedMod - 1

ASSUME NumObsAssumption == NumObs \in Nat
ASSUME IsolatesAssumption == Isolates \subseteq Obs
ASSUME SeedModAssumption == SeedMod \in Nat \ {0}

-----------------------------------------------------------------------------
(***************************************************************************)
(* The result of a run with the parameters                                 *)
(*   p = [threads, perms, seed, rowStd].                                   *)
(* The first observation of a chunk is drawn from seed + its own number,   *)
(* every other one from where the one before it left the stream.           *)
(***************************************************************************)
StreamAfter(o, s, perms) == IF o \in Isolates THEN s ELSE SeedAfter(o, s, perms)

StartsChunk(p, o) ==
  \E i \in Threads(NumObs, p.threads) : ChunkStart(NumObs, p.threads, i) = o

SeedChain(p, s) ==
  \A o \in Obs :
    s[o] = IF StartsChunk(p, o)
           THEN (p.seed + o) % SeedMod
           ELSE StreamAfter(o - 1, s[o - 1], p.perms)

PValueOf(p, o, s) == PseudoP(CountLarger(o, s, p.perms, p.rowStd), p.perms)

(* Isolates are skipped: their p-value stays the 0 of the resized vector.  *)
ResultOf(p, s) ==
  [o \in Obs |-> IF o \in Isolates THEN Zero ELSE PValueOf(p, o, s[o])]

IsResult(p, r) ==
  \E s \in [Obs -> Seeds] : SeedChain(p, s) /\ r = ResultOf(p, s)
=============================================================================
