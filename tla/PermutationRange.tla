--------------------------- MODULE PermutationRange ---------------------------
(***************************************************************************)
(* One worker thread of a run, draw by draw:                               *)
(* AbstractLocalSA::CalcPseudoP_range with UniLisa::LargerPermLocalSA.     *)
(*                                                                         *)
(* For each observation from cnt to obs_end it draws `permutations' many   *)
(* samples as large as the set of its neighbours, and counts those whose   *)
(* local Moran is at least the observed one.  Module LocalSA takes the     *)
(* test of an observation as one step; ObservationIsAtomic is what makes   *)
(* that step, its CountLarger and its SeedAfter right.                     *)
(***************************************************************************)
EXTENDS PseudoPValue, Sequences, FiniteSets, SequencesExt

CONSTANTS
  NumObs,        \* num_obs
  SeedMod,       \* 2^64 in the code, smaller for TLC
  Candidate,     \* the newRandom that hashing each seed gives
  NumPermutations, \* permutations
  Data,          \* the standardized variable, scaled to integers
  Undefs,        \* the observations flagged in undefs
  Graphs         \* the weights: functions from observations to neighbour sets

ASSUME NumbersAssumption ==
  NumObs \in Nat \ {0} /\ SeedMod \in Nat \ {0} /\ NumPermutations \in Nat

Obs == 0 .. NumObs - 1

Seeds == 0 .. SeedMod - 1

(* ThomasWangHashDouble is not in the repository.  It maps a seed into the *)
(* unit interval and the code rounds its product with num_obs-1; every     *)
(* observation is the candidate of some seed.                              *)
ASSUME CandidateAssumption ==
  /\ Candidate \in [Seeds -> Obs]
  /\ \A o \in Obs : \E s \in Seeds : Candidate[s] = o

(* Contiguity is symmetric and nobody is a neighbour of its own; weights   *)
(* that come from elsewhere may be anything.                               *)
ASSUME GraphsAssumption == Graphs \subseteq [Obs -> SUBSET Obs]

VARIABLES
  nbrs, row_standardize,   \* the parameters that the loop reads
  obs_end, cnt, seed_start, perm, countLarger,
  workPermutation,         \* a GeoDaSet: a stack that knows its members
  sig_local_vec, sig_cat_vec,
  seedAt                   \* auxiliary: seed_start when cnt's test began

vars == <<nbrs, row_standardize, obs_end, cnt, seed_start, perm, countLarger,
          workPermutation, sig_local_vec, sig_cat_vec, seedAt>>

fixed == <<nbrs, row_standardize, obs_end>>
-----------------------------------------------------------------------------
NbrSize(o) == Cardinality(nbrs[o])

Belongs(o) == o \in ToSet(workPermutation)

SumOver(S) == MapThenSumSet(LAMBDA o : Data[o], S)

(* weights->SpatialLag, a sum and what it is divided by; 0 is stored for   *)
(* an undefined observation.                                               *)
Lag(o) == IF o \in Undefs THEN <<0, 1>> ELSE <<SumOver(nbrs[o]), NbrSize(o)>>

(* LargerPermLocalSA: undefined members of the sample do not count, and    *)
(* the lag is an average or a sum.                                         *)
Larger(o, sample) ==
  LET valid == sample \ Undefs
      size == IF row_standardize /\ valid # {} THEN Cardinality(valid) ELSE 1
  IN SumOver(valid) * Data[o] * Lag(o)[2] >= Lag(o)[1] * Data[o] * size
-----------------------------------------------------------------------------
Init ==
  /\ nbrs \in Graphs
  /\ row_standardize \in BOOLEAN
  /\ cnt \in Obs /\ obs_end \in cnt .. NumObs - 1
  /\ seed_start \in Seeds
  /\ seedAt = seed_start
  /\ perm = 0 /\ countLarger = 0 /\ workPermutation = <<>>
  /\ sig_local_vec = [o \in Obs |-> Zero]
  /\ sig_cat_vec = [o \in Obs |-> 0]

\* The for loop goes to the next observation.
NextObservation ==
  /\ cnt' = cnt + 1
  /\ seedAt' = seed_start
  /\ perm' = 0 /\ countLarger' = 0
  /\ UNCHANGED <<fixed, seed_start, workPermutation>>

Isolate ==
  /\ cnt <= obs_end
  /\ NbrSize(cnt) = 0
  /\ sig_cat_vec' = [sig_cat_vec EXCEPT ![cnt] = NeighborlessCat]
  /\ UNCHANGED sig_local_vec
  /\ NextObservation

(* The condition under which a candidate is taken.  Mutant: without asking *)
(* whether it has been drawn before.                                       *)
AcceptedTwice(o) == o # cnt /\ NbrSize(o) > 0

Accepted(o) == o # cnt /\ ~Belongs(o) /\ NbrSize(o) > 0

\* seed_start++.  Mutant: the same seed is hashed again.
SameSeed(s) == s

NextSeed(s) == (s + 1) % SeedMod

Draw ==
  LET newRandom == Candidate[seed_start] IN
  /\ cnt <= obs_end
  /\ perm < NumPermutations
  /\ Len(workPermutation) < NbrSize(cnt)
  /\ seed_start' = NextSeed(seed_start)
  /\ workPermutation' = IF Accepted(newRandom)
                        THEN Append(workPermutation, newRandom)
                        ELSE workPermutation
  /\ UNCHANGED <<fixed, cnt, perm, countLarger, sig_local_vec, sig_cat_vec, seedAt>>

(* numNeighbors times Pop.  Mutant: the last one stays in the set.         *)
OneLeft(stack) == SubSeq(stack, 1, 1)

Popped(stack) == SubSeq(stack, 1, Len(stack) - NbrSize(cnt))

Compare ==
  /\ cnt <= obs_end
  /\ perm < NumPermutations
  /\ NbrSize(cnt) > 0
  /\ Len(workPermutation) = NbrSize(cnt)
  /\ countLarger' = countLarger + (IF Larger(cnt, ToSet(workPermutation)) THEN 1 ELSE 0)
  /\ workPermutation' = Popped(workPermutation)
  /\ perm' = perm + 1
  /\ UNCHANGED <<fixed, cnt, seed_start, sig_local_vec, sig_cat_vec, seedAt>>

Record ==
  LET p == PseudoP(countLarger, NumPermutations) IN
  /\ cnt <= obs_end
  /\ NbrSize(cnt) > 0
  /\ perm = NumPermutations
  /\ sig_cat_vec' = [sig_cat_vec EXCEPT ![cnt] = Category(p)]
  /\ sig_local_vec' = [sig_local_vec EXCEPT ![cnt] = p]
  /\ NextObservation

Done == cnt > obs_end

Terminated == Done /\ UNCHANGED vars

Next == Isolate \/ Draw \/ Compare \/ Record \/ Terminated

\* The thread is scheduled again and again.
Spec == Init /\ [][Next]_vars /\ WF_vars(Next)
-----------------------------------------------------------------------------
(***************************************************************************)
(* What the test of one observation is, without the loop.                  *)
(***************************************************************************)

\* The members of the sample when k seeds from s on have been used.
DrawnBy(o, s, k) ==
  {Candidate[(s + j) % SeedMod] : j \in 0 .. k - 1}
    \cap {n \in Obs \ {o} : nbrs[n] # {}}

\* The number of seeds that the sample of o takes from s on.
SampleLength(o, s) ==
  CHOOSE k \in 0 .. SeedMod :
    /\ Cardinality(DrawnBy(o, s, k)) = NbrSize(o)
    /\ \A l \in 0 .. k - 1 : Cardinality(DrawnBy(o, s, l)) < NbrSize(o)

\* Where in the stream each permutation of o begins, the first one at s.
PermutationStarts(o, s) ==
  LET start[p \in 0 .. NumPermutations] ==
        IF p = 0 THEN s
        ELSE (start[p - 1] + SampleLength(o, start[p - 1])) % SeedMod
  IN start

CountLarger(o, s) ==
  Cardinality({p \in 0 .. NumPermutations - 1 :
    LET from == PermutationStarts(o, s)[p]
    IN Larger(o, DrawnBy(o, from, SampleLength(o, from)))})

SeedAfter(o, s) == PermutationStarts(o, s)[NumPermutations]
-----------------------------------------------------------------------------
(* A sample has no member twice, never the observation itself and never an *)
(* island, and no more members than there are neighbours.                  *)
SampleSound ==
  /\ IsInjective(workPermutation)
  /\ ~Done => /\ cnt \notin ToSet(workPermutation)
              /\ Len(workPermutation) <= NbrSize(cnt)
  /\ \A o \in ToSet(workPermutation) : NbrSize(o) > 0

(* The test of an observation depends on the observation and its place in  *)
(* the stream, and on no earlier permutation or observation; it writes the *)
(* two elements of that observation and no other.  LocalSA's               *)
(* TestObservation and SkipIsolate are this step.                          *)
ObservationIsAtomic ==
  [][cnt' # cnt =>
       LET p == PseudoP(CountLarger(cnt, seedAt), NumPermutations) IN
       /\ cnt' = cnt + 1
       /\ seed_start' = IF NbrSize(cnt) = 0 THEN seedAt ELSE SeedAfter(cnt, seedAt)
       /\ sig_local_vec' = IF NbrSize(cnt) = 0 THEN sig_local_vec
                           ELSE [sig_local_vec EXCEPT ![cnt] = p]
       /\ sig_cat_vec' = [sig_cat_vec EXCEPT ![cnt] =
                            IF NbrSize(cnt) = 0 THEN NeighborlessCat ELSE Category(p)]
    ]_vars

(* Rejection sampling ends if, for each observation of the interval, there *)
(* are as many others with neighbours as it has neighbours itself: always, *)
(* if the weights are symmetric.  Otherwise the thread runs for ever if    *)
(* there is a permutation to draw, and the caller waits for it for ever.   *)
EnoughCandidates(o) ==
  Cardinality({n \in Obs \ {o} : nbrs[n] # {}}) >= Cardinality(nbrs[o])

RangeEnds ==
  /\ (\A o \in cnt .. obs_end : EnoughCandidates(o)) => <>Done
  /\ NumPermutations > 0 /\ (\E o \in cnt .. obs_end : ~EnoughCandidates(o))
       => []~Done

(* Symmetric weights without self-neighbours leave enough candidates.      *)
SymmetricSuffices ==
  (\A o \in Obs : o \notin nbrs[o] /\ \A n \in nbrs[o] : o \in nbrs[n])
    => \A o \in Obs : EnoughCandidates(o)
=============================================================================
