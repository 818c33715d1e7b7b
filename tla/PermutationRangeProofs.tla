------------------------ MODULE PermutationRangeProofs ------------------------
(***************************************************************************)
(* Rejection sampling, for every number of observations and permutations,  *)
(* all weights, symmetric or not, and every stream of candidates: a sample *)
(* is a set of other observations with neighbours, of the right size; the  *)
(* test of an observation is what the definitions without the loop say;    *)
(* symmetric weights leave enough candidates for the loop to end, and with *)
(* too few it does not.                                                    *)
(***************************************************************************)
EXTENDS PermutationRange, FiniteSetTheorems, WellFoundedInduction, TLAPS

(* Samples are sound and used up before the loop goes on to an observation *)
(* with another number of neighbours.                                      *)
SampleInvariant ==
  /\ nbrs \in [Obs -> SUBSET Obs]
  /\ cnt \in 0 .. NumObs /\ obs_end \in Obs
  /\ seed_start \in Seeds
  /\ perm \in 0 .. NumPermutations
  /\ workPermutation \in Seq(Obs)
  /\ perm = NumPermutations \/ Done => workPermutation = <<>>
  /\ SampleSound

LEMMA NeighborCount ==
  ASSUME NEW g \in [Obs -> SUBSET Obs], NEW o \in Obs
  PROVE  IsFiniteSet(g[o]) /\ Cardinality(g[o]) \in Nat
<1>1. IsFiniteSet(Obs)
  BY FS_Interval, NumbersAssumption DEF Obs
<1>2. IsFiniteSet(g[o])
  BY <1>1, FS_Subset
<1> QED
  BY <1>2, FS_CardinalityType

(* The empty sample is sound for every observation.                        *)
LEMMA EmptySample ==
  /\ ToSet(<<>>) = {} /\ IsInjective(<<>>) /\ Len(<<>>) = 0
  BY DEF ToSet, IsInjective

LEMMA InitSample == Init => SampleInvariant
<1> SUFFICES ASSUME Init PROVE SampleInvariant
  OBVIOUS
<1>1. nbrs \in [Obs -> SUBSET Obs] /\ cnt \in Obs /\ cnt \in 0 .. NumObs /\ obs_end \in Obs
  BY GraphsAssumption, NumbersAssumption DEF Init, Obs
<1>2. workPermutation \in Seq(Obs) /\ workPermutation = <<>> /\ perm \in 0 .. NumPermutations
  BY NumbersAssumption DEF Init
<1>3. SampleSound
  BY <1>1, <1>2, EmptySample, NeighborCount DEF SampleSound, NbrSize
<1> QED
  BY <1>1, <1>2, <1>3 DEF Init, SampleInvariant

(* Going on to the next observation with an empty sample.                  *)
LEMMA NextObservationSample ==
  ASSUME SampleInvariant, NextObservation, cnt <= obs_end, workPermutation = <<>>
  PROVE  SampleInvariant'
<1>1. /\ nbrs' \in [Obs -> SUBSET Obs] /\ cnt' \in 0 .. NumObs /\ obs_end' \in Obs
      /\ perm' \in 0 .. NumPermutations /\ workPermutation' = <<>>
      /\ seed_start' \in Seeds
  BY NumbersAssumption DEF SampleInvariant, NextObservation, fixed, Obs
<1>2. ~Done' => cnt' \in Obs
  BY <1>1, NumbersAssumption DEF Done, Obs
<1>3. SampleSound'
  BY <1>1, <1>2, EmptySample, NeighborCount DEF SampleSound, NbrSize
<1> QED
  BY <1>1, <1>3 DEF SampleInvariant

(* A candidate that is accepted is another observation with neighbours     *)
(* that is not in the sample yet.                                          *)
LEMMA DrawSample == SampleInvariant /\ Draw => SampleInvariant'
<1> SUFFICES ASSUME SampleInvariant, Draw PROVE SampleInvariant'
  OBVIOUS
<1> DEFINE s == workPermutation
<1> DEFINE new == Candidate[seed_start]
<1>1. new \in Obs /\ seed_start' \in Seeds
  BY CandidateAssumption, NumbersAssumption DEF SampleInvariant, Draw, NextSeed, Seeds
<1>2. /\ UNCHANGED <<nbrs, cnt, obs_end, perm>>
      /\ s \in Seq(Obs) /\ ~Done /\ cnt \in Obs
      /\ Len(s) < NbrSize(cnt) /\ perm # NumPermutations
      /\ ~Done'
  BY NumbersAssumption DEF SampleInvariant, Draw, fixed, Done, Obs
<1>3. NbrSize(cnt) \in Nat /\ \A o \in Obs : NbrSize(o)' = NbrSize(o)
  BY <1>2, NeighborCount DEF SampleInvariant, NbrSize
<1>4. CASE Accepted(new)
  <2>1. s' = Append(s, new)
    BY <1>4 DEF Draw
  <2>2. /\ s' \in Seq(Obs) /\ Len(s') = Len(s) + 1
        /\ DOMAIN s = 1 .. Len(s) /\ DOMAIN s' = 1 .. Len(s) + 1
        /\ \A i \in 1 .. Len(s) : s'[i] = s[i]
        /\ s'[Len(s) + 1] = new
        /\ Len(s) \in Nat
    BY <1>1, <1>2, <2>1
  <2>3. new \notin ToSet(s) /\ new # cnt /\ NbrSize(new) > 0
    BY <1>4 DEF Accepted, Belongs
  <2>4. IsInjective(s')
    <3>1. \A i \in 1 .. Len(s) : s[i] # new
      BY <2>2, <2>3 DEF ToSet
    <3>2. \A i, j \in 1 .. Len(s) : s[i] = s[j] => i = j
      BY <2>2 DEF SampleInvariant, SampleSound, IsInjective
    <3>3. \A i \in DOMAIN s' : i \in 1 .. Len(s) \/ i = Len(s) + 1
      BY <2>2
    <3> QED
      BY <2>2, <3>1, <3>2, <3>3 DEF IsInjective
  <2>5. ToSet(s') \subseteq ToSet(s) \cup {new}
    BY <2>2 DEF ToSet
  <2>6. ToSet(s') \subseteq Obs
    BY <2>2 DEF ToSet
  <2>7. SampleSound'
    <3>1. cnt' \notin ToSet(s')
      BY <1>2, <2>3, <2>5 DEF SampleInvariant, SampleSound
    <3>2. Len(s') <= NbrSize(cnt)'
      BY <1>2, <1>3, <2>2
    <3>3. \A o \in ToSet(s') : NbrSize(o)' > 0
      BY <1>3, <2>3, <2>5, <2>6 DEF SampleInvariant, SampleSound
    <3> QED
      BY <2>4, <3>1, <3>2, <3>3 DEF SampleSound
  <2> QED
    BY <1>1, <1>2, <2>2, <2>7 DEF SampleInvariant
<1>5. CASE ~Accepted(new)
  <2>1. s' = s
    BY <1>5 DEF Draw
  <2>2. SampleSound'
    BY <1>2, <2>1 DEF SampleInvariant, SampleSound, NbrSize, Done
  <2> QED
    BY <1>1, <1>2, <2>1, <2>2 DEF SampleInvariant
<1> QED
  BY <1>4, <1>5

(* Popping as many members as the sample has empties it.                   *)
LEMMA ComparePops == SampleInvariant /\ Compare => workPermutation' = <<>>
<1> SUFFICES ASSUME SampleInvariant, Compare PROVE workPermutation' = <<>>
  OBVIOUS
<1>1. Len(workPermutation) = NbrSize(cnt) /\ workPermutation' = Popped(workPermutation)
  BY DEF Compare
<1>2. Len(workPermutation) \in Nat
  BY DEF SampleInvariant
<1>3. workPermutation' = SubSeq(workPermutation, 1, 0)
  BY <1>1, <1>2 DEF Popped
<1> QED
  BY <1>3 DEF SampleInvariant

(* The next permutation begins with an empty sample.                       *)
LEMMA CompareSample == SampleInvariant /\ Compare => SampleInvariant'
<1> SUFFICES ASSUME SampleInvariant, Compare PROVE SampleInvariant'
  OBVIOUS
<1>1. /\ UNCHANGED <<nbrs, cnt, obs_end, seed_start>>
      /\ perm' \in 0 .. NumPermutations
      /\ cnt \in Obs
  BY NumbersAssumption DEF SampleInvariant, Compare, fixed, Obs
<1>2. workPermutation' = <<>>
  BY ComparePops
<1>3. SampleSound'
  BY <1>1, <1>2, EmptySample, NeighborCount DEF SampleInvariant, SampleSound, NbrSize
<1> QED
  BY <1>1, <1>2, <1>3 DEF SampleInvariant

LEMMA NextSample == SampleInvariant /\ [Next]_vars => SampleInvariant'
<1> SUFFICES ASSUME SampleInvariant, [Next]_vars PROVE SampleInvariant'
  OBVIOUS
<1>1. CASE Isolate
  <2>1. cnt \in Obs /\ cnt <= obs_end /\ NbrSize(cnt) = 0
    BY <1>1, NumbersAssumption DEF Isolate, SampleInvariant, Obs
  <2>2. ~Done
    BY <2>1 DEF Done, SampleInvariant, Obs
  <2>3. Len(workPermutation) = 0
    BY <2>1, <2>2 DEF SampleInvariant, SampleSound
  <2>4. workPermutation = <<>>
    BY <2>3 DEF SampleInvariant
  <2> QED
    BY <1>1, <2>1, <2>4, NextObservationSample DEF Isolate
<1>2. CASE Draw
  BY <1>2, DrawSample
<1>3. CASE Compare
  BY <1>3, CompareSample
<1>4. CASE Record
  BY <1>4, NextObservationSample DEF Record, SampleInvariant
<1>5. CASE UNCHANGED vars
  BY <1>5 DEF vars, SampleInvariant, SampleSound, Done, NbrSize
<1> QED
  BY <1>1, <1>2, <1>3, <1>4, <1>5 DEF Next, Terminated

(* Every sample that a worker draws consists of different other            *)
(* observations with neighbours, and of no more than there are neighbours: *)
(* for all weights.                                                        *)
THEOREM SamplesSound == Spec => []SampleSound
<1>1. Spec => []SampleInvariant
  BY InitSample, NextSample, PTL DEF Spec
<1>2. SampleInvariant => SampleSound
  BY DEF SampleInvariant
<1> QED
  BY <1>1, <1>2, PTL

(* The premise under which rejection sampling ends holds of every          *)
(* contiguity: each neighbour of an observation is a candidate.            *)
THEOREM SymmetricWeightsSuffice == Spec => []SymmetricSuffices
<1>1. SampleInvariant => SymmetricSuffices
  <2> SUFFICES ASSUME SampleInvariant,
                      \A o \in Obs : o \notin nbrs[o] /\ \A n \in nbrs[o] : o \in nbrs[n],
                      NEW o \in Obs
               PROVE  EnoughCandidates(o)
    BY DEF SymmetricSuffices
  <2> DEFINE C == {n \in Obs \ {o} : nbrs[n] # {}}
  <2>1. nbrs[o] \subseteq C
    BY DEF SampleInvariant
  <2>2. IsFiniteSet(Obs)
    BY FS_Interval, NumbersAssumption DEF Obs
  <2>3. IsFiniteSet(C) /\ Cardinality(C) \in Nat
    BY <2>2, FS_Subset, FS_CardinalityType
  <2>4. Cardinality(nbrs[o]) <= Cardinality(C)
    BY <2>1, <2>3, FS_Subset
  <2>5. Cardinality(nbrs[o]) \in Nat
    BY NeighborCount DEF SampleInvariant
  <2> QED
    BY <2>3, <2>4, <2>5 DEF EnoughCandidates
<1>2. Spec => []SampleInvariant
  BY InitSample, NextSample, PTL DEF Spec
<1> QED
  BY <1>1, <1>2, PTL
-----------------------------------------------------------------------------
(***************************************************************************)
(* The test of an observation depends on nothing but the observation and   *)
(* its place in the stream.                                                *)
(***************************************************************************)

(* What the permutation of o says whose sample begins at s.                *)
LargerFrom(o, s) == Larger(o, DrawnBy(o, s, SampleLength(o, s)))

(* st is where each permutation of the test of cnt began, the one at hand  *)
(* included, and those before it are counted.                              *)
CountedTo(st) ==
  /\ st \in [0 .. perm -> Seeds] /\ st[0] = seedAt
  /\ \A p \in 1 .. perm : st[p] = (st[p - 1] + SampleLength(cnt, st[p - 1])) % SeedMod
  /\ countLarger = Cardinality({p \in 0 .. perm - 1 : LargerFrom(cnt, st[p])})
  /\ NbrSize(cnt) = 0 => perm = 0

(* The sample at hand began at s and has used k seeds.                     *)
DrawnSince(s, k) ==
  /\ k \in Nat
  /\ seed_start = (s + k) % SeedMod
  /\ ToSet(workPermutation) = DrawnBy(cnt, s, k)
  /\ \A l \in 0 .. k - 1 : Cardinality(DrawnBy(cnt, s, l)) < NbrSize(cnt)
  /\ perm = NumPermutations => k = 0

TestAt(st, k) == CountedTo(st) /\ DrawnSince(st[perm], k)

(* The loop is at some place of the test of its observation.               *)
TestInvariant == SampleInvariant /\ (~Done => \E st, k : TestAt(st, k))

(* The remainder is the only one.                                          *)
LEMMA RemainderUnique ==
  ASSUME NEW M \in Nat \ {0}, NEW q \in Nat, NEW r \in 0 .. M - 1
  PROVE  (M * q + r) % M = r
<1> DEFINE x == M * q + r
           p == x \div M
           t == x % M
<1>1. M * q \in Nat
  OBVIOUS
<1>2. x \in Nat
  BY <1>1
<1>3. p \in Nat /\ t \in 0 .. M - 1 /\ x = M * p + t
  BY <1>2
<1> HIDE DEF p, t
<1>4. ASSUME NEW a \in Nat, NEW b \in Nat, a < b PROVE M * a + M <= M * b
  <2>1. PICK d \in Nat : b = a + 1 + d
    BY <1>4
  <2>2. M * b = M * a + M + M * d
    BY <2>1
  <2>3. M * d \in Nat /\ M * a \in Nat
    OBVIOUS
  <2> QED
    BY <2>2, <2>3
<1>5. M * p \in Nat
  BY <1>3
<1>6. ~(p < q)
  BY <1>1, <1>3, <1>4, <1>5
<1>7. ~(q < p)
  BY <1>1, <1>3, <1>4, <1>5
<1>8. t = r
  <2>1. p = q
    BY <1>3, <1>6, <1>7
  <2> QED
    BY <1>1, <1>3, <2>1
<1> QED
  BY <1>8 DEF t

(* Counting on from a seed that was reached by counting.                   *)
LEMMA SeedArithmetic ==
  ASSUME NEW a \in Nat
  PROVE  /\ a % SeedMod \in Seeds
         /\ ((a % SeedMod) + 1) % SeedMod = (a + 1) % SeedMod
         /\ a \in Seeds => a % SeedMod = a /\ (a + SeedMod) % SeedMod = a
<1> DEFINE M == SeedMod
           q == a \div M
           r == a % M
<1>1. M \in Nat \ {0}
  BY NumbersAssumption
<1>2. q \in Nat /\ r \in 0 .. M - 1 /\ a = M * q + r
  BY <1>1
<1> HIDE DEF M, q, r
<1>3. (r + 1) % M = (a + 1) % M
  <2>1. CASE r + 1 < M
    <3>1. r + 1 \in 0 .. M - 1 /\ a + 1 = M * q + (r + 1)
      BY <1>1, <1>2, <2>1
    <3>2. (a + 1) % M = r + 1
      BY <1>1, <1>2, <3>1, RemainderUnique
    <3>3. (r + 1) % M = r + 1
      BY <1>1, <3>1
    <3> QED
      BY <3>2, <3>3
  <2>2. CASE r + 1 = M
    <3>1. a + 1 = M * (q + 1) + 0 /\ 0 \in 0 .. M - 1 /\ q + 1 \in Nat
      BY <1>1, <1>2, <2>2
    <3>2. (a + 1) % M = 0
      BY <1>1, <3>1, RemainderUnique
    <3>3. (r + 1) % M = 0
      BY <1>1, <2>2
    <3> QED
      BY <3>2, <3>3
  <2> QED
    BY <1>1, <1>2, <2>1, <2>2
<1>4. a \in 0 .. M - 1 => a % M = a /\ (a + M) % M = a
  BY <1>1
<1> QED
  BY <1>1, <1>2, <1>3, <1>4 DEF Seeds, M, r
(* What o may be tested against.                                           *)
Eligible(o) == {n \in Obs \ {o} : nbrs[n] # {}}

(* The candidate of one seed more.                                         *)
LEMMA DrawnNext ==
  ASSUME NEW o, NEW s \in Seeds
  PROVE  /\ DrawnBy(o, s, 0) = {}
         /\ \A k \in Nat :
              DrawnBy(o, s, k + 1)
                = DrawnBy(o, s, k) \cup ({Candidate[(s + k) % SeedMod]} \cap Eligible(o))
<1>1. DrawnBy(o, s, 0) = {}
  BY DEF DrawnBy
<1>2. ASSUME NEW k \in Nat
      PROVE  DrawnBy(o, s, k + 1)
               = DrawnBy(o, s, k) \cup ({Candidate[(s + k) % SeedMod]} \cap Eligible(o))
  <2> DEFINE c(j) == Candidate[(s + j) % SeedMod]
  <2>1. {c(j) : j \in 0 .. (k + 1) - 1} = {c(j) : j \in 0 .. k - 1} \cup {c(k)}
    <3>1. 0 .. (k + 1) - 1 = (0 .. k - 1) \cup {k}
      BY <1>2
    <3> HIDE DEF c
    <3> QED
      BY <3>1
  <2>2. \A l : DrawnBy(o, s, l) = {c(j) : j \in 0 .. l - 1} \cap Eligible(o)
    BY DEF DrawnBy, Eligible
  <2> HIDE DEF c
  <2>3. DrawnBy(o, s, k + 1)
          = ({c(j) : j \in 0 .. k - 1} \cap Eligible(o)) \cup ({c(k)} \cap Eligible(o))
    BY <2>1, <2>2
  <2> QED
    BY <2>2, <2>3 DEF c
<1> QED
  BY <1>1, <1>2

(* After one period of the seeds there are no new candidates.              *)
LEMMA DrawnInOnePeriod ==
  ASSUME NEW o, NEW s \in Seeds, NEW k \in Nat, SeedMod <= k
  PROVE  DrawnBy(o, s, k) = DrawnBy(o, s, SeedMod)
<1> DEFINE c(j) == Candidate[(s + j) % SeedMod]
<1>1. ASSUME NEW j \in Nat PROVE \E i \in 0 .. SeedMod - 1 : c(i) = c(j)
  <2> DEFINE r == (s + j) % SeedMod
             i == IF s <= r THEN r - s ELSE r - s + SeedMod
  <2>1. /\ SeedMod \in Nat \ {0} /\ s \in 0 .. SeedMod - 1 /\ s + j \in Nat
    BY NumbersAssumption DEF Seeds
  <2>2. r \in Seeds
    BY <2>1, SeedArithmetic
  <2> HIDE DEF r
  <2>3. r \in 0 .. SeedMod - 1 /\ r \in Nat
    BY <2>2 DEF Seeds
  <2>4. r % SeedMod = r /\ (r + SeedMod) % SeedMod = r
    BY <2>2, <2>3, SeedArithmetic
  <2>5. i \in 0 .. SeedMod - 1 /\ (s + i = r \/ s + i = r + SeedMod)
    BY <2>1, <2>3
  <2>6. (s + i) % SeedMod = r
    BY <2>4, <2>5
  <2>7. c(i) = c(j)
    BY <2>6 DEF r
  <2> HIDE DEF i, c
  <2> QED
    BY <2>5, <2>7
<1>2. 0 .. SeedMod - 1 \subseteq 0 .. k - 1 /\ \A j \in 0 .. k - 1 : j \in Nat
  BY NumbersAssumption
<1>3. {c(j) : j \in 0 .. k - 1} = {c(j) : j \in 0 .. SeedMod - 1}
  <2> HIDE DEF c
  <2> QED
    BY <1>1, <1>2
<1> QED
  BY <1>3 DEF DrawnBy

(* The first number of seeds that gives a sample is its length.            *)
LEMMA SampleLengthIs ==
  ASSUME NEW o, NEW s \in Seeds, NEW k \in Nat, NbrSize(o) \in Nat,
         Cardinality(DrawnBy(o, s, k)) = NbrSize(o),
         \A l \in 0 .. k - 1 : Cardinality(DrawnBy(o, s, l)) < NbrSize(o)
  PROVE  SampleLength(o, s) = k
<1> DEFINE First(n) == /\ Cardinality(DrawnBy(o, s, n)) = NbrSize(o)
                       /\ \A l \in 0 .. n - 1 :
                            Cardinality(DrawnBy(o, s, l)) < NbrSize(o)
<1>1. SeedMod \in Nat \ {0}
  BY NumbersAssumption
<1>2. k \in 0 .. SeedMod
  <2> SUFFICES ASSUME SeedMod < k PROVE FALSE
    BY <1>1
  <2>1. DrawnBy(o, s, k) = DrawnBy(o, s, SeedMod)
    BY <1>1, DrawnInOnePeriod
  <2>2. Cardinality(DrawnBy(o, s, SeedMod)) < NbrSize(o)
    BY <1>1
  <2> QED
    BY <2>1, <2>2
<1>3. First(k)
  OBVIOUS
<1>4. ASSUME NEW n \in 0 .. SeedMod, First(n) PROVE n = k
  <2>1. ~(n < k)
    BY <1>1, <1>3, <1>4
  <2>2. ~(k < n)
    BY <1>1, <1>3, <1>4
  <2> QED
    BY <2>1, <2>2
<1>5. SampleLength(o, s) = CHOOSE n \in 0 .. SeedMod : First(n)
  BY DEF SampleLength
<1> HIDE DEF First
<1> QED
  BY <1>2, <1>3, <1>4, <1>5
(* A sample has as many members as the stack is high.                      *)
LEMMA SampleSize ==
  ASSUME NEW w \in Seq(Obs), IsInjective(w)
  PROVE  /\ IsFiniteSet(ToSet(w)) /\ Cardinality(ToSet(w)) = Len(w)
         /\ Len(w) = 0 <=> w = <<>>
<1>1. Len(w) \in Nat /\ DOMAIN w = 1 .. Len(w)
  OBVIOUS
<1>2. w \in Bijection(1 .. Len(w), ToSet(w))
  <2>1. w \in [1 .. Len(w) -> ToSet(w)]
    BY <1>1 DEF ToSet
  <2>2. \A a, b \in 1 .. Len(w) : w[a] = w[b] => a = b
    BY <1>1 DEF IsInjective
  <2>3. \A t \in ToSet(w) : \E a \in 1 .. Len(w) : w[a] = t
    BY <1>1 DEF ToSet
  <2> QED
    BY <2>1, <2>2, <2>3 DEF Bijection, Injection, Surjection, IsInjective
<1>3. Cardinality(ToSet(w)) = Len(w)
  BY <1>1, <1>2, FS_CountingElements DEF ExistsBijection
<1>4. IsFiniteSet(ToSet(w))
  <2>1. IsFiniteSet(Obs)
    BY FS_Interval, NumbersAssumption DEF Obs
  <2>2. ToSet(w) \subseteq Obs
    BY <1>1 DEF ToSet
  <2> QED
    BY <2>1, <2>2, FS_Subset
<1>5. Len(w) = 0 <=> w = <<>>
  OBVIOUS
<1> QED
  BY <1>3, <1>4, <1>5

(* While the weights are the same, so are the samples of each observation. *)
LEMMA SameWeights ==
  ASSUME UNCHANGED <<nbrs, row_standardize>>, NEW o, NEW s
  PROVE  /\ NbrSize(o)' = NbrSize(o)
         /\ \A k : DrawnBy(o, s, k)' = DrawnBy(o, s, k)
         /\ SampleLength(o, s)' = SampleLength(o, s)
         /\ LargerFrom(o, s)' <=> LargerFrom(o, s)
<1> DEFINE Drawn(g, k) == {Candidate[(s + j) % SeedMod] : j \in 0 .. k - 1}
                            \cap {n \in Obs \ {o} : g[n] # {}}
           LengthIn(g) == CHOOSE k \in 0 .. SeedMod :
                            /\ Cardinality(Drawn(g, k)) = Cardinality(g[o])
                            /\ \A l \in 0 .. k - 1 :
                                 Cardinality(Drawn(g, l)) < Cardinality(g[o])
<1>1. NbrSize(o)' = NbrSize(o)
  BY DEF NbrSize
<1>2. \A k : DrawnBy(o, s, k) = Drawn(nbrs, k) /\ DrawnBy(o, s, k)' = Drawn(nbrs', k)
  BY DEF DrawnBy
<1>3. \A k : DrawnBy(o, s, k)' = DrawnBy(o, s, k)
  <2> HIDE DEF Drawn
  <2> QED
    BY <1>2
<1>4. SampleLength(o, s) = LengthIn(nbrs) /\ SampleLength(o, s)' = LengthIn(nbrs')
  BY DEF SampleLength, DrawnBy, NbrSize
<1>5. SampleLength(o, s)' = SampleLength(o, s)
  <2> HIDE DEF LengthIn
  <2> QED
    BY <1>4
<1>6. \A S : Larger(o, S)' <=> Larger(o, S)
  BY DEF Larger, Lag, NbrSize
<1> QED
  BY <1>1, <1>3, <1>5, <1>6 DEF LargerFrom
(* The test begins with no sample and no seed used.                        *)
Untested ==
  /\ perm = 0 /\ countLarger = 0 /\ workPermutation = <<>>
  /\ seedAt = seed_start /\ seed_start \in Seeds

LEMMA TestBegins == Untested => \E st, k : TestAt(st, k)
<1> SUFFICES ASSUME Untested PROVE \E st, k : TestAt(st, k)
  OBVIOUS
<1> DEFINE st == [p \in 0 .. 0 |-> seed_start]
<1>1. /\ st \in [0 .. perm -> Seeds] /\ st[0] = seedAt /\ st[perm] = seed_start
  BY DEF Untested
<1>2. \A p \in 1 .. perm : FALSE
  BY DEF Untested
<1>3. countLarger = Cardinality({p \in 0 .. perm - 1 : LargerFrom(cnt, st[p])})
  <2>1. {p \in 0 .. perm - 1 : LargerFrom(cnt, st[p])} = {}
    BY DEF Untested
  <2> QED
    BY <2>1, FS_EmptySet DEF Untested
<1>4. seed_start = (st[perm] + 0) % SeedMod
  <2>1. seed_start \in Nat
    BY DEF Untested, Seeds
  <2>2. seed_start % SeedMod = seed_start
    BY <2>1, SeedArithmetic DEF Untested
  <2> QED
    BY <1>1, <2>1, <2>2
<1>5. ToSet(workPermutation) = DrawnBy(cnt, st[perm], 0)
  BY <1>1, EmptySample, DrawnNext DEF Untested
<1>6. \A l \in 0 .. 0 - 1 : FALSE
  OBVIOUS
<1> HIDE DEF st
<1>7. TestAt(st, 0)
  BY <1>1, <1>2, <1>3, <1>4, <1>5, <1>6 DEF TestAt, CountedTo, DrawnSince, Untested
<1> QED
  BY <1>7

(* Whoever may be drawn has neighbours.                                    *)
LEMMA EligibleHasNeighbors ==
  ASSUME nbrs \in [Obs -> SUBSET Obs], NEW o
  PROVE  Eligible(o) = {n \in Obs \ {o} : NbrSize(n) > 0}
<1>1. ASSUME NEW n \in Obs PROVE nbrs[n] # {} <=> NbrSize(n) > 0
  <2>1. IsFiniteSet(nbrs[n]) /\ Cardinality(nbrs[n]) \in Nat
    BY NeighborCount
  <2>2. Cardinality(nbrs[n]) = 0 <=> nbrs[n] = {}
    BY <2>1, FS_EmptySet
  <2> QED
    BY <2>1, <2>2 DEF NbrSize
<1> QED
  BY <1>1 DEF Eligible

(* What is counted stays so while the permutation goes on.                 *)
LEMMA SameTest ==
  ASSUME UNCHANGED <<nbrs, row_standardize, cnt, perm, countLarger, seedAt>>,
         NEW st, CountedTo(st)
  PROVE  CountedTo(st)'
<1>1. /\ \A o : NbrSize(o)' = NbrSize(o)
      /\ \A o, q : SampleLength(o, q)' = SampleLength(o, q)
      /\ \A o, q : LargerFrom(o, q)' <=> LargerFrom(o, q)
  BY SameWeights
<1>2. \A p : LargerFrom(cnt, st[p])' <=> LargerFrom(cnt, st[p])
  BY <1>1
<1>3. (countLarger = Cardinality({p \in 0 .. perm - 1 : LargerFrom(cnt, st[p])}))'
  <2>1. {p \in 0 .. perm - 1 : LargerFrom(cnt, st[p])}'
          = {p \in 0 .. perm - 1 : LargerFrom(cnt, st[p])}
    BY <1>2
  <2> QED
    BY <2>1 DEF CountedTo
<1>4. (\A p \in 1 .. perm :
         st[p] = (st[p - 1] + SampleLength(cnt, st[p - 1])) % SeedMod)'
  BY <1>1 DEF CountedTo
<1>5. (NbrSize(cnt) = 0 => perm = 0)'
  BY <1>1 DEF CountedTo
<1> QED
  BY <1>3, <1>4, <1>5 DEF CountedTo

(* A draw uses one seed, and takes its candidate just if that is eligible  *)
(* and not taken yet.                                                      *)
LEMMA DrawTest == TestInvariant /\ Draw => TestInvariant'
<1> SUFFICES ASSUME TestInvariant, Draw PROVE TestInvariant'
  OBVIOUS
<1> DEFINE new == Candidate[seed_start]
<1>1. /\ SampleInvariant /\ SampleInvariant' /\ SampleSound
      /\ UNCHANGED <<nbrs, row_standardize, cnt, perm, countLarger, seedAt, obs_end>>
      /\ cnt \in Obs /\ ~Done /\ perm \in Nat /\ perm # NumPermutations
      /\ workPermutation \in Seq(Obs) /\ Len(workPermutation) < NbrSize(cnt)
      /\ seed_start' = NextSeed(seed_start) /\ new \in Obs
      /\ nbrs \in [Obs -> SUBSET Obs]
  BY DrawSample, NumbersAssumption, CandidateAssumption
     DEF TestInvariant, SampleInvariant, Draw, fixed, Done, Obs
<1>2. PICK st, k : TestAt(st, k)
  BY <1>1 DEF TestInvariant
<1>3. PICK s :
      /\ s = st[perm]
      /\ s \in Seeds /\ k \in Nat /\ s + k \in Nat
      /\ seed_start = (s + k) % SeedMod
      /\ ToSet(workPermutation) = DrawnBy(cnt, s, k)
  BY <1>1, <1>2 DEF TestAt, CountedTo, DrawnSince, Seeds
<1>4. seed_start' = (s + (k + 1)) % SeedMod
  <2>1. (seed_start + 1) % SeedMod = (s + k + 1) % SeedMod
    BY <1>3, SeedArithmetic
  <2>2. s + k + 1 = s + (k + 1)
    BY <1>3 DEF Seeds
  <2> QED
    BY <1>1, <2>1, <2>2 DEF NextSeed
<1>5. ToSet(workPermutation') = DrawnBy(cnt, s, k + 1)
  <2>1. DrawnBy(cnt, s, k + 1) = DrawnBy(cnt, s, k) \cup ({new} \cap Eligible(cnt))
    BY <1>3, DrawnNext
  <2>2. new \in Eligible(cnt) <=> new # cnt /\ NbrSize(new) > 0
    BY <1>1, EligibleHasNeighbors
  <2>3. CASE Accepted(new)
    <3>1. workPermutation' = Append(workPermutation, new)
      BY <2>3 DEF Draw
    <3>2. /\ DOMAIN workPermutation' = DOMAIN workPermutation \cup {Len(workPermutation) + 1}
          /\ workPermutation'[Len(workPermutation) + 1] = new
          /\ \A i \in DOMAIN workPermutation : workPermutation'[i] = workPermutation[i]
      BY <1>1, <3>1
    <3>3. ToSet(workPermutation') = ToSet(workPermutation) \cup {new}
      BY <3>2 DEF ToSet
    <3> QED
      BY <1>3, <2>1, <2>2, <2>3, <3>3 DEF Accepted
  <2>4. CASE ~Accepted(new)
    <3>1. workPermutation' = workPermutation
      BY <2>4 DEF Draw
    <3> QED
      BY <1>3, <2>1, <2>2, <2>4, <3>1 DEF Accepted, Belongs
  <2> QED
    BY <2>3, <2>4
<1>6. \A l \in 0 .. (k + 1) - 1 : Cardinality(DrawnBy(cnt, s, l)) < NbrSize(cnt)
  <2>1. Cardinality(DrawnBy(cnt, s, k)) < NbrSize(cnt)
    BY <1>1, <1>3, SampleSize DEF SampleSound
  <2>2. \A l \in 0 .. k - 1 : Cardinality(DrawnBy(cnt, s, l)) < NbrSize(cnt)
    BY <1>2, <1>3 DEF TestAt, DrawnSince
  <2> QED
    BY <1>3, <2>1, <2>2
<1>7. /\ \A o : NbrSize(o)' = NbrSize(o)
      /\ \A o, q, l : DrawnBy(o, q, l)' = DrawnBy(o, q, l)
  BY <1>1, SameWeights
<1>8. CountedTo(st)'
  BY <1>1, <1>2, SameTest DEF TestAt
<1>9. DrawnSince(s, k + 1)'
  BY <1>1, <1>3, <1>4, <1>5, <1>6, <1>7 DEF DrawnSince
<1>10. TestAt(st, k + 1)'
  BY <1>1, <1>3, <1>8, <1>9 DEF TestAt
<1> QED
  BY <1>1, <1>10 DEF TestInvariant
(* A full sample is counted, and is the one that begins where it began.    *)
LEMMA CompareTest == TestInvariant /\ Compare => TestInvariant'
<1> SUFFICES ASSUME TestInvariant, Compare PROVE TestInvariant'
  OBVIOUS
<1>1. /\ SampleInvariant /\ SampleInvariant' /\ SampleSound
      /\ UNCHANGED <<nbrs, row_standardize, cnt, seed_start, seedAt, obs_end>>
      /\ cnt \in Obs /\ ~Done /\ perm \in Nat /\ perm' = perm + 1
      /\ workPermutation \in Seq(Obs) /\ Len(workPermutation) = NbrSize(cnt)
      /\ NbrSize(cnt) > 0 /\ workPermutation' = <<>>
      /\ countLarger' = countLarger + (IF Larger(cnt, ToSet(workPermutation)) THEN 1 ELSE 0)
  BY CompareSample, ComparePops, NumbersAssumption
     DEF TestInvariant, SampleInvariant, Compare, fixed, Done, Obs
<1>2. PICK st, k : TestAt(st, k)
  BY <1>1 DEF TestInvariant
<1>3. PICK s, q :
      /\ s = st[perm] /\ s \in Seeds /\ q = seed_start /\ q \in Seeds
      /\ k \in Nat /\ q = (s + k) % SeedMod
      /\ ToSet(workPermutation) = DrawnBy(cnt, s, k)
      /\ \A l \in 0 .. k - 1 : Cardinality(DrawnBy(cnt, s, l)) < NbrSize(cnt)
  BY <1>1, <1>2 DEF TestAt, CountedTo, DrawnSince, SampleInvariant
<1>4. SampleLength(cnt, s) = k
  <2>1. Cardinality(DrawnBy(cnt, s, k)) = NbrSize(cnt)
    BY <1>1, <1>3, SampleSize DEF SampleSound
  <2>2. NbrSize(cnt) \in Nat
    BY <1>1, NeighborCount DEF SampleInvariant, NbrSize
  <2> QED
    BY <1>3, <2>1, <2>2, SampleLengthIs
<1>5. LargerFrom(cnt, s) <=> Larger(cnt, ToSet(workPermutation))
  BY <1>3, <1>4 DEF LargerFrom
<1>6. PICK next : next = [p \in 0 .. perm + 1 |-> IF p <= perm THEN st[p] ELSE q]
  OBVIOUS
<1>7. /\ next \in [0 .. perm + 1 -> Seeds]
      /\ next[perm + 1] = q /\ next[perm] = s
      /\ \A p \in 0 .. perm : next[p] = st[p]
  BY <1>1, <1>2, <1>3, <1>6 DEF TestAt, CountedTo
<1>8. /\ \A o : NbrSize(o)' = NbrSize(o)
      /\ \A o, z, l : DrawnBy(o, z, l)' = DrawnBy(o, z, l)
      /\ \A o, z : SampleLength(o, z)' = SampleLength(o, z)
      /\ \A o, z : LargerFrom(o, z)' <=> LargerFrom(o, z)
  BY <1>1, SameWeights
<1>9. countLarger' = Cardinality({p \in 0 .. perm : LargerFrom(cnt, next[p])})
  <2> DEFINE before == {p \in 0 .. perm - 1 : LargerFrom(cnt, st[p])}
             now == {p \in 0 .. perm : LargerFrom(cnt, next[p])}
  <2>1. now = IF LargerFrom(cnt, s) THEN before \cup {perm} ELSE before
    BY <1>1, <1>7
  <2>2. IsFiniteSet(before) /\ Cardinality(before) \in Nat
    <3>1. IsFiniteSet(0 .. perm - 1)
      BY <1>1, FS_Interval
    <3>2. before \subseteq 0 .. perm - 1
      OBVIOUS
    <3> QED
      BY <3>1, <3>2, FS_Subset, FS_CardinalityType
  <2>3. perm \notin before
    BY <1>1
  <2>4. countLarger = Cardinality(before)
    BY <1>2 DEF TestAt, CountedTo
  <2> HIDE DEF before, now
  <2>5. Cardinality(before \cup {perm}) = Cardinality(before) + 1
    BY <2>2, <2>3, FS_AddElement
  <2>6. Cardinality(now) = Cardinality(before) + (IF LargerFrom(cnt, s) THEN 1 ELSE 0)
    BY <2>1, <2>2, <2>5
  <2> QED
    BY <1>1, <1>5, <2>4, <2>6 DEF now
<1>10. \A p \in 1 .. perm + 1 :
         next[p] = (next[p - 1] + SampleLength(cnt, next[p - 1])) % SeedMod
  <2>1. \A p \in 1 .. perm : st[p] = (st[p - 1] + SampleLength(cnt, st[p - 1])) % SeedMod
    BY <1>2 DEF TestAt, CountedTo
  <2>2. next[perm + 1] = (next[perm] + SampleLength(cnt, next[perm])) % SeedMod
    BY <1>3, <1>4, <1>7
  <2>3. \A p \in 1 .. perm + 1 :
          p = perm + 1 \/ (p \in 1 .. perm /\ p - 1 \in 0 .. perm /\ p \in 0 .. perm)
    BY <1>1
  <2>4. (perm + 1) - 1 = perm
    BY <1>1
  <2> QED
    BY <1>7, <2>1, <2>2, <2>3, <2>4
<1>11. CountedTo(next)'
  <2>1. next[0] = seedAt
    BY <1>1, <1>2, <1>7 DEF TestAt, CountedTo
  <2>2. {p \in 0 .. perm - 1 : LargerFrom(cnt, next[p])}'
          = {p \in 0 .. perm : LargerFrom(cnt, next[p])}
    <3>1. (perm + 1) - 1 = perm
      BY <1>1
    <3> QED
      BY <1>1, <1>8, <3>1
  <2>3. (countLarger = Cardinality({p \in 0 .. perm - 1 : LargerFrom(cnt, next[p])}))'
    BY <1>9, <2>2
  <2>4. (\A p \in 1 .. perm :
           next[p] = (next[p - 1] + SampleLength(cnt, next[p - 1])) % SeedMod)'
    BY <1>1, <1>8, <1>10
  <2> QED
    BY <1>1, <1>7, <1>8, <2>1, <2>3, <2>4 DEF CountedTo
<1>12. DrawnSince(q, 0)'
  <2>1. q = (q + 0) % SeedMod
    <3>1. q \in Nat /\ q + 0 = q
      BY <1>3 DEF Seeds
    <3> QED
      BY <1>3, <3>1, SeedArithmetic
  <2>2. ToSet(workPermutation') = DrawnBy(cnt, q, 0)
    BY <1>1, <1>3, DrawnNext, EmptySample
  <2>3. \A l \in 0 .. 0 - 1 : FALSE
    OBVIOUS
  <2> QED
    BY <1>1, <1>3, <1>8, <2>1, <2>2, <2>3 DEF DrawnSince
<1>13. TestAt(next, 0)'
  BY <1>1, <1>7, <1>11, <1>12 DEF TestAt
<1> QED
  BY <1>1, <1>13 DEF TestInvariant
(* A set of numbers has a least one.                                       *)
LEMMA Least ==
  ASSUME NEW S \in SUBSET Nat, S # {}
  PROVE  \E x \in S : \A y \in S : x <= y
<1>1. PICK x \in S : \A y \in S : ~(<<y, x>> \in OpToRel(<, Nat))
  BY NatLessThanWellFounded, WFMin
<1>2. \A y \in S : ~(y < x)
  BY <1>1 DEF OpToRel
<1> QED
  BY <1>2

(* The beginnings that the loop has gone through are those that the test   *)
(* is defined by: two sequences that begin and go on alike are alike.      *)
LEMMA StartsAreThose ==
  ASSUME NEW o, NEW s, NEW st \in [0 .. NumPermutations -> Seeds], st[0] = s,
         \A p \in 1 .. NumPermutations :
           st[p] = (st[p - 1] + SampleLength(o, st[p - 1])) % SeedMod
  PROVE  PermutationStarts(o, s) = st
<1> DEFINE Begins(f) ==
             f = [p \in 0 .. NumPermutations |->
                    IF p = 0 THEN s ELSE (f[p - 1] + SampleLength(o, f[p - 1])) % SeedMod]
<1>1. Begins(st)
  BY NumbersAssumption
<1>2. PermutationStarts(o, s) = CHOOSE f : Begins(f)
  BY DEF PermutationStarts
<1>3. ASSUME NEW f, Begins(f) PROVE f = st
  <2> DEFINE Diff == {p \in 0 .. NumPermutations : f[p] # st[p]}
  <2>1. DOMAIN f = 0 .. NumPermutations /\ f = [p \in 0 .. NumPermutations |-> f[p]]
    BY <1>3
  <2>2. Diff = {}
    <3> SUFFICES ASSUME Diff # {} PROVE FALSE
      OBVIOUS
    <3>1. PICK x \in Diff : \A y \in Diff : x <= y
      <4>1. Diff \in SUBSET Nat
        BY NumbersAssumption
      <4> HIDE DEF Diff
      <4> QED
        BY <4>1, Least
    <3>2. x \in 0 .. NumPermutations /\ f[x] # st[x]
      BY <3>1
    <3>3. x # 0
      BY <1>3, <3>2, NumbersAssumption
    <3>4. x \in 1 .. NumPermutations /\ x - 1 \in 0 .. NumPermutations /\ x - 1 < x
      BY <3>2, <3>3, NumbersAssumption
    <3>5. f[x - 1] = st[x - 1]
      BY <3>1, <3>4
    <3>6. f[x] = (f[x - 1] + SampleLength(o, f[x - 1])) % SeedMod
      BY <1>3, <3>2, <3>3
    <3> QED
      BY <3>2, <3>4, <3>5, <3>6
  <2> QED
    BY <2>1, <2>2
<1> HIDE DEF Begins
<1> QED
  BY <1>1, <1>2, <1>3

(* When the last permutation is counted, the loop has the number and the   *)
(* place in the stream that the definitions give.                          *)
LEMMA TestIsDone ==
  ASSUME TestInvariant, ~Done, perm = NumPermutations
  PROVE  seed_start = SeedAfter(cnt, seedAt) /\ countLarger = CountLarger(cnt, seedAt)
<1>1. PICK st : TestAt(st, 0)
  BY DEF TestInvariant, TestAt, DrawnSince
<1>2. /\ st \in [0 .. NumPermutations -> Seeds] /\ st[0] = seedAt
      /\ \A p \in 1 .. NumPermutations :
           st[p] = (st[p - 1] + SampleLength(cnt, st[p - 1])) % SeedMod
      /\ countLarger = Cardinality({p \in 0 .. NumPermutations - 1 : LargerFrom(cnt, st[p])})
      /\ seed_start = (st[NumPermutations] + 0) % SeedMod
  BY <1>1 DEF TestAt, CountedTo, DrawnSince
<1>3. PermutationStarts(cnt, seedAt) = st
  BY <1>2, StartsAreThose
<1>4. seed_start = SeedAfter(cnt, seedAt)
  <2>1. st[NumPermutations] \in Seeds /\ st[NumPermutations] \in Nat
    BY <1>2, NumbersAssumption DEF Seeds
  <2>2. st[NumPermutations] % SeedMod = st[NumPermutations]
    BY <2>1, SeedArithmetic
  <2> QED
    BY <1>2, <1>3, <2>1, <2>2 DEF SeedAfter
<1>5. countLarger = CountLarger(cnt, seedAt)
  BY <1>2, <1>3 DEF CountLarger, LargerFrom
<1> QED
  BY <1>4, <1>5

(* An island's test is over before it begins.                              *)
LEMMA IsolateUsesNoSeed ==
  ASSUME TestInvariant, ~Done, NbrSize(cnt) = 0
  PROVE  seed_start = seedAt
<1>1. PICK st, k : TestAt(st, k)
  BY DEF TestInvariant
<1>2. perm = 0 /\ st[0] = seedAt /\ seedAt \in Seeds
  BY <1>1 DEF TestAt, CountedTo
<1>3. k = 0
  <2> SUFFICES ASSUME k # 0 PROVE FALSE
    OBVIOUS
  <2>1. Cardinality(DrawnBy(cnt, st[perm], 0)) < 0
    BY <1>1 DEF TestAt, DrawnSince
  <2>2. DrawnBy(cnt, st[perm], 0) = {}
    BY <1>2, DrawnNext
  <2> QED
    BY <2>1, <2>2, FS_EmptySet
<1>4. seed_start = (seedAt + 0) % SeedMod
  BY <1>1, <1>2, <1>3 DEF TestAt, DrawnSince
<1>5. seedAt \in Nat /\ seedAt % SeedMod = seedAt
  BY <1>2, SeedArithmetic DEF Seeds
<1> QED
  BY <1>4, <1>5
LEMMA InitTest == Init => TestInvariant
<1>1. Init => SampleInvariant /\ Untested
  BY InitSample DEF Init, Untested
<1> QED
  BY <1>1, TestBegins DEF TestInvariant

(* The next observation's test begins where this one's has ended.          *)
LEMMA NextObservationTest ==
  ASSUME SampleInvariant, NextObservation, workPermutation = <<>>
  PROVE  (\E st, k : TestAt(st, k))'
<1>1. Untested'
  BY DEF SampleInvariant, NextObservation, Untested
<1>2. (Untested => \E st, k : TestAt(st, k))'
  BY TestBegins, PTL
<1> QED
  BY <1>1, <1>2

(* A step that leaves everything as it is leaves the test where it is.     *)
LEMMA StutterTest == TestInvariant /\ UNCHANGED vars => TestInvariant'
<1> SUFFICES ASSUME TestInvariant, UNCHANGED vars PROVE TestInvariant'
  OBVIOUS
<1>1. UNCHANGED <<nbrs, row_standardize, obs_end, cnt, seed_start, perm, countLarger,
                  workPermutation, seedAt>>
  BY DEF vars
<1>2. SampleInvariant'
  BY NextSample DEF TestInvariant
<1>3. SUFFICES ASSUME ~Done PROVE (\E st, k : TestAt(st, k))'
  BY <1>1, <1>2 DEF TestInvariant, Done
<1>4. PICK st, k : TestAt(st, k)
  BY <1>3 DEF TestInvariant
<1>5. CountedTo(st)'
  BY <1>1, <1>4, SameTest DEF TestAt
<1>6. PICK s : s = st[perm] /\ DrawnSince(s, k)
  BY <1>4 DEF TestAt
<1>7. /\ \A o : NbrSize(o)' = NbrSize(o)
      /\ \A o, z, l : DrawnBy(o, z, l)' = DrawnBy(o, z, l)
  BY <1>1, SameWeights
<1>8. DrawnSince(s, k)'
  BY <1>1, <1>6, <1>7 DEF DrawnSince
<1>9. TestAt(st, k)'
  BY <1>1, <1>5, <1>6, <1>8 DEF TestAt
<1> QED
  BY <1>9

(* What each step does to the test.                                        *)
LEMMA NextTest == TestInvariant /\ [Next]_vars => TestInvariant'
<1> SUFFICES ASSUME TestInvariant, [Next]_vars PROVE TestInvariant'
  OBVIOUS
<1>1. SampleInvariant /\ SampleInvariant'
  BY NextSample DEF TestInvariant
<1>2. CASE Isolate
  <2>1. /\ cnt \in Obs /\ cnt <= obs_end /\ NbrSize(cnt) = 0 /\ obs_end \in Obs
        /\ NextObservation
    BY <1>1, <1>2, NumbersAssumption DEF Isolate, SampleInvariant, Obs
  <2>2. ~Done
    BY <2>1 DEF Done, Obs
  <2>3. Len(workPermutation) = 0 /\ workPermutation = <<>>
    BY <1>1, <2>1, <2>2 DEF SampleInvariant, SampleSound
  <2> QED
    BY <1>1, <2>1, <2>3, NextObservationTest DEF TestInvariant
<1>3. CASE Draw
  BY <1>3, DrawTest
<1>4. CASE Compare
  BY <1>4, CompareTest
<1>5. CASE Record
  <2>1. NextObservation /\ workPermutation = <<>>
    BY <1>1, <1>5 DEF Record, SampleInvariant
  <2> QED
    BY <1>1, <2>1, NextObservationTest DEF TestInvariant
<1>6. CASE UNCHANGED vars
  BY <1>6, StutterTest
<1> QED
  BY <1>2, <1>3, <1>4, <1>5, <1>6 DEF Next, Terminated

(* The loop does to an observation what the test of it is defined to be,   *)
(* whatever it has done before: from the seed at which it begins come the  *)
(* p-value, the category and the seed for the next one.  This is why       *)
(* module LocalSA may take a test as one step.                             *)
THEOREM TestIsOneStep == Spec => ObservationIsAtomic
<1> DEFINE Atomic ==
      LET p == PseudoP(CountLarger(cnt, seedAt), NumPermutations) IN
      /\ cnt' = cnt + 1
      /\ seed_start' = IF NbrSize(cnt) = 0 THEN seedAt ELSE SeedAfter(cnt, seedAt)
      /\ sig_local_vec' = IF NbrSize(cnt) = 0 THEN sig_local_vec
                          ELSE [sig_local_vec EXCEPT ![cnt] = p]
      /\ sig_cat_vec' = [sig_cat_vec EXCEPT ![cnt] =
                           IF NbrSize(cnt) = 0 THEN NeighborlessCat ELSE Category(p)]
<1>1. Spec => []TestInvariant
  BY InitTest, NextTest, PTL DEF Spec
<1>2. TestInvariant /\ [Next]_vars => [cnt' # cnt => Atomic]_vars
  <2> SUFFICES ASSUME TestInvariant, Next, cnt' # cnt PROVE Atomic
    OBVIOUS
  <2>1. cnt <= obs_end /\ cnt \in Obs /\ obs_end \in Obs /\ ~Done
    <3>1. Isolate \/ Record
      BY DEF Next, Draw, Compare, Terminated, fixed, vars
    <3>2. cnt \in 0 .. NumObs /\ obs_end \in Obs /\ cnt <= obs_end
      BY <3>1 DEF Isolate, Record, TestInvariant, SampleInvariant
    <3> QED
      BY <3>2, NumbersAssumption DEF Done, Obs
  <2>2. CASE Isolate
    <3>1. NbrSize(cnt) = 0 /\ NextObservation
      BY <2>2 DEF Isolate
    <3>2. seed_start = seedAt
      BY <2>1, <3>1, IsolateUsesNoSeed
    <3> QED
      BY <2>2, <3>1, <3>2 DEF Isolate, NextObservation
  <2>3. CASE Record
    <3>1. NbrSize(cnt) > 0 /\ perm = NumPermutations /\ NextObservation
      BY <2>3 DEF Record
    <3>2. seed_start = SeedAfter(cnt, seedAt) /\ countLarger = CountLarger(cnt, seedAt)
      BY <2>1, <3>1, TestIsDone
    <3>3. NbrSize(cnt) # 0
      BY <2>1, <3>1, NeighborCount DEF TestInvariant, SampleInvariant, NbrSize
    <3> QED
      BY <2>3, <3>1, <3>2, <3>3 DEF Record, NextObservation
  <2> QED
    BY <2>2, <2>3 DEF Next, Draw, Compare, Terminated, fixed, vars
<1>3. Spec => [][cnt' # cnt => Atomic]_vars
  BY <1>1, <1>2, PTL DEF Spec
<1> QED
  BY <1>3 DEF ObservationIsAtomic
-----------------------------------------------------------------------------
(***************************************************************************)
(* With too few candidates the loop does not end.                          *)
(***************************************************************************)

(* An observation ahead has too few candidates, and if it is the one at    *)
(* hand, not even its first sample is drawn.                               *)
Starved ==
  /\ \E o \in cnt .. obs_end : ~EnoughCandidates(o)
  /\ ~EnoughCandidates(cnt) => perm = 0

(* Neither an island nor a full sample is short of candidates.             *)
LEMMA EnoughFor ==
  ASSUME SampleInvariant, ~Done
  PROVE  /\ NbrSize(cnt) = 0 => EnoughCandidates(cnt)
         /\ Len(workPermutation) = NbrSize(cnt) => EnoughCandidates(cnt)
<1> DEFINE C == {n \in Obs \ {cnt} : nbrs[n] # {}}
<1>1. cnt \in Obs /\ workPermutation \in Seq(Obs) /\ nbrs \in [Obs -> SUBSET Obs]
  BY NumbersAssumption DEF SampleInvariant, Done, Obs
<1>2. IsFiniteSet(C) /\ Cardinality(C) \in Nat
  <2>1. IsFiniteSet(Obs)
    BY FS_Interval, NumbersAssumption DEF Obs
  <2> QED
    BY <2>1, FS_Subset, FS_CardinalityType
<1>3. NbrSize(cnt) \in Nat /\ NbrSize(cnt) = Cardinality(nbrs[cnt])
  BY <1>1, NeighborCount DEF NbrSize
<1>4. NbrSize(cnt) = 0 => EnoughCandidates(cnt)
  BY <1>2, <1>3 DEF EnoughCandidates
<1>5. Len(workPermutation) = NbrSize(cnt) => EnoughCandidates(cnt)
  <2>1. ToSet(workPermutation) \subseteq C
    <3>1. ToSet(workPermutation) \subseteq Obs
      BY <1>1 DEF ToSet
    <3>2. \A o \in ToSet(workPermutation) : o # cnt /\ NbrSize(o) > 0
      BY DEF SampleInvariant, SampleSound
    <3>3. C = {n \in Obs \ {cnt} : NbrSize(n) > 0}
      BY <1>1, EligibleHasNeighbors DEF Eligible
    <3> HIDE DEF C
    <3> QED
      BY <3>1, <3>2, <3>3
  <2>2. Cardinality(ToSet(workPermutation)) <= Cardinality(C)
    BY <1>2, <2>1, FS_Subset
  <2>3. Cardinality(ToSet(workPermutation)) = Len(workPermutation)
    BY <1>1, SampleSize DEF SampleInvariant, SampleSound
  <2> QED
    BY <1>2, <1>3, <2>2, <2>3 DEF EnoughCandidates
<1> QED
  BY <1>4, <1>5

(* If an observation has fewer candidates than neighbours, the thread that *)
(* comes to it never returns, provided that there is a permutation to      *)
(* draw: for all weights that somebody may bring, and every stream.        *)
THEOREM StarvedRunsForever ==
  ASSUME NumPermutations > 0
  PROVE  Spec => ((\E o \in cnt .. obs_end : ~EnoughCandidates(o)) => []~Done)
<1>1. Init /\ (\E o \in cnt .. obs_end : ~EnoughCandidates(o)) => Starved
  BY DEF Init, Starved
<1>2. SampleInvariant /\ Starved /\ [Next]_vars => Starved'
  <2> SUFFICES ASSUME SampleInvariant, Starved, [Next]_vars PROVE Starved'
    OBVIOUS
  <2>1. PICK x \in cnt .. obs_end : ~EnoughCandidates(x)
    BY DEF Starved
  <2>2. /\ cnt \in Nat /\ obs_end \in Nat /\ x \in Nat /\ cnt <= x /\ x <= obs_end
        /\ ~Done
    BY <2>1, NumbersAssumption DEF SampleInvariant, Obs, Done
  <2>3. nbrs' = nbrs /\ obs_end' = obs_end
    BY DEF Next, Isolate, Record, NextObservation, Draw, Compare, Terminated, fixed, vars
  <2>4. \A o : EnoughCandidates(o)' <=> EnoughCandidates(o)
    BY <2>3 DEF EnoughCandidates
  <2>5. CASE cnt' = cnt /\ perm' = perm
    BY <2>3, <2>4, <2>5 DEF Starved
  <2>6. CASE NextObservation /\ EnoughCandidates(cnt)
    <3>1. cnt' = cnt + 1 /\ perm' = 0
      BY <2>6 DEF NextObservation
    <3>2. x \in cnt' .. obs_end'
      BY <2>1, <2>2, <2>3, <2>6, <3>1
    <3> QED
      BY <2>1, <2>4, <3>1, <3>2 DEF Starved
  <2>7. CASE Isolate
    BY <2>2, <2>6, <2>7, EnoughFor DEF Isolate
  <2>8. CASE Record
    <3>1. perm # 0
      BY <2>8, NumbersAssumption DEF Record
    <3> QED
      BY <2>6, <2>8, <3>1 DEF Record, Starved
  <2>9. CASE Compare
    <3>1. cnt' = cnt /\ EnoughCandidates(cnt)
      BY <2>2, <2>9, EnoughFor DEF Compare
    <3> QED
      BY <2>3, <2>4, <3>1 DEF Starved
  <2> QED
    BY <2>5, <2>7, <2>8, <2>9 DEF Next, Draw, Terminated, vars
<1>3. SampleInvariant /\ Starved => ~Done
  BY NumbersAssumption DEF SampleInvariant, Starved, Done, Obs
<1>4. Init => SampleInvariant
  BY InitSample
<1>5. SampleInvariant /\ [Next]_vars => SampleInvariant'
  BY NextSample
<1> QED
  BY <1>1, <1>2, <1>3, <1>4, <1>5, PTL DEF Spec
-----------------------------------------------------------------------------
(***************************************************************************)
(* With enough candidates the test is what module LocalSA assumes of it.   *)
(***************************************************************************)

(* Counting from any seed one comes to every other within one period.      *)
LEMMA EverySeedComes ==
  ASSUME NEW s \in Seeds, NEW t \in Seeds
  PROVE  \E j \in 0 .. SeedMod - 1 : (s + j) % SeedMod = t
<1> DEFINE j == IF s <= t THEN t - s ELSE t - s + SeedMod
<1>1. /\ SeedMod \in Nat \ {0} /\ s \in 0 .. SeedMod - 1 /\ t \in 0 .. SeedMod - 1
      /\ t \in Nat
  BY NumbersAssumption DEF Seeds
<1>2. t % SeedMod = t /\ (t + SeedMod) % SeedMod = t
  BY <1>1, SeedArithmetic
<1>3. j \in 0 .. SeedMod - 1 /\ (s + j = t \/ s + j = t + SeedMod)
  BY <1>1
<1>4. (s + j) % SeedMod = t
  BY <1>2, <1>3
<1> HIDE DEF j
<1> QED
  BY <1>3, <1>4

(* While a sample is not full, a candidate that it can take comes within   *)
(* one period of the seeds: the wait of the sampling loop is bounded, and  *)
(* by a number that no observation and no permutation before it changes.   *)
THEOREM AcceptableComes ==
  Spec => [](~Done /\ EnoughCandidates(cnt) /\ Len(workPermutation) < NbrSize(cnt)
               => \E j \in 0 .. SeedMod - 1 :
                    Accepted(Candidate[(seed_start + j) % SeedMod]))
<1>1. ASSUME SampleInvariant, ~Done, EnoughCandidates(cnt),
             Len(workPermutation) < NbrSize(cnt)
      PROVE  \E j \in 0 .. SeedMod - 1 :
               Accepted(Candidate[(seed_start + j) % SeedMod])
  <2>1. /\ cnt \in Obs /\ workPermutation \in Seq(Obs) /\ nbrs \in [Obs -> SUBSET Obs]
        /\ seed_start \in Seeds
    BY <1>1, NumbersAssumption DEF SampleInvariant, Done, Obs
  <2>2. IsFiniteSet(ToSet(workPermutation))
        /\ Cardinality(ToSet(workPermutation)) = Len(workPermutation)
    BY <1>1, <2>1, SampleSize DEF SampleInvariant, SampleSound
  <2>3. Cardinality(Eligible(cnt)) >= NbrSize(cnt)
    BY <1>1 DEF EnoughCandidates, Eligible, NbrSize
  <2>4. PICK x \in Eligible(cnt) : x \notin ToSet(workPermutation)
    <3> SUFFICES ASSUME Eligible(cnt) \subseteq ToSet(workPermutation) PROVE FALSE
      OBVIOUS
    <3>1. Cardinality(Eligible(cnt)) <= Cardinality(ToSet(workPermutation))
      BY <2>2, FS_Subset
    <3>2. /\ Cardinality(Eligible(cnt)) \in Nat /\ NbrSize(cnt) \in Nat
          /\ Len(workPermutation) \in Nat
      BY <2>1, <2>2, FS_Subset, FS_CardinalityType, NeighborCount DEF NbrSize
    <3> QED
      BY <1>1, <2>2, <2>3, <3>1, <3>2
  <2>5. x \in Obs /\ x # cnt /\ NbrSize(x) > 0
    BY <2>1, <2>4, EligibleHasNeighbors
  <2>6. PICK t \in Seeds : Candidate[t] = x
    BY <2>5, CandidateAssumption
  <2>7. PICK j \in 0 .. SeedMod - 1 : (seed_start + j) % SeedMod = t
    BY <2>1, EverySeedComes
  <2>8. Accepted(Candidate[(seed_start + j) % SeedMod])
    BY <2>4, <2>5, <2>6, <2>7 DEF Accepted, Belongs
  <2> QED
    BY <2>8
<1>2. Spec => []SampleInvariant
  BY InitSample, NextSample, PTL DEF Spec
<1> QED
  BY <1>1, <1>2, PTL

(* The sample grows by one candidate at most, and in one period to all.    *)
LEMMA DrawnGrows ==
  ASSUME NEW o, NEW s \in Seeds
  PROVE  /\ \A k \in Nat : /\ Cardinality(DrawnBy(o, s, k)) \in Nat
                           /\ Cardinality(DrawnBy(o, s, k + 1))
                                <= Cardinality(DrawnBy(o, s, k)) + 1
         /\ DrawnBy(o, s, SeedMod) = Eligible(o)
<1>1. ASSUME NEW k \in Nat
      PROVE  /\ Cardinality(DrawnBy(o, s, k)) \in Nat
             /\ Cardinality(DrawnBy(o, s, k + 1)) <= Cardinality(DrawnBy(o, s, k)) + 1
  <2> DEFINE S == DrawnBy(o, s, k)
             c == Candidate[(s + k) % SeedMod]
  <2>1. IsFiniteSet(Obs)
    BY FS_Interval, NumbersAssumption DEF Obs
  <2>2. IsFiniteSet(S) /\ Cardinality(S) \in Nat
    BY <2>1, FS_Subset, FS_CardinalityType DEF DrawnBy
  <2>3. DrawnBy(o, s, k + 1) = S \/ DrawnBy(o, s, k + 1) = S \cup {c}
    <3>1. DrawnBy(o, s, k + 1) = S \cup ({c} \cap Eligible(o))
      BY DrawnNext
    <3> HIDE DEF S, c
    <3> QED
      BY <3>1
  <2> HIDE DEF S, c
  <2>4. Cardinality(S \cup {c}) \in {Cardinality(S), Cardinality(S) + 1}
    BY <2>2, FS_AddElement
  <2> QED
    BY <2>2, <2>3, <2>4 DEF S
<1>2. ASSUME NEW x \in Eligible(o) PROVE x \in DrawnBy(o, s, SeedMod)
  <2>1. PICK t \in Seeds : Candidate[t] = x
    BY CandidateAssumption DEF Eligible
  <2>2. PICK j \in 0 .. SeedMod - 1 : (s + j) % SeedMod = t
    BY EverySeedComes
  <2> QED
    BY <2>1, <2>2 DEF DrawnBy, Eligible
<1>3. DrawnBy(o, s, SeedMod) \subseteq Eligible(o)
  BY DEF DrawnBy, Eligible
<1> QED
  BY <1>1, <1>2, <1>3

(* No sample takes more than one period.                                   *)
LEMMA SampleIsShort ==
  ASSUME NEW o, NEW s \in Seeds, NbrSize(o) \in Nat, EnoughCandidates(o)
  PROVE  SampleLength(o, s) \in 0 .. SeedMod
<1> DEFINE C(k) == Cardinality(DrawnBy(o, s, k))
           Full == {k \in Nat : C(k) >= NbrSize(o)}
<1>1. SeedMod \in Nat
  BY NumbersAssumption
<1>2. SeedMod \in Full
  BY <1>1, DrawnGrows DEF EnoughCandidates, Eligible, NbrSize
<1>3. PICK k \in Full : \A l \in Full : k <= l
  <2>1. Full \in SUBSET Nat
    OBVIOUS
  <2> HIDE DEF Full
  <2> QED
    BY <1>2, <2>1, Least
<1>4. k \in 0 .. SeedMod /\ k \in Nat /\ C(k) >= NbrSize(o) /\ C(k) \in Nat
  BY <1>1, <1>2, <1>3, DrawnGrows
<1>5. \A l \in 0 .. k - 1 : C(l) < NbrSize(o)
  <2> SUFFICES ASSUME NEW l \in 0 .. k - 1 PROVE C(l) < NbrSize(o)
    OBVIOUS
  <2>1. l \in Nat /\ ~(k <= l)
    BY <1>4
  <2>2. l \notin Full
    BY <1>3, <2>1
  <2>3. C(l) \in Nat
    BY <2>1, DrawnGrows
  <2> QED
    BY <2>1, <2>2, <2>3
<1>6. C(k) = NbrSize(o)
  <2>1. CASE k = 0
    <3>1. C(0) = 0
      BY DrawnNext, FS_EmptySet
    <3> QED
      BY <1>4, <2>1, <3>1
  <2>2. CASE k # 0
    <3>1. k - 1 \in Nat /\ (k - 1) + 1 = k /\ k - 1 \in 0 .. k - 1
      BY <1>4, <2>2
    <3>2. C(k - 1) \in Nat /\ C((k - 1) + 1) <= C(k - 1) + 1
      BY <3>1, DrawnGrows
    <3>3. C(k) <= C(k - 1) + 1 /\ C(k - 1) < NbrSize(o)
      BY <1>5, <3>1, <3>2
    <3> QED
      BY <1>4, <3>2, <3>3
  <2> QED
    BY <2>1, <2>2
<1>7. SampleLength(o, s) = k
  BY <1>4, <1>5, <1>6, SampleLengthIs
<1> QED
  BY <1>4, <1>7
(* The beginnings of the permutations exist, up to any of them.            *)
LEMMA StartsExist ==
  ASSUME NEW o, NEW s \in Seeds, NbrSize(o) \in Nat, EnoughCandidates(o), NEW n \in Nat
  PROVE  \E st \in [0 .. n -> Seeds] :
           /\ st[0] = s
           /\ \A p \in 1 .. n : st[p] = (st[p - 1] + SampleLength(o, st[p - 1])) % SeedMod
<1> DEFINE Upto(m, st) ==
             /\ st \in [0 .. m -> Seeds] /\ st[0] = s
             /\ \A p \in 1 .. m : st[p] = (st[p - 1] + SampleLength(o, st[p - 1])) % SeedMod
           Missing == {m \in Nat : \A st : ~Upto(m, st)}
<1>1. SUFFICES ASSUME Missing # {} PROVE FALSE
  OBVIOUS
<1>2. PICK m \in Missing : \A l \in Missing : m <= l
  <2>1. Missing \in SUBSET Nat
    OBVIOUS
  <2> HIDE DEF Missing
  <2> QED
    BY <1>1, <2>1, Least
<1>3. m \in Nat /\ \A st : ~Upto(m, st)
  BY <1>2
<1>4. m # 0
  <2>1. PICK st : st = [p \in 0 .. 0 |-> s]
    OBVIOUS
  <2>2. Upto(0, st)
    BY <2>1
  <2> QED
    BY <1>3, <2>2
<1>5. m - 1 \in Nat /\ (m - 1) + 1 = m
  BY <1>3, <1>4
<1>6. PICK st : Upto(m - 1, st)
  <2>1. m - 1 \notin Missing
    <3>1. ~(m <= m - 1)
      BY <1>3
    <3> HIDE DEF Missing
    <3> QED
      BY <1>2, <3>1
  <2> QED
    BY <1>5, <2>1
<1>7. PICK q : q = (st[m - 1] + SampleLength(o, st[m - 1])) % SeedMod
  OBVIOUS
<1>8. q \in Seeds
  <2>1. st[m - 1] \in Seeds
    BY <1>5, <1>6
  <2>2. SampleLength(o, st[m - 1]) \in 0 .. SeedMod
    BY <2>1, SampleIsShort
  <2>3. st[m - 1] + SampleLength(o, st[m - 1]) \in Nat
    BY <2>1, <2>2, NumbersAssumption DEF Seeds
  <2> QED
    BY <1>7, <2>3, SeedArithmetic
<1>9. PICK next : next = [p \in 0 .. m |-> IF p = m THEN q ELSE st[p]]
  OBVIOUS
<1>10. /\ next \in [0 .. m -> Seeds] /\ next[m] = q
       /\ \A p \in 0 .. m - 1 : next[p] = st[p]
  BY <1>3, <1>5, <1>6, <1>8, <1>9
<1>11. ASSUME NEW p \in 1 .. m
       PROVE  next[p] = (next[p - 1] + SampleLength(o, next[p - 1])) % SeedMod
  <2>1. p - 1 \in 0 .. m - 1 /\ next[p - 1] = st[p - 1]
    BY <1>3, <1>10
  <2>2. CASE p = m
    BY <1>7, <1>10, <2>1, <2>2
  <2>3. CASE p # m
    <3>1. p \in 1 .. m - 1 /\ p \in 0 .. m - 1
      BY <1>3, <2>3
    <3> QED
      BY <1>6, <1>10, <2>1, <3>1
  <2> QED
    BY <2>2, <2>3
<1>12. next[0] = s
  BY <1>5, <1>6, <1>10
<1> QED
  BY <1>3, <1>10, <1>11, <1>12

(* The test of an observation that has enough candidates counts no more    *)
(* permutations than there are and leaves the stream at a seed, wherever   *)
(* it begins.  It is the assumption that module LocalSA makes about        *)
(* CountLarger and SeedAfter, and not true of other weights.               *)
THEOREM TestsAreAsAssumed ==
  Spec => [](\A o \in Obs, s \in Seeds :
               EnoughCandidates(o) => /\ CountLarger(o, s) \in 0 .. NumPermutations
                                      /\ SeedAfter(o, s) \in Seeds)
<1>1. ASSUME SampleInvariant, NEW o \in Obs, NEW s \in Seeds, EnoughCandidates(o)
      PROVE  CountLarger(o, s) \in 0 .. NumPermutations /\ SeedAfter(o, s) \in Seeds
  <2>1. NbrSize(o) \in Nat /\ NumPermutations \in Nat
    BY <1>1, NeighborCount, NumbersAssumption DEF SampleInvariant, NbrSize
  <2>2. PICK st \in [0 .. NumPermutations -> Seeds] :
          /\ st[0] = s
          /\ \A p \in 1 .. NumPermutations :
               st[p] = (st[p - 1] + SampleLength(o, st[p - 1])) % SeedMod
    BY <1>1, <2>1, StartsExist
  <2>3. PermutationStarts(o, s) = st
    BY <2>2, StartsAreThose
  <2>4. SeedAfter(o, s) \in Seeds
    <3>1. SeedAfter(o, s) = st[NumPermutations]
      BY <2>3 DEF SeedAfter
    <3> QED
      BY <2>1, <2>2, <3>1
  <2>5. CountLarger(o, s) \in 0 .. NumPermutations
    <3> DEFINE Ps == {p \in 0 .. NumPermutations - 1 : LargerFrom(o, st[p])}
    <3>1. CountLarger(o, s) = Cardinality(Ps)
      BY <2>3 DEF CountLarger, LargerFrom
    <3>2. /\ IsFiniteSet(0 .. NumPermutations - 1)
          /\ Cardinality(0 .. NumPermutations - 1) = NumPermutations
      <4>1. PICK b \in Int : b = NumPermutations - 1
        BY <2>1
      <4>2. IsFiniteSet(0 .. b) /\ Cardinality(0 .. b) = IF 0 > b THEN 0 ELSE b - 0 + 1
        BY FS_Interval
      <4>3. (IF 0 > b THEN 0 ELSE b - 0 + 1) = NumPermutations
        BY <2>1, <4>1
      <4> QED
        BY <4>1, <4>2, <4>3
    <3>3. Ps \subseteq 0 .. NumPermutations - 1
      OBVIOUS
    <3> HIDE DEF Ps
    <3>4. IsFiniteSet(Ps) /\ Cardinality(Ps) <= Cardinality(0 .. NumPermutations - 1)
      BY <3>2, <3>3, FS_Subset
    <3>5. Cardinality(Ps) \in Nat /\ Cardinality(Ps) <= NumPermutations
      BY <3>2, <3>4, FS_CardinalityType
    <3> QED
      BY <2>1, <3>1, <3>5
  <2> QED
    BY <2>4, <2>5
<1>2. SampleInvariant => \A o \in Obs, s \in Seeds :
        EnoughCandidates(o) => /\ CountLarger(o, s) \in 0 .. NumPermutations
                               /\ SeedAfter(o, s) \in Seeds
  BY <1>1
<1>3. Spec => []SampleInvariant
  BY InitSample, NextSample, PTL DEF Spec
<1> QED
  BY <1>2, <1>3, PTL
=============================================================================
