---------------------------- MODULE LocalSAProofs ----------------------------
(***************************************************************************)
(* The object of module LocalSA is correct for every number of             *)
(* observations, every weights and data, every number of threads and every *)
(* permutation test: whatever CountLarger and SeedAfter are.               *)
(*                                                                         *)
(* Invariant is inductive.  It says of every worker where in its chunk it  *)
(* is, that what is behind it is tested rightly and what is ahead is not   *)
(* tested, and where its stream goes on; the rest follows from it and from *)
(* the theorems about the division of work.                                *)
(***************************************************************************)
EXTENDS LocalSAProperties, WellFoundedInduction, TLAPS

(***************************************************************************)
(* The division of the observations among the threads is an exact cover    *)
(* for every number of observations and every positive number of CPUs.     *)
(***************************************************************************)

(* The facts about \div and % that everything below rests on.              *)
LEMMA DivMod ==
  ASSUME NEW n \in Nat, NEW c \in Nat \ {0}
  PROVE  /\ Quotient(n, c) \in Nat
         /\ Remainder(n, c) \in 0 .. c - 1
         /\ n = c * Quotient(n, c) + Remainder(n, c)
BY SMT DEF Quotient, Remainder

LEMMA ProductMonotone ==
  ASSUME NEW i \in Nat, NEW j \in Nat, NEW q \in Nat, i <= j
  PROVE  i * q <= j * q
BY SMT

(* The thread count: c threads when there is at least one observation for  *)
(* each, otherwise one thread for each observation; never more threads     *)
(* than observations.                                                      *)
LEMMA ThreadCount ==
  ASSUME NEW n \in Nat, NEW c \in Nat \ {0}
  PROVE  /\ TotThreads(n, c) \in Nat
         /\ Quotient(n, c) > 0 => TotThreads(n, c) = c
         /\ Quotient(n, c) = 0 => TotThreads(n, c) = n /\ Remainder(n, c) = n
         /\ Remainder(n, c) <= TotThreads(n, c)
         /\ TotThreads(n, c) <= n
<1> DEFINE q == Quotient(n, c)
           r == Remainder(n, c)
<1>1. q \in Nat /\ r \in 0 .. c - 1 /\ n = c * q + r
  BY DivMod
<1>2. TotThreads(n, c) = IF q > 0 THEN c ELSE r
  BY DEF TotThreads
<1> HIDE DEF q, r
<1>3. CASE q = 0
  <2>1. n = r
    BY <1>1, <1>3
  <2> QED BY <1>1, <1>2, <1>3, <2>1 DEF q, r
<1>4. CASE q > 0
  <2>1. 1 <= q /\ c <= c * q
    BY <1>1, <1>4
  <2> QED BY <1>1, <1>2, <1>4, <2>1 DEF q, r
<1> QED BY <1>1, <1>3, <1>4

(* The two branches of the code as one formula.                            *)
LEMMA StartForm ==
  ASSUME NEW n \in Nat, NEW c \in Nat \ {0}, NEW i \in Nat
  PROVE  /\ ChunkStart(n, c, i) =
              i * Quotient(n, c)
                + (IF i < Remainder(n, c) THEN i ELSE Remainder(n, c))
         /\ ChunkStart(n, c, i) \in Nat
         /\ ChunkEnd(n, c, i) \in Int
<1> DEFINE q == Quotient(n, c)
           r == Remainder(n, c)
<1>1. q \in Nat /\ r \in Nat
  BY DivMod
<1>2. ChunkStart(n, c, i) =
        IF i < r THEN i * (q + 1) ELSE r * (q + 1) + (i - r) * q
  BY DEF ChunkStart
<1>3. ChunkEnd(n, c, i) =
        ChunkStart(n, c, i) + (IF i < r THEN q ELSE q - 1)
  BY DEF ChunkEnd
<1> HIDE DEF q, r
<1>4. i * (q + 1) = i * q + i
  BY <1>1
<1>5. r * (q + 1) + (i - r) * q = i * q + r
  BY <1>1
<1>6. i * q \in Nat
  BY <1>1
<1>7. ChunkStart(n, c, i) = i * q + (IF i < r THEN i ELSE r)
  BY <1>1, <1>2, <1>4, <1>5
<1>8. ChunkStart(n, c, i) \in Nat
  BY <1>1, <1>6, <1>7
<1>9. ChunkEnd(n, c, i) \in Int
  BY <1>1, <1>3, <1>8
<1> QED BY <1>7, <1>8, <1>9 DEF q, r

(* A thread starts right after the last observation of the one before.     *)
LEMMA NextStart ==
  ASSUME NEW n \in Nat, NEW c \in Nat \ {0}, NEW i \in Nat
  PROVE  ChunkStart(n, c, i + 1) = ChunkEnd(n, c, i) + 1
<1> DEFINE q == Quotient(n, c)
           r == Remainder(n, c)
<1>1. q \in Nat /\ r \in Nat
  BY DivMod
<1>2. ChunkStart(n, c, i) = i * q + (IF i < r THEN i ELSE r)
  BY StartForm
<1>3. ChunkStart(n, c, i + 1) =
        (i + 1) * q + (IF i + 1 < r THEN i + 1 ELSE r)
  BY StartForm
<1>4. ChunkEnd(n, c, i) =
        ChunkStart(n, c, i) + (IF i < r THEN q ELSE q - 1)
  BY DEF ChunkEnd
<1> HIDE DEF q, r
<1>5. (i + 1) * q = i * q + q /\ i * q \in Nat
  BY <1>1
<1> QED BY <1>1, <1>2, <1>3, <1>4, <1>5

LEMMA StartMonotone ==
  ASSUME NEW n \in Nat, NEW c \in Nat \ {0},
         NEW i \in Nat, NEW j \in Nat, i <= j
  PROVE  ChunkStart(n, c, i) <= ChunkStart(n, c, j)
<1> DEFINE q == Quotient(n, c)
           r == Remainder(n, c)
<1>1. q \in Nat /\ r \in Nat
  BY DivMod
<1>2. ChunkStart(n, c, i) = i * q + (IF i < r THEN i ELSE r)
  BY StartForm
<1>3. ChunkStart(n, c, j) = j * q + (IF j < r THEN j ELSE r)
  BY StartForm
<1> HIDE DEF q, r
<1>4. i * q <= j * q /\ i * q \in Nat /\ j * q \in Nat
  BY <1>1, ProductMonotone
<1> QED BY <1>1, <1>2, <1>3, <1>4

(* The intervals begin at 0, and the one after the last would begin at n.  *)
LEMMA FirstAndLast ==
  ASSUME NEW n \in Nat, NEW c \in Nat \ {0}
  PROVE  /\ ChunkStart(n, c, 0) = 0
         /\ ChunkStart(n, c, TotThreads(n, c)) = n
<1> DEFINE q == Quotient(n, c)
           r == Remainder(n, c)
           t == TotThreads(n, c)
<1>1. q \in Nat /\ r \in Nat /\ r < c /\ n = c * q + r
  BY DivMod
<1>2. t \in Nat /\ r <= t /\ (q > 0 => t = c) /\ (q = 0 => t = n /\ r = n)
  BY ThreadCount
<1>3. ChunkStart(n, c, 0) = 0 * q + (IF 0 < r THEN 0 ELSE r)
  BY StartForm
<1>4. ChunkStart(n, c, t) = t * q + (IF t < r THEN t ELSE r)
  BY <1>2, StartForm
<1> HIDE DEF q, r, t
<1>5. ChunkStart(n, c, 0) = 0
  BY <1>1, <1>3
<1>6. t * q + r = n
  <2>1. CASE q = 0
    BY <1>1, <1>2, <2>1
  <2>2. CASE q > 0
    BY <1>1, <1>2, <2>2
  <2> QED BY <1>1, <2>1, <2>2
<1>7. ChunkStart(n, c, t) = n
  BY <1>1, <1>2, <1>4, <1>6
<1> QED BY <1>5, <1>7 DEF t

(* Every thread's interval is within bounds and holds an observation.      *)
LEMMA ChunkBounds ==
  ASSUME NEW n \in Nat, NEW c \in Nat \ {0}, NEW i \in Threads(n, c)
  PROVE  /\ i \in Nat
         /\ ChunkStart(n, c, i) \in 0 .. n - 1
         /\ ChunkEnd(n, c, i) \in 0 .. n - 1
         /\ ChunkStart(n, c, i) <= ChunkEnd(n, c, i)
<1> DEFINE q == Quotient(n, c)
           r == Remainder(n, c)
           t == TotThreads(n, c)
           s(k) == ChunkStart(n, c, k)
           e(k) == ChunkEnd(n, c, k)
<1>1. t \in Nat /\ q \in Nat /\ r \in Nat
  BY DivMod, ThreadCount
<1>2. i \in Nat /\ i + 1 \in Nat /\ i + 1 <= t
  BY <1>1 DEF Threads
<1>3. s(i + 1) <= n
  BY <1>1, <1>2, StartMonotone, FirstAndLast
<1>4. s(i) \in Nat /\ e(i) \in Int /\ s(i + 1) = e(i) + 1
  BY <1>2, StartForm, NextStart
<1>5. s(i) <= e(i)
  <2>1. e(i) = s(i) + (IF i < r THEN q ELSE q - 1)
    BY DEF ChunkEnd
  <2>2. q = 0 => t = r
    BY ThreadCount
  <2> HIDE DEF q, r, t, s, e
  <2> QED BY <1>1, <1>2, <1>4, <2>1, <2>2
<1> HIDE DEF s, e
<1>6. s(i) \in 0 .. n - 1 /\ e(i) \in 0 .. n - 1
  BY <1>3, <1>4, <1>5
<1> QED BY <1>2, <1>5, <1>6 DEF s, e

(* A later thread starts after the end of an earlier one.                  *)
LEMMA ChunksOrdered ==
  ASSUME NEW n \in Nat, NEW c \in Nat \ {0},
         NEW i \in Threads(n, c), NEW j \in Threads(n, c), i < j
  PROVE  ChunkEnd(n, c, i) < ChunkStart(n, c, j)
<1>1. i \in Nat /\ j \in Nat /\ i + 1 \in Nat
  BY ChunkBounds
<1>2. ChunkStart(n, c, i + 1) <= ChunkStart(n, c, j)
  BY <1>1, StartMonotone
<1>3. ChunkStart(n, c, i + 1) = ChunkEnd(n, c, i) + 1
  BY <1>1, NextStart
<1>4. ChunkStart(n, c, j) \in Int /\ ChunkEnd(n, c, i) \in Int
  BY <1>1, StartForm
<1> QED BY <1>2, <1>3, <1>4

(* The thread that an observation belongs to.                              *)
LEMMA ChunkOfObservation ==
  ASSUME NEW n \in Nat, NEW c \in Nat \ {0}, NEW o \in 0 .. n - 1
  PROVE  \E i \in Threads(n, c) : o \in Chunk(n, c, i)
<1> DEFINE q == Quotient(n, c)
           r == Remainder(n, c)
           t == TotThreads(n, c)
           s(k) == ChunkStart(n, c, k)
<1>1. q \in Nat /\ r \in Nat /\ r < c /\ n = c * q + r /\ t \in Nat /\ r <= t
      /\ (q > 0 => t = c) /\ (q = 0 => r = n)
  BY DivMod, ThreadCount
<1>2. ASSUME NEW i \in Nat, s(i) <= o, o < s(i + 1)
      PROVE  o \in Chunk(n, c, i) /\ i \in Threads(n, c)
  <2>1. s(i + 1) = ChunkEnd(n, c, i) + 1 /\ ChunkEnd(n, c, i) \in Int
        /\ s(i) \in Nat
    BY NextStart, StartForm
  <2>2. o \in Chunk(n, c, i)
    BY <1>2, <2>1 DEF Chunk
  <2>3. i < t
    <3>1. t <= i => s(t) <= s(i)
      BY <1>1, StartMonotone
    <3>2. s(t) = n
      BY FirstAndLast
    <3> HIDE DEF s, t
    <3> QED BY <1>1, <1>2, <2>1, <3>1, <3>2
  <2>4. i \in Threads(n, c)
    BY <1>1, <2>3 DEF Threads
  <2> QED BY <2>2, <2>4
<1>3. ASSUME NEW i \in Nat
      PROVE  /\ s(i) = i * q + (IF i < r THEN i ELSE r)
             /\ s(i + 1) = i * q + q + (IF i + 1 < r THEN i + 1 ELSE r)
  <2>1. s(i) = i * q + (IF i < r THEN i ELSE r)
    BY StartForm
  <2>2. s(i + 1) = (i + 1) * q + (IF i + 1 < r THEN i + 1 ELSE r)
    BY StartForm
  <2>3. (i + 1) * q = i * q + q
    BY <1>1
  <2> QED BY <2>1, <2>2, <2>3
<1>4. ASSUME NEW m \in Nat, NEW d \in Nat \ {0}
      PROVE  /\ m \div d \in Nat
             /\ (m \div d) * d <= m
             /\ m < (m \div d) * d + d
  BY SMT
<1> HIDE DEF q, r, t, s
<1>5. \E i \in Nat : s(i) <= o /\ o < s(i + 1)
  <2>1. CASE o < r * (q + 1)
    <3> DEFINE i == o \div (q + 1)
    <3>0. o \in Nat /\ q + 1 \in Nat \ {0}
      BY <1>1
    <3>1. i \in Nat /\ i * (q + 1) <= o /\ o < i * (q + 1) + (q + 1)
      BY <1>4, <3>0, Zenon
    <3> HIDE DEF i
    <3>2. i * (q + 1) = i * q + i
      BY <1>1, <3>1
    <3>3. i < r
      <4>1. r <= i => r * (q + 1) <= i * (q + 1)
        BY <1>1, <3>1, ProductMonotone
      <4>2. i * (q + 1) \in Nat /\ r * (q + 1) \in Nat
        BY <1>1, <3>1
      <4> QED BY <1>1, <2>1, <3>1, <4>1, <4>2
    <3>4. s(i) = i * q + i /\ s(i + 1) = i * q + q + (i + 1)
      <4>1. (IF i < r THEN i ELSE r) = i
        BY <3>3
      <4>2. (IF i + 1 < r THEN i + 1 ELSE r) = i + 1
        BY <1>1, <3>1, <3>3
      <4>3. /\ s(i) = i * q + (IF i < r THEN i ELSE r)
            /\ s(i + 1) = i * q + q + (IF i + 1 < r THEN i + 1 ELSE r)
        BY <1>3, <3>1
      <4> QED BY <4>1, <4>2, <4>3
    <3>5. s(i) <= o /\ o < s(i + 1)
      <4>1. i * q \in Nat
        BY <1>1, <3>1
      <4> QED BY <1>1, <3>1, <3>2, <3>4, <4>1
    <3> QED BY <3>1, <3>5
  <2>2. CASE r * (q + 1) <= o
    <3> DEFINE k == (o - r * (q + 1)) \div q
               i == r + k
    <3>1. r * (q + 1) = r * q + r /\ r * q \in Nat
      BY <1>1
    <3>2. q > 0
      <4>1. q = 0 => r * q = 0
        BY <1>1
      <4> QED BY <1>1, <2>2, <3>1, <4>1
    <3>3. o - r * (q + 1) \in Nat
      BY <1>1, <2>2, <3>1
    <3>4. k \in Nat /\ k * q <= o - r * (q + 1) /\ o - r * (q + 1) < k * q + q
      BY <1>1, <1>4, <3>2, <3>3
    <3> HIDE DEF k
    <3>5. i \in Nat /\ i * q = r * q + k * q /\ k * q \in Nat
      BY <1>1, <3>4
    <3>6. ~(i < r) /\ ~(i + 1 < r)
      BY <1>1, <3>4
    <3> HIDE DEF i
    <3>7. s(i) = i * q + r /\ s(i + 1) = i * q + q + r
      BY <1>3, <3>5, <3>6
    <3>8. s(i) <= o /\ o < s(i + 1)
      BY <1>1, <3>1, <3>4, <3>5, <3>7
    <3> QED BY <3>5, <3>8
  <2>3. o \in Int /\ r * (q + 1) \in Int
    BY <1>1
  <2> QED BY <2>1, <2>2, <2>3
<1> QED BY <1>2, <1>5

(* The intervals that CalcPseudoP_threaded hands out are an exact cover of *)
(* the observations: none is left out, none is given to two threads.       *)
THEOREM PartitionExactCover ==
  \A n \in Nat : \A c \in Nat \ {0} : ExactCover(n, c)
<1> SUFFICES ASSUME NEW n \in Nat, NEW c \in Nat \ {0}
             PROVE  ExactCover(n, c)
  OBVIOUS
<1>1. ASSUME NEW i \in Threads(n, c)
      PROVE  Chunk(n, c, i) \subseteq 0 .. n - 1
  BY ChunkBounds DEF Chunk
<1>2. \A o \in 0 .. n - 1 : \E i \in Threads(n, c) : o \in Chunk(n, c, i)
  BY ChunkOfObservation
<1>3. ASSUME NEW i \in Threads(n, c), NEW j \in Threads(n, c), i # j
      PROVE  Chunk(n, c, i) \cap Chunk(n, c, j) = {}
  <2>1. i \in Nat /\ j \in Nat
    BY ChunkBounds
  <2>2. CASE i < j
    BY <2>1, <2>2, ChunksOrdered, ChunkBounds DEF Chunk
  <2>3. CASE j < i
    BY <2>1, <2>3, ChunksOrdered, ChunkBounds DEF Chunk
  <2> QED BY <1>3, <2>1, <2>2, <2>3
<1> QED BY <1>1, <1>2, <1>3 DEF ExactCover

(* No thread is created with an empty interval: CalcPseudoP_threaded makes *)
(* no more threads than there are observations.                            *)
THEOREM PartitionNoEmptyChunk ==
  \A n \in Nat : \A c \in Nat \ {0} : NoEmptyChunk(n, c)
BY ChunkBounds DEF NoEmptyChunk

(* No two intervals of CalcPseudoP_threaded differ by more than one        *)
(* observation in length.                                                  *)
THEOREM PartitionBalanced ==
  \A n \in Nat : \A c \in Nat \ {0} : Balanced(n, c)
<1> SUFFICES ASSUME NEW n \in Nat, NEW c \in Nat \ {0},
                    NEW i \in Threads(n, c), NEW j \in Threads(n, c)
             PROVE  (ChunkEnd(n, c, i) - ChunkStart(n, c, i))
                      - (ChunkEnd(n, c, j) - ChunkStart(n, c, j)) <= 1
  BY DEF Balanced
<1>1. ChunkStart(n, c, i) \in Int /\ ChunkStart(n, c, j) \in Int
  BY ChunkBounds
<1>2. Quotient(n, c) \in Int /\ Remainder(n, c) \in Int
  BY DivMod
<1> QED BY <1>1, <1>2 DEF ChunkEnd

-----------------------------------------------------------------------------
(* The operators that the model is built from.                             *)
(* A p-value is a fraction with a positive numerator.                      *)
LEMMA PseudoPValue ==
  ASSUME NEW n \in Nat, NEW k \in 0 .. n
  PROVE  /\ PseudoP(k, n) \in Fractions
         /\ PseudoP(k, n)[1] >= 1
         /\ PseudoP(k, n)[2] = n + 1
BY DEF PseudoP, Fractions

(* The three copies of the thresholds in the code are the same.            *)
LEMMA CopiesAgree ==
  ASSUME NEW f \in 1 .. 4
  PROVE  /\ CategoryBound[f] = FilterCutoff[f]
         /\ CategoryBound[f] = DefaultCutoffs[f]
BY DEF CategoryBound, FilterCutoff, DefaultCutoffs

(* The category of a p-value says which of its bounds it meets.            *)
LEMMA CategoryOfPValue ==
  ASSUME NEW p \in Fractions
  PROVE  /\ Category(p) \in 0 .. 4
         /\ \A f \in 1 .. 4 : Category(p) >= f <=> AtMost(p, CategoryBound[f])
<1>1. p[1] \in Nat /\ p[2] \in Nat
  BY DEF Fractions
<1>2. /\ AtMost(p, CategoryBound[1]) <=> p[1] * 100 <= 5 * p[2]
      /\ AtMost(p, CategoryBound[2]) <=> p[1] * 100 <= 1 * p[2]
      /\ AtMost(p, CategoryBound[3]) <=> p[1] * 1000 <= 1 * p[2]
      /\ AtMost(p, CategoryBound[4]) <=> p[1] * 10000 <= 1 * p[2]
  BY DEF AtMost, CategoryBound
<1>3. /\ AtMost(p, CategoryBound[4]) => AtMost(p, CategoryBound[3])
      /\ AtMost(p, CategoryBound[3]) => AtMost(p, CategoryBound[2])
      /\ AtMost(p, CategoryBound[2]) => AtMost(p, CategoryBound[1])
  BY <1>1, <1>2
<1> QED BY <1>3 DEF Category

(* ComputeLoalSA gives every observation one of the six clusters.          *)
LEMMA ClusterType ==
  ASSUME NEW o \in Obs
  PROVE  ClusterOf(o) \in 1 .. 6
BY DEF ClusterOf, HighHigh, LowLow, LowHigh, HighLow, Undefined, Neighborless

(* Testing an observation gives a p-value, and leaves a stream.            *)
LEMMA TestResult ==
  ASSUME NEW o \in Obs, NEW s \in Seeds, NEW n \in Perms, NEW b \in BOOLEAN
  PROVE  /\ PseudoP(CountLarger(o, s, n, b), n) \in Fractions
         /\ PseudoP(CountLarger(o, s, n, b), n)[1] >= 1
         /\ PseudoP(CountLarger(o, s, n, b), n)[2] = n + 1
         /\ StreamAfter(o, s, n) \in Seeds
<1>1. CountLarger(o, s, n, b) \in 0 .. n /\ SeedAfter(o, s, n) \in Seeds
  BY TestAssumption
<1>2. n \in Nat
  BY ChoicesAssumption DEF Perms, DefaultPermutations
<1> QED BY <1>1, <1>2, PseudoPValue DEF StreamAfter

(* A thread is numbered as some observation is.                            *)
LEMMA ThreadsAreFew ==
  ASSUME NEW c \in Nat \ {0}
  PROVE  /\ TotThreads(NumObs, c) \in Nat
         /\ TotThreads(NumObs, c) <= NumObs
         /\ Threads(NumObs, c) \subseteq Obs
BY NumObsAssumption, ThreadCount DEF Threads, Obs

(* The observations of a chunk.                                            *)
LEMMA ChunkInObs ==
  ASSUME NEW c \in Nat \ {0}, NEW i \in Threads(NumObs, c)
  PROVE  /\ ChunkStart(NumObs, c, i) \in Obs
         /\ ChunkEnd(NumObs, c, i) \in Obs
         /\ ChunkStart(NumObs, c, i) <= ChunkEnd(NumObs, c, i)
         /\ Chunk(NumObs, c, i) \subseteq Obs
<1>1. NumObs \in Nat
  BY NumObsAssumption
<1> QED BY <1>1, ChunkBounds DEF Obs, Chunk

(* The first observation of a chunk is the only one in it that starts one. *)
LEMMA StartsItsChunk ==
  ASSUME NEW c \in Nat \ {0}, NEW i \in Threads(NumObs, c),
         NEW o \in Chunk(NumObs, c, i), NEW p, p.threads = c
  PROVE  StartsChunk(p, o) <=> o = ChunkStart(NumObs, c, i)
<1>1. ASSUME NEW j \in Threads(NumObs, c), ChunkStart(NumObs, c, j) = o
      PROVE  j = i
  <2>1. o \in Chunk(NumObs, c, j)
    BY <1>1, ChunkInObs DEF Chunk, Obs
  <2> QED BY <2>1, NumObsAssumption, PartitionExactCover DEF ExactCover
<1> QED BY <1>1 DEF StartsChunk
-----------------------------------------------------------------------------
(* The constructors leave the object ready for its first run.              *)
LEMMA InitInvariant == Init => Invariant
<1> SUFFICES ASSUME Init PROVE Invariant
  OBVIOUS
<1>1. DefaultSeed \in Seeds /\ 0 \in Seeds
  BY SeedModAssumption DEF DefaultSeed, Seeds
<1>2. /\ Zero \in Fractions
      /\ FilterCutoff[1] \in Fractions
      /\ CutoffChoices \cup {Zero} \subseteq Fractions
  BY ChoicesAssumption DEF Zero, FilterCutoff, Fractions
<1>3. kept \in [{"user", "bo", "fdr"} -> Fractions]
  BY <1>2 DEF Init
<1>4. TypeOK
  BY <1>1, <1>2, <1>3 DEF Init, TypeOK, Perms, NoSeed
<1>5. RunInvariant
  BY DEF Init, RunInvariant, Progress, Rightness, Running, Idle
<1> QED BY <1>4, <1>5 DEF Invariant

(* Between runs the results stand, whatever the caller sets.               *)
LEMMA BetweenRunsProgress ==
  ASSUME Progress, BetweenRuns
  PROVE  /\ Progress'
         /\ \A o \in Obs : /\ Tested(o)' <=> Tested(o)
                           /\ RightlyTested(o)' <=> RightlyTested(o)
<1>1. \A o \in Obs : /\ Tested(o)' <=> Tested(o)
                     /\ SeedDue(o)' = SeedDue(o)
                     /\ RightlyTested(o)' <=> RightlyTested(o)
  BY DEF BetweenRuns, results, history, Tested, RightlyTested, SeedDue
<1>2. Progress'
  BY <1>1 DEF Progress, BetweenRuns, results, threads, history, Running
<1> QED BY <1>1, <1>2

LEMMA BetweenRunsInvariant ==
  ASSUME Invariant, BetweenRuns
  PROVE  RunInvariant'
<1>1. Progress /\ Rightness
  BY DEF Invariant, RunInvariant
<1>2. Rightness'
  BY <1>1, BetweenRunsProgress DEF Rightness, BetweenRuns, results, threads, history, Idle
<1> QED BY <1>1, <1>2, BetweenRunsProgress DEF RunInvariant

(* The setters of the parameters of a run.                                 *)
LEMMA ConfigureTypes ==
  ASSUME TypeOK, Configure
  PROVE  TypeOK' /\ BetweenRuns
<1>1. BetweenRuns /\ UNCHANGED display
  BY DEF Configure, SetNumThreads, SetNumPermutations, SetLastUsedSeed,
         SetReuseLastSeed, SetRowStandardize
<1>2. /\ nCPUs' \in Int /\ permutations' \in Perms /\ last_seed_used' \in Seeds
      /\ reuse_last_seed' \in BOOLEAN /\ row_standardize' \in BOOLEAN
  <2>1. CASE \E n \in ThreadChoices : SetNumThreads(n)
    BY <2>1, ChoicesAssumption DEF SetNumThreads, TypeOK
  <2>2. CASE \E n \in PermChoices : SetNumPermutations(n)
    BY <2>2 DEF SetNumPermutations, TypeOK, Perms
  <2>3. CASE \E s \in Seeds : SetLastUsedSeed(s)
    BY <2>3 DEF SetLastUsedSeed, TypeOK
  <2>4. CASE \E b \in BOOLEAN : SetReuseLastSeed(b)
    BY <2>4 DEF SetReuseLastSeed, TypeOK
  <2>5. CASE \E b \in BOOLEAN : SetRowStandardize(b)
    BY <2>5 DEF SetRowStandardize, TypeOK
  <2> QED BY <2>1, <2>2, <2>3, <2>4, <2>5 DEF Configure
<1>3. TypeOK'
  BY <1>1, <1>2 DEF TypeOK, BetweenRuns, display, results, threads,
                    history
<1> QED BY <1>1, <1>3

LEMMA ConfigureInvariant == Invariant /\ Configure => Invariant'
BY ConfigureTypes, BetweenRunsInvariant DEF Invariant

(* The setters of what is shown.                                           *)
LEMMA ChooseInvariant == Invariant /\ Choose => Invariant'
<1> SUFFICES ASSUME Invariant, Choose PROVE Invariant'
  OBVIOUS
<1>1. BetweenRuns /\ UNCHANGED setup
  BY DEF Choose, SetSignificanceFilter, SetSignificanceCutoff, Keep
<1> DEFINE Typed == /\ significance_filter' \in {-1} \cup 1 .. 4
                    /\ significance_cutoff' \in Fractions
                    /\ kept' \in [{"user", "bo", "fdr"} -> Fractions]
<1>2. Typed
  <2>1. ASSUME NEW f \in FilterChoices, SetSignificanceFilter(f)
        PROVE  Typed
    <3>1. f \in 1 .. 4 => FilterCutoff[f] \in Fractions
      BY DEF FilterCutoff, Fractions
    <3> QED BY <2>1, <3>1 DEF SetSignificanceFilter, Invariant, TypeOK
  <2>2. CASE \E v \in CutoffChoices : SetSignificanceCutoff(v)
    BY <2>2, ChoicesAssumption DEF SetSignificanceCutoff, Invariant, TypeOK
  <2>3. CASE \E field \in {"user", "bo", "fdr"}, v \in CutoffChoices : Keep(field, v)
    BY <2>3, ChoicesAssumption DEF Keep, Invariant, TypeOK
  <2> QED BY <2>1, <2>2, <2>3 DEF Choose
<1>3. TypeOK'
  BY <1>1, <1>2 DEF Invariant, TypeOK, BetweenRuns, setup, results, threads,
                    history
<1> QED BY <1>1, <1>3, BetweenRunsInvariant DEF Invariant
-----------------------------------------------------------------------------
(* Run() leaves every observation to be tested, whatever the vectors held. *)
LEMMA RunStepProgress ==
  ASSUME TypeOK, Progress, NEW clock \in Seeds, Run(clock)
  PROVE  /\ TypeOK' /\ Progress'
         /\ Running' /\ ran'.threads >= 1
         /\ \A o \in Obs : ~Tested(o)'
<1>1. nCPUs' \in Nat \ {0} /\ last_seed_used' \in Seeds
  BY HardwareThreadsAssumption DEF Run, TypeOK
<1>2. Zero \in Fractions
  BY DEF Zero, Fractions
<1>3. /\ sig_local_vec' \in [Obs -> Fractions]
      /\ sig_cat_vec' \in [Obs -> 0 .. 5]
  BY <1>2 DEF Run, Resized, TypeOK
<1>4. cluster_vec' = [o \in Obs |-> ClusterOf(o)] /\ cluster_vec' \in [Obs -> 1 .. 6]
  BY ClusterType DEF Run
<1>5. /\ ran' = [threads |-> nCPUs', perms |-> permutations', seed |-> last_seed_used',
                 rowStd |-> row_standardize']
      /\ ran' \in [threads : Int, perms : Perms, seed : Seeds, rowStd : BOOLEAN]
  BY <1>1 DEF Run, TypeOK
<1>6. TypeOK'
  BY <1>1, <1>3, <1>4, <1>5 DEF Run, TypeOK, display, NoSeed
<1>7. \A o \in Obs : ~Tested(o)'
  BY DEF Run, Tested
<1>8. spawned' = 0 /\ phase' = "running"
  BY DEF Run, Progress, Running
<1>9. \A i \in Threads(NumObs, nCPUs') : WorkerInvariant(i)'
  <2> SUFFICES ASSUME NEW i \in Threads(NumObs, nCPUs') PROVE WorkerInvariant(i)'
    OBVIOUS
  <2>1. Chunk(NumObs, nCPUs', i) \subseteq Obs /\ i \in Nat
    BY <1>1, ChunkInObs, ThreadsAreFew DEF Obs
  <2> QED BY <1>7, <1>8, <2>1 DEF WorkerInvariant
<1>10. \A o \in Isolates : sig_local_vec'[o] = Zero
  BY IsolatesAssumption DEF Run, Resized, Progress, TypeOK
<1>11. 0 <= TotThreads(NumObs, nCPUs')
  BY <1>1, ThreadsAreFew
<1>12. nCPUs' >= 1 /\ ran'.threads >= 1
  BY <1>1, <1>5
<1>13. Progress'
  BY <1>4, <1>5, <1>7, <1>8, <1>9, <1>10, <1>11, <1>12 DEF Progress, Running
<1> QED BY <1>6, <1>7, <1>8, <1>12, <1>13 DEF Running

LEMMA RunStepInvariant ==
  ASSUME Invariant, NEW clock \in Seeds, Run(clock)
  PROVE  Invariant'
<1>1. TypeOK' /\ Progress' /\ Running' /\ ran'.threads >= 1 /\ \A o \in Obs : ~Tested(o)'
  BY RunStepProgress DEF Invariant, RunInvariant
<1> QED BY <1>1 DEF Invariant, RunInvariant, Rightness, Running, Idle

(* A thread is created at the start of its chunk, with a stream of its own.*)
LEMMA SpawnWorkerProgress ==
  ASSUME TypeOK, Progress, SpawnWorker
  PROVE  /\ TypeOK' /\ Progress'
         /\ \A o \in Obs : /\ Tested(o)' <=> Tested(o)
                           /\ RightlyTested(o)' <=> RightlyTested(o)
<1> DEFINE a == ChunkStart(NumObs, nCPUs, spawned)
<1>1. nCPUs \in Nat \ {0} /\ spawned \in Nat /\ Running
      /\ spawned \in Threads(NumObs, nCPUs)
  BY ThreadsAreFew DEF SpawnWorker, TypeOK, Progress, Running, Threads
<1>2. a \in Obs /\ a \in Nat /\ spawned \in Obs
      /\ a <= ChunkEnd(NumObs, nCPUs, spawned)
      /\ ChunkEnd(NumObs, nCPUs, spawned) \in Nat
  BY <1>1, ChunkInObs, ThreadsAreFew DEF Obs
<1>3. SeedStart(spawned) \in Seeds
  BY <1>1, <1>2, SeedModAssumption DEF SeedStart, Seeds, TypeOK
<1>4. TypeOK'
  BY <1>2, <1>3 DEF SpawnWorker, TypeOK, setup, display, results, history
<1>5. \A o \in Obs : /\ Tested(o)' <=> Tested(o)
                     /\ SeedDue(o)' = SeedDue(o)
                     /\ RightlyTested(o)' <=> RightlyTested(o)
  BY DEF SpawnWorker, results, history, Tested, SeedDue, RightlyTested
<1>6. ASSUME NEW i \in Threads(NumObs, nCPUs)
      PROVE  WorkerInvariant(i)'
  <2>1. Chunk(NumObs, nCPUs, i) \subseteq Obs /\ i \in Obs /\ i \in Nat
    BY <1>1, ChunkInObs, ThreadsAreFew DEF Obs
  <2>2. WorkerInvariant(i)
    BY <1>1 DEF Progress
  <2>3. UNCHANGED <<nCPUs, ran, seedUsed>> /\ spawned' = spawned + 1
    BY DEF SpawnWorker, setup, history
  <2>4. CASE i = spawned
    <3>1. cursor'[i] = a /\ stream'[i] = SeedStart(i)
      BY <1>2, <2>4 DEF SpawnWorker, TypeOK
    <3>2. a \in Chunk(NumObs, nCPUs, i)
      BY <1>2, <2>4 DEF Chunk
    <3>3. StartsChunk(ran, a) /\ ran.seed = last_seed_used
      BY <1>1, <2>4, <3>2, StartsItsChunk DEF Progress
    <3>4. SeedDue(a) = SeedStart(i)
      BY <2>4, <3>3 DEF SeedDue, SeedStart
    <3>5. \A o \in Chunk(NumObs, nCPUs, i) : ~Tested(o)' /\ ~(o < a)
      BY <1>1, <1>5, <2>1, <2>2, <2>4, <1>2 DEF WorkerInvariant, Chunk
    <3> QED BY <1>1, <1>2, <1>5, <2>3, <2>4, <3>1, <3>4, <3>5 DEF WorkerInvariant
  <2>5. CASE i # spawned
    <3>1. cursor'[i] = cursor[i] /\ stream'[i] = stream[i]
      BY <2>1, <2>5 DEF SpawnWorker, TypeOK
    <3>2. i < spawned' <=> i < spawned
      BY <1>1, <2>1, <2>3, <2>5
    <3>3. i < spawned /\ cursor[i] <= ChunkEnd(NumObs, nCPUs, i) => cursor[i] \in Obs
      BY <1>1, <2>1, <2>2, ChunkInObs DEF WorkerInvariant, Chunk, Obs
    <3> QED BY <1>5, <2>1, <2>2, <2>3, <3>1, <3>2, <3>3 DEF WorkerInvariant
  <2> QED BY <2>4, <2>5
<1>7. spawned + 1 <= TotThreads(NumObs, nCPUs)
  BY <1>1, ThreadsAreFew DEF SpawnWorker
<1>8. Progress'
  BY <1>1, <1>5, <1>6, <1>7, IsolatesAssumption
     DEF Progress, SpawnWorker, Running, setup, results, history
<1> QED BY <1>4, <1>5, <1>8

LEMMA SpawnWorkerInvariant ==
  ASSUME Invariant, SpawnWorker
  PROVE  Invariant'
<1>1. TypeOK /\ Progress /\ Rightness
  BY DEF Invariant, RunInvariant
<1>2. Rightness'
  BY <1>1, SpawnWorkerProgress DEF Rightness, SpawnWorker, Idle, history
<1> QED BY <1>1, <1>2, SpawnWorkerProgress DEF Invariant, RunInvariant
-----------------------------------------------------------------------------
(* Where a working thread is: in its own chunk, at an observation that has *)
(* not been tested, at the place of the stream where it has to be tested.  *)
LEMMA AtWork ==
  ASSUME TypeOK, Progress, NEW i \in Obs, Working(i)
  PROVE  /\ nCPUs \in Nat \ {0}
         /\ i \in Threads(NumObs, nCPUs)
         /\ cursor[i] \in Chunk(NumObs, nCPUs, i)
         /\ cursor[i] \in Obs
         /\ ~Tested(cursor[i])
         /\ stream[i] = SeedDue(cursor[i])
<1>1. nCPUs \in Nat \ {0} /\ Running /\ i < spawned /\ spawned \in Nat
      /\ spawned <= TotThreads(NumObs, nCPUs)
  BY DEF Working, Running, Progress, TypeOK
<1>2. i \in Threads(NumObs, nCPUs)
  BY <1>1, ThreadsAreFew, NumObsAssumption DEF Threads, Obs
<1>3. WorkerInvariant(i)
  BY <1>1, <1>2 DEF Progress
<1>4. cursor[i] \in Chunk(NumObs, nCPUs, i)
  BY <1>1, <1>2, <1>3, ChunkInObs DEF WorkerInvariant, Working, Chunk, Obs
<1>5. cursor[i] \in Obs
  BY <1>1, <1>2, <1>4, ChunkInObs
<1> QED BY <1>1, <1>2, <1>3, <1>4, <1>5 DEF WorkerInvariant, Working, Obs

(* An observation of which the chunk has an earlier one follows it.        *)
LEMMA Predecessor ==
  ASSUME NEW c \in Nat \ {0}, NEW i \in Threads(NumObs, c),
         NEW o \in Chunk(NumObs, c, i), NEW p, p.threads = c, ~StartsChunk(p, o)
  PROVE  o \in Nat /\ o - 1 \in Chunk(NumObs, c, i) /\ o - 1 \in Obs
<1>1. ChunkStart(NumObs, c, i) \in Nat /\ ChunkEnd(NumObs, c, i) \in Nat
  BY ChunkInObs, NumObsAssumption DEF Obs
<1>2. o # ChunkStart(NumObs, c, i)
  BY StartsItsChunk
<1>3. o \in Nat /\ o - 1 \in Chunk(NumObs, c, i)
  BY <1>1, <1>2 DEF Chunk
<1> QED BY <1>3, ChunkInObs

(* What either step of a worker does to the observation it is at.          *)
LEMMA WorkEffect ==
  ASSUME TypeOK, Progress, NEW i \in Obs, Work(i), NEW o, o = cursor[i]
  PROVE  /\ Working(i)
         /\ UNCHANGED <<setup, display, cluster_vec, phase, spawned, ran>>
         /\ cursor' = [cursor EXCEPT ![i] = o + 1]
         /\ seedUsed' = [seedUsed EXCEPT ![o] = stream[i]]
         /\ stream' = [stream EXCEPT ![i] = StreamAfter(o, stream[i], permutations)]
         /\ sig_local_vec' = [sig_local_vec EXCEPT ![o] =
              IF o \in Isolates THEN Zero ELSE PValueOf(ran, o, stream[i])]
         /\ sig_cat_vec' = [sig_cat_vec EXCEPT ![o] =
              IF o \in Isolates THEN NeighborlessCat
              ELSE Category(PValueOf(ran, o, stream[i]))]
<1>1. Working(i)
  BY DEF Work, SkipIsolate, TestObservation
<1>2. o \in Obs /\ Running
  BY <1>1, AtWork DEF Working, Running
<1>3. /\ stream \in [Obs -> Seeds] /\ sig_local_vec \in [Obs -> Fractions]
  BY <1>2 DEF TypeOK, Running
<1>4. ran.perms = permutations /\ ran.rowStd = row_standardize
  BY <1>2 DEF Progress
<1>5. CASE o \in Isolates /\ SkipIsolate(i)
  <2>1. sig_local_vec[o] = Zero
    BY <1>2, <1>5 DEF Progress, Running
  <2>2. sig_local_vec' = [sig_local_vec EXCEPT ![o] = Zero]
    BY <1>2, <1>3, <1>5, <2>1 DEF SkipIsolate
  <2>3. stream' = [stream EXCEPT ![i] = StreamAfter(o, stream[i], permutations)]
    BY <1>3, <1>5 DEF SkipIsolate, StreamAfter
  <2> QED BY <1>1, <1>5, <2>2, <2>3 DEF SkipIsolate
<1>6. CASE o \notin Isolates /\ TestObservation(i)
  <2>1. PseudoP(CountLarger(o, stream[i], permutations, row_standardize), permutations)
          = PValueOf(ran, o, stream[i])
    BY <1>4 DEF PValueOf
  <2> QED BY <1>1, <1>6, <2>1 DEF TestObservation, StreamAfter
<1> QED BY <1>5, <1>6 DEF Work, SkipIsolate, TestObservation

(* A step of a worker adds its observation to those tested rightly, and    *)
(* disturbs no other worker.                                               *)
LEMMA WorkProgress ==
  ASSUME TypeOK, Progress, NEW i \in Obs, Work(i), NEW o, o = cursor[i],
         NEW p, p = PValueOf(ran, o, stream[i])
  PROVE  /\ TypeOK' /\ Progress'
         /\ o \in Obs /\ ~Tested(o) /\ RightlyTested(o)'
         /\ \A x \in Obs \ {o} : /\ Tested(x)' <=> Tested(x)
                                 /\ Tested(x) => (RightlyTested(x) => RightlyTested(x)')
                                 /\ sig_local_vec'[x] = sig_local_vec[x]
<1>1. /\ nCPUs \in Nat \ {0} /\ i \in Threads(NumObs, nCPUs)
      /\ o \in Chunk(NumObs, nCPUs, i) /\ o \in Obs /\ o \in Nat
      /\ ~Tested(o)
      /\ stream[i] = SeedDue(o)
      /\ Working(i)
  BY AtWork, WorkEffect DEF Obs
<1>2. /\ UNCHANGED <<setup, display, cluster_vec, phase, spawned, ran>>
      /\ cursor' = [cursor EXCEPT ![i] = o + 1]
      /\ seedUsed' = [seedUsed EXCEPT ![o] = stream[i]]
      /\ stream' = [stream EXCEPT ![i] = StreamAfter(o, stream[i], permutations)]
      /\ sig_local_vec' = [sig_local_vec EXCEPT ![o] =
           IF o \in Isolates THEN Zero ELSE p]
      /\ sig_cat_vec' = [sig_cat_vec EXCEPT ![o] =
           IF o \in Isolates THEN NeighborlessCat ELSE Category(p)]
  BY WorkEffect
<1>3. /\ Running /\ Running' /\ ran.perms = permutations /\ ran.threads = nCPUs
      /\ ran.rowStd = row_standardize
      /\ stream[i] \in Seeds /\ stream[i] # NoSeed
  BY <1>1, <1>2 DEF Working, Running, Progress, TypeOK, Seeds, NoSeed
<1>4. /\ p \in Fractions /\ Category(p) \in 0 .. 4
      /\ StreamAfter(o, stream[i], permutations) \in Seeds
  BY <1>1, <1>3, TestResult, CategoryOfPValue DEF PValueOf, TypeOK
<1>5. TypeOK'
  <2>1. Zero \in Fractions /\ NeighborlessCat \in 0 .. 5
    BY DEF Zero, Fractions, NeighborlessCat
  <2>2. /\ sig_local_vec' \in [Obs -> Fractions]
        /\ sig_cat_vec' \in [Obs -> 0 .. 5]
    <3>1. /\ sig_local_vec \in [Obs -> Fractions]
          /\ sig_cat_vec \in [Obs -> 0 .. 5]
      BY <1>3 DEF TypeOK, Running
    <3>2. /\ (IF o \in Isolates THEN Zero ELSE p) \in Fractions
          /\ (IF o \in Isolates THEN NeighborlessCat ELSE Category(p)) \in 0 .. 5
      BY <1>4, <2>1
    <3> QED BY <1>2, <3>1, <3>2
  <2>3. /\ cursor' \in [Obs -> Nat] /\ stream' \in [Obs -> Seeds]
        /\ seedUsed' \in [Obs -> Seeds \cup {NoSeed}]
    BY <1>1, <1>2, <1>3, <1>4 DEF TypeOK
  <2>4. UNCHANGED <<nCPUs, permutations, last_seed_used, reuse_last_seed,
                    row_standardize, significance_filter, significance_cutoff,
                    kept, cluster_vec, phase, spawned, ran>>
    BY <1>2 DEF setup, display
  <2> QED BY <1>3, <2>2, <2>3, <2>4 DEF TypeOK, Running
<1>6. /\ seedUsed'[o] = stream[i] /\ Tested(o)'
      /\ \A x \in Obs \ {o} : /\ seedUsed'[x] = seedUsed[x]
                              /\ sig_local_vec'[x] = sig_local_vec[x]
                              /\ sig_cat_vec'[x] = sig_cat_vec[x]
                              /\ Tested(x)' <=> Tested(x)
  BY <1>1, <1>2, <1>3 DEF TypeOK, Tested, Running
<1>7. \A j \in Threads(NumObs, nCPUs) : WorkerInvariant(j)
  BY <1>3 DEF Progress
<1>8. ASSUME NEW j \in Threads(NumObs, nCPUs),
             NEW x \in Chunk(NumObs, nCPUs, j),
             WorkerInvariant(j), j < spawned, x <= cursor[j]
      PROVE  SeedDue(x)' = SeedDue(x)
  <2>1. CASE StartsChunk(ran, x)
    BY <1>2, <2>1 DEF SeedDue
  <2>2. CASE ~StartsChunk(ran, x)
    <3>1. x \in Nat /\ x - 1 \in Chunk(NumObs, nCPUs, j) /\ x - 1 \in Obs
      BY <1>1, <1>3, <2>2, Predecessor
    <3>2. cursor[j] \in Nat
      BY <1>1, ThreadsAreFew DEF TypeOK
    <3>3. Tested(x - 1)
      BY <1>8, <3>1, <3>2 DEF WorkerInvariant
    <3>4. x - 1 # o
      BY <1>1, <3>3
    <3> QED BY <1>2, <1>6, <3>1, <3>4 DEF SeedDue
  <2> QED BY <2>1, <2>2
<1>9. ASSUME NEW x \in Obs, Tested(x)'
      PROVE  SeedDue(x)' = SeedDue(x)
  <2>1. PICK j \in Threads(NumObs, nCPUs) : x \in Chunk(NumObs, nCPUs, j)
    BY <1>1, NumObsAssumption, ChunkOfObservation DEF Obs
  <2>2. CASE x = o
    <3>1. j < spawned /\ x <= cursor[j]
      <4>1. j = i
        BY <1>1, <2>1, <2>2, NumObsAssumption, PartitionExactCover DEF ExactCover
      <4> QED BY <1>1, <2>2, <4>1 DEF Working
    <3> QED BY <1>7, <1>8, <2>1, <2>2, <3>1
  <2>3. CASE x # o
    <3>1. Tested(x)
      BY <1>6, <1>9, <2>3
    <3>2. j < spawned /\ x < cursor[j]
      BY <1>7, <2>1, <3>1 DEF WorkerInvariant
    <3>3. x <= cursor[j]
      BY <1>1, <3>2, ThreadsAreFew DEF TypeOK, Obs
    <3> QED BY <1>7, <1>8, <2>1, <3>2, <3>3
  <2> QED BY <2>2, <2>3
<1>13. RightlyTested(o)'
  <2>1. SeedDue(o)' = SeedDue(o)
    BY <1>1, <1>6, <1>9
  <2>2. sig_local_vec'[o] = (IF o \in Isolates THEN Zero ELSE p)
    BY <1>1, <1>2, <1>3 DEF TypeOK, Running
  <2>3. sig_cat_vec'[o] = (IF o \in Isolates THEN NeighborlessCat ELSE Category(p))
    BY <1>1, <1>2, <1>3 DEF TypeOK, Running
  <2>4. p = PValueOf(ran', o, seedUsed'[o])
    BY <1>2, <1>6
  <2> QED BY <1>1, <1>6, <2>1, <2>2, <2>3, <2>4 DEF RightlyTested
<1>14. ASSUME NEW x \in Obs \ {o}, Tested(x), RightlyTested(x)
       PROVE  RightlyTested(x)'
  <2>1. SeedDue(x)' = SeedDue(x)
    BY <1>6, <1>9, <1>14
  <2> QED BY <1>2, <1>6, <1>14, <2>1 DEF RightlyTested
<1>15. ASSUME NEW x \in Obs, Tested(x)'
       PROVE  seedUsed'[x] = SeedDue(x)'
  <2>1. CASE x = o
    BY <1>13, <2>1 DEF RightlyTested
  <2>2. CASE x # o
    <3>1. Tested(x) /\ seedUsed[x] = SeedDue(x)
      BY <1>3, <1>6, <1>15, <2>2 DEF Progress, Running
    <3> QED BY <1>6, <1>9, <1>15, <2>2, <3>1
  <2> QED BY <2>1, <2>2
<1>10. ASSUME NEW j \in Threads(NumObs, nCPUs)
       PROVE  WorkerInvariant(j)'
  <2>1. /\ WorkerInvariant(j) /\ j \in Obs
        /\ ChunkStart(NumObs, nCPUs, j) \in Nat /\ ChunkEnd(NumObs, nCPUs, j) \in Nat
        /\ Chunk(NumObs, nCPUs, j) \subseteq Obs
        /\ \A x \in Chunk(NumObs, nCPUs, j) : x \in Nat
    BY <1>1, <1>7, ThreadsAreFew, ChunkInObs DEF Obs
  <2>2. CASE j = i
    <3>1. /\ cursor'[i] = o + 1 /\ i < spawned /\ o \in Nat /\ o = cursor[i]
          /\ o <= ChunkEnd(NumObs, nCPUs, i)
          /\ stream'[i] = StreamAfter(o, stream[i], permutations)
      BY <1>1, <1>2, <2>1 DEF TypeOK, Working
    <3>2. \A x \in Chunk(NumObs, nCPUs, i) : Tested(x)' <=> x < o + 1
      <4>1. \A x \in Chunk(NumObs, nCPUs, i) : Tested(x) <=> x < o
        BY <2>1, <2>2, <3>1 DEF WorkerInvariant
      <4> QED BY <1>6, <2>1, <2>2, <3>1, <4>1
    <3>3. ASSUME o + 1 <= ChunkEnd(NumObs, nCPUs, i)
          PROVE  stream'[i] = SeedDue(o + 1)'
      <4>1. o + 1 \in Chunk(NumObs, nCPUs, i) /\ o + 1 # ChunkStart(NumObs, nCPUs, i)
        BY <1>1, <2>1, <2>2, <3>1, <3>3 DEF Chunk
      <4>2. ~StartsChunk(ran', o + 1)
        BY <1>1, <1>2, <1>3, <4>1, StartsItsChunk
      <4>3. (o + 1) - 1 = o
        BY <3>1
      <4> QED BY <1>2, <1>3, <1>6, <3>1, <4>2, <4>3 DEF SeedDue
    <3>4. o + 1 \in ChunkStart(NumObs, nCPUs, i) .. ChunkEnd(NumObs, nCPUs, i) + 1
      BY <1>1, <2>1, <2>2, <3>1 DEF Chunk
    <3>5. cursor'[i] <= ChunkEnd(NumObs, nCPUs, i) => stream'[i] = SeedDue(cursor[i])'
      BY <3>1, <3>3 DEF SeedDue
    <3> QED BY <1>2, <2>2, <3>1, <3>2, <3>4, <3>5 DEF WorkerInvariant, setup
  <2>3. CASE j # i
    <3>1. o \notin Chunk(NumObs, nCPUs, j)
      BY <1>1, <2>3, NumObsAssumption, PartitionExactCover DEF ExactCover
    <3>2. cursor'[j] = cursor[j] /\ stream'[j] = stream[j]
      BY <1>1, <1>2, <2>1, <2>3 DEF TypeOK
    <3>3. \A x \in Chunk(NumObs, nCPUs, j) : Tested(x)' <=> Tested(x)
      BY <1>6, <2>1, <3>1
    <3>4. ASSUME NEW k, k = cursor[j], j < spawned, k <= ChunkEnd(NumObs, nCPUs, j)
          PROVE  SeedDue(k)' = SeedDue(k)
      <4>1. k \in Chunk(NumObs, nCPUs, j) /\ k <= cursor[j]
        BY <2>1, <3>4 DEF WorkerInvariant, Chunk
      <4> QED BY <1>8, <2>1, <3>4, <4>1
    <3>5. j < spawned /\ cursor[j] <= ChunkEnd(NumObs, nCPUs, j)
            => stream[j] = (SeedDue(cursor[j]))'
      BY <2>1, <3>2, <3>4 DEF WorkerInvariant, SeedDue
    <3> QED BY <1>2, <2>1, <3>2, <3>3, <3>5 DEF WorkerInvariant, setup
  <2> QED BY <2>2, <2>3
<1>11. ASSUME NEW x \in Isolates
       PROVE  sig_local_vec'[x] = Zero
  <2>1. x \in Obs /\ sig_local_vec[x] = Zero
    BY <1>3, IsolatesAssumption DEF Progress, Running
  <2> QED BY <1>2, <1>3, <2>1 DEF TypeOK, Running
<1>12. Progress'
  BY <1>2, <1>3, <1>10, <1>11, <1>15 DEF Progress, Running, setup
<1> QED BY <1>1, <1>5, <1>6, <1>12, <1>13, <1>14

LEMMA WorkInvariant ==
  ASSUME Invariant, NEW i \in Obs, Work(i), NEW o, o = cursor[i],
         NEW p, p = PValueOf(ran, o, stream[i])
  PROVE  Invariant'
<1>1. TypeOK /\ Progress /\ Rightness
  BY DEF Invariant, RunInvariant
<1>2. UNCHANGED <<phase, ran>> /\ phase = "running"
  BY <1>1, WorkEffect DEF Working
<1>3. /\ TypeOK' /\ Progress' /\ o \in Obs /\ RightlyTested(o)'
      /\ \A x \in Obs \ {o} : /\ Tested(x)' <=> Tested(x)
                              /\ Tested(x) => (RightlyTested(x) => RightlyTested(x)')
  BY <1>1, WorkProgress
<1>4. Rightness'
  <2>1. ASSUME NEW x \in Obs, Tested(x)'
        PROVE  RightlyTested(x)'
    <3>1. CASE x = o
      BY <1>3, <3>1
    <3>2. CASE x # o
      <4>1. Tested(x) /\ RightlyTested(x)
        BY <1>1, <1>2, <1>3, <2>1, <3>2 DEF Rightness
      <4> QED BY <1>3, <3>2, <4>1
    <3> QED BY <3>1, <3>2
  <2> QED BY <1>1, <1>2, <2>1 DEF Rightness, Idle
<1> QED BY <1>3, <1>4 DEF Invariant, RunInvariant

(* When all threads have returned every observation has been tested.       *)
LEMMA JoinAllProgress ==
  ASSUME TypeOK, Progress, JoinAll
  PROVE  /\ TypeOK' /\ Progress'
         /\ \A o \in Obs : /\ Tested(o) /\ Tested(o)'
                           /\ RightlyTested(o)' <=> RightlyTested(o)
<1>1. /\ Running /\ nCPUs \in Nat \ {0} /\ spawned = TotThreads(NumObs, nCPUs)
      /\ AllReturned
  BY DEF JoinAll, Running, Progress, TypeOK
<1>2. ASSUME NEW o \in Obs
      PROVE  Tested(o)
  <2>1. PICK i \in Threads(NumObs, nCPUs) : o \in Chunk(NumObs, nCPUs, i)
    BY <1>1, NumObsAssumption, ChunkOfObservation DEF Obs
  <2>2. i < spawned /\ ~Working(i) /\ i \in Obs
    BY <1>1, ThreadsAreFew DEF Threads, AllReturned
  <2>3. WorkerInvariant(i) /\ cursor[i] \in Nat /\ o \in Nat
        /\ ChunkEnd(NumObs, nCPUs, i) \in Nat /\ o <= ChunkEnd(NumObs, nCPUs, i)
    BY <1>1, <2>1, <2>2, ChunkInObs DEF Progress, TypeOK, Obs, Chunk
  <2>4. o < cursor[i]
    BY <1>1, <2>2, <2>3 DEF Working, Running
  <2> QED BY <2>1, <2>2, <2>3, <2>4 DEF WorkerInvariant
<1>3. 0 \in Seeds
  BY SeedModAssumption DEF Seeds
<1>4. TypeOK'
  BY <1>1, <1>3 DEF JoinAll, TypeOK, Running, setup, display, results, history
<1>5. \A o \in Obs : /\ Tested(o)' <=> Tested(o)
                     /\ SeedDue(o)' = SeedDue(o)
                     /\ RightlyTested(o)' <=> RightlyTested(o)
  BY DEF JoinAll, results, history, Tested, RightlyTested, SeedDue
<1>6. Progress'
  BY <1>1, <1>5 DEF Progress, JoinAll, Running, setup, results, history
<1> QED BY <1>2, <1>4, <1>5, <1>6

LEMMA JoinAllInvariant ==
  ASSUME Invariant, JoinAll
  PROVE  Invariant'
<1>1. TypeOK /\ Progress /\ Rightness
  BY DEF Invariant, RunInvariant
<1>2. Rightness'
  BY <1>1, JoinAllProgress DEF Rightness, JoinAll, Running, history
<1> QED BY <1>1, <1>2, JoinAllProgress DEF Invariant, RunInvariant
-----------------------------------------------------------------------------
(* Every step keeps the invariant.                                         *)
LEMMA NextInvariant == Invariant /\ [Next]_vars => Invariant'
<1> SUFFICES ASSUME Invariant, [Next]_vars PROVE Invariant'
  OBVIOUS
<1>1. CASE Configure
  BY <1>1, ConfigureInvariant
<1>2. CASE Choose
  BY <1>2, ChooseInvariant
<1>3. CASE \E clock \in Seeds : Run(clock)
  BY <1>3, RunStepInvariant
<1>4. CASE SpawnWorker
  BY <1>4, SpawnWorkerInvariant
<1>5. CASE \E i \in Obs : Work(i)
  BY <1>5, WorkInvariant
<1>6. CASE JoinAll
  BY <1>6, JoinAllInvariant
<1>7. CASE UNCHANGED vars
  <2>1. \A o \in Obs : /\ Tested(o)' <=> Tested(o)
                       /\ SeedDue(o)' = SeedDue(o)
                       /\ RightlyTested(o)' <=> RightlyTested(o)
    BY <1>7 DEF vars, history, results, Tested, RightlyTested, SeedDue
  <2>2. \A i : WorkerInvariant(i)' <=> WorkerInvariant(i)
    BY <1>7 DEF vars, setup, threads, history, WorkerInvariant, Tested, SeedDue
  <2>3. TypeOK'
    BY <1>7 DEF Invariant, TypeOK, vars, setup, display, results, threads, history
  <2>4. Progress'
    BY <1>7, <2>1, <2>2 DEF Invariant, RunInvariant, Progress, Running, vars, setup,
      results, threads, history
  <2>5. Rightness'
    BY <1>7, <2>1 DEF Invariant, RunInvariant, Rightness, Idle, vars, threads, history
  <2> QED BY <2>3, <2>4, <2>5 DEF Invariant, RunInvariant
<1> QED BY <1>1, <1>2, <1>3, <1>4, <1>5, <1>6, <1>7 DEF Next

(* In every reachable state each variable has its type and the progress of *)
(* the run is as RunInvariant says.                                        *)
THEOREM AlwaysInvariant == Spec => []Invariant
<1>1. Init => Invariant
  BY InitInvariant
<1>2. Invariant /\ [Next]_vars => Invariant'
  BY NextInvariant
<1> QED BY <1>1, <1>2, PTL DEF Spec

(* Type correctness.                                                       *)
THEOREM TypeCorrect == Spec => []TypeOK
<1>1. Invariant => TypeOK
  BY DEF Invariant
<1> QED BY <1>1, AlwaysInvariant, PTL

(* The progress of a run, worker by worker.                                *)
THEOREM RunCorrect == Spec => []RunInvariant
<1>1. Invariant => RunInvariant
  BY DEF Invariant
<1> QED BY <1>1, AlwaysInvariant, PTL

(* Two workers of CalcPseudoP_threaded are never at the same element of    *)
(* the shared vectors.                                                     *)
THEOREM WorkersAlwaysApart == Spec => []WorkersApart
<1>1. Invariant => WorkersApart
  <2> SUFFICES ASSUME Invariant, NEW i \in Obs, Working(i)
               PROVE  /\ cursor[i] \in Obs
                      /\ \A j \in Obs \ {i} : Working(j) => cursor[i] # cursor[j]
    BY DEF WorkersApart
  <2>1. ASSUME NEW j \in Obs \ {i}, Working(j)
        PROVE  cursor[i] # cursor[j]
    <3>1. /\ nCPUs \in Nat \ {0}
          /\ i \in Threads(NumObs, nCPUs) /\ j \in Threads(NumObs, nCPUs)
          /\ cursor[i] \in Chunk(NumObs, nCPUs, i)
          /\ cursor[j] \in Chunk(NumObs, nCPUs, j)
      BY <2>1, AtWork DEF Invariant, RunInvariant
    <3> QED BY <2>1, <3>1, NumObsAssumption, PartitionExactCover DEF ExactCover
  <2> QED BY <2>1, AtWork DEF Invariant, RunInvariant
<1> QED BY <1>1, AlwaysInvariant, PTL

(* CalcPseudoP_range never takes up an observation a second time.          *)
THEOREM EachTestedOnce == Spec => TestedOnce
<1> DEFINE Once == \A i \in Obs :
             Running /\ Running' /\ i < spawned /\ cursor'[i] # cursor[i]
               => ~Tested(cursor[i])
<1>1. Invariant /\ [Next]_vars => Once
  <2> SUFFICES ASSUME Invariant, [Next]_vars, NEW i \in Obs,
                      Running, Running', i < spawned, cursor'[i] # cursor[i]
               PROVE  ~Tested(cursor[i])
    OBVIOUS
  <2>1. cursor \in [Obs -> Nat] /\ spawned \in Nat
    BY DEF Invariant, TypeOK
  <2>2. CASE \E j \in Obs : Work(j)
    <3>1. PICK j \in Obs : Work(j)
      BY <2>2
    <3>2. Working(j) /\ cursor' = [cursor EXCEPT ![j] = cursor[j] + 1]
      BY <3>1, WorkEffect DEF Invariant, RunInvariant
    <3>3. i = j
      BY <2>1, <3>2
    <3> QED BY <3>2, <3>3, AtWork DEF Invariant, RunInvariant
  <2>3. CASE SpawnWorker
    <3>1. i # spawned
      BY <2>1
    <3> QED BY <2>1, <2>3, <3>1 DEF SpawnWorker
  <2>4. CASE Configure \/ Choose
    BY <2>4 DEF Configure, Choose, SetNumThreads, SetNumPermutations, SetLastUsedSeed,
                SetReuseLastSeed, SetRowStandardize, SetSignificanceFilter,
                SetSignificanceCutoff, Keep, BetweenRuns, Running
  <2>5. CASE \E clock \in Seeds : Run(clock)
    BY <2>5 DEF Run, Running
  <2>6. CASE JoinAll
    BY <2>6 DEF JoinAll, Running
  <2>7. CASE UNCHANGED vars
    BY <2>7 DEF vars, threads
  <2> QED BY <2>2, <2>3, <2>4, <2>5, <2>6, <2>7 DEF Next
<1>2. Once => [Once]_vars
  OBVIOUS
<1> QED BY <1>1, AlwaysInvariant, PTL DEF Spec, TestedOnce
-----------------------------------------------------------------------------
(* What a finished run has: seedUsed is the chain of places in the stream  *)
(* that the parameters of the run determine, and the results are those.    *)
LEMMA FinishedRun ==
  ASSUME Invariant, Idle
  PROVE  /\ seedUsed \in [Obs -> Seeds]
         /\ SeedChain(ran, seedUsed)
         /\ sig_local_vec = ResultOf(ran, seedUsed)
<1>1. /\ \A o \in Obs : Tested(o) /\ RightlyTested(o)
      /\ sig_local_vec \in [Obs -> Fractions]
      /\ seedUsed \in [Obs -> Seeds \cup {NoSeed}]
  BY DEF Invariant, RunInvariant, Progress, Rightness, TypeOK, Idle
<1>2. seedUsed \in [Obs -> Seeds]
  BY <1>1 DEF Tested
<1>3. SeedChain(ran, seedUsed)
  BY <1>1 DEF SeedChain, RightlyTested, SeedDue
<1>4. sig_local_vec = ResultOf(ran, seedUsed)
  BY <1>1 DEF ResultOf, RightlyTested
<1> QED BY <1>2, <1>3, <1>4

(* When Run() returns the p-values are those that its parameters determine.*)
THEOREM ResultsAreDetermined == Spec => []ResultsOfLatestRun
<1>1. Invariant => ResultsOfLatestRun
  BY FinishedRun DEF ResultsOfLatestRun
<1> QED BY <1>1, AlwaysInvariant, PTL

(* When Run() returns every category says which cutoffs its p-value meets. *)
THEOREM CategoriesAgree == Spec => []CategoriesMatch
<1>1. Invariant => CategoriesMatch
  <2> SUFFICES ASSUME Invariant, Idle, NEW o \in Obs \ Isolates, NEW f \in 1 .. 4
               PROVE  sig_cat_vec[o] >= f <=> AtMost(sig_local_vec[o], DefaultCutoffs[f])
    BY DEF CategoriesMatch
  <2>1. RightlyTested(o) /\ sig_local_vec[o] \in Fractions
    BY DEF Invariant, RunInvariant, Progress, Rightness, TypeOK, Idle
  <2>2. sig_cat_vec[o] = Category(sig_local_vec[o])
    BY <2>1 DEF RightlyTested
  <2> QED BY <2>1, <2>2, CategoryOfPValue, CopiesAgree
<1> QED BY <1>1, AlwaysInvariant, PTL

(* GetClusterIndicators agrees with GetSigCatIndicators under each filter. *)
THEOREM FilterAgrees == Spec => []FilterMatchesCategory
<1>1. Invariant => FilterMatchesCategory
  <2> SUFFICES ASSUME Invariant, Idle, NEW f \in 1 .. 4, NEW o \in Shown,
                      significance_cutoff = FilterCutoff[f]
               PROVE  ClusterIndicators[o] # NotSig <=> sig_cat_vec[o] >= f
    BY DEF FilterMatchesCategory
  <2>1. o \in Obs /\ o \notin Isolates /\ o \notin Undefs
    BY DEF Shown
  <2>2. RightlyTested(o) /\ sig_local_vec[o] \in Fractions
        /\ cluster_vec[o] = ClusterOf(o)
    BY <2>1 DEF Invariant, RunInvariant, Progress, Rightness, TypeOK, Idle
  <2>3. ClusterOf(o) \in 1 .. 4
    BY <2>1 DEF ClusterOf, HighHigh, LowLow, LowHigh, HighLow
  <2>4. sig_cat_vec[o] = Category(sig_local_vec[o])
    BY <2>1, <2>2 DEF RightlyTested
  <2>5. ClusterIndicators[o] # NotSig <=> AtMost(sig_local_vec[o], FilterCutoff[f])
    BY <2>1, <2>2, <2>3
       DEF ClusterIndicators, Hidden, Undefined, Neighborless, NotSig
  <2> QED BY <2>2, <2>4, <2>5, CategoryOfPValue, CopiesAgree
<1> QED BY <1>1, AlwaysInvariant, PTL

(* GetClusterIndicators shows no significance that the permutations cannot *)
(* resolve.                                                                *)
THEOREM ResolutionRespected == Spec => []NoSignificanceBelowResolution
<1>1. Invariant => NoSignificanceBelowResolution
  <2> SUFFICES ASSUME Invariant, Idle, NEW o \in Shown,
                      ~AtMost(<<1, ran.perms + 1>>, significance_cutoff)
               PROVE  ClusterIndicators[o] = NotSig
    BY DEF NoSignificanceBelowResolution
  <2>1. o \in Obs /\ o \notin Isolates /\ o \notin Undefs
    BY DEF Shown
  <2>2. /\ sig_local_vec[o] = PValueOf(ran, o, seedUsed[o])
        /\ seedUsed[o] \in Seeds /\ cluster_vec[o] = ClusterOf(o)
        /\ ran.perms \in Perms /\ ran.rowStd \in BOOLEAN
        /\ significance_cutoff \in Fractions
    BY <2>1, FinishedRun DEF Invariant, RunInvariant, Progress, Rightness, RightlyTested, TypeOK, Idle
  <2>3. /\ sig_local_vec[o][1] \in Nat /\ sig_local_vec[o][1] >= 1
        /\ sig_local_vec[o][2] = ran.perms + 1
    BY <2>1, <2>2, TestResult DEF PValueOf, Fractions
  <2>4. ran.perms \in Nat
    <3>1. Perms \subseteq Nat
      BY ChoicesAssumption DEF Perms, DefaultPermutations
    <3> QED BY <2>2, <3>1
  <2>5. ~AtMost(sig_local_vec[o], significance_cutoff)
    <3> DEFINE n == sig_local_vec[o][1]
               a == significance_cutoff[1]
               b == significance_cutoff[2]
    <3>1. a \in Nat /\ b \in Nat
      BY <2>2 DEF Fractions
    <3>2. ~(1 * b <= a * (ran.perms + 1))
      BY DEF AtMost
    <3> HIDE DEF n, a, b
    <3>3. b <= n * b
      <4>1. n \in Nat /\ 1 <= n
        BY <2>3 DEF n
      <4> QED BY <3>1, <4>1, ProductMonotone
    <3>4. ~(n * b <= a * (ran.perms + 1))
      <4>1. n * b \in Nat /\ a * (ran.perms + 1) \in Nat
        BY <2>3, <2>4, <3>1 DEF n
      <4> QED BY <3>1, <3>2, <3>3, <4>1
    <3> QED BY <2>3, <3>4 DEF AtMost, n, a, b
  <2>6. ClusterOf(o) \notin {Undefined, Neighborless}
    BY <2>1 DEF ClusterOf, HighHigh, LowLow, LowHigh, HighLow, Undefined, Neighborless
  <2> QED BY <2>1, <2>2, <2>5, <2>6 DEF ClusterIndicators, Hidden
<1> QED BY <1>1, AlwaysInvariant, PTL

(* An undefined observation is shown as undefined or as neighborless.      *)
THEOREM UndefinedIsShown == Spec => []UndefinedAlwaysShown
<1>1. Invariant => UndefinedAlwaysShown
  <2> SUFFICES ASSUME Invariant, Idle, NEW o \in Undefs
               PROVE  ClusterIndicators[o] \in {Undefined, Neighborless}
    BY DEF UndefinedAlwaysShown
  <2>1. o \in Obs
    BY DataAssumption
  <2>2. cluster_vec[o] = ClusterOf(o)
    BY <2>1 DEF Invariant, RunInvariant, Progress, Rightness, Idle
  <2>3. ClusterOf(o) \in {Undefined, Neighborless}
    BY DEF ClusterOf
  <2> QED BY <2>1, <2>2, <2>3 DEF ClusterIndicators, Hidden
<1> QED BY <1>1, AlwaysInvariant, PTL

-----------------------------------------------------------------------------
(* A set of numbers has a least one.                                       *)
LEMMA Least ==
  ASSUME NEW S \in SUBSET Nat, S # {}
  PROVE  \E x \in S : \A y \in S : x <= y
<1>1. PICK x \in S : \A y \in S : ~(<<y, x>> \in OpToRel(<, Nat))
  BY NatLessThanWellFounded, WFMin
<1>2. \A y \in S : ~(y < x)
  BY <1>1 DEF OpToRel
<1> QED BY <1>2

(* An observation that starts no chunk comes after another.                *)
LEMMA StartOrNext ==
  ASSUME NEW p, p.threads \in Nat \ {0}, NEW o \in Obs, ~StartsChunk(p, o)
  PROVE  o - 1 \in Obs
<1>1. PICK i \in Threads(NumObs, p.threads) : o \in Chunk(NumObs, p.threads, i)
  BY NumObsAssumption, ChunkOfObservation DEF Obs
<1> QED BY <1>1, Predecessor

(* Two chains are equal where each place follows from the one before.      *)
LEMMA ChainsAgree ==
  ASSUME NEW S \in SUBSET Obs, NEW s, NEW t,
         \A o \in S : \/ s[o] = t[o]
                      \/ o - 1 \in S /\ (s[o - 1] = t[o - 1] => s[o] = t[o])
  PROVE  \A o \in S : s[o] = t[o]
<1> DEFINE differ == {o \in S : s[o] # t[o]}
<1> SUFFICES ASSUME differ # {} PROVE FALSE
  OBVIOUS
<1>1. differ \in SUBSET Nat
  <2>1. Obs \subseteq Nat
    BY NumObsAssumption DEF Obs
  <2> QED BY <2>1
<1>2. PICK o \in differ : \A x \in differ : o <= x
  <2> HIDE DEF differ
  <2> QED BY <1>1, Least
<1>3. o \in Nat /\ o - 1 \in differ
  BY <1>1, <1>2
<1>4. o <= o - 1
  <2> HIDE DEF differ
  <2> QED BY <1>2, <1>3
<1> QED BY <1>3, <1>4

(* The parameters of a run determine where in the stream each observation  *)
(* is to be tested.                                                        *)
LEMMA ChainExists ==
  ASSUME NEW p, p.threads \in Nat \ {0}, p.seed \in Seeds, p.perms \in Perms
  PROVE  \E s \in [Obs -> Seeds] : SeedChain(p, s)
<1> DEFINE due(s, o) == IF StartsChunk(p, o)
                        THEN (p.seed + o) % SeedMod
                        ELSE StreamAfter(o - 1, s[o - 1], p.perms)
           chainTo(n) == \E s \in [Obs -> Seeds] : \A o \in Obs : o < n => s[o] = due(s, o)
           short == {n \in 0 .. NumObs : ~chainTo(n)}
<1>1. 0 \in Seeds /\ p.seed \in Nat /\ SeedMod \in Nat \ {0} /\ NumObs \in Nat
  BY SeedModAssumption, NumObsAssumption DEF Seeds
<1>2. ASSUME NEW s \in [Obs -> Seeds], NEW o \in Obs
      PROVE  due(s, o) \in Seeds
  <2>1. CASE StartsChunk(p, o)
    BY <1>1, <2>1 DEF Seeds, Obs
  <2>2. CASE ~StartsChunk(p, o)
    <3>1. o - 1 \in Obs
      BY <2>2, StartOrNext
    <3>2. StreamAfter(o - 1, s[o - 1], p.perms) \in Seeds
      BY <3>1, TestAssumption DEF StreamAfter
    <3> QED BY <2>2, <3>2
  <2> QED BY <2>1, <2>2
<1>3. chainTo(0)
  <2>1. [o \in Obs |-> 0] \in [Obs -> Seeds]
    BY <1>1
  <2>2. \A o \in Obs : ~(o < 0)
    BY DEF Obs
  <2> HIDE DEF due
  <2> QED BY <2>1, <2>2
<1>4. ASSUME NEW n \in 0 .. NumObs - 1, chainTo(n)
      PROVE  chainTo(n + 1)
  <2>1. PICK s \in [Obs -> Seeds] : \A o \in Obs : o < n => s[o] = due(s, o)
    BY <1>4
  <2> DEFINE t == [s EXCEPT ![n] = due(s, n)]
  <2>2. n \in Obs /\ n \in Nat /\ \A o \in Obs : o \in Nat
    BY <1>1 DEF Obs
  <2>3. due(s, n) \in Seeds
    BY <1>2, <2>2
  <2>4. /\ t \in [Obs -> Seeds] /\ t[n] = due(s, n)
        /\ \A o \in Obs : o # n => t[o] = s[o]
    <3> HIDE DEF due
    <3> QED BY <2>2, <2>3
  <2>5. ASSUME NEW o \in Obs, o < n + 1
        PROVE  t[o] = due(t, o)
    <3>1. due(t, o) = due(s, o)
      <4>1. CASE StartsChunk(p, o)
        BY <4>1
      <4>2. CASE ~StartsChunk(p, o)
        <5>1. o - 1 \in Obs /\ o - 1 # n
          BY <2>2, <2>5, <4>2, StartOrNext
        <5>2. t[o - 1] = s[o - 1]
          <6> HIDE DEF t
          <6> QED BY <2>4, <5>1
        <5> HIDE DEF t
        <5> QED BY <4>2, <5>2
      <4> QED BY <4>1, <4>2
    <3>2. t[o] = due(s, o)
      <4> HIDE DEF t, due
      <4>1. CASE o = n
        BY <2>4, <4>1
      <4>2. CASE o # n
        BY <2>1, <2>2, <2>4, <2>5, <4>2
      <4> QED BY <4>1, <4>2
    <3> QED BY <3>1, <3>2
  <2> HIDE DEF t, due
  <2> QED BY <2>4, <2>5
<1>5. short = {}
  <2> SUFFICES ASSUME short # {} PROVE FALSE
    OBVIOUS
  <2>1. short \in SUBSET Nat
    BY <1>1
  <2>2. PICK n \in short : \A x \in short : n <= x
    <3> HIDE DEF short
    <3> QED BY <2>1, Least
  <2> HIDE DEF chainTo
  <2>3. n \in 0 .. NumObs /\ n # 0 /\ ~chainTo(n)
    BY <1>3, <2>2
  <2>4. n - 1 \in 0 .. NumObs - 1 /\ (n - 1) + 1 = n
    BY <1>1, <2>3
  <2>5. ~chainTo(n - 1)
    BY <1>4, <2>3, <2>4
  <2>6. n - 1 \in short
    BY <1>1, <2>4, <2>5
  <2>7. n <= n - 1
    <3> HIDE DEF short
    <3> QED BY <2>2, <2>6
  <2> QED BY <2>3, <2>7
<1>6. chainTo(NumObs)
  <2> HIDE DEF chainTo
  <2> QED BY <1>1, <1>5
<1>7. PICK s \in [Obs -> Seeds] : \A o \in Obs : o < NumObs => s[o] = due(s, o)
  BY <1>6
<1>8. SeedChain(p, s)
  BY <1>1, <1>7 DEF SeedChain, Obs
<1> QED BY <1>8

(* With one thread only observation 0 starts a chunk, and the first chunk  *)
(* of more threads starts there too.                                       *)
LEMMA SerialChunk ==
  ASSUME NEW p, p.threads = 1, NEW o \in Obs
  PROVE  StartsChunk(p, o) <=> o = 0
<1>1. NumObs \in Nat \ {0} /\ o \in Nat /\ o <= NumObs - 1
  BY NumObsAssumption DEF Obs
<1>2. Quotient(NumObs, 1) = NumObs
  <2>1. /\ Quotient(NumObs, 1) \in Nat /\ Remainder(NumObs, 1) \in 0 .. 1 - 1
        /\ NumObs = 1 * Quotient(NumObs, 1) + Remainder(NumObs, 1)
    <3>1. 1 \in Nat \ {0} /\ NumObs \in Nat
      BY <1>1
    <3> QED BY <3>1, DivMod
  <2> QED BY <1>1, <2>1
<1>3. TotThreads(NumObs, 1) = 1
  BY <1>1, <1>2, ThreadCount
<1>4. ChunkStart(NumObs, 1, 0) = 0 /\ ChunkStart(NumObs, 1, 1) = NumObs
  BY <1>1, <1>3, FirstAndLast
<1>5. 0 \in Threads(NumObs, 1)
  BY <1>3 DEF Threads
<1>6. ChunkEnd(NumObs, 1, 0) = NumObs - 1
  <2>1. ChunkStart(NumObs, 1, 0 + 1) = ChunkEnd(NumObs, 1, 0) + 1
    BY <1>1, NextStart
  <2>2. ChunkEnd(NumObs, 1, 0) \in Int
    BY <1>1, StartForm
  <2> QED BY <1>1, <1>4, <2>1, <2>2
<1>7. o \in Chunk(NumObs, 1, 0)
  BY <1>1, <1>4, <1>6 DEF Chunk
<1> QED BY <1>4, <1>5, <1>7, StartsItsChunk

(* However many threads there are, the first of them finds the p-values    *)
(* that a run with one thread finds.                                       *)
THEOREM FirstChunkAlwaysSerial == Spec => []FirstChunkIsSerial
<1>1. ASSUME Invariant, Idle, NumObs > 0
      PROVE  \E s \in [Obs -> Seeds] :
               /\ SeedChain([ran EXCEPT !.threads = 1], s)
               /\ \A o \in Chunk(NumObs, ran.threads, 0) :
                    sig_local_vec[o] = ResultOf(ran, s)[o]
  <2> DEFINE p == [ran EXCEPT !.threads = 1]
             c == ran.threads
             first == Chunk(NumObs, c, 0)
  <2>1. /\ ran \in [threads : Int, perms : Perms, seed : Seeds, rowStd : BOOLEAN]
        /\ c \in Nat \ {0}
        /\ \A o \in Obs : RightlyTested(o)
    BY <1>1 DEF Invariant, TypeOK, RunInvariant, Rightness, Idle
  <2>2. /\ p.threads = 1 /\ p.seed = ran.seed /\ p.perms = ran.perms
    BY <2>1
  <2>3. PICK s \in [Obs -> Seeds] : SeedChain(p, s)
    <3> HIDE DEF p
    <3> QED BY <2>1, <2>2, ChainExists
  <2>4. 0 \in Obs /\ NumObs \in Nat
    BY <1>1, NumObsAssumption DEF Obs
  <2>5. 0 \in Threads(NumObs, c)
    <3>1. PICK i \in Threads(NumObs, c) : 0 \in Chunk(NumObs, c, i)
      BY <2>1, <2>4, ChunkOfObservation DEF Obs
    <3>2. TotThreads(NumObs, c) \in Nat
      BY <2>1, ThreadsAreFew
    <3> QED BY <3>1, <3>2 DEF Threads
  <2>6. /\ ChunkStart(NumObs, c, 0) = 0 /\ ChunkEnd(NumObs, c, 0) \in Obs
        /\ first \in SUBSET Obs
    BY <2>1, <2>4, <2>5, FirstAndLast, ChunkInObs
  <2> HIDE DEF p
  <2>7. ASSUME NEW o \in first
        PROVE  \/ s[o] = seedUsed[o]
               \/ o - 1 \in first /\ (s[o - 1] = seedUsed[o - 1] => s[o] = seedUsed[o])
    <3>1. o \in Obs
      BY <2>6
    <3>2. /\ StartsChunk(p, o) <=> o = 0
          /\ StartsChunk(ran, o) <=> o = 0
      BY <2>1, <2>2, <2>5, <2>6, <2>7, <3>1, SerialChunk, StartsItsChunk
    <3>3. /\ s[o] = IF o = 0 THEN (ran.seed + o) % SeedMod
                    ELSE StreamAfter(o - 1, s[o - 1], ran.perms)
          /\ seedUsed[o] = IF o = 0 THEN (ran.seed + o) % SeedMod
                           ELSE StreamAfter(o - 1, seedUsed[o - 1], ran.perms)
      BY <2>1, <2>2, <2>3, <3>1, <3>2 DEF SeedChain, RightlyTested, SeedDue
    <3>4. o # 0 => o - 1 \in first
      BY <2>4, <2>6, <2>7 DEF Chunk, Obs
    <3> QED BY <3>3, <3>4
  <2>8. \A o \in first : s[o] = seedUsed[o]
    <3> HIDE DEF first
    <3> QED BY <2>6, <2>7, ChainsAgree
  <2>9. \A o \in first : sig_local_vec[o] = ResultOf(ran, s)[o]
    BY <2>1, <2>6, <2>8 DEF RightlyTested, ResultOf
  <2> QED BY <2>3, <2>9 DEF p
<1>2. Invariant => FirstChunkIsSerial
  BY <1>1 DEF FirstChunkIsSerial
<1> QED BY <1>2, AlwaysInvariant, PTL

(* The division of work is exact, under every number of threads that the   *)
(* caller may set and a run may settle for.                                *)
THEOREM WorkIsDivided == Spec => []WorkDivided
<1>1. Invariant => WorkDivided
  <2> SUFFICES ASSUME nCPUs \in Int, nCPUs >= 1
               PROVE  /\ ExactCover(NumObs, nCPUs)
                      /\ NoEmptyChunk(NumObs, nCPUs)
                      /\ Balanced(NumObs, nCPUs)
    BY DEF Invariant, TypeOK, WorkDivided
  <2>1. nCPUs \in Nat \ {0} /\ NumObs \in Nat
    BY NumObsAssumption
  <2> QED BY <2>1, PartitionExactCover, PartitionNoEmptyChunk, PartitionBalanced
<1> QED BY <1>1, AlwaysInvariant, PTL
-----------------------------------------------------------------------------
(* They are parameters of the right type.                                  *)
LEMMA AbsParamsType ==
  ASSUME TypeOK
  PROVE  AbsParams \in Service!Params
<1>1. Perms \subseteq Nat
  BY ChoicesAssumption DEF Perms, DefaultPermutations
<1>2. Service!Seeds = Seeds
  BY DEF Service!Seeds, Seeds
<1> QED BY <1>1, <1>2 DEF TypeOK, AbsParams, Service!Params

(* Substituting nothing for the constants, the abstract module means the   *)
(* same results.                                                           *)
LEMMA SameResult ==
  ASSUME NEW p, NEW r, IsResult(p, r)
  PROVE  Service!IsResult(p, r)
BY DEF IsResult, SeedChain, ResultOf, PValueOf, StreamAfter, StartsChunk, PseudoP,
       Zero, Seeds, Obs, Threads, ChunkStart, TotThreads, Quotient, Remainder,
       Service!IsResult, Service!SeedChain, Service!ResultOf, Service!PValueOf,
       Service!StreamAfter, Service!StartsChunk, Service!PseudoP, Service!Zero,
       Service!Seeds, Service!Obs, Service!Threads, Service!ChunkStart,
       Service!TotThreads, Service!Quotient, Service!Remainder

(* Joining the threads delivers the result that is due.                    *)
LEMMA JoinAllEndsRun ==
  ASSUME Invariant, JoinAll
  PROVE  Service!EndRun
<1>1. ~Idle /\ Idle' /\ UNCHANGED AbsParams
  BY DEF JoinAll, Idle, AbsParams, setup
<1>2. Invariant'
  BY JoinAllInvariant
<1>3. /\ seedUsed' \in [Obs -> Seeds]
      /\ SeedChain(ran', seedUsed')
      /\ sig_local_vec' = ResultOf(ran', seedUsed')
  <2>1. (Invariant /\ Idle => /\ seedUsed \in [Obs -> Seeds]
                              /\ SeedChain(ran, seedUsed)
                              /\ sig_local_vec = ResultOf(ran, seedUsed))'
    BY FinishedRun, PTL
  <2> QED BY <1>1, <1>2, <2>1
<1>4. ran' = [threads |-> nCPUs, perms |-> permutations, seed |-> last_seed_used,
              rowStd |-> row_standardize]
  BY DEF JoinAll, history, Invariant, RunInvariant, Progress, Rightness, Running
<1>5. IsResult(AbsParams, sig_local_vec')
  <2>1. SeedChain(AbsParams, seedUsed')
    BY <1>3, <1>4 DEF SeedChain, StartsChunk, AbsParams
  <2>2. ResultOf(AbsParams, seedUsed') = ResultOf(ran', seedUsed')
    BY <1>4 DEF ResultOf, PValueOf, AbsParams
  <2> QED BY <1>3, <2>1, <2>2 DEF IsResult
<1>6. AbsResult' = sig_local_vec'
  BY <1>1 DEF AbsResult
<1> QED BY <1>1, <1>5, <1>6, SameResult DEF Service!EndRun

(* Every step is a step of ReproducibleRun or none.                        *)
LEMMA NextServes ==
  ASSUME Invariant, Invariant', [Next]_vars
  PROVE  [Service!Next]_(Service!vars)
<1>1. AbsParams \in Service!Params /\ AbsParams' \in Service!Params
  <2>1. TypeOK /\ TypeOK'
    BY DEF Invariant
  <2>2. AbsParams \in Service!Params
    BY <2>1, AbsParamsType
  <2>3. (TypeOK => AbsParams \in Service!Params)'
    BY AbsParamsType, PTL
  <2>4. (Service!Params)' = Service!Params
    BY DEF Service!Params, Service!Seeds
  <2> QED BY <2>1, <2>2, <2>3, <2>4
<1>2. CASE Configure
  <2>1. Idle /\ Idle' /\ UNCHANGED AbsResult
    BY <1>2 DEF Configure, SetNumThreads, SetNumPermutations, SetLastUsedSeed,
                SetReuseLastSeed, SetRowStandardize, BetweenRuns, Idle, results,
                threads, AbsResult
  <2> QED BY <1>1, <2>1 DEF Service!Next, Service!SetParams
<1>3. CASE Choose
  <2>1. UNCHANGED <<setup, results, threads>>
    BY <1>3 DEF Choose, SetSignificanceFilter, SetSignificanceCutoff, Keep,
                BetweenRuns
  <2> QED BY <2>1 DEF setup, results, threads, Idle, AbsParams, AbsResult, Service!vars
<1>4. ASSUME NEW clock \in Seeds, Run(clock)
      PROVE  [Service!Next]_(Service!vars)
  <2>1. ~Idle' /\ UNCHANGED <<permutations, row_standardize, reuse_last_seed>>
        /\ AbsResult' = <<>>
    BY <1>4 DEF Run, Idle, AbsResult
  <2>2. /\ nCPUs >= 1 => nCPUs' = nCPUs
        /\ reuse_last_seed => last_seed_used' = last_seed_used
    BY <1>4 DEF Run, Invariant, TypeOK
  <2>3. CASE Idle
    <3>1. Service!BeginRun
      BY <1>1, <2>1, <2>2, <2>3 DEF Service!BeginRun, AbsParams
    <3> QED BY <3>1 DEF Service!Next
  <2>4. CASE ~Idle
    <3>1. nCPUs >= 1 /\ reuse_last_seed
      BY <1>4, <2>4 DEF Run, Idle, Invariant, RunInvariant, Progress
    <3> QED BY <2>1, <2>2, <2>4, <3>1 DEF Service!vars, AbsParams, AbsResult
  <2> QED BY <2>3, <2>4
<1>5. CASE SpawnWorker
  BY <1>5 DEF SpawnWorker, setup, Idle, AbsParams, AbsResult, Service!vars
<1>6. CASE \E i \in Obs : Work(i)
  <2>1. PICK i \in Obs : Work(i)
    BY <1>6
  <2>2. ~Idle /\ UNCHANGED <<setup, phase>>
    BY <2>1, WorkEffect DEF Invariant, RunInvariant, Working, Idle
  <2> QED BY <2>2 DEF setup, Idle, AbsParams, AbsResult, Service!vars
<1>7. CASE JoinAll
  BY <1>7, JoinAllEndsRun DEF Service!Next
<1>8. CASE UNCHANGED vars
  BY <1>8 DEF vars, setup, results, threads, Idle, AbsParams, AbsResult, Service!vars
<1> QED BY <1>2, <1>3, <1>4, <1>5, <1>6, <1>7, <1>8 DEF Next

(* The object implements ReproducibleRun: what the caller finds after Run()*)
(* depends on the parameters of that run and on nothing else.              *)
THEOREM Reproducible == Spec => ImplementsService
<1>1. Init => Service!Init
  <2> SUFFICES ASSUME Init PROVE Service!Init
    OBVIOUS
  <2>1. TypeOK
    BY InitInvariant DEF Invariant
  <2>2. ~Idle
    BY DEF Init, Idle
  <2> QED BY <2>1, <2>2, AbsParamsType DEF Service!Init, AbsResult
<1>2. Invariant /\ Invariant' /\ [Next]_vars => [Service!Next]_(Service!vars)
  BY NextServes
<1> QED BY <1>1, <1>2, AlwaysInvariant, PTL DEF Spec, ImplementsService, Service!Spec
=============================================================================
