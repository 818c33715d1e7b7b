-------------------------- MODULE LocalSAProperties --------------------------
(***************************************************************************)
(* What makes a local statistics object correct, whatever the scheduling   *)
(* of its worker threads and whatever the caller does between two runs.    *)
(***************************************************************************)
EXTENDS LocalSA

Idle == phase = "idle"

Running == phase = "running"

Tested(o) == seedUsed[o] # NoSeed
-----------------------------------------------------------------------------
(* The type of every variable; the result vectors are empty until the run  *)
(* that the constructor makes has resized them.                            *)
TypeOK ==
  /\ nCPUs \in Int
  /\ permutations \in Perms
  /\ last_seed_used \in Seeds
  /\ reuse_last_seed \in BOOLEAN
  /\ row_standardize \in BOOLEAN
  /\ significance_filter \in {-1} \cup 1 .. 4
  /\ significance_cutoff \in Fractions
  /\ kept \in [{"user", "bo", "fdr"} -> Fractions]
  /\ phase \in {"constructed", "running", "idle"}
  /\ IF phase = "constructed"
     THEN sig_local_vec = <<>> /\ sig_cat_vec = <<>> /\ cluster_vec = <<>>
     ELSE /\ sig_local_vec \in [Obs -> Fractions]
          /\ sig_cat_vec \in [Obs -> 0 .. 5]
          /\ cluster_vec \in [Obs -> 1 .. 6]
  /\ spawned \in Nat
  /\ cursor \in [Obs -> Nat]
  /\ stream \in [Obs -> Seeds]
  /\ ran \in [threads : Int, perms : Perms, seed : Seeds, rowStd : BOOLEAN]
  /\ seedUsed \in [Obs -> Seeds \cup {NoSeed}]

(* No two threads are ever at the same element of sig_local_vec and        *)
(* sig_cat_vec, and none is outside the vectors: CalcPseudoP_range writes  *)
(* both without a lock.                                                    *)
WorkersApart ==
  \A i \in Obs : Working(i) =>
    /\ cursor[i] \in Obs
    /\ \A j \in Obs \ {i} : Working(j) => cursor[i] # cursor[j]

(* Under every thread count that a run can come to, each observation is in *)
(* the interval of one thread, no thread is created for an empty interval, *)
(* whose loop would compare a size_t with an int b of -1, and no two       *)
(* intervals of CalcPseudoP_threaded differ by more than one observation.  *)
WorkDivided ==
  nCPUs >= 1 => /\ ExactCover(NumObs, nCPUs)
                /\ NoEmptyChunk(NumObs, nCPUs)
                /\ Balanced(NumObs, nCPUs)

(* No worker takes up an observation that this run has tested already: a   *)
(* second test would overwrite the first with a draw from another place of *)
(* the stream.                                                             *)
TestedOnce ==
  [][\A i \in Obs : Running /\ Running' /\ i < spawned /\ cursor'[i] # cursor[i]
       => ~Tested(cursor[i])]_vars

(* When Run() returns, the category of every observation with neighbours   *)
(* says which of GetDefaultCutoffs() its p-value meets.  The two vectors   *)
(* are resized and not cleared, so that a category left from an earlier    *)
(* run would go unnoticed.                                                 *)
CategoriesMatch ==
  Idle => \A o \in Obs \ Isolates, f \in 1 .. 4 :
            sig_cat_vec[o] >= f <=> AtMost(sig_local_vec[o], DefaultCutoffs[f])

(* When Run() returns, the p-values are those that its parameters          *)
(* determine: each from its own place of the stream, none left from an     *)
(* earlier run, no matter how the threads were scheduled.                  *)
ResultsOfLatestRun ==
  Idle => \E s \in [Obs -> Seeds] :
            SeedChain(ran, s) /\ sig_local_vec = ResultOf(ran, s)

(* The number of threads changes the p-values, since every chunk starts a  *)
(* stream of its own; those of the first chunk it leaves alone.            *)
FirstChunkIsSerial ==
  Idle /\ NumObs > 0 =>
    \E s \in [Obs -> Seeds] :
      /\ SeedChain([ran EXCEPT !.threads = 1], s)
      /\ \A o \in Chunk(NumObs, ran.threads, 0) :
           sig_local_vec[o] = ResultOf(ran, s)[o]

(* Once a run has begun the caller gets control back.                      *)
RunReturns == Running ~> Idle

(* The parameters and the results as ReproducibleRun speaks about them.    *)
AbsParams == [threads |-> nCPUs, perms |-> permutations, seed |-> last_seed_used,
              rowStd |-> row_standardize, reuse |-> reuse_last_seed]

AbsResult == IF Idle THEN sig_local_vec ELSE <<>>

Service == INSTANCE ReproducibleRun WITH
  params <- AbsParams, busy <- ~Idle, result <- AbsResult

(* A run, however its threads interleave, is one step of the abstract      *)
(* object; setters change no result and a run changes no parameter but the *)
(* thread count and the seed that it settles itself.                       *)
ImplementsService == Service!Spec
-----------------------------------------------------------------------------
(***************************************************************************)
(* What the caller is shown.                                               *)
(***************************************************************************)

\* Observations whose significance was tested and is shown.
Shown == Obs \ (Undefs \cup Isolates)

(* The significance filter agrees with the categories: under filter f an   *)
(* observation shows its cluster if and only if its category is at least   *)
(* f.  The thresholds stand in the code three times, in                    *)
(* SetSignificanceFilter, CalcPseudoP_range and GetDefaultCutoffs, and the *)
(* comparison is written once as <= and once as >.                         *)
FilterMatchesCategory ==
  Idle => \A f \in 1 .. 4, o \in Shown :
    significance_cutoff = FilterCutoff[f] =>
      (ClusterIndicators[o] # NotSig <=> sig_cat_vec[o] >= f)

(* P permutations resolve nothing below 1/(P+1): under a cutoff smaller    *)
(* than that no observation with neighbours is shown as significant.       *)
NoSignificanceBelowResolution ==
  Idle /\ ~AtMost(<<1, ran.perms + 1>>, significance_cutoff) =>
            \A o \in Shown : ClusterIndicators[o] = NotSig

(* An undefined observation is shown as such under every cutoff and after  *)
(* every run, although its neighbours were permuted and it has a p-value.  *)
UndefinedAlwaysShown ==
  Idle => \A o \in Undefs : ClusterIndicators[o] \in {Undefined, Neighborless}
-----------------------------------------------------------------------------
(***************************************************************************)
(* Why the results are right: the inductive strengthening.  What a worker  *)
(* has done so far is what the run has to deliver, it knows where the      *)
(* stream goes on, and what is ahead of every worker is untouched.         *)
(***************************************************************************)

\* Where in the stream o must be tested, given where o - 1 was.
SeedDue(o) ==
  IF StartsChunk(ran, o)
  THEN (ran.seed + o) % SeedMod
  ELSE StreamAfter(o - 1, seedUsed[o - 1], ran.perms)

RightlyTested(o) ==
  /\ seedUsed[o] = SeedDue(o)
  /\ sig_local_vec[o] = IF o \in Isolates THEN Zero
                        ELSE PValueOf(ran, o, seedUsed[o])
  /\ sig_cat_vec[o] = IF o \in Isolates THEN NeighborlessCat
                      ELSE Category(sig_local_vec[o])

WorkerInvariant(i) ==
  IF i < spawned
  THEN /\ cursor[i] \in ChunkStart(NumObs, nCPUs, i) .. ChunkEnd(NumObs, nCPUs, i) + 1
       /\ \A o \in Chunk(NumObs, nCPUs, i) : Tested(o) <=> o < cursor[i]
       /\ cursor[i] <= ChunkEnd(NumObs, nCPUs, i) => stream[i] = SeedDue(cursor[i])
  ELSE \A o \in Chunk(NumObs, nCPUs, i) : ~Tested(o)

(* The progress of each worker, whatever the result vectors hold.          *)
Progress ==
  /\ Running =>
       /\ nCPUs >= 1
       /\ ran = [threads |-> nCPUs, perms |-> permutations,
                 seed |-> last_seed_used, rowStd |-> row_standardize]
       /\ spawned <= TotThreads(NumObs, nCPUs)
       /\ \A i \in Threads(NumObs, nCPUs) : WorkerInvariant(i)
  /\ ~Running => spawned = 0
  /\ phase = "constructed" => nCPUs >= 1 /\ reuse_last_seed
  /\ phase # "constructed" =>
       /\ cluster_vec = [o \in Obs |-> ClusterOf(o)]
       /\ \A o \in Obs : Tested(o) => seedUsed[o] = SeedDue(o)
       /\ \A o \in Isolates : sig_local_vec[o] = Zero

(* What has been tested has been tested rightly, in the end everything.    *)
Rightness ==
  /\ phase # "constructed" =>
       /\ ran.threads >= 1
       /\ \A o \in Obs : Tested(o) => RightlyTested(o)
  /\ Idle => \A o \in Obs : Tested(o)

(* The invariant that the theorems rest on.                                *)
RunInvariant == Progress /\ Rightness

(* The variables have their types, each worker knows where it is, and what *)
(* CalcPseudoP_range has tested it has tested rightly.                     *)
Invariant == TypeOK /\ RunInvariant
-----------------------------------------------------------------------------
(***************************************************************************)
(* Statements of the documentation and of comments.                        *)
(***************************************************************************)

(* "5 (neighborless/island), 6 (undefined)": an island is shown as 5, or   *)
(* as 6 where it is undefined too, and an undefined observation as 6.      *)
(* swig/R/wn1_rgeoda_sp.Rmd:82                                             *)
IndicatorsAsDocumented ==
  Idle => /\ \A o \in Isolates \ Undefs : ClusterIndicators[o] = 5
          /\ \A o \in Undefs : ClusterIndicators[o] = 6 \/ o \in Isolates

(* "user input cutoff" of filter -1: with it the cutoff in force is the    *)
(* one that SetUserCutoff was given.  src/AbstractLocalSA.cpp:42           *)
UserCutoffInForce ==
  significance_filter = -1 /\ kept["user"] # Zero =>
    significance_cutoff = kept["user"]
=============================================================================
