------------------------------- MODULE LocalSA -------------------------------
(***************************************************************************)
(* A local spatial autocorrelation object: AbstractLocalSA together with   *)
(* UniLisa, its only concrete class.  The caller constructs it, which      *)
(* already runs it once, then sets parameters and calls Run() again as it  *)
(* likes; Run() divides the observations among threads that write the      *)
(* shared result vectors without a lock, and waits for them.               *)
(*                                                                         *)
(* A worker's step tests one whole observation: what it reads meanwhile    *)
(* (data, weights, parameters) does not change during a run, and what it   *)
(* writes (one element of sig_local_vec and of sig_cat_vec) nobody reads   *)
(* before join_all.  Module PermutationRange opens the step up.            *)
(***************************************************************************)
EXTENDS PermutationTest

CONSTANTS
  Data,             \* the standardized variable, by sign and magnitude
  Lag,              \* weights->SpatialLag of it; 0 without neighbours
  Undefs,           \* the observations flagged in undefs
  HardwareThreads,  \* wxThread::GetCPUCount()
  PermChoices, ThreadChoices, FilterChoices, CutoffChoices
                    \* the arguments the caller passes to the setters

ASSUME DataAssumption ==
  /\ Data \in [Obs -> Int]
  /\ Lag \in [Obs -> Int]
  /\ \A o \in Isolates : Lag[o] = 0
  /\ Undefs \subseteq Obs
ASSUME HardwareThreadsAssumption == HardwareThreads \in Nat \ {0}

DefaultPermutations == 999

Perms == PermChoices \cup {DefaultPermutations}

ASSUME ChoicesAssumption ==
  /\ PermChoices \subseteq Nat
  /\ ThreadChoices \subseteq Int
  /\ FilterChoices \subseteq Int
  /\ CutoffChoices \subseteq Fractions
ASSUME TestAssumption ==
  \A o \in Obs, s \in Seeds, n \in Perms, b \in BOOLEAN :
    /\ CountLarger(o, s, n, b) \in 0 .. n
    /\ SeedAfter(o, s, n) \in Seeds

VARIABLES
  nCPUs, permutations, last_seed_used, reuse_last_seed, row_standardize,
  significance_filter, significance_cutoff,
  kept,             \* user_sig_cutoff, bo and fdr: kept, and never computed with
  sig_local_vec, sig_cat_vec, cluster_vec,
  phase,            \* the caller's thread: "constructed", "running" or "idle"
  spawned,          \* how many threads of this run have been created
  cursor, stream,   \* a worker's cnt and seed_start
  ran, seedUsed     \* auxiliary: the parameters of the latest run, and where
                    \* in the stream each observation was tested in it

setup == <<nCPUs, permutations, last_seed_used, reuse_last_seed, row_standardize>>
display == <<significance_filter, significance_cutoff, kept>>
results == <<sig_local_vec, sig_cat_vec, cluster_vec>>
threads == <<phase, spawned, cursor, stream>>
history == <<ran, seedUsed>>
vars == <<setup, display, results, threads, history>>
-----------------------------------------------------------------------------
(***************************************************************************)
(* UniLisa::ComputeLoalSA and UniLisa::GetClusterIndicators.               *)
(***************************************************************************)
NotSig == 0
HighHigh == 1
LowLow == 2
LowHigh == 3
HighLow == 4
Undefined == 5
Neighborless == 6

ClusterOf(o) ==
  IF o \in Undefs
  THEN IF o \in Isolates THEN Neighborless ELSE Undefined
  ELSE IF Data[o] > 0 /\ Lag[o] < 0 THEN HighLow
  ELSE IF Data[o] < 0 /\ Lag[o] > 0 THEN LowHigh
  ELSE IF Data[o] < 0 /\ Lag[o] < 0 THEN LowLow ELSE HighHigh

(* The condition of GetClusterIndicators, from the cutoff of the moment    *)
(* and the vectors of the latest run; and two mutants of it.               *)
HiddenAtCutoff(o) ==
  /\ AtMost(significance_cutoff, sig_local_vec[o])
  /\ cluster_vec[o] \notin {Undefined, Neighborless}

HiddenWhateverTheCluster(o) == ~AtMost(sig_local_vec[o], significance_cutoff)

Hidden(o) ==
  /\ ~AtMost(sig_local_vec[o], significance_cutoff)
  /\ cluster_vec[o] \notin {Undefined, Neighborless}

ClusterIndicators ==
  [o \in Obs |-> IF Hidden(o) THEN NotSig ELSE cluster_vec[o]]
-----------------------------------------------------------------------------
NoSeed == -1

DefaultSeed == 1234567890 % SeedMod

(* The two constructors, up to the call of Run().  fdr and bo are left     *)
(* uninitialized: any value.                                               *)
Init ==
  /\ nCPUs = 8 /\ permutations = DefaultPermutations
  /\ last_seed_used = DefaultSeed
  /\ reuse_last_seed = TRUE /\ row_standardize = TRUE
  /\ significance_filter = 1 /\ significance_cutoff = FilterCutoff[1]
  /\ kept \in [{"user", "bo", "fdr"} -> CutoffChoices \cup {Zero}]
  /\ kept["user"] = Zero
  /\ sig_local_vec = <<>> /\ sig_cat_vec = <<>> /\ cluster_vec = <<>>
  /\ phase = "constructed" /\ spawned = 0
  /\ cursor = [i \in Obs |-> 0] /\ stream = [i \in Obs |-> 0]
  /\ ran = [threads |-> 8, perms |-> DefaultPermutations, seed |-> DefaultSeed,
            rowStd |-> TRUE]
  /\ seedUsed = [o \in Obs |-> NoSeed]
-----------------------------------------------------------------------------
(***************************************************************************)
(* The setters, called between runs: the caller is one thread, and blocked *)
(* while a run lasts.                                                      *)
(***************************************************************************)
BetweenRuns == phase = "idle" /\ UNCHANGED <<results, threads, history>>

SetNumThreads(n) ==
  /\ BetweenRuns
  /\ nCPUs' = n
  /\ UNCHANGED <<permutations, last_seed_used, reuse_last_seed, row_standardize,
                 display>>

SetNumPermutations(n) ==
  /\ BetweenRuns
  /\ permutations' = n
  /\ UNCHANGED <<nCPUs, last_seed_used, reuse_last_seed, row_standardize, display>>

SetLastUsedSeed(s) ==
  /\ BetweenRuns
  /\ reuse_last_seed' = TRUE
  /\ last_seed_used' = s
  /\ UNCHANGED <<nCPUs, permutations, row_standardize, display>>

SetReuseLastSeed(b) ==
  /\ BetweenRuns
  /\ reuse_last_seed' = b
  /\ UNCHANGED <<nCPUs, permutations, last_seed_used, row_standardize, display>>

SetRowStandardize(b) ==
  /\ BetweenRuns
  /\ row_standardize' = b
  /\ UNCHANGED <<nCPUs, permutations, last_seed_used, reuse_last_seed, display>>

(* -1 announces a cutoff of the user's and leaves the one in force; 1 to 4 *)
(* put theirs in force; every other number is ignored.                     *)
SetSignificanceFilter(f) ==
  /\ BetweenRuns
  /\ significance_filter' = IF f \in {-1} \cup 1 .. 4 THEN f ELSE significance_filter
  /\ significance_cutoff' = IF f \in 1 .. 4 THEN FilterCutoff[f] ELSE significance_cutoff
  /\ UNCHANGED <<setup, kept>>

SetSignificanceCutoff(v) ==
  /\ BetweenRuns
  /\ significance_cutoff' = v
  /\ UNCHANGED <<setup, significance_filter, kept>>

(* SetUserCutoff, SetBO and SetFDR.                                        *)
Keep(field, v) ==
  /\ BetweenRuns
  /\ kept' = [kept EXCEPT ![field] = v]
  /\ UNCHANGED <<setup, significance_filter, significance_cutoff>>
-----------------------------------------------------------------------------
(***************************************************************************)
(* Run().                                                                  *)
(***************************************************************************)
(* vector::resize: what is there stays, only what is new is filled.        *)
(* Mutant: the call is missing.                                            *)
NotResized(vec, fill) == vec

Resized(vec, fill) == [o \in Obs |-> IF o \in DOMAIN vec THEN vec[o] ELSE fill]

(* From the call to the loop that creates the threads: the vectors are     *)
(* resized, ComputeLoalSA fills cluster_vec, and CalcPseudoP_threaded      *)
(* settles the number of threads and the seed; clock is time(0).           *)
Run(clock) ==
  /\ phase \in {"constructed", "idle"}
  /\ sig_local_vec' = Resized(sig_local_vec, Zero)
  /\ sig_cat_vec' = Resized(sig_cat_vec, 0)
  /\ cluster_vec' = [o \in Obs |-> ClusterOf(o)]
  /\ nCPUs' = IF nCPUs < 1 THEN HardwareThreads ELSE nCPUs
  /\ last_seed_used' = IF reuse_last_seed THEN last_seed_used ELSE clock
  /\ phase' = "running"
  /\ ran' = [threads |-> nCPUs', perms |-> permutations, seed |-> last_seed_used',
             rowStd |-> row_standardize]
  /\ seedUsed' = [o \in Obs |-> NoSeed]
  /\ UNCHANGED <<permutations, reuse_last_seed, row_standardize, display,
                 spawned, cursor, stream>>

(* seed_start: the stream of thread i begins at the seed plus its first    *)
(* observation.  Mutants: plus the thread's number, plus its last          *)
(* observation.                                                            *)
SeedStartOfThread(i) == (last_seed_used + i) % SeedMod

SeedStartAtEnd(i) == (last_seed_used + ChunkEnd(NumObs, nCPUs, i)) % SeedMod

SeedStart(i) == (last_seed_used + ChunkStart(NumObs, nCPUs, i)) % SeedMod

SpawnWorker ==
  /\ phase = "running"
  /\ spawned < TotThreads(NumObs, nCPUs)
  /\ spawned' = spawned + 1
  /\ cursor' = [cursor EXCEPT ![spawned] = ChunkStart(NumObs, nCPUs, spawned)]
  /\ stream' = [stream EXCEPT ![spawned] = SeedStart(spawned)]
  /\ UNCHANGED <<setup, display, results, phase, history>>

(* Thread i has been created and is not past the end of its chunk.         *)
Working(i) ==
  /\ phase = "running"
  /\ i < spawned
  /\ cursor[i] <= ChunkEnd(NumObs, nCPUs, i)

\* Mutant: the continue leaves cnt alone.
SkipWithoutAdvance(i) ==
  /\ Working(i)
  /\ cursor[i] \in Isolates
  /\ sig_cat_vec' = [sig_cat_vec EXCEPT ![cursor[i]] = NeighborlessCat]
  /\ UNCHANGED <<setup, display, sig_local_vec, cluster_vec, threads, history>>

SkipIsolate(i) ==
  LET o == cursor[i] IN
  /\ Working(i)
  /\ o \in Isolates
  /\ sig_cat_vec' = [sig_cat_vec EXCEPT ![o] = NeighborlessCat]
  /\ cursor' = [cursor EXCEPT ![i] = o + 1]
  /\ seedUsed' = [seedUsed EXCEPT ![o] = stream[i]]
  /\ UNCHANGED <<setup, display, sig_local_vec, cluster_vec, phase, spawned,
                 stream, ran>>

TestObservation(i) ==
  LET o == cursor[i]
      p == PseudoP(CountLarger(o, stream[i], permutations, row_standardize),
                   permutations)
  IN
  /\ Working(i)
  /\ o \notin Isolates
  /\ sig_cat_vec' = [sig_cat_vec EXCEPT ![o] = Category(p)]
  /\ sig_local_vec' = [sig_local_vec EXCEPT ![o] = p]
  /\ cursor' = [cursor EXCEPT ![i] = o + 1]
  /\ stream' = [stream EXCEPT ![i] = SeedAfter(o, stream[i], permutations)]
  /\ seedUsed' = [seedUsed EXCEPT ![o] = stream[i]]
  /\ UNCHANGED <<setup, display, cluster_vec, phase, spawned, ran>>

(* threadPool.join_all(): every thread was created and has returned.  The  *)
(* workers' locals are gone with them.  Mutant: nobody waits.              *)
NotJoined == TRUE

AllReturned == \A i \in Threads(NumObs, nCPUs) : ~Working(i)

JoinAll ==
  /\ phase = "running"
  /\ spawned = TotThreads(NumObs, nCPUs)
  /\ AllReturned
  /\ phase' = "idle"
  /\ spawned' = 0
  /\ cursor' = [i \in Obs |-> 0]
  /\ stream' = [i \in Obs |-> 0]
  /\ UNCHANGED <<setup, display, results, history>>
-----------------------------------------------------------------------------
Configure ==
  \/ \E n \in ThreadChoices : SetNumThreads(n)
  \/ \E n \in PermChoices : SetNumPermutations(n)
  \/ \E s \in Seeds : SetLastUsedSeed(s)
  \/ \E b \in BOOLEAN : SetReuseLastSeed(b)
  \/ \E b \in BOOLEAN : SetRowStandardize(b)

Choose ==
  \/ \E f \in FilterChoices : SetSignificanceFilter(f)
  \/ \E v \in CutoffChoices : SetSignificanceCutoff(v)
  \/ \E field \in {"user", "bo", "fdr"}, v \in CutoffChoices : Keep(field, v)

Work(i) == SkipIsolate(i) \/ TestObservation(i)

Next ==
  \/ Configure
  \/ Choose
  \/ \E clock \in Seeds : Run(clock)
  \/ SpawnWorker
  \/ \E i \in Obs : Work(i)
  \/ JoinAll

(* The scheduler runs every thread; nothing makes the caller call again.   *)
Fairness ==
  /\ WF_vars(SpawnWorker)
  /\ WF_vars(JoinAll)
  /\ \A i \in Obs : WF_vars(Work(i))

Spec == Init /\ [][Next]_vars /\ Fairness
=============================================================================
