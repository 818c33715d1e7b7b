-------------------------- MODULE LocalSAFaultsProofs --------------------------
(***************************************************************************)
(* What a caller can rely on when threads cannot be created, for every     *)
(* number of observations, of threads and of failures, and whatever the    *)
(* strays write.                                                           *)
(*                                                                         *)
(* A run with strays about makes the same progress as one without, since   *)
(* no worker reads what a stray writes: Progress of LocalSAProperties      *)
(* still holds.  What is lost is that tested observations are right; it    *)
(* holds outside exposed, which the strays never leave.                    *)
(***************************************************************************)
EXTENDS LocalSAFaults, LocalSAProofs

(* A stray is on its way through observations that are exposed.            *)
StraysKept ==
  /\ strays \subseteq [run : Nat, at : Obs, end : Obs]
  /\ \A s \in strays : s.at <= s.end /\ Ahead(s) \subseteq exposed
  /\ failures \in Nat /\ joined \in BOOLEAN /\ built \in BOOLEAN
  /\ phase = "constructed" => strays = {} /\ ~joined

(* Whatever has been tested, so has everything before it in its chunk.     *)
TestedInOrder ==
  \A o \in Obs : Tested(o) => StartsChunk(ran, o) \/ (o - 1 \in Obs /\ Tested(o - 1))

(* Outside exposed: what has been tested is right, everything else is as   *)
(* it was.                                                                 *)
RightOrOld ==
  \A o \in Obs \ exposed :
    IF Tested(o) THEN RightlyTested(o) ELSE sig_local_vec[o] = before[o]

FaultInvariant ==
  phase # "gone" =>
    /\ TypeOK /\ Progress /\ StraysKept
    /\ phase # "constructed" => RightOrOld
    /\ Running => ran.threads >= 1 /\ ~joined
    /\ Idle =>
         /\ TestedInOrder
         /\ ran.threads >= 1 \/ \A o \in Obs : ~Tested(o)
         /\ joined => ran.threads >= 1 /\ \A o \in Obs : Tested(o)
-----------------------------------------------------------------------------
(* While a run lasts, a worker has tested what is behind it in its chunk.  *)
LEMMA RunningInOrder ==
  ASSUME TypeOK, Progress, Running
  PROVE  TestedInOrder
<1> SUFFICES ASSUME NEW o \in Obs, Tested(o), ~StartsChunk(ran, o)
             PROVE  o - 1 \in Obs /\ Tested(o - 1)
  BY DEF TestedInOrder
<1>1. nCPUs \in Nat \ {0} /\ ran.threads = nCPUs
  BY DEF TypeOK, Progress
<1>2. PICK i \in Threads(NumObs, nCPUs) : o \in Chunk(NumObs, nCPUs, i)
  BY <1>1, NumObsAssumption, ChunkOfObservation DEF Obs
<1>3. o \in Nat /\ o - 1 \in Chunk(NumObs, nCPUs, i) /\ o - 1 \in Obs
  BY <1>1, <1>2, Predecessor
<1>4. WorkerInvariant(i) /\ cursor[i] \in Nat
  BY <1>1, <1>2, ThreadsAreFew DEF Progress, TypeOK
<1>5. i < spawned /\ o < cursor[i]
  BY <1>2, <1>4 DEF WorkerInvariant
<1>6. o - 1 < cursor[i]
  BY <1>3, <1>4, <1>5
<1> QED BY <1>3, <1>4, <1>5, <1>6 DEF WorkerInvariant

(* What stays the same when the strays and the results do.                 *)
LEMMA KeptWhenUnchanged ==
  ASSUME UNCHANGED <<sig_local_vec, sig_cat_vec, ran, seedUsed, before, exposed, strays,
                     failures, joined, built>>
  PROVE  /\ RightOrOld' <=> RightOrOld
         /\ TestedInOrder' <=> TestedInOrder
         /\ \A o \in Obs : Tested(o)' <=> Tested(o)
         /\ StraysKept /\ (phase' = "constructed" => phase = "constructed") => StraysKept'
<1>1. \A o \in Obs : /\ Tested(o)' <=> Tested(o)
                     /\ RightlyTested(o)' <=> RightlyTested(o)
  BY DEF Tested, RightlyTested, SeedDue
<1>2. RightOrOld' <=> RightOrOld
  BY <1>1 DEF RightOrOld
<1>3. TestedInOrder' <=> TestedInOrder
  BY <1>1 DEF TestedInOrder, Tested
<1> QED BY <1>1, <1>2, <1>3 DEF StraysKept, Ahead
-----------------------------------------------------------------------------
LEMMA FaultInitInvariant == FaultInit => FaultInvariant
<1> SUFFICES ASSUME FaultInit PROVE FaultInvariant
  OBVIOUS
<1>1. Init /\ TypeOK /\ Progress
  BY InitInvariant DEF FaultInit, Invariant, RunInvariant
<1>2. StraysKept
  BY <1>1 DEF FaultInit, StraysKept
<1> QED BY <1>1, <1>2 DEF Init, FaultInvariant, Running, Idle

LEMMA ConfigureKeeps ==
  ASSUME FaultInvariant, Configure, UNCHANGED faults
  PROVE  FaultInvariant'
<1>1. BetweenRuns /\ TypeOK /\ phase = "idle"
  BY DEF FaultInvariant, Configure, SetNumThreads, SetNumPermutations, SetLastUsedSeed,
    SetReuseLastSeed, SetRowStandardize, BetweenRuns
<1>2. TypeOK' /\ Progress'
  BY <1>1, ConfigureTypes, BetweenRunsProgress DEF FaultInvariant
<1>3. /\ UNCHANGED <<sig_local_vec, sig_cat_vec, ran, seedUsed, before, exposed, strays,
                     failures, joined, built>>
      /\ phase' = "idle"
  BY <1>1 DEF BetweenRuns, results, history, threads, faults
<1> QED BY <1>1, <1>2, <1>3, KeptWhenUnchanged DEF FaultInvariant, Running, Idle

(* A run that begins has nothing tested yet, and its strays exposed.       *)
LEMMA RunStepKeeps ==
  ASSUME FaultInvariant, NEW clock \in Seeds, RunStep(clock)
  PROVE  FaultInvariant'
<1>1. /\ phase # "gone" /\ TypeOK /\ Progress /\ StraysKept
      /\ joined' = FALSE /\ before' = Resized(sig_local_vec, Zero)
      /\ exposed' = UNION {Ahead(s) : s \in strays}
      /\ UNCHANGED <<built, strays, failures>>
      /\ sig_local_vec' = Resized(sig_local_vec, Zero)
      /\ phase' \in {"running", "idle"}
  BY DEF RunStep, RunBegins, Run, RunWithoutThreads, FaultInvariant, threads
<1>2. StraysKept'
  BY <1>1 DEF StraysKept, Ahead
<1>3. ASSUME \A o \in Obs : ~Tested(o)'
      PROVE  RightOrOld'
  BY <1>1, <1>3 DEF RightOrOld
<1>4. CASE Run(clock)
  BY <1>1, <1>2, <1>3, <1>4, RunStepProgress DEF FaultInvariant, Running, Idle
<1>5. CASE RunWithoutThreads(clock)
  <2>1. /\ phase = "idle" /\ phase' = "idle" /\ nCPUs' = -1
        /\ last_seed_used' = IF reuse_last_seed THEN last_seed_used ELSE clock
        /\ sig_cat_vec' = Resized(sig_cat_vec, 0)
        /\ cluster_vec' = [o \in Obs |-> ClusterOf(o)]
        /\ ran' = [threads |-> -1, perms |-> permutations, seed |-> last_seed_used',
                   rowStd |-> row_standardize]
        /\ seedUsed' = [o \in Obs |-> NoSeed]
        /\ UNCHANGED <<permutations, reuse_last_seed, row_standardize, display, phase,
                       spawned, cursor, stream>>
    BY <1>5 DEF RunWithoutThreads, UnknownCPUs, threads
  <2>2. /\ sig_local_vec' = sig_local_vec /\ sig_cat_vec' = sig_cat_vec
        /\ sig_local_vec \in [Obs -> Fractions] /\ sig_cat_vec \in [Obs -> 0 .. 5]
    BY <1>1, <2>1 DEF TypeOK, Resized
  <2>3. cluster_vec' \in [Obs -> 1 .. 6]
    BY <2>1, ClusterType
  <2>4. \A o \in Obs : ~Tested(o)'
    BY <2>1 DEF Tested
  <2>5. last_seed_used' \in Seeds /\ nCPUs' \in Int
    BY <1>1, <2>1 DEF TypeOK
  <2>6. ran' \in [threads : Int, perms : Perms, seed : Seeds, rowStd : BOOLEAN]
    BY <1>1, <2>1, <2>5 DEF TypeOK
  <2>7. TypeOK'
    BY <1>1, <2>1, <2>2, <2>3, <2>5, <2>6 DEF TypeOK, display, NoSeed
  <2>8. Progress'
    BY <1>1, <2>1, <2>2, <2>4 DEF Progress, Running
  <2> QED BY <1>1, <1>2, <1>3, <2>1, <2>4, <2>7, <2>8
      DEF FaultInvariant, Running, Idle, TestedInOrder
<1> QED BY <1>4, <1>5 DEF RunStep

LEMMA SpawnStepKeeps ==
  ASSUME FaultInvariant, SpawnStep
  PROVE  FaultInvariant'
<1>1. /\ SpawnWorker /\ phase = "running" /\ TypeOK /\ Progress
      /\ UNCHANGED <<sig_local_vec, sig_cat_vec, ran, seedUsed, before, exposed, strays,
                     failures, joined, built, phase>>
  BY DEF SpawnStep, SpawnWorker, results, history, faults, FaultInvariant
<1>2. TypeOK' /\ Progress'
  BY <1>1, SpawnWorkerProgress
<1> QED BY <1>1, <1>2, KeptWhenUnchanged DEF FaultInvariant, Running, Idle

(* A run that is given up leaves its workers as strays, ahead of which     *)
(* everything is exposed.                                                  *)
LEMMA SpawnFailsKeeps ==
  ASSUME FaultInvariant, SpawnFails
  PROVE  FaultInvariant'
<1>1. /\ phase = "running" /\ Running /\ TypeOK /\ Progress /\ StraysKept /\ RightOrOld
      /\ ran.threads >= 1 /\ ~joined
  BY DEF SpawnFails, FaultInvariant, Running
<1>2. /\ failures' = failures + 1 /\ strays' = strays \cup Detached
      /\ exposed' = exposed \cup UNION {Ahead(s) : s \in Detached}
      /\ phase' \in {"idle", "gone"} /\ spawned' = 0
      /\ cursor' = [i \in Obs |-> 0] /\ stream' = [i \in Obs |-> 0]
      /\ UNCHANGED <<setup, display, results, history, built, joined, before>>
  BY DEF SpawnFails
<1>3. ASSUME NEW s \in Detached
      PROVE  /\ s \in [run : Nat, at : Obs, end : Obs]
             /\ s.at <= s.end
             /\ Ahead(s) \subseteq exposed'
  <2>1. PICK i \in Obs : /\ Working(i)
                         /\ s = [run |-> failures + 1, at |-> cursor[i],
                                 end |-> ChunkEnd(NumObs, nCPUs, i)]
    BY DEF Detached
  <2>2. cursor[i] \in Obs /\ ChunkEnd(NumObs, nCPUs, i) \in Obs
    BY <1>1, <2>1, AtWork, ChunkInObs
  <2>3. failures + 1 \in Nat
    BY <1>1 DEF StraysKept
  <2>4. cursor[i] <= ChunkEnd(NumObs, nCPUs, i)
    BY <2>1 DEF Working
  <2> QED BY <1>2, <2>1, <2>2, <2>3, <2>4
<1>4. StraysKept'
  BY <1>1, <1>2, <1>3 DEF StraysKept, Ahead
<1>5. TypeOK' \/ phase' = "gone"
  <2>1. 0 \in Seeds
    BY SeedModAssumption DEF Seeds
  <2> QED BY <1>1, <1>2, <2>1 DEF TypeOK, setup, display, results, history
<1>6. \A o \in Obs : /\ Tested(o)' <=> Tested(o)
                     /\ SeedDue(o)' = SeedDue(o)
                     /\ RightlyTested(o)' <=> RightlyTested(o)
  BY <1>2 DEF results, history, Tested, RightlyTested, SeedDue
<1>7. Progress'
  BY <1>1, <1>2, <1>6 DEF Progress, Running, results, history
<1>8. RightOrOld'
  BY <1>1, <1>2, <1>6 DEF RightOrOld, results
<1>9. TestedInOrder'
  <2>1. TestedInOrder
    BY <1>1, RunningInOrder
  <2> QED BY <1>2, <1>6, <2>1 DEF TestedInOrder, history
<1> QED BY <1>1, <1>2, <1>4, <1>5, <1>7, <1>8, <1>9 DEF FaultInvariant, Running, Idle, history

(* A worker does what it would have done without strays.                   *)
LEMMA WorkStepKeeps ==
  ASSUME FaultInvariant, NEW i \in Obs, WorkStep(i), NEW o, o = cursor[i],
         NEW p, p = PValueOf(ran, o, stream[i])
  PROVE  FaultInvariant'
<1>1. /\ Work(i) /\ UNCHANGED faults /\ phase = "running" /\ TypeOK /\ Progress
      /\ StraysKept /\ RightOrOld /\ ran.threads >= 1 /\ ~joined
  BY DEF WorkStep, Work, SkipIsolate, TestObservation, Working, FaultInvariant, Running
<1>2. UNCHANGED <<phase, ran>>
  BY <1>1, WorkEffect
<1>3. /\ TypeOK' /\ Progress'
      /\ o \in Obs /\ ~Tested(o) /\ RightlyTested(o)'
      /\ \A x \in Obs \ {o} : /\ Tested(x)' <=> Tested(x)
                              /\ Tested(x) => (RightlyTested(x) => RightlyTested(x)')
                              /\ sig_local_vec'[x] = sig_local_vec[x]
  BY <1>1, WorkProgress
<1>4. Tested(o)'
  <2>1. Working(i) /\ seedUsed' = [seedUsed EXCEPT ![o] = stream[i]]
    BY <1>1, WorkEffect
  <2>2. stream[i] \in Seeds /\ seedUsed'[o] = stream[i]
    BY <1>1, <1>3, <2>1 DEF TypeOK
  <2> QED BY <2>2 DEF Tested, NoSeed, Seeds
<1>5. RightOrOld'
  <2> SUFFICES ASSUME NEW x \in Obs \ exposed'
               PROVE  (IF Tested(x) THEN RightlyTested(x)
                       ELSE sig_local_vec[x] = before[x])'
    BY DEF RightOrOld
  <2>1. CASE x = o
    BY <1>3, <1>4, <2>1
  <2>2. CASE x # o
    BY <1>1, <1>3, <2>2 DEF RightOrOld, faults
  <2> QED BY <2>1, <2>2
<1>6. StraysKept'
  BY <1>1, <1>2 DEF StraysKept, faults, Ahead
<1> QED BY <1>1, <1>2, <1>3, <1>5, <1>6 DEF FaultInvariant, Running, Idle, faults

LEMMA JoinStepKeeps ==
  ASSUME FaultInvariant, JoinStep
  PROVE  FaultInvariant'
<1>1. /\ JoinAll /\ phase = "running" /\ Running /\ TypeOK /\ Progress /\ StraysKept
      /\ RightOrOld /\ ran.threads >= 1
      /\ built' = TRUE /\ joined' = TRUE
      /\ UNCHANGED <<strays, failures, before, exposed>>
  BY DEF JoinStep, JoinAll, FaultInvariant, Running
<1>2. phase' = "idle" /\ UNCHANGED <<sig_local_vec, sig_cat_vec, ran, seedUsed>>
  BY <1>1 DEF JoinAll, results, history
<1>3. /\ TypeOK' /\ Progress'
      /\ \A o \in Obs : /\ Tested(o) /\ Tested(o)'
                        /\ RightlyTested(o)' <=> RightlyTested(o)
  BY <1>1, JoinAllProgress
<1>4. RightOrOld' /\ TestedInOrder'
  <2>1. TestedInOrder
    BY <1>1, RunningInOrder
  <2> QED BY <1>1, <1>2, <1>3, <2>1 DEF RightOrOld, TestedInOrder
<1>5. StraysKept'
  BY <1>1, <1>2 DEF StraysKept, Ahead
<1> QED BY <1>1, <1>2, <1>3, <1>4, <1>5 DEF FaultInvariant, Running, Idle

(* A stray writes where everything is exposed.                             *)
LEMMA StrayTestsKeeps ==
  ASSUME FaultInvariant, NEW s \in strays, StrayTests(s)
  PROVE  FaultInvariant'
<1> DEFINE o == s.at
<1>1. /\ phase # "gone" /\ TypeOK /\ Progress /\ StraysKept
      /\ phase # "constructed" /\ RightOrOld
      /\ s \in [run : Nat, at : Obs, end : Obs] /\ s.at <= s.end
      /\ Ahead(s) \subseteq exposed
  BY DEF StrayTests, FaultInvariant, StraysKept
<1>2. /\ strays' = Onward(s)
      /\ UNCHANGED <<setup, display, cluster_vec, threads, history,
                     built, failures, joined, before, exposed>>
  BY DEF StrayTests
<1>3. o \in Obs /\ o \in exposed /\ s.end \in Obs /\ o \in Nat /\ s.end \in Nat
  BY <1>1, NumObsAssumption DEF Ahead, Obs
<1>4. /\ sig_local_vec' \in [Obs -> Fractions] /\ sig_cat_vec' \in [Obs -> 0 .. 5]
      /\ \A x \in Obs : x # o => /\ sig_local_vec'[x] = sig_local_vec[x]
                                 /\ sig_cat_vec'[x] = sig_cat_vec[x]
      /\ o \in Isolates => sig_local_vec' = sig_local_vec
  <2>1. sig_local_vec \in [Obs -> Fractions] /\ sig_cat_vec \in [Obs -> 0 .. 5]
    BY <1>1 DEF TypeOK
  <2>2. CASE o \in Isolates
    <3>1. sig_cat_vec' = [sig_cat_vec EXCEPT ![o] = NeighborlessCat]
          /\ sig_local_vec' = sig_local_vec
      BY <2>2 DEF StrayTests
    <3> HIDE DEF o
    <3> QED BY <1>3, <2>1, <3>1 DEF NeighborlessCat
  <2>3. CASE o \notin Isolates
    <3>1. PICK p, q \in StrayValues :
            /\ sig_local_vec' \in {sig_local_vec, [sig_local_vec EXCEPT ![o] = p]}
            /\ sig_cat_vec' \in {sig_cat_vec, [sig_cat_vec EXCEPT ![o] = Category(q)]}
      BY <2>3 DEF StrayTests
    <3>2. p \in Fractions /\ Category(q) \in 0 .. 5
      BY StrayValuesAssumption, CategoryOfPValue
    <3> HIDE DEF o
    <3> QED BY <1>3, <2>1, <2>3, <3>1, <3>2
  <2> QED BY <2>2, <2>3
<1>5. TypeOK'
  BY <1>1, <1>2, <1>4 DEF TypeOK, setup, display, threads, history
<1>6. \A x \in Obs : /\ Tested(x)' <=> Tested(x)
                     /\ SeedDue(x)' = SeedDue(x)
                     /\ x \notin exposed => (RightlyTested(x)' <=> RightlyTested(x))
  BY <1>2, <1>3, <1>4 DEF history, Tested, SeedDue, RightlyTested
<1>7. Progress'
  <2>1. \A x \in Isolates : sig_local_vec'[x] = sig_local_vec[x]
    BY <1>4, IsolatesAssumption
  <2>2. \A i : WorkerInvariant(i)' <=> WorkerInvariant(i)
    BY <1>2 DEF setup, threads, history, WorkerInvariant, Tested, SeedDue
  <2> QED BY <1>1, <1>2, <1>6, <2>1, <2>2 DEF Progress, Running, setup, threads, history
<1>8. RightOrOld'
  BY <1>1, <1>2, <1>3, <1>4, <1>6 DEF RightOrOld
<1>9. TestedInOrder' <=> TestedInOrder
  BY <1>2, <1>6 DEF TestedInOrder, history
<1>10. StraysKept'
  <2>1. s.at < s.end =>
          /\ [s EXCEPT !.at = @ + 1] \in [run : Nat, at : Obs, end : Obs]
          /\ [s EXCEPT !.at = @ + 1].at <= [s EXCEPT !.at = @ + 1].end
          /\ Ahead([s EXCEPT !.at = @ + 1]) \subseteq Ahead(s)
    BY <1>1, <1>3, NumObsAssumption DEF Ahead, Obs
  <2>2. \A t \in strays' : \/ t \in strays
                           \/ s.at < s.end /\ t = [s EXCEPT !.at = @ + 1]
    BY <1>2 DEF Onward
  <2> QED BY <1>1, <1>2, <2>1, <2>2 DEF StraysKept, threads, Ahead
<1> QED BY <1>1, <1>2, <1>5, <1>6, <1>7, <1>8, <1>9, <1>10
        DEF FaultInvariant, Running, Idle, threads, history

LEMMA FaultNextKeeps ==
  ASSUME FaultInvariant, [FaultNext]_allVars
  PROVE  FaultInvariant'
<1>1. CASE Configure /\ UNCHANGED faults
  BY <1>1, ConfigureKeeps
<1>2. CASE \E clock \in Seeds : RunStep(clock)
  BY <1>2, RunStepKeeps
<1>3. CASE \E i \in Obs : WorkStep(i)
  BY <1>3, WorkStepKeeps
<1>4. CASE \E s \in strays : StrayTests(s)
  BY <1>4, StrayTestsKeeps
<1>5. CASE UNCHANGED allVars
  <2>1. CASE phase = "gone"
    BY <1>5, <2>1 DEF allVars, vars, threads, FaultInvariant
  <2>2. CASE phase # "gone"
    <3>1. /\ UNCHANGED <<sig_local_vec, sig_cat_vec, ran, seedUsed, before, exposed, strays,
                         failures, joined, built>>
          /\ UNCHANGED <<phase, cluster_vec, spawned, cursor, stream>>
          /\ UNCHANGED <<setup, display>>
      BY <1>5 DEF allVars, vars, faults, results, history, threads
    <3>2. TypeOK'
      BY <2>2, <3>1 DEF FaultInvariant, TypeOK, setup, display
    <3>3. Progress'
      <4>1. \A o \in Obs : /\ Tested(o)' <=> Tested(o)
                           /\ SeedDue(o)' = SeedDue(o)
        BY <3>1 DEF Tested, SeedDue
      <4>2. \A i : WorkerInvariant(i)' <=> WorkerInvariant(i)
        BY <3>1 DEF setup, WorkerInvariant, Tested, SeedDue
      <4> QED BY <2>2, <3>1, <4>1, <4>2 DEF FaultInvariant, Progress, Running, setup
    <3> QED BY <2>2, <3>1, <3>2, <3>3, KeptWhenUnchanged
            DEF FaultInvariant, Running, Idle
  <2> QED BY <2>1, <2>2
<1>6. CASE Gone
  BY <1>5, <1>6 DEF Gone
<1> QED BY <1>1, <1>2, <1>3, <1>4, <1>5, <1>6, SpawnStepKeeps, SpawnFailsKeeps,
           JoinStepKeeps DEF FaultNext

(* Whatever fails, the progress of each run and the rightness of what no   *)
(* stray can reach.                                                        *)
THEOREM AlwaysFaultInvariant == FaultSpec => []FaultInvariant
<1>1. FaultInit => FaultInvariant
  BY FaultInitInvariant
<1>2. FaultInvariant /\ [FaultNext]_allVars => FaultInvariant'
  BY FaultNextKeeps
<1> QED BY <1>1, <1>2, PTL DEF FaultSpec
-----------------------------------------------------------------------------
(* A run that returns normally delivers what its parameters determine,     *)
(* except where strays of runs before it may still write.                  *)
THEOREM DamageIsConfined == FaultSpec => []DamageConfined
<1>1. ASSUME FaultInvariant, Idle, joined
      PROVE  \E s \in [Obs -> Seeds] :
               /\ SeedChain(ran, s)
               /\ \A o \in Obs \ exposed :
                    /\ sig_local_vec[o] = ResultOf(ran, s)[o]
                    /\ sig_cat_vec[o] = IF o \in Isolates THEN NeighborlessCat
                                        ELSE Category(sig_local_vec[o])
  <2>1. /\ TypeOK /\ Progress /\ RightOrOld /\ \A o \in Obs : Tested(o)
        /\ phase = "idle"
    BY <1>1 DEF FaultInvariant, Idle
  <2>2. seedUsed \in [Obs -> Seeds]
    BY <2>1 DEF TypeOK, Tested
  <2>3. SeedChain(ran, seedUsed)
    BY <2>1 DEF SeedChain, Progress, SeedDue
  <2>4. \A o \in Obs \ exposed : RightlyTested(o)
    BY <2>1 DEF RightOrOld
  <2> QED BY <2>2, <2>3, <2>4 DEF RightlyTested, ResultOf
<1>2. FaultInvariant => DamageConfined
  BY <1>1 DEF DamageConfined
<1> QED BY <1>2, AlwaysFaultInvariant, PTL

(* After a run that failed, a p-value out of the strays' reach is the one  *)
(* from before or the one that is due.                                     *)
THEOREM AlwaysOldOrNew == FaultSpec => []OldOrNew
<1>1. ASSUME FaultInvariant, Idle, ~joined, NEW o \in Obs \ exposed,
             sig_local_vec[o] # before[o]
      PROVE  /\ ran.threads >= 1
             /\ \E s \in [Obs -> Seeds] :
                  SeedChain(ran, s) /\ sig_local_vec[o] = ResultOf(ran, s)[o]
  <2>1. /\ TypeOK /\ Progress /\ RightOrOld /\ TestedInOrder /\ phase = "idle"
    BY <1>1 DEF FaultInvariant, Idle
  <2>2. Tested(o) /\ RightlyTested(o)
    BY <1>1, <2>1 DEF RightOrOld
  <2>3. ran.threads >= 1
    BY <1>1, <2>1, <2>2 DEF FaultInvariant
  <2>4. ran.threads \in Nat \ {0} /\ ran.seed \in Seeds /\ ran.perms \in Perms
    BY <2>1, <2>3 DEF TypeOK
  <2>5. PICK s \in [Obs -> Seeds] : SeedChain(ran, s)
    BY <2>4, ChainExists
  <2> DEFINE tested == {x \in Obs : Tested(x)}
  <2>6. \A x \in tested :
          \/ s[x] = seedUsed[x]
          \/ x - 1 \in tested /\ (s[x - 1] = seedUsed[x - 1] => s[x] = seedUsed[x])
    <3> SUFFICES ASSUME NEW x \in Obs, Tested(x)
                 PROVE  \/ s[x] = seedUsed[x]
                        \/ /\ x - 1 \in Obs /\ Tested(x - 1)
                           /\ s[x - 1] = seedUsed[x - 1] => s[x] = seedUsed[x]
      OBVIOUS
    <3>1. seedUsed[x] = SeedDue(x)
      BY <2>1 DEF Progress
    <3>2. s[x] = IF StartsChunk(ran, x) THEN (ran.seed + x) % SeedMod
                 ELSE StreamAfter(x - 1, s[x - 1], ran.perms)
      BY <2>5 DEF SeedChain
    <3> QED BY <2>1, <3>1, <3>2 DEF SeedDue, TestedInOrder
  <2>7. \A x \in tested : s[x] = seedUsed[x]
    <3>1. tested \in SUBSET Obs
      OBVIOUS
    <3> HIDE DEF tested
    <3> QED BY <2>6, <3>1, ChainsAgree
  <2>8. sig_local_vec[o] = ResultOf(ran, s)[o]
    BY <2>2, <2>7 DEF RightlyTested, ResultOf
  <2> QED BY <2>3, <2>5, <2>8
<1>2. FaultInvariant => OldOrNew
  BY <1>1 DEF OldOrNew
<1> QED BY <1>2, AlwaysFaultInvariant, PTL
=============================================================================
