---------------------------- MODULE LocalSAFaults ----------------------------
(***************************************************************************)
(* LocalSA when the operating system lets a run down: creating a thread    *)
(* fails, or the number of CPUs is not known.                              *)
(*                                                                         *)
(* A boost::thread that cannot be created throws.  The exception leaves    *)
(* Run() without join_all, and destroying the thread_group detaches the    *)
(* threads that it holds: they go on writing the result vectors of an      *)
(* object whose caller believes that nothing is running, reading           *)
(* whatever the parameters have become.  Here they are called strays.      *)
(***************************************************************************)
EXTENDS LocalSAProperties

CONSTANTS
  MaxFailures,   \* a bound on the threads that cannot be created
  StrayValues    \* some p-values that a test under changing parameters may
                 \* come to: a bound, the code may come to any

ASSUME MaxFailuresAssumption == MaxFailures \in Nat
ASSUME StrayValuesAssumption == StrayValues \subseteq Fractions

VARIABLES
  built,      \* the constructor has returned
  strays,     \* detached threads: [run, at, end]
  failures,   \* how many runs have failed
  joined,     \* auxiliary: the latest run has waited for all its tests
  before,     \* auxiliary: the p-values that the latest run found
  exposed     \* auxiliary: what strays had ahead of them when the latest run
              \* began or was given up

faults == <<built, strays, failures, joined, before, exposed>>
allVars == <<vars, faults>>

Ahead(s) == s.at .. s.end
-----------------------------------------------------------------------------
FaultInit ==
  /\ Init
  /\ built = FALSE
  /\ strays = {} /\ failures = 0
  /\ joined = FALSE
  /\ before = [o \in Obs |-> Zero]
  /\ exposed = {}

RunBegins ==
  /\ joined' = FALSE
  /\ before' = Resized(sig_local_vec, Zero)
  /\ exposed' = UNION {Ahead(s) : s \in strays}
  /\ UNCHANGED <<built, strays, failures>>

(* wxThread::GetCPUCount() does not know.  A quotient below 0 and a        *)
(* remainder of 0 make no thread, and Run() returns with nothing tested.   *)
UnknownCPUs == -1

RunWithoutThreads(clock) ==
  /\ phase = "idle"
  /\ nCPUs < 1
  /\ nCPUs' = UnknownCPUs
  /\ last_seed_used' = IF reuse_last_seed THEN last_seed_used ELSE clock
  /\ sig_local_vec' = Resized(sig_local_vec, Zero)
  /\ sig_cat_vec' = Resized(sig_cat_vec, 0)
  /\ cluster_vec' = [o \in Obs |-> ClusterOf(o)]
  /\ ran' = [threads |-> nCPUs', perms |-> permutations, seed |-> last_seed_used',
             rowStd |-> row_standardize]
  /\ seedUsed' = [o \in Obs |-> NoSeed]
  /\ UNCHANGED <<permutations, reuse_last_seed, row_standardize, display, threads>>

\* ~thread_group deletes the threads that it holds, which detaches them.
Detached ==
  {[run |-> failures + 1, at |-> cursor[i], end |-> ChunkEnd(NumObs, nCPUs, i)]
     : i \in {j \in Obs : Working(j)}}

(* new boost::thread throws.  Thrown out of the constructor, the exception *)
(* destroys the object.                                                    *)
SpawnFails ==
  /\ phase = "running"
  /\ spawned < TotThreads(NumObs, nCPUs)
  /\ failures < MaxFailures
  /\ failures' = failures + 1
  /\ strays' = strays \cup Detached
  /\ exposed' = exposed \cup UNION {Ahead(s) : s \in Detached}
  /\ phase' = IF built THEN "idle" ELSE "gone"
  /\ spawned' = 0
  /\ cursor' = [i \in Obs |-> 0]
  /\ stream' = [i \in Obs |-> 0]
  /\ UNCHANGED <<setup, display, results, history, built, joined, before>>

(* The next turn of a stray's loop; the thread ends with its interval.      *)
(* Mutant: the continue at an island repeats it.                           *)
StuckAtIsolates(s) ==
  IF s.at \in Isolates THEN strays
  ELSE (strays \ {s}) \cup (IF s.at < s.end THEN {[s EXCEPT !.at = @ + 1]} ELSE {})

Onward(s) ==
  (strays \ {s}) \cup (IF s.at < s.end THEN {[s EXCEPT !.at = @ + 1]} ELSE {})

(* A stray tests its next observation.  A worker of the current run may be *)
(* writing the same two elements: of each, either write may come last.     *)
StrayTests(s) ==
  LET o == s.at IN
  /\ phase # "gone"
  /\ s \in strays
  /\ strays' = Onward(s)
  /\ IF o \in Isolates
     THEN /\ sig_cat_vec' = [sig_cat_vec EXCEPT ![o] = NeighborlessCat]
          /\ UNCHANGED sig_local_vec
     ELSE \E p, q \in StrayValues :
          /\ sig_local_vec' \in {sig_local_vec, [sig_local_vec EXCEPT ![o] = p]}
          /\ sig_cat_vec' \in {sig_cat_vec, [sig_cat_vec EXCEPT ![o] = Category(q)]}
  /\ UNCHANGED <<setup, display, cluster_vec, threads, history,
                 built, failures, joined, before, exposed>>

\* The memory of the object is freed, with or without strays that use it.
Gone == phase = "gone" /\ UNCHANGED allVars
-----------------------------------------------------------------------------
RunStep(clock) == (Run(clock) \/ RunWithoutThreads(clock)) /\ RunBegins

WorkStep(i) == Work(i) /\ UNCHANGED faults

SpawnStep == SpawnWorker /\ UNCHANGED faults

JoinStep ==
  /\ JoinAll
  /\ built' = TRUE
  /\ joined' = TRUE
  /\ UNCHANGED <<strays, failures, before, exposed>>

FaultNext ==
  \/ Configure /\ UNCHANGED faults
  \/ \E clock \in Seeds : RunStep(clock)
  \/ SpawnStep
  \/ SpawnFails
  \/ \E i \in Obs : WorkStep(i)
  \/ JoinStep
  \/ \E s \in strays : StrayTests(s)
  \/ Gone

\* The thread of run r whose interval ends at e.
StrayThread(r, e) == \E s \in strays : s.run = r /\ s.end = e /\ StrayTests(s)

FaultSpec ==
  /\ FaultInit /\ [][FaultNext]_allVars
  /\ WF_allVars(SpawnStep)
  /\ WF_allVars(JoinStep)
  /\ \A i \in Obs : WF_allVars(WorkStep(i))
  /\ \A r \in 1 .. MaxFailures, e \in Obs : WF_allVars(StrayThread(r, e))
-----------------------------------------------------------------------------
(* A run that returns normally repairs what runs before it have left       *)
(* undone.  Where strays of theirs were still on the way when it began,    *)
(* its results may be overwritten, and nowhere else: every other p-value   *)
(* and category is the one that its parameters determine.                  *)
DamageConfined ==
  Idle /\ joined =>
    \E s \in [Obs -> Seeds] :
      /\ SeedChain(ran, s)
      /\ \A o \in Obs \ exposed :
           /\ sig_local_vec[o] = ResultOf(ran, s)[o]
           /\ sig_cat_vec[o] = IF o \in Isolates THEN NeighborlessCat
                               ELSE Category(sig_local_vec[o])

(* After a run that failed, or that tested nothing because the CPUs could  *)
(* not be counted, the caller reads a mixture: but each p-value outside    *)
(* the reach of strays is the one from before or the one that the failed   *)
(* run would have delivered, never a third.                                *)
OldOrNew ==
  Idle /\ ~joined =>
    \A o \in Obs \ exposed :
      \/ sig_local_vec[o] = before[o]
      \/ /\ ran.threads >= 1
         /\ \E s \in [Obs -> Seeds] :
              SeedChain(ran, s) /\ sig_local_vec[o] = ResultOf(ran, s)[o]

(* Once it has begun, a run gives the caller control back, with results or *)
(* with an exception, no matter how many strays are about; and the strays  *)
(* of a failed run come to an end while the caller goes on, unless the     *)
(* object is gone.                                                         *)
RunsAndStraysEnd ==
  /\ Running ~> ~Running
  /\ \A r \in 1 .. MaxFailures :
       (\E s \in strays : s.run = r) ~> (phase = "gone" \/ \A s \in strays : s.run # r)
=============================================================================
