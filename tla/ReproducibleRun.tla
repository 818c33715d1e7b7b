--------------------------- MODULE ReproducibleRun ---------------------------
(***************************************************************************)
(* What a local statistics object promises its caller, with no thread in   *)
(* sight: the caller sets parameters between runs, a run is a period in    *)
(* which it is blocked, and what it finds afterwards is determined by the  *)
(* parameters of that run: no scheduling and no earlier run shows through. *)
(* With reuse_last_seed the run leaves the seed alone, so that running     *)
(* again gives the same result.                                            *)
(***************************************************************************)
EXTENDS PermutationTest

VARIABLES
  params,   \* [threads, perms, seed, rowStd, reuse] as the caller left them
  busy,     \* the caller is inside Run()
  result    \* the p-values, or <<>> before the run has delivered them

Params == [threads : Int, perms : Nat, seed : Seeds,
           rowStd : BOOLEAN, reuse : BOOLEAN]

Init ==
  /\ params \in Params
  /\ busy = TRUE
  /\ result = <<>>

SetParams ==
  /\ ~busy
  /\ params' \in Params
  /\ UNCHANGED <<busy, result>>

(* The number of threads may be replaced by that of the CPUs; a fresh seed *)
(* may be taken from the clock when the last one is not to be reused.      *)
BeginRun ==
  /\ ~busy
  /\ busy' = TRUE
  /\ result' = <<>>
  /\ params' \in Params
  /\ \A f \in {"perms", "rowStd", "reuse"} : params'[f] = params[f]
  /\ params.threads >= 1 => params'.threads = params.threads
  /\ params.reuse => params'.seed = params.seed

EndRun ==
  /\ busy
  /\ busy' = FALSE
  /\ IsResult(params, result')
  /\ UNCHANGED params

Next == SetParams \/ BeginRun \/ EndRun

vars == <<params, busy, result>>

Spec == Init /\ [][Next]_vars
=============================================================================
