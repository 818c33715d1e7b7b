--------------------------- MODULE WorkPartition ---------------------------
(***************************************************************************)
(* How AbstractLocalSA::CalcPseudoP_threaded divides the observations      *)
(* 0 .. num_obs-1 among the worker threads.  Thread i is given the closed  *)
(* interval of observations from a to b; the first num_obs % nCPUs threads *)
(* take one observation more than the others, and when there are fewer     *)
(* observations than CPUs every thread takes exactly one.                  *)
(*                                                                         *)
(* n stands for num_obs, c for nCPUs and i for the thread.                 *)
(***************************************************************************)
EXTENDS Integers

Quotient(n, c) == n \div c

Remainder(n, c) == n % c

\* Mutant: a thread for every CPU.
OnePerCPU(n, c) == c

\* int tot_threads = (quotient > 0) ? nCPUs : remainder;
TotThreads(n, c) == IF Quotient(n, c) > 0 THEN c ELSE Remainder(n, c)

\* Mutant: the chunks behind the longer ones are not shifted.
UnshiftedStart(n, c, i) ==
  IF i < Remainder(n, c) THEN i * (Quotient(n, c) + 1) ELSE i * Quotient(n, c)

\* The observation a that thread i starts with.
ChunkStart(n, c, i) ==
  IF i < Remainder(n, c)
  THEN i * (Quotient(n, c) + 1)
  ELSE Remainder(n, c) * (Quotient(n, c) + 1)
         + (i - Remainder(n, c)) * Quotient(n, c)

\* Mutant: b = a + quotient in both branches.
OneTooFar(n, c, i) == ChunkStart(n, c, i) + Quotient(n, c)

\* Mutant: b one too small in the second branch.
OneTooShort(n, c, i) ==
  ChunkStart(n, c, i)
    + (IF i < Remainder(n, c) THEN Quotient(n, c) ELSE Quotient(n, c) - 2)

\* The last observation b of thread i, itself included in the work.
ChunkEnd(n, c, i) ==
  ChunkStart(n, c, i)
    + (IF i < Remainder(n, c) THEN Quotient(n, c) ELSE Quotient(n, c) - 1)

Chunk(n, c, i) == ChunkStart(n, c, i) .. ChunkEnd(n, c, i)

Threads(n, c) == 0 .. TotThreads(n, c) - 1
-----------------------------------------------------------------------------
(***************************************************************************)
(* What the division has to guarantee.  n is the number of observations    *)
(* and c a positive number of CPUs.                                        *)
(***************************************************************************)

(* Every observation is in the interval of exactly one thread, and no      *)
(* thread reaches outside 0 .. n-1: sig_local_vec and sig_cat_vec are      *)
(* written without a lock, so this alone keeps two workers off one element *)
(* and every element written.                                              *)
ExactCover(n, c) ==
  /\ \A i \in Threads(n, c) : Chunk(n, c, i) \subseteq 0 .. n - 1
  /\ \A o \in 0 .. n - 1 : \E i \in Threads(n, c) : o \in Chunk(n, c, i)
  /\ \A i, j \in Threads(n, c) :
       i # j => Chunk(n, c, i) \cap Chunk(n, c, j) = {}

(* No thread is created with nothing to do.  The loop of CalcPseudoP_range *)
(* compares a size_t with the int b: an empty interval starting at 0 would *)
(* have b = -1 and would run through the whole address space.              *)
NoEmptyChunk(n, c) ==
  \A i \in Threads(n, c) : ChunkStart(n, c, i) <= ChunkEnd(n, c, i)

(* The load of two threads differs by one observation at most.             *)
Balanced(n, c) ==
  \A i, j \in Threads(n, c) :
    (ChunkEnd(n, c, i) - ChunkStart(n, c, i))
      - (ChunkEnd(n, c, j) - ChunkStart(n, c, j)) <= 1
=============================================================================
