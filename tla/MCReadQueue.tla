------------------------------ MODULE MCReadQueue ------------------------------
(* Small instances of ReadQueue for TLC. *)
EXTENDS ReadQueue, TLC

\* Threads are interchangeable; Sentinel, NoVB and vbuckets are not.
Symmetry == Permutations(IOThreads) \cup Permutations(InitWorkers)
=============================================================================
