----------------------------- MODULE MCWriteQueue -----------------------------
(* Small instances of WriteQueue for TLC. *)
EXTENDS WriteQueue, TLC

\* Threads are interchangeable; Sentinel, NoVB and keys are not.
Symmetry == Permutations(IOThreads) \cup Permutations(InitWorkers)
=============================================================================
