------------------------------ MODULE MCDocCache ------------------------------
(* Small instances of DocCache for TLC. *)
EXTENDS DocCache, TLC

\* Threads and readers are interchangeable; keys are not.
Symmetry == Permutations(IOThreads) \cup Permutations(Readers)
=============================================================================
