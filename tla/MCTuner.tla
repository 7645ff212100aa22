-------------------------------- MODULE MCTuner --------------------------------
(* Tuner for TLC: the IO loops, and readers and writers in two shards. *)
EXTENDS Tuner, TLC

\* Four IO threads, and three readers and three writers over two shards each.
ThreadsOf == <<4, 3, 3>>
BoundsOf  == <<[min |-> 1, max |-> 5], [min |-> 2, max |-> 4], [min |-> 2, max |-> 3]>>
TwoShards == <<1, 2, 2>>
=============================================================================
