------------------------------- MODULE MCIOPool -------------------------------
(* IOPool for TLC: connections and requests are interchangeable. *)
EXTENDS IOPool, TLC

Symmetry == Permutations(Conn) \cup Permutations(Req)
=============================================================================
