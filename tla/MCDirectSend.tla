----------------------------- MODULE MCDirectSend -----------------------------
(* DirectSend for TLC: readers are interchangeable, and so are requests. *)
EXTENDS DirectSend, TLC

Symmetry == Permutations(Reader) \cup Permutations(Req)
=============================================================================
