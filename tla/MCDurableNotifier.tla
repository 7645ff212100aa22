--------------------------- MODULE MCDurableNotifier ---------------------------
(* DurableNotifier for TLC: symmetric loops. *)
EXTENDS DurableNotifier, TLC

Symmetry == Permutations(Loops)
=============================================================================
