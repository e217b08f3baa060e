---------------------------- MODULE MCTerminator ----------------------------
(* Small instances of Terminator for TLC. *)
EXTENDS Terminator, TLC

Symmetry == Permutations(Msgs) \cup Permutations(Reapers)
=============================================================================
