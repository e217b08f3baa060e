--------------------------- MODULE MCRegistration ---------------------------
(* Two gateways of one host and the identity of one agent. *)
EXTENDS Registration, TLC

Symmetry == Permutations(Gateways)
=============================================================================
