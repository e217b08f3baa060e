----------------------------- MODULE MCLeaseGate -----------------------------
(* Small instances of LeaseGate for TLC. *)
EXTENDS LeaseGate, TLC

\* Everybody writes to everybody else.
Others == {r \in Agents \X Agents : r[1] # r[2]}

Symmetry == Permutations(Agents) \cup Permutations(Ids) \cup Permutations(Calls)
=============================================================================
