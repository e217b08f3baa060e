-------------------------------- MODULE Doors --------------------------------
(***************************************************************************)
(* What the lease registry promises, without rows, clocks or calls: every  *)
(* agent has one door, at most one other agent stands in it, and nobody    *)
(* takes a door over from the agent that stands in it.                     *)
(***************************************************************************)
EXTENDS Naturals

CONSTANTS Agents, Nobody   \* Nobody is not an agent

VARIABLE door   \* who holds a live thread with that agent as its recipient

Init == door = [a \in Agents |-> Nobody]

Open(a, by) ==
    /\ door[a] = Nobody
    /\ by # a
    /\ door' = [door EXCEPT ![a] = by]

\* Releases, rollbacks, expiries and a lost registry free doors, any number
\* of them at once.
Close ==
    \E freed \in SUBSET Agents :
        door' = [a \in Agents |-> IF a \in freed THEN Nobody ELSE door[a]]

Next == Close \/ \E a, by \in Agents : Open(a, by)

Spec == Init /\ [][Next]_door
=============================================================================
