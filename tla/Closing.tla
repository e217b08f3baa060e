------------------------------- MODULE Closing -------------------------------
(***************************************************************************)
(* What the closed-anchor registries promise, without attempts, outbox,    *)
(* reapers or a network: the close of a thread is a commitment in two      *)
(* phases.  The sender promises it, the recipient closes and may take the  *)
(* terminator, and the sender makes the close real only once it was taken; *)
(* a promise may be withdrawn, a close never.                              *)
(***************************************************************************)
CONSTANT Anchors

VARIABLES
    sender,     \* the thread as the sender of the terminator reads it
    recipient,  \* the thread as its recipient reads it
    taken       \* anchors whose terminator the recipient took

vars == <<sender, recipient, taken>>

Init ==
    /\ sender = [a \in Anchors |-> "open"]
    /\ recipient = [a \in Anchors |-> "open"]
    /\ taken = {}

Turn(a, from, to) ==
    /\ sender[a] = from
    /\ sender' = [sender EXCEPT ![a] = to]
    /\ UNCHANGED <<recipient, taken>>

Promise(a) == Turn(a, "open", "pending")
Withdraw(a) == Turn(a, "pending", "open")
Confirm(a) == a \in taken /\ Turn(a, "pending", "closed")

\* The recipient closes first; then it takes the terminator or is too busy.
Receive(a) ==
    /\ recipient' = [recipient EXCEPT ![a] = "closed"]
    /\ taken' \in {taken, taken \cup {a}}
    /\ UNCHANGED sender

Next ==
    \E a \in Anchors : Promise(a) \/ Withdraw(a) \/ Confirm(a) \/ Receive(a)

Spec == Init /\ [][Next]_vars
=============================================================================
