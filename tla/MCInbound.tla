------------------------------ MODULE MCInbound ------------------------------
(* Requests for two messages; the window is one unit of time. *)
EXTENDS Inbound

CONSTANTS m1, m2
TwoIds == {m1, m2}
=============================================================================
