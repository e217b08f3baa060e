------------------------------ MODULE MCNotices ------------------------------
(* Two gateways that notify each other about one message and its retries. *)
EXTENDS Notices, TLC

OneMessage == {CHOOSE m \in Agents \X Agents : m[1] # m[2]}
=============================================================================
