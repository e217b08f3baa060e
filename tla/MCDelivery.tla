----------------------------- MODULE MCDelivery -----------------------------
(* One delivery to a peer with two addresses, in half seconds. *)
EXTENDS Delivery
=============================================================================
