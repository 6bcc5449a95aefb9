----------------------------- MODULE MCDelivery -----------------------------
(* The instance of Delivery for TLC. *)
EXTENDS Delivery
=============================================================================
