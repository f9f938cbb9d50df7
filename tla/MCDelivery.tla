----------------------------- MODULE MCDelivery -----------------------------
(* TLC instances of Delivery. *)
EXTENDS Delivery
=============================================================================
