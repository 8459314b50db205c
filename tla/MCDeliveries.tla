---------------------------- MODULE MCDeliveries ----------------------------
(* The instance of Deliveries for TLC. *)
EXTENDS Deliveries
=============================================================================
