------------------------------ MODULE MCOrders ------------------------------
(***************************************************************************)
(* Instances of Orders for TLC.                                            *)
(***************************************************************************)
EXTENDS Orders
=============================================================================
