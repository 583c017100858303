------------------------------ MODULE OrderIds ------------------------------
(* The ids of the orders of one store, shared by the ledger, the payment   *)
(* provider and the order handlers.                                        *)
CONSTANT Orders
=============================================================================
