----------------------------- MODULE MCRewards -----------------------------
(***************************************************************************)
(* The ledger with three orders and three vouchers.  The points an order   *)
(* earns are zero (a tiny total), less than a voucher costs, or more, so   *)
(* that a reversal can meet a balance that was already spent.              *)
(***************************************************************************)
EXTENDS Rewards, TLC

CONSTANTS o1, o2, o3, v1, v2, v3

MCOrders == {o1, o2, o3}
MCVouchers == {v1, v2, v3}
MCCost == v1 :> 2 @@ v2 :> 2 @@ v3 :> 1
MCPointValues == {0, 1, 3}
=============================================================================
