------------------------------ MODULE MCOrders ------------------------------
(***************************************************************************)
(* Small instances of Orders.  MCOrdersRefunds takes one order through     *)
(* everything that can happen to one payment, MCOrdersCheckouts through    *)
(* two online payments, with fairness; MCOrdersBenefits takes two orders   *)
(* of one buyer, one paid with the voucher the other's points bought.      *)
(***************************************************************************)
EXTENDS Orders, TLC

CONSTANTS o1, o2, v1

Online(delivery, total) ==
  [channel |-> "online", delivery |-> delivery, timing |-> "after_service",
   total |-> total]
AtStore(timing, total) ==
  [channel |-> "in_store", delivery |-> FALSE, timing |-> timing, total |-> total]

OneOrder == {o1}
TwoOrders == {o1, o2}
NoVouchers == {}
OneVoucher == {v1}

RefundDetails ==
  {Online(TRUE, 1), Online(TRUE, 2), Online(FALSE, 2)}
    \cup {AtStore(t, n) : t \in {"before_fulfillment", "at_pickup", "after_service"},
                          n \in {1, 2}}
BenefitDetails ==
  {Online(FALSE, 1), AtStore("before_fulfillment", 1), AtStore("after_service", 1),
   AtStore("after_service", 0), Online(FALSE, 0)}

CheckoutDetails == {Online(TRUE, 1)}
LiveDetails == {Online(TRUE, 1), AtStore("after_service", 1)}

AllModes == {"off", "start", "start_and_print"}
OffOrPrint == {"off", "start_and_print"}
AlwaysOff == {"off"}

NoCost == [v \in {} |-> 1]
VoucherCost == v1 :> 1
OnePoint == {1}
SomePoints == {0, 1}

\* Bound: only one of the two orders is paid online.
OneOnlineOrder ==
  \A q, r \in Orders :
    detail[q].channel = "online" /\ detail[r].channel = "online" => q = r

OrdersAlike == Permutations(TwoOrders)
=============================================================================
