---------------------------- MODULE OrdersProofs ----------------------------
(***************************************************************************)
(* What the order handlers do to the loyalty ledger (RewardsProofs) and to *)
(* the order's status, and the types of everything the handlers and the    *)
(* provider write, for any number of orders, payments, refunds and         *)
(* vouchers.                                                               *)
(*                                                                         *)
(* OrderStepShape sums up every handler: it moves the status of one order  *)
(* forward and makes at most one kind of change to that order's benefits.  *)
(* The theorems follow from that summary, never from the handlers again.   *)
(***************************************************************************)
EXTENDS Orders, RewardsProofs, SequenceTheorems

(***************************************************************************)
(*                           The order handlers                            *)
(***************************************************************************)

AllStatuses == ORDER_STATUSES \cup {"absent"}
StatusTypeOK == status \in [Orders -> AllStatuses]

\* The order's status becomes st, which is not behind the one it had.
MovesTo(o, st) ==
  /\ st \in AllStatuses
  /\ status' = [status EXCEPT ![o] = st]
  /\ Rank(st) >= Rank(status[o])

\* The four things a handler does to the benefits of its order.
Keeps(o) ==
  /\ UNCHANGED rewardsVars
  /\ status'[o] \in ClosedStatuses => status[o] \in ClosedStatuses
Uses(o) ==
  /\ \E v \in Vouchers : UseVoucher(v, o)
  /\ UNCHANGED accountVars
  /\ status'[o] \notin ClosedStatuses
Earns(o) ==
  /\ \E p \in PointValues : AwardPoints(o, p)
  /\ UNCHANGED voucherVars
  /\ status'[o] \notin ClosedStatuses
Shape(o) ==
  /\ \E st \in AllStatuses : MovesTo(o, st)
  /\ Keeps(o) \/ Uses(o) \/ Earns(o) \/ TakeBenefitsBack(o)

-----------------------------------------------------------------------------
(* The order of the statuses                                               *)

\* The ranks of the statuses.
LEMMA RankValues ==
  /\ Rank("absent") = 0 /\ Rank("created") = 1 /\ Rank("paid") = 2
  /\ Rank("accepted") = 3 /\ Rank("preparing") = 4 /\ Rank("ready") = 5
  /\ Rank("on_the_way") = 6 /\ Rank("delivered") = 7 /\ Rank("completed") = 7
  /\ Rank("cancelled") = 8 /\ Rank("partially_refunded") = 8 /\ Rank("refunded") = 8
BY DEF Rank

\* The closing statuses come last.
LEMMA RankBound == \A st \in AllStatuses : Rank(st) \in 0..8
BY RankValues DEF AllStatuses, ORDER_STATUSES

\* The status UPDATE for a paid order moves 'created' to 'paid' only.
LEMMA PaidStatusForward ==
  ASSUME NEW o \in Orders, StatusTypeOK
  PROVE  /\ PaidStatus(o) \in AllStatuses
         /\ Rank(PaidStatus(o)) >= Rank(status[o])
         /\ PaidStatus(o) \in ClosedStatuses => status[o] \in ClosedStatuses
BY RankValues, RankBound
DEF PaidStatus, StatusTypeOK, AllStatuses, ORDER_STATUSES, ClosedStatuses

\* nextStatusesFor only offers statuses further on.
LEMMA NextStatusesForward ==
  ASSUME NEW o \in Orders, StatusTypeOK, NEW st \in nextStatusesFor(o)
  PROVE  st \in AllStatuses /\ Rank(st) >= Rank(status[o])
BY RankValues
DEF nextStatusesFor, StatusTypeOK, AllStatuses, ORDER_STATUSES

\* The automatic start moves to 'preparing' from 'created' or 'paid' only.
LEMMA AutoStartForward ==
  ASSUME NEW o \in Orders, StatusTypeOK, NEW st \in AllStatuses,
         NEW pays, NEW told, AutoStart(o, st, pays, told),
         Rank(st) >= Rank(status[o])
  PROVE  /\ \E next \in AllStatuses : MovesTo(o, next)
         /\ status'[o] \in ClosedStatuses => st \in ClosedStatuses
<1>1. PICK mode \in AutoStartModes :
        status' = [status EXCEPT ![o] =
          IF mode # "off" /\ isAutoStartEligible(o, st, pays) THEN "preparing" ELSE st]
  BY DEF AutoStart
<1>2. isAutoStartEligible(o, st, pays) => st \in {"created", "paid"}
  BY DEF isAutoStartEligible
<1>3. st \in {"created", "paid"} => Rank("preparing") >= Rank(status[o])
  <2>1. status[o] \in AllStatuses
    BY DEF StatusTypeOK
  <2>2. Rank(status[o]) \in Int
    BY <2>1, RankBound
  <2>3. CASE st = "created"
    BY <2>2, <2>3, RankValues
  <2>4. CASE st = "paid"
    BY <2>2, <2>4, RankValues
  <2> QED BY <2>3, <2>4
<1> QED
  BY <1>1, <1>2, <1>3
  DEF MovesTo, StatusTypeOK, AllStatuses, ORDER_STATUSES, ClosedStatuses

-----------------------------------------------------------------------------
(* Every handler has the shape                                             *)

\* The buyer's handlers.
LEMMA CreateOrderShape ==
  ASSUME NEW o \in Orders, StatusTypeOK, NEW v \in Vouchers \cup {NoVoucher},
         CreateOrder(o, v)
  PROVE  Shape(o)
<1>1. status[o] = "absent" /\ "created" \in AllStatuses
  BY DEF CreateOrder, PlaceInStore, AllStatuses, ORDER_STATUSES
<1>2. Rank("created") >= Rank(status[o])
  BY <1>1, RankValues
<1>3. /\ \E st \in AllStatuses : MovesTo(o, st)
      /\ status'[o] \notin ClosedStatuses
  <2>1. CASE InStore(o)
    <3>1. AutoStart(o, "created", <<"awaiting_collection">>, NewOrderTold)
      BY <2>1 DEF CreateOrder, PlaceInStore
    <3> QED BY <1>1, <1>2, <3>1, AutoStartForward DEF ClosedStatuses
  <2>2. CASE ~InStore(o)
    BY <2>2, <1>1, <1>2 DEF CreateOrder, PlaceInStore, MovesTo, StatusTypeOK,
       ClosedStatuses
  <2> QED BY <2>1, <2>2
<1>4. UNCHANGED accountVars
  BY DEF CreateOrder, PlaceInStore
<1>5. CASE v = NoVoucher
  BY <1>3, <1>4, <1>5 DEF CreateOrder, PlaceInStore, Shape, Keeps, rewardsVars
<1>6. CASE v # NoVoucher
  <2>1. v \in Vouchers /\ UseVoucher(v, o)
    BY <1>6 DEF CreateOrder, PlaceInStore
  <2> QED BY <1>3, <1>4, <2>1 DEF Shape, Uses
<1> QED BY <1>5, <1>6

\* POST /payments/create.
LEMMA CreatePaymentShape ==
  ASSUME NEW o \in Orders, StatusTypeOK, CreatePayment(o)
  PROVE  Shape(o)
BY RankBound
DEF CreatePayment, Payable, Shape, Keeps, MovesTo, StatusTypeOK

\* POST /orders/cancel.
LEMMA CancelByCustomerShape ==
  ASSUME NEW o \in Orders, StatusTypeOK, CancelByCustomer(o)
  PROVE  Shape(o)
BY RankBound, RankValues
DEF CancelByCustomer, Shape, MovesTo, StatusTypeOK, AllStatuses, ORDER_STATUSES

\* The webhook.
LEMMA WebhookShape ==
  ASSUME NEW o \in Orders, StatusTypeOK, NEW i, NEW ev, Webhook(o, i, ev)
  PROVE  Shape(o)
<1>1. CASE ev = "paid"
  <2>1. /\ AutoStart(o, PaidStatus(o), payments'[o], NewOrderTold)
        /\ UNCHANGED rewardsVars
    BY <1>1 DEF Webhook
  <2>2. /\ \E st \in AllStatuses : MovesTo(o, st)
        /\ status'[o] \in ClosedStatuses => status[o] \in ClosedStatuses
    BY <2>1, PaidStatusForward, AutoStartForward
  <2> QED BY <2>1, <2>2 DEF Shape, Keeps
<1>2. CASE ev = "refunded"
  BY <1>2, RankBound, RankValues
  DEF Webhook, Shape, MovesTo, StatusTypeOK, AllStatuses, ORDER_STATUSES,
      ClosedStatuses
<1>3. CASE ev = "failed"
  BY <1>3, RankBound DEF Webhook, Shape, Keeps, MovesTo, StatusTypeOK
<1> QED BY <1>1, <1>2, <1>3 DEF Webhook

\* The merchant's handlers.
LEMMA UpdateStatusShape ==
  ASSUME NEW o \in Orders, StatusTypeOK, NEW st, UpdateStatus(o, st)
  PROVE  Shape(o)
<1>1. st \in AllStatuses /\ status[o] \in AllStatuses
  BY DEF UpdateStatus, MayBecome, AllStatuses, StatusTypeOK
<1>2. Rank(st) >= Rank(status[o])
  BY <1>1, RankBound, NextStatusesForward DEF UpdateStatus, MayBecome
<1>3. /\ \E next \in AllStatuses : MovesTo(o, next)
      /\ status'[o] = st
  BY <1>1, <1>2 DEF UpdateStatus, MayBecome, MovesTo, StatusTypeOK
<1>4. CASE st = "cancelled" /\ TakeBenefitsBack(o)
  BY <1>3, <1>4 DEF Shape
<1>5. CASE /\ st \in FulfilledStatuses
           /\ \E p \in PointValues : \E kinds : Earn(o, p, kinds)
           /\ UNCHANGED voucherVars
  BY <1>3, <1>5 DEF Shape, Earns, Earn, FulfilledStatuses, ClosedStatuses
<1>6. CASE st # "cancelled" /\ UNCHANGED rewardsVars
  <2>1. st # "refunded"
    BY DEF UpdateStatus, MayBecome
  <2> QED BY <1>3, <1>6, <2>1 DEF Shape, Keeps, ClosedStatuses
<1> DEFINE earns == st \in FulfilledStatuses /\ (InStore(o) => PaidInStore(o))
           kinds == IF st = status[o] THEN {} ELSE {st}
<1>7. CASE earns /\ (\E p \in PointValues : Earn(o, p, kinds)) /\ UNCHANGED voucherVars
  BY <1>5, <1>7
<1>8. \/ /\ earns
         /\ \E p \in PointValues : Earn(o, p, kinds)
         /\ UNCHANGED <<payments, voucherVars>>
      \/ st = "cancelled" /\ TakeBenefitsBack(o)
      \/ ~earns /\ st # "cancelled" /\ UNCHANGED <<payments, rewardsVars>>
  BY DEF UpdateStatus, MayBecome
<1> QED BY <1>4, <1>6, <1>7, <1>8

\* POST /orders/in-store-payment/collect.
LEMMA CollectShape ==
  ASSUME NEW o \in Orders, StatusTypeOK, CollectInStorePayment(o)
  PROVE  Shape(o)
<1>1. \E st \in AllStatuses : MovesTo(o, st)
  BY RankBound DEF CollectInStorePayment, Collectible, MovesTo, StatusTypeOK
<1>2. CASE status[o] \in FulfilledStatuses
  BY <1>1, <1>2
  DEF CollectInStorePayment, Collectible, Shape, Earns, Earn, FulfilledStatuses,
      ClosedStatuses
<1>3. CASE status[o] \notin FulfilledStatuses
  BY <1>1, <1>3 DEF CollectInStorePayment, Collectible, Shape, Keeps, rewardsVars
<1> QED BY <1>2, <1>3

\* The status a sync or a refund leaves when money was paid back.
LEMMA RefundStatusesForward ==
  ASSUME NEW o \in Orders, StatusTypeOK,
         NEW st \in {"refunded", "partially_refunded"},
         status' = [status EXCEPT ![o] = st]
  PROVE  \E next \in AllStatuses : MovesTo(o, next)
<1>1. st \in AllStatuses
  BY DEF AllStatuses, ORDER_STATUSES
<1>2. Rank(st) = 8
  <2>1. CASE st = "refunded"
    BY <2>1, RankValues
  <2>2. CASE st = "partially_refunded"
    BY <2>2, RankValues
  <2> QED BY <2>1, <2>2
<1>3. Rank(status[o]) \in 0..8
  BY RankBound DEF StatusTypeOK
<1>4. Rank(st) >= Rank(status[o])
  BY <1>2, <1>3
<1>5. MovesTo(o, st)
  BY <1>1, <1>4 DEF MovesTo
<1> QED BY <1>1, <1>5

\* POST /orders/payments/sync.
LEMMA SyncPaymentShape ==
  ASSUME NEW o \in Orders, StatusTypeOK, NEW ps, SyncPayment(o, ps)
  PROVE  Shape(o)
<1> DEFINE refunded == SucceededAmount(SyncedRows(o, Len(payments[o])), Len(payments[o]))
           next == IF refunded > 0
                   THEN IF isFullRefund(o, refunded) THEN "refunded" ELSE "partially_refunded"
                   ELSE IF ps = "paid" THEN PaidStatus(o) ELSE status[o]
<1>1. \/ /\ AutoStart(o, next, payments'[o], NewOrderTold)
         /\ ~(refunded > 0) /\ ps = "paid"
         /\ UNCHANGED rewardsVars
      \/ /\ status' = [status EXCEPT ![o] = next]
         /\ IF next = "refunded" /\ status[o] # "refunded"
            THEN TakeBenefitsBack(o) ELSE UNCHANGED rewardsVars
  BY DEF SyncPayment, Syncable, SyncedStatus
<1>2. /\ next \in AllStatuses
      /\ Rank(next) >= Rank(status[o])
      /\ next = "cancelled" => status[o] = "cancelled"
  <2>1. CASE refunded > 0
    BY <2>1, RankValues, RankBound DEF StatusTypeOK, AllStatuses, ORDER_STATUSES
  <2>2. CASE ~(refunded > 0) /\ ps = "paid"
    BY <2>2, PaidStatusForward DEF PaidStatus
  <2>3. CASE ~(refunded > 0) /\ ps # "paid"
    BY <2>3, RankBound DEF StatusTypeOK
  <2> QED BY <2>1, <2>2, <2>3
<1>3. CASE /\ AutoStart(o, next, payments'[o], NewOrderTold)
           /\ ~(refunded > 0) /\ ps = "paid"
           /\ UNCHANGED rewardsVars
  <2>1. next = PaidStatus(o)
    BY <1>3
  <2> QED
    BY <1>2, <1>3, <2>1, PaidStatusForward, AutoStartForward DEF Shape, Keeps
<1>4. CASE /\ status' = [status EXCEPT ![o] = next]
           /\ IF next = "refunded" /\ status[o] # "refunded"
              THEN TakeBenefitsBack(o) ELSE UNCHANGED rewardsVars
  <2> HIDE DEF next
  <2>1. MovesTo(o, next) /\ status'[o] = next
    BY <1>2, <1>4 DEF MovesTo, StatusTypeOK
  <2> QED BY <1>2, <1>4, <2>1 DEF Shape, Keeps, ClosedStatuses
<1> QED BY <1>1, <1>3, <1>4

-----------------------------------------------------------------------------
(* The refunds                                                             *)

\* The tail the successful refunds share.
LEMMA ApplyRefundShape ==
  ASSUME NEW o \in Orders, StatusTypeOK, NEW i, NEW a, NEW st,
         ApplyRefund(o, i, a, st)
  PROVE  Shape(o)
<1>1. CASE st = "succeeded"
  <2>1. CASE isFullRefund(o, Refunded(o, i) + a)
    BY <1>1, <2>1, RefundStatusesForward DEF ApplyRefund, Shape
  <2>2. CASE ~isFullRefund(o, Refunded(o, i) + a)
    BY <1>1, <2>2, RefundStatusesForward
    DEF ApplyRefund, Shape, Keeps, StatusTypeOK, ClosedStatuses
  <2> QED BY <2>1, <2>2
<1>2. CASE st # "succeeded"
  BY <1>2, RankBound DEF ApplyRefund, Shape, Keeps, MovesTo, StatusTypeOK
<1> QED BY <1>1, <1>2

\* Steps that leave the order's status and benefits alone.
LEMMA QuietShape ==
  ASSUME NEW o \in Orders, StatusTypeOK, UNCHANGED <<status, rewardsVars>>
  PROVE  Shape(o)
BY RankBound DEF Shape, Keeps, MovesTo, StatusTypeOK

\* POST /orders/refund.
LEMMA RefundShape ==
  ASSUME NEW o \in Orders, StatusTypeOK, RefundStep(o)
  PROVE  Shape(o)
<1>1. PICK i \in Payments :
        \/ RefundAlreadyDone(o, i)
        \/ \E a \in Amounts :
             \/ RefundInStore(o, i, a)
             \/ RefundRefused(o, i, a)
             \/ \E st \in RefundStates :
                  RefundOnline(o, i, a, st) \/ RefundReplyLost(o, i, a, st)
  BY DEF RefundStep
<1>2. CASE RefundAlreadyDone(o, i)
  BY <1>2, RefundStatusesForward DEF RefundAlreadyDone, Shape
<1>3. ASSUME NEW a \in Amounts, RefundInStore(o, i, a)
      PROVE  Shape(o)
  BY <1>3, ApplyRefundShape DEF RefundInStore
<1>4. ASSUME NEW a \in Amounts, RefundRefused(o, i, a)
      PROVE  Shape(o)
  BY <1>4, QuietShape DEF RefundRefused
<1>5. ASSUME NEW a \in Amounts, NEW st \in RefundStates, RefundOnline(o, i, a, st)
      PROVE  Shape(o)
  BY <1>5, ApplyRefundShape DEF RefundOnline
<1>6. ASSUME NEW a \in Amounts, NEW st \in RefundStates, RefundReplyLost(o, i, a, st)
      PROVE  Shape(o)
  BY <1>6, QuietShape DEF RefundReplyLost
<1> QED BY <1>1, <1>2, <1>3, <1>4, <1>5, <1>6

\* The provider's own steps leave the database alone.
LEMMA ProviderShape ==
  ASSUME NEW o \in Orders, StatusTypeOK, ProviderStep(o)
  PROVE  Shape(o)
<1>1. UNCHANGED <<orderVars, rewardsVars>>
  BY DEF ProviderStep, UnrecordedRefund
<1> QED BY <1>1, QuietShape DEF orderVars

\* Every step on an order.
LEMMA OrderStepShape ==
  ASSUME NEW o \in Orders, StatusTypeOK, OrderStep(o)
  PROVE  Shape(o)
<1>1. CASE BuyerStep(o)
  BY <1>1, CreateOrderShape, CreatePaymentShape, CancelByCustomerShape
  DEF BuyerStep
<1>2. CASE MerchantStep(o)
  BY <1>2, UpdateStatusShape, CollectShape, SyncPaymentShape, RefundShape
  DEF MerchantStep
<1>3. CASE WebhookStep(o)
  BY <1>3, WebhookShape DEF WebhookStep
<1>4. CASE ProviderStep(o)
  BY <1>4, ProviderShape
<1> QED BY <1>1, <1>2, <1>3, <1>4 DEF OrderStep

-----------------------------------------------------------------------------
(* The handlers implement the ledger                                       *)

\* What a handler does to the ledger is a step of the ledger.
LEMMA ShapeIsLedgerStep ==
  ASSUME NEW o \in Orders, Shape(o)
  PROVE  [LedgerNext]_rewardsVars
<1>1. CASE Keeps(o)
  BY <1>1 DEF Keeps
<1>2. CASE Uses(o)
  BY <1>2 DEF Uses, LedgerNext
<1>3. CASE Earns(o)
  BY <1>3 DEF Earns, LedgerNext
<1>4. CASE TakeBenefitsBack(o)
  BY <1>4 DEF TakeBenefitsBack, LedgerNext
<1> QED BY <1>1, <1>2, <1>3, <1>4 DEF Shape

\* What is inductive: the ledger's invariant, the statuses, and the closed
\* orders, which need both (a reversal that finds a 'refund' row already there
\* leaves no points only because the rows agree).
OrdersInv == StatusTypeOK /\ LedgerInv /\ ClosedOrdersHoldNoBenefits

\* OrdersInv holds of the initial states.
LEMMA OrdersInvInit == OrdersInit => OrdersInv
<1> SUFFICES ASSUME OrdersInit PROVE OrdersInv
  OBVIOUS
<1>1. LedgerInv
  BY LedgerInit DEF OrdersInit
<1>2. StatusTypeOK /\ ClosedOrdersHoldNoBenefits
  BY DEF OrdersInit, StatusTypeOK, AllStatuses, ClosedOrdersHoldNoBenefits,
         ClosedStatuses
<1> QED BY <1>1, <1>2 DEF OrdersInv

\* Operations on the benefits of one order leave the other orders' alone.
LEMMA OthersKeepBenefits ==
  ASSUME NEW o \in Orders, NEW q \in Orders \ {o}, LedgerInv, Shape(o)
  PROVE  earnStatus'[q] = earnStatus[q] /\ useStatus'[q] = useStatus[q]
<1> USE DEF LedgerInv, AccountInv, VoucherInv, AccountTypeOK, VoucherTypeOK
<1>1. CASE Keeps(o)
  BY <1>1 DEF Keeps, rewardsVars, accountVars, voucherVars
<1>2. CASE Uses(o)
  BY <1>2 DEF Uses, UseVoucher, accountVars
<1>3. CASE Earns(o)
  BY <1>3 DEF Earns, AwardPoints, accountVars, voucherVars
<1>4. CASE TakeBenefitsBack(o)
  BY <1>4 DEF TakeBenefitsBack, ReversePoints, RestoreVoucher, accountVars,
       voucherVars
<1> QED BY <1>1, <1>2, <1>3, <1>4 DEF Shape

\* The order a handler works on.
LEMMA OwnBenefits ==
  ASSUME NEW o \in Orders, OrdersInv, Shape(o), status'[o] \in ClosedStatuses
  PROVE  earnStatus'[o] # "available" /\ useStatus'[o] # "applied"
<1>1. CASE Keeps(o)
  BY <1>1 DEF Keeps, OrdersInv, ClosedOrdersHoldNoBenefits, rewardsVars,
       accountVars, voucherVars
<1>2. CASE TakeBenefitsBack(o)
  BY <1>2, ReverseLeavesNothing, RestoreLeavesNothing
  DEF TakeBenefitsBack, OrdersInv, LedgerInv
<1> QED BY <1>1, <1>2 DEF Shape, Uses, Earns

\* Every step on an order keeps OrdersInv.
LEMMA OrderStepKeepsInv ==
  ASSUME NEW o \in Orders, OrdersInv, OrderStep(o)
  PROVE  OrdersInv'
<1>1. Shape(o)
  BY OrderStepShape DEF OrdersInv
<1>2. PICK st \in AllStatuses : MovesTo(o, st)
  BY <1>1 DEF Shape
<1>3. StatusTypeOK'
  BY <1>2 DEF MovesTo, OrdersInv, StatusTypeOK
<1>4. LedgerInv'
  BY <1>1, ShapeIsLedgerStep, LedgerStep DEF OrdersInv
<1>5. ASSUME NEW q \in Orders, status'[q] \in ClosedStatuses
      PROVE  earnStatus'[q] # "available" /\ useStatus'[q] # "applied"
  <2>1. CASE q = o
    BY <1>1, <1>5, <2>1, OwnBenefits
  <2>2. CASE q # o
    <3>1. status'[q] = status[q]
      BY <1>2, <2>2 DEF MovesTo, OrdersInv, StatusTypeOK
    <3> QED
      BY <1>1, <1>5, <2>2, <3>1, OthersKeepBenefits
      DEF OrdersInv, ClosedOrdersHoldNoBenefits
  <2> QED BY <2>1, <2>2
<1> QED BY <1>3, <1>4, <1>5 DEF OrdersInv, ClosedOrdersHoldNoBenefits

\* So does a voucher that is redeemed or expires.
LEMMA VoucherStepKeepsInv ==
  ASSUME NEW v \in Vouchers, OrdersInv, VoucherStep(v)
  PROVE  OrdersInv'
<1>1. LedgerInv'
  BY LedgerStep DEF VoucherStep, LedgerNext, OrdersInv
<1>2. UNCHANGED <<status, earnStatus, useStatus>>
  BY DEF VoucherStep, RedeemReward, Affordable, ExpireVoucher, orderVars, accountVars
<1> QED BY <1>1, <1>2 DEF OrdersInv, StatusTypeOK, ClosedOrdersHoldNoBenefits

\* Every step keeps OrdersInv.
LEMMA OrdersInvStep == OrdersInv /\ [OrdersNext]_vars => OrdersInv'
<1> SUFFICES ASSUME OrdersInv, [OrdersNext]_vars PROVE OrdersInv'
  OBVIOUS
<1>1. CASE OrdersNext
  BY <1>1, OrderStepKeepsInv, VoucherStepKeepsInv DEF OrdersNext
<1>2. CASE UNCHANGED vars
  <2>1. UNCHANGED rewardsVars /\ UNCHANGED status
    BY <1>2 DEF vars, orderVars
  <2>2. LedgerInv'
    BY <2>1, LedgerStep DEF OrdersInv
  <2> QED
    BY <2>1, <2>2
    DEF OrdersInv, StatusTypeOK, ClosedOrdersHoldNoBenefits, rewardsVars,
        accountVars, voucherVars
<1> QED BY <1>1, <1>2

\* The ledger and the statuses, with what closed orders keep.
THEOREM OrdersInvariant == OrdersSpec => []OrdersInv
BY OrdersInvInit, OrdersInvStep, PTL DEF OrdersSpec

-----------------------------------------------------------------------------
(* Results                                                                 *)

\* The order handlers implement the loyalty ledger: each of their steps is
\* one operation of the ledger, or none.
THEOREM OrdersImplementLedger == OrdersSpec => LedgerSpec
<1>1. OrdersInit => RewardsInit
  BY DEF OrdersInit
<1>2. ASSUME OrdersInv, [OrdersNext]_vars
      PROVE  [LedgerNext]_rewardsVars
  <2>1. ASSUME NEW o \in Orders, OrderStep(o)
        PROVE  [LedgerNext]_rewardsVars
    BY <1>2, <2>1, OrderStepShape, ShapeIsLedgerStep DEF OrdersInv
  <2>2. ASSUME NEW v \in Vouchers, VoucherStep(v)
        PROVE  [LedgerNext]_rewardsVars
    BY <2>2 DEF VoucherStep, LedgerNext
  <2>3. CASE UNCHANGED vars
    BY <2>3 DEF vars
  <2> QED BY <1>2, <2>1, <2>2, <2>3 DEF OrdersNext
<1> QED BY <1>1, <1>2, OrdersInvariant, PTL DEF OrdersSpec, LedgerSpec

\* A cancelled or refunded order holds neither points nor a voucher.
THEOREM ClosedOrders == OrdersSpec => []ClosedOrdersHoldNoBenefits
<1>1. OrdersInv => ClosedOrdersHoldNoBenefits
  BY DEF OrdersInv
<1> QED BY <1>1, OrdersInvariant, PTL

\* Under the order handlers account, rows and vouchers tell one story: no
\* voucher pays for two orders and none is lost with a closed order.
THEOREM OrdersLedgerSound == OrdersSpec => []LedgerIsSound
BY OrdersImplementLedger, LedgerSound, PTL

\* Under the order handlers an order earns once.
THEOREM OrdersEarnOnce == OrdersSpec => EarnsAtMostOnce
BY OrdersImplementLedger, LedgerEarnsOnce

\* No step takes an order back.
THEOREM OrdersForward == OrdersSpec => OrdersOnlyMoveForward
<1> DEFINE A == \A o \in Orders : Rank(status'[o]) >= Rank(status[o])
<1>1. ASSUME OrdersInv, [OrdersNext]_vars
      PROVE  [A]_vars
  <2>1. ASSUME NEW o \in Orders, OrderStep(o)
        PROVE  A
    <3>1. PICK st \in AllStatuses : MovesTo(o, st)
      BY <1>1, <2>1, OrderStepShape DEF OrdersInv, Shape
    <3> QED BY <1>1, <3>1, RankBound DEF MovesTo, OrdersInv, StatusTypeOK
  <2>2. ASSUME NEW v \in Vouchers, VoucherStep(v)
        PROVE  A
    <3>1. UNCHANGED status
      BY <2>2 DEF VoucherStep, orderVars
    <3> QED BY <1>1, <3>1, RankBound DEF OrdersInv, StatusTypeOK
  <2> QED BY <1>1, <2>1, <2>2 DEF OrdersNext
<1> QED
  BY <1>1, OrdersInvariant, PTL DEF OrdersSpec, OrdersOnlyMoveForward

(***************************************************************************)
(*                                The types                                *)
(***************************************************************************)

\* The variables split by the helper that writes them.
PaymentsTypeOK ==
  /\ payments \in [Orders -> Seq(PaymentStatuses)]
  /\ \A o \in Orders : Len(payments[o]) <= MaxPayments
RowsTypeOK == refundRows \in [Orders -> SUBSET RefundRow]
NoticesTypeOK ==
  /\ notices \in [Orders -> SUBSET Notices]
  /\ printJobs \subseteq Orders
LogTypeOK ==
  /\ detail \in [Orders -> Details]
  /\ processed \in [Orders -> SUBSET (Payments \X EventTypes)]

DataTypeOK ==
  PaymentsTypeOK /\ RowsTypeOK /\ NoticesTypeOK /\ LogTypeOK /\ StripeTypeOK

-----------------------------------------------------------------------------
(* The helpers of the handlers                                             *)

\* The bounds are positive.
LEMMA Bounds ==
  /\ MaxPayments \in Nat /\ MaxPayments >= 1
  /\ MaxRefunds \in Nat /\ MaxRefunds >= 1
  /\ MaxTotal \in Nat /\ MaxTotal >= 1
BY StripeAssumption

\* An order gets new payments.
LEMMA SetPayments ==
  ASSUME NEW o \in Orders, PaymentsTypeOK, NEW pays \in Seq(PaymentStatuses),
         Len(pays) <= MaxPayments, payments' = [payments EXCEPT ![o] = pays]
  PROVE  PaymentsTypeOK'
BY DEF PaymentsTypeOK

\* One payment gets a new status.
LEMMA SetPayment ==
  ASSUME NEW o \in Orders, PaymentsTypeOK, NEW i, NEW st \in PaymentStatuses,
         payments' = [payments EXCEPT ![o][i] = st]
  PROVE  PaymentsTypeOK'
<1> DEFINE pays == [payments[o] EXCEPT ![i] = st]
<1>1. payments[o] \in Seq(PaymentStatuses) /\ Len(payments[o]) <= MaxPayments
  BY DEF PaymentsTypeOK
<1>2. pays \in Seq(PaymentStatuses) /\ Len(pays) = Len(payments[o])
  <2>1. CASE i \in 1..Len(payments[o])
    BY <1>1, <2>1, ExceptSeq
  <2>2. CASE i \notin 1..Len(payments[o])
    <3>1. payments[o] \in [1..Len(payments[o]) -> PaymentStatuses]
      BY <1>1, LenProperties
    <3>2. pays = payments[o]
      BY <2>2, <3>1
    <3> QED BY <1>1, <3>2
  <2> QED BY <2>1, <2>2
<1>3. payments' = [payments EXCEPT ![o] = pays]
  BY DEF PaymentsTypeOK
<1> HIDE DEF pays
<1> QED BY <1>1, <1>2, <1>3, SetPayments

\* The one payment of an order in the store.
LEMMA SinglePayment ==
  ASSUME NEW o \in Orders, PaymentsTypeOK, NEW st \in PaymentStatuses,
         payments' = [payments EXCEPT ![o] = <<st>>]
  PROVE  PaymentsTypeOK'
<1>1. <<st>> \in Seq(PaymentStatuses) /\ Len(<<st>>) = 1
  OBVIOUS
<1> QED BY <1>1, Bounds, SetPayments

\* A cancelled in-store payment, or none.
LEMMA MaybeCancelled ==
  ASSUME NEW o \in Orders, PaymentsTypeOK, NEW b,
         payments' = [payments EXCEPT ![o] = IF b THEN <<"cancelled">> ELSE @]
  PROVE  PaymentsTypeOK'
<1>1. CASE b
  <2>1. "cancelled" \in PaymentStatuses
    BY DEF PaymentStatuses
  <2> QED BY <1>1, <2>1, SinglePayment
<1>2. CASE ~b
  BY <1>2 DEF PaymentsTypeOK
<1> QED BY <1>1, <1>2

\* Notices are notices.
LEMMA TellType ==
  ASSUME NEW o \in Orders, NEW kinds \in SUBSET Notices, NoticesTypeOK,
         Tell(o, kinds), UNCHANGED printJobs
  PROVE  NoticesTypeOK'
BY DEF NoticesTypeOK, Tell

\* The automatic start.
LEMMA AutoStartType ==
  ASSUME NEW o \in Orders, NEW st, NEW pays, NEW told \in SUBSET Notices,
         NoticesTypeOK, AutoStart(o, st, pays, told)
  PROVE  NoticesTypeOK'
BY DEF NoticesTypeOK, AutoStart, Tell, Notices

\* The kinds the helpers tell exist.
LEMMA ToldKinds ==
  /\ \A o : ReversalTold(o) \in SUBSET Notices
  /\ NewOrderTold \in SUBSET Notices /\ CustomerCancelTold \in SUBSET Notices
  /\ \A full : RefundTold(full) \in SUBSET Notices
  /\ CollectedTold \in SUBSET Notices
BY DEF ReversalTold, NewOrderTold, CustomerCancelTold, RefundTold, CollectedTold,
   Notices

\* An award.
LEMMA EarnType ==
  ASSUME NEW o \in Orders, NEW p, NEW told \in SUBSET Notices,
         NoticesTypeOK, Earn(o, p, told), UNCHANGED printJobs
  PROVE  NoticesTypeOK'
BY DEF NoticesTypeOK, Earn, EarnedTold, Tell, Notices

\* A refund row is inserted.
LEMMA InsertRowType ==
  ASSUME NEW o \in Orders, NEW i \in Payments, NEW a \in Amounts,
         NEW st \in RefundStates, NEW ref \in 0..MaxRefunds,
         RowsTypeOK, InsertRow(o, i, a, st, ref)
  PROVE  RowsTypeOK'
BY DEF RowsTypeOK, InsertRow, RefundRow, RefundStates, Amounts

-----------------------------------------------------------------------------
(* The provider                                                            *)

\* The events that go with refunds.
LEMMA RefundEventsType ==
  ASSUME NEW rs, NEW total
  PROVE  RefundEvents(rs, total) \subseteq Payments \X EventTypes
BY DEF RefundEvents, EventTypes

\* A charge gets a new state, and events go with it.
LEMMA SetCharge ==
  ASSUME NEW o \in Orders, NEW i \in Payments, StripeTypeOK,
         NEW st \in ChargeStates, NEW new \in SUBSET (Payments \X EventTypes),
         charge' = [charge EXCEPT ![o][i] = st],
         events' = [events EXCEPT ![o] = @ \cup new],
         UNCHANGED refunds
  PROVE  StripeTypeOK'
<1>1. charge' \in [Orders -> [Payments -> ChargeStates]]
  BY DEF StripeTypeOK
<1>2. events' \in [Orders -> SUBSET (Payments \X EventTypes)]
  BY DEF StripeTypeOK
<1> QED BY <1>1, <1>2 DEF StripeTypeOK

\* The buyer at the checkout.
LEMMA ChargeType ==
  ASSUME NEW o \in Orders, NEW i \in Payments, StripeTypeOK,
         \/ OpenCharge(o, i) \/ CaptureCharge(o, i)
         \/ DeclineCharge(o, i) \/ ExpireCharge(o, i)
  PROVE  StripeTypeOK'
<1>1. CASE OpenCharge(o, i)
  <2>1. events' = [events EXCEPT ![o] = @ \cup {}]
    BY <1>1 DEF OpenCharge, StripeTypeOK
  <2>2. "open" \in ChargeStates /\ {} \in SUBSET (Payments \X EventTypes)
    BY DEF ChargeStates
  <2> QED BY <1>1, <2>1, <2>2, SetCharge DEF OpenCharge
<1>2. CASE CaptureCharge(o, i)
  <2>1. "captured" \in ChargeStates /\ {<<i, "paid">>} \in SUBSET (Payments \X EventTypes)
    BY DEF ChargeStates, EventTypes
  <2> QED BY <1>2, <2>1, SetCharge DEF CaptureCharge
<1>3. CASE DeclineCharge(o, i)
  <2>1. "declined" \in ChargeStates /\ {<<i, "failed">>} \in SUBSET (Payments \X EventTypes)
    BY DEF ChargeStates, EventTypes
  <2> QED BY <1>3, <2>1, SetCharge DEF DeclineCharge
<1>4. CASE ExpireCharge(o, i)
  <2>1. "expired" \in ChargeStates /\ {<<i, "failed">>} \in SUBSET (Payments \X EventTypes)
    BY DEF ChargeStates, EventTypes
  <2> QED BY <1>4, <2>1, SetCharge DEF ExpireCharge
<1> QED BY <1>1, <1>2, <1>3, <1>4

\* A refund is accepted.
LEMMA AcceptRefundType ==
  ASSUME NEW o \in Orders, NEW i \in Payments, NEW a \in Amounts,
         NEW st \in RefundStates, NEW total, StripeTypeOK,
         AcceptRefund(o, i, a, st, total)
  PROVE  StripeTypeOK' /\ Len(refunds[o]) + 1 \in 0..MaxRefunds
<1> DEFINE r == [pay |-> i, amount |-> a, status |-> st]
<1>1. r \in StripeRefund
  BY DEF StripeRefund, Amounts
<1>2. refunds[o] \in Seq(StripeRefund)
  BY DEF StripeTypeOK
<1>3. /\ Append(refunds[o], r) \in Seq(StripeRefund)
      /\ Len(Append(refunds[o], r)) = Len(refunds[o]) + 1
      /\ Len(refunds[o]) \in Nat
  <2> HIDE DEF r
  <2> QED BY <1>1, <1>2, AppendProperties, LenProperties
<1>4. Len(refunds[o]) + 1 <= MaxRefunds
  BY <1>3, Bounds DEF AcceptRefund, CanRefund
<1>5. refunds' = [refunds EXCEPT ![o] = Append(refunds[o], r)]
  BY DEF AcceptRefund, StripeTypeOK
<1>6. /\ refunds' \in [Orders -> Seq(StripeRefund)]
      /\ \A q \in Orders : Len(refunds'[q]) <= MaxRefunds
  <2> HIDE DEF r
  <2> QED BY <1>3, <1>4, <1>5 DEF StripeTypeOK
<1>7. /\ charge' \in [Orders -> [Payments -> ChargeStates]]
      /\ events' \in [Orders -> SUBSET (Payments \X EventTypes)]
  BY RefundEventsType DEF AcceptRefund, StripeTypeOK
<1> QED BY <1>3, <1>4, <1>6, <1>7, Bounds DEF StripeTypeOK

\* A refund is settled.
LEMMA SettleRefundType ==
  ASSUME NEW o \in Orders, NEW k \in DOMAIN refunds[o], NEW st \in RefundStates,
         NEW total, StripeTypeOK, SettleRefund(o, k, st, total)
  PROVE  StripeTypeOK'
<1> DEFINE r == [refunds[o][k] EXCEPT !.status = st]
<1>1. refunds[o] \in Seq(StripeRefund) /\ Len(refunds[o]) <= MaxRefunds
  BY DEF StripeTypeOK
<1>2. k \in 1..Len(refunds[o]) /\ refunds[o][k] \in StripeRefund
  BY <1>1, LenProperties, ElementOfSeq
<1>3. r \in StripeRefund
  BY <1>2 DEF StripeRefund
<1>4. refunds' = [refunds EXCEPT ![o] = [refunds[o] EXCEPT ![k] = r]]
  BY <1>1, <1>2 DEF SettleRefund, StripeTypeOK
<1>5. /\ [refunds[o] EXCEPT ![k] = r] \in Seq(StripeRefund)
      /\ Len([refunds[o] EXCEPT ![k] = r]) = Len(refunds[o])
  <2> HIDE DEF r
  <2> QED BY <1>1, <1>2, <1>3, ExceptSeq
<1>6. /\ refunds' \in [Orders -> Seq(StripeRefund)]
      /\ \A q \in Orders : Len(refunds'[q]) <= MaxRefunds
  <2> DEFINE rs == [refunds[o] EXCEPT ![k] = r]
  <2>1. /\ refunds' = [refunds EXCEPT ![o] = rs]
        /\ rs \in Seq(StripeRefund) /\ Len(rs) <= MaxRefunds
    BY <1>1, <1>4, <1>5
  <2> HIDE DEF rs
  <2> QED BY <2>1 DEF StripeTypeOK
<1>7. /\ charge' \in [Orders -> [Payments -> ChargeStates]]
      /\ events' \in [Orders -> SUBSET (Payments \X EventTypes)]
  BY RefundEventsType DEF SettleRefund, StripeTypeOK
<1> QED BY <1>6, <1>7 DEF StripeTypeOK

-----------------------------------------------------------------------------
(* Every handler keeps the types                                           *)

\* POST /orders/create.
LEMMA CreateOrderData ==
  ASSUME NEW o \in Orders, NEW v, DataTypeOK, CreateOrder(o, v)
  PROVE  DataTypeOK'
<1> USE DEF DataTypeOK
<1>1. RowsTypeOK' /\ LogTypeOK' /\ StripeTypeOK'
  BY DEF CreateOrder, PlaceInStore, RowsTypeOK, LogTypeOK, StripeTypeOK, stripeVars
<1>2. CASE InStore(o)
  <2>1. "awaiting_collection" \in PaymentStatuses
    BY DEF PaymentStatuses
  <2>2. payments' = [payments EXCEPT ![o] = <<"awaiting_collection">>]
    BY <1>2 DEF CreateOrder, PlaceInStore
  <2>3. PaymentsTypeOK'
    BY <2>1, <2>2, SinglePayment
  <2>4. AutoStart(o, "created", <<"awaiting_collection">>, NewOrderTold)
    BY <1>2 DEF CreateOrder, PlaceInStore
  <2>5. NoticesTypeOK'
    BY <2>4, ToldKinds, AutoStartType
  <2> QED BY <1>1, <2>3, <2>5
<1>3. CASE ~InStore(o)
  BY <1>1, <1>3 DEF CreateOrder, PlaceInStore, PaymentsTypeOK, NoticesTypeOK
<1> QED BY <1>2, <1>3

\* POST /payments/create.
LEMMA CreatePaymentData ==
  ASSUME NEW o \in Orders, DataTypeOK, CreatePayment(o)
  PROVE  DataTypeOK'
<1> USE DEF DataTypeOK
<1>1. RowsTypeOK' /\ LogTypeOK' /\ NoticesTypeOK'
  BY DEF CreatePayment, Payable, RowsTypeOK, LogTypeOK, NoticesTypeOK
<1> DEFINE pays == Append(payments[o], "pending")
<1>2. /\ payments[o] \in Seq(PaymentStatuses)
      /\ "pending" \in PaymentStatuses
      /\ Len(payments[o]) \in Nat /\ Len(payments[o]) < MaxPayments
  BY LenProperties DEF CreatePayment, Payable, PaymentsTypeOK, PaymentStatuses
<1>3. pays \in Seq(PaymentStatuses) /\ Len(pays) <= MaxPayments
  BY <1>2, AppendProperties, Bounds
<1>4. payments' = [payments EXCEPT ![o] = pays]
  BY DEF CreatePayment, Payable, PaymentsTypeOK
<1>5. PaymentsTypeOK'
  <2> HIDE DEF pays
  <2> QED BY <1>3, <1>4, SetPayments
<1>6. Len(payments[o]) + 1 \in Payments
  BY <1>2, Bounds DEF Payments
<1>7. StripeTypeOK'
  BY <1>6, ChargeType DEF CreatePayment, Payable
<1> QED BY <1>1, <1>5, <1>7

\* POST /orders/cancel.
LEMMA CancelByCustomerData ==
  ASSUME NEW o \in Orders, DataTypeOK, CancelByCustomer(o)
  PROVE  DataTypeOK'
<1> USE DEF DataTypeOK
<1>1. RowsTypeOK' /\ LogTypeOK' /\ StripeTypeOK'
  BY DEF CancelByCustomer, RowsTypeOK, LogTypeOK, StripeTypeOK, stripeVars
<1>2. PaymentsTypeOK'
  BY MaybeCancelled DEF CancelByCustomer
<1>3. CustomerCancelTold \cup ReversalTold(o) \in SUBSET Notices
  BY ToldKinds
<1>4. NoticesTypeOK'
  BY <1>3, TellType DEF CancelByCustomer
<1> QED BY <1>1, <1>2, <1>4

\* The webhook.
LEMMA WebhookData ==
  ASSUME NEW o \in Orders, NEW i \in Payments, NEW ev \in EventTypes,
         DataTypeOK, Webhook(o, i, ev)
  PROVE  DataTypeOK'
<1> USE DEF DataTypeOK
<1>1. RowsTypeOK' /\ LogTypeOK' /\ StripeTypeOK'
  BY DEF Webhook, RowsTypeOK, LogTypeOK, StripeTypeOK, stripeVars
<1>2. ev \in PaymentStatuses
  BY DEF EventTypes, PaymentStatuses
<1>3. PaymentsTypeOK'
  BY <1>2, SetPayment DEF Webhook
<1>4. NoticesTypeOK'
  <2>1. CASE ev = "paid"
    BY <2>1, ToldKinds, AutoStartType DEF Webhook
  <2>2. CASE ev = "refunded"
    BY <2>2, ToldKinds, TellType DEF Webhook
  <2>3. CASE ev = "failed"
    BY <2>3 DEF Webhook, NoticesTypeOK
  <2> QED BY <2>1, <2>2, <2>3 DEF Webhook
<1> QED BY <1>1, <1>3, <1>4

\* POST /orders/status/update.
LEMMA UpdateStatusData ==
  ASSUME NEW o \in Orders, NEW st, DataTypeOK, UpdateStatus(o, st)
  PROVE  DataTypeOK'
<1> USE DEF DataTypeOK
<1>1. RowsTypeOK' /\ LogTypeOK' /\ StripeTypeOK'
  BY DEF UpdateStatus, MayBecome, RowsTypeOK, LogTypeOK, StripeTypeOK, stripeVars
<1> DEFINE kinds == IF st = status[o] THEN {} ELSE {st}
<1>2. kinds \in SUBSET Notices
  BY DEF UpdateStatus, MayBecome, nextStatusesFor, Notices
<1>3. kinds \cup ReversalTold(o) \in SUBSET Notices
  BY <1>2, ToldKinds
<1>4. \/ /\ \E p \in PointValues : Earn(o, p, kinds)
         /\ UNCHANGED <<payments, printJobs>>
      \/ /\ payments' = [payments EXCEPT ![o] =
               IF isAwaitingInStoreCollection(o) THEN <<"cancelled">> ELSE @]
         /\ Tell(o, kinds \cup ReversalTold(o))
         /\ UNCHANGED printJobs
      \/ Tell(o, kinds) /\ UNCHANGED <<payments, printJobs>>
  BY DEF UpdateStatus, MayBecome
<1> HIDE DEF kinds
<1>5. PaymentsTypeOK'
  BY <1>4, MaybeCancelled DEF PaymentsTypeOK
<1>6. NoticesTypeOK'
  BY <1>2, <1>3, <1>4, TellType, EarnType
<1> QED BY <1>1, <1>5, <1>6

\* POST /orders/in-store-payment/collect.
LEMMA CollectData ==
  ASSUME NEW o \in Orders, DataTypeOK, CollectInStorePayment(o)
  PROVE  DataTypeOK'
<1> USE DEF DataTypeOK
<1>1. RowsTypeOK' /\ LogTypeOK' /\ StripeTypeOK'
  BY DEF CollectInStorePayment, Collectible, RowsTypeOK, LogTypeOK, StripeTypeOK,
     stripeVars
<1>2. "paid" \in PaymentStatuses
  BY DEF PaymentStatuses
<1>3. PaymentsTypeOK'
  BY <1>2, SinglePayment DEF CollectInStorePayment, Collectible
<1>4. NoticesTypeOK'
  BY ToldKinds, TellType, EarnType DEF CollectInStorePayment, Collectible
<1> QED BY <1>1, <1>3, <1>4

\* A sync reads the refunds Stripe holds, all of them typed.
LEMMA SyncedRowsType ==
  ASSUME NEW o \in Orders, NEW i \in Payments, RowsTypeOK, StripeTypeOK
  PROVE  SyncedRows(o, i) \in SUBSET RefundRow
<1> DEFINE ids == RefundIds(refunds[o], i, RefundStates)
<1>1. refundRows[o] \subseteq RefundRow
  BY DEF RowsTypeOK
<1>2. ASSUME NEW k \in ids
      PROVE  [pay |-> i, amount |-> refunds[o][k].amount,
              status |-> refunds[o][k].status, ref |-> k] \in RefundRow
  <2>1. refunds[o] \in Seq(StripeRefund) /\ Len(refunds[o]) <= MaxRefunds
    BY DEF StripeTypeOK
  <2>2. Len(refunds[o]) \in Nat /\ k \in 1..Len(refunds[o])
    BY <2>1, LenProperties DEF RefundIds
  <2>3. refunds[o][k] \in StripeRefund
    BY <2>1, <2>2, ElementOfSeq
  <2>4. k \in 0..MaxRefunds
    BY <2>1, <2>2, Bounds
  <2> QED BY <2>3, <2>4 DEF StripeRefund, RefundRow, RefundStates
<1>3. SyncedRows(o, i) =
        {r \in refundRows[o] : ~(r.pay = i /\ r.ref \in ids)}
          \cup {[pay |-> i, amount |-> refunds[o][k].amount,
                 status |-> refunds[o][k].status, ref |-> k] : k \in ids}
  BY DEF SyncedRows
<1> HIDE DEF ids
<1> QED BY <1>1, <1>2, <1>3

\* POST /orders/payments/sync.
LEMMA SyncPaymentData ==
  ASSUME NEW o \in Orders, NEW ps \in PaymentStatuses, DataTypeOK,
         SyncPayment(o, ps)
  PROVE  DataTypeOK'
<1> USE DEF DataTypeOK
<1>1. LogTypeOK' /\ StripeTypeOK'
  BY DEF SyncPayment, Syncable, LogTypeOK, StripeTypeOK, stripeVars
<1> DEFINE i == Len(payments[o])
           rows == SyncedRows(o, i)
<1>2. i \in Payments
  <2>1. payments[o] \in Seq(PaymentStatuses) /\ payments[o] # <<>> /\ i <= MaxPayments
    BY DEF SyncPayment, Syncable, PaymentsTypeOK
  <2>2. i \in Nat /\ i # 0
    BY <2>1, LenProperties, EmptySeq
  <2> QED BY <2>1, <2>2, Bounds DEF Payments
<1>3. RowsTypeOK'
  <2>1. rows \in SUBSET RefundRow
    BY <1>2, SyncedRowsType
  <2>2. refundRows' = [refundRows EXCEPT ![o] = rows]
    BY DEF SyncPayment, Syncable
  <2> HIDE DEF rows
  <2> QED BY <2>1, <2>2 DEF RowsTypeOK
<1>4. PaymentsTypeOK'
  <2>1. PICK st \in {"refunded", ps} : payments' = [payments EXCEPT ![o][i] = st]
    BY DEF SyncPayment, Syncable
  <2>2. st \in PaymentStatuses
    BY <2>1 DEF PaymentStatuses
  <2> HIDE DEF i
  <2> QED BY <2>1, <2>2, SetPayment
<1>5. NoticesTypeOK'
  <2>1. \/ \E st : AutoStart(o, st, payments'[o], NewOrderTold)
        \/ \E full \in BOOLEAN :
             \E kinds \in {RefundTold(full) \cup ReversalTold(o), RefundTold(full), {}} :
               Tell(o, kinds) /\ UNCHANGED printJobs
    BY DEF SyncPayment, Syncable
  <2>2. \A full \in BOOLEAN :
          \A kinds \in {RefundTold(full) \cup ReversalTold(o), RefundTold(full), {}} :
            kinds \in SUBSET Notices
    BY ToldKinds
  <2> QED BY <2>1, <2>2, ToldKinds, AutoStartType, TellType
<1> QED BY <1>1, <1>3, <1>4, <1>5

\* The tail the successful refunds share.
LEMMA ApplyRefundData ==
  ASSUME NEW o \in Orders, NEW i, NEW a, NEW st, PaymentsTypeOK, NoticesTypeOK,
         ApplyRefund(o, i, a, st), UNCHANGED printJobs
  PROVE  PaymentsTypeOK' /\ NoticesTypeOK'
<1>1. CASE st = "succeeded"
  <2>1. PICK next \in {"refunded", "paid"} :
          payments' = [payments EXCEPT ![o][i] = next]
    BY <1>1 DEF ApplyRefund
  <2>2. next \in PaymentStatuses
    BY DEF PaymentStatuses
  <2>3. PICK kinds \in {{"refunded"} \cup ReversalTold(o), {"partially_refunded"}} :
          Tell(o, kinds)
    BY <1>1 DEF ApplyRefund, RefundTold
  <2>4. kinds \in SUBSET Notices
    BY ToldKinds DEF Notices
  <2> QED BY <2>1, <2>2, <2>3, <2>4, SetPayment, TellType
<1>2. CASE st # "succeeded"
  BY <1>2 DEF ApplyRefund, PaymentsTypeOK, NoticesTypeOK
<1> QED BY <1>1, <1>2

\* POST /orders/refund.
LEMMA RefundData ==
  ASSUME NEW o \in Orders, DataTypeOK, RefundStep(o)
  PROVE  DataTypeOK'
<1> USE DEF DataTypeOK
<1>1. PICK i \in Payments :
        \/ RefundAlreadyDone(o, i)
        \/ \E a \in Amounts :
             \/ RefundInStore(o, i, a)
             \/ RefundRefused(o, i, a)
             \/ \E st \in RefundStates :
                  RefundOnline(o, i, a, st) \/ RefundReplyLost(o, i, a, st)
  BY DEF RefundStep
<1>2. CASE RefundAlreadyDone(o, i)
  <2>1. NoticesTypeOK'
    BY <1>2, ToldKinds, TellType DEF RefundAlreadyDone
  <2> QED
    BY <1>2, <2>1
    DEF RefundAlreadyDone, PaymentsTypeOK, RowsTypeOK, LogTypeOK, StripeTypeOK,
        stripeVars
<1>3. /\ "succeeded" \in RefundStates /\ "failed" \in RefundStates
      /\ 0 \in 0..MaxRefunds
  BY Bounds DEF RefundStates
<1>4. ASSUME NEW a \in Amounts, RefundInStore(o, i, a)
      PROVE  DataTypeOK'
  <2>1. RowsTypeOK'
    BY <1>3, <1>4, InsertRowType DEF RefundInStore
  <2>2. PaymentsTypeOK' /\ NoticesTypeOK'
    BY <1>4, ApplyRefundData DEF RefundInStore
  <2> QED
    BY <1>4, <2>1, <2>2 DEF RefundInStore, LogTypeOK, StripeTypeOK, stripeVars
<1>5. ASSUME NEW a \in Amounts, RefundRefused(o, i, a)
      PROVE  DataTypeOK'
  <2>1. RowsTypeOK'
    BY <1>3, <1>5, InsertRowType DEF RefundRefused
  <2> QED
    BY <1>5, <2>1
    DEF RefundRefused, PaymentsTypeOK, NoticesTypeOK, LogTypeOK, StripeTypeOK,
        stripeVars
<1>6. ASSUME NEW a \in Amounts, NEW st \in RefundStates, RefundOnline(o, i, a, st)
      PROVE  DataTypeOK'
  <2>1. StripeTypeOK' /\ Len(refunds[o]) + 1 \in 0..MaxRefunds
    BY <1>6, AcceptRefundType DEF RefundOnline
  <2>2. RowsTypeOK'
    BY <1>6, <2>1, InsertRowType DEF RefundOnline
  <2>3. PaymentsTypeOK' /\ NoticesTypeOK'
    BY <1>6, ApplyRefundData DEF RefundOnline
  <2> QED
    BY <1>6, <2>1, <2>2, <2>3 DEF RefundOnline, LogTypeOK
<1>7. ASSUME NEW a \in Amounts, NEW st \in RefundStates, RefundReplyLost(o, i, a, st)
      PROVE  DataTypeOK'
  <2>1. StripeTypeOK'
    BY <1>7, AcceptRefundType DEF RefundReplyLost
  <2>2. RowsTypeOK'
    BY <1>3, <1>7, InsertRowType DEF RefundReplyLost
  <2> QED
    BY <1>7, <2>1, <2>2 DEF RefundReplyLost, PaymentsTypeOK, NoticesTypeOK, LogTypeOK
<1> QED BY <1>1, <1>2, <1>4, <1>5, <1>6, <1>7

\* The provider only writes its own variables.
LEMMA ProviderData ==
  ASSUME NEW o \in Orders, DataTypeOK, ProviderStep(o)
  PROVE  DataTypeOK'
<1> USE DEF DataTypeOK
<1>1. UNCHANGED orderVars
  BY DEF ProviderStep, UnrecordedRefund
<1>2. PaymentsTypeOK' /\ RowsTypeOK' /\ NoticesTypeOK' /\ LogTypeOK'
  BY <1>1 DEF orderVars, PaymentsTypeOK, RowsTypeOK, NoticesTypeOK, LogTypeOK
<1>3. ASSUME NEW i \in Payments,
             CaptureCharge(o, i) \/ DeclineCharge(o, i) \/ ExpireCharge(o, i)
      PROVE  StripeTypeOK'
  BY <1>3, ChargeType
<1>4. ASSUME NEW i \in Payments, NEW a \in Amounts, NEW st \in RefundStates,
             UnrecordedRefund(o, i, a, st)
      PROVE  StripeTypeOK'
  BY <1>4, AcceptRefundType DEF UnrecordedRefund
<1>5. ASSUME NEW k \in DOMAIN refunds[o], NEW st \in {"succeeded", "failed"},
             SettleRefund(o, k, st, Total(o))
      PROVE  StripeTypeOK'
  <2>1. st \in RefundStates
    BY DEF RefundStates
  <2> QED BY <1>5, <2>1, SettleRefundType
<1>6. StripeTypeOK'
  BY <1>3, <1>4, <1>5 DEF ProviderStep
<1> QED BY <1>2, <1>6

-----------------------------------------------------------------------------
(* The theorem                                                             *)

\* DataTypeOK holds of the initial states.
LEMMA DataInit == OrdersInit => DataTypeOK
<1> SUFFICES ASSUME OrdersInit PROVE DataTypeOK
  OBVIOUS
<1>1. PaymentsTypeOK
  <2>1. <<>> \in Seq(PaymentStatuses) /\ Len(<<>>) = 0
    BY EmptySeq
  <2> QED BY <2>1, Bounds DEF OrdersInit, PaymentsTypeOK
<1>2. RowsTypeOK /\ NoticesTypeOK /\ LogTypeOK
  BY DEF OrdersInit, RowsTypeOK, NoticesTypeOK, LogTypeOK
<1>3. StripeTypeOK
  <2>1. <<>> \in Seq(StripeRefund) /\ Len(<<>>) = 0
    BY EmptySeq
  <2>2. "none" \in ChargeStates
    BY DEF ChargeStates
  <2> QED BY <2>1, <2>2, Bounds DEF OrdersInit, StripeInit, StripeTypeOK
<1> QED BY <1>1, <1>2, <1>3 DEF DataTypeOK

\* Every step keeps DataTypeOK.
LEMMA DataStep == DataTypeOK /\ [OrdersNext]_vars => DataTypeOK'
<1> SUFFICES ASSUME DataTypeOK, [OrdersNext]_vars PROVE DataTypeOK'
  OBVIOUS
<1>1. ASSUME NEW o \in Orders, OrderStep(o)
      PROVE  DataTypeOK'
  <2>1. CASE BuyerStep(o)
    BY <2>1, CreateOrderData, CreatePaymentData, CancelByCustomerData DEF BuyerStep
  <2>2. CASE MerchantStep(o)
    BY <2>2, UpdateStatusData, CollectData, SyncPaymentData, RefundData
    DEF MerchantStep
  <2>3. CASE WebhookStep(o)
    BY <2>3, WebhookData DEF WebhookStep
  <2>4. CASE ProviderStep(o)
    BY <2>4, ProviderData
  <2> QED BY <1>1, <2>1, <2>2, <2>3, <2>4 DEF OrderStep
<1>2. CASE UNCHANGED <<orderVars, stripeVars>>
  BY <1>2
  DEF orderVars, stripeVars, DataTypeOK, PaymentsTypeOK, RowsTypeOK,
      NoticesTypeOK, LogTypeOK, StripeTypeOK
<1> QED BY <1>1, <1>2 DEF OrdersNext, VoucherStep, vars

\* Every variable keeps its type, for any number of orders, payments,
\* refunds and vouchers and any totals.
THEOREM OrdersTypes == OrdersSpec => []OrdersTypeOK
<1>1. OrdersSpec => []DataTypeOK
  BY DataInit, DataStep, PTL DEF OrdersSpec
<1>2. OrdersInv /\ DataTypeOK => OrdersTypeOK
  <2> SUFFICES ASSUME OrdersInv, DataTypeOK PROVE OrdersTypeOK
    OBVIOUS
  <2>1. RewardsTypeOK
    BY DEF OrdersInv, LedgerInv, AccountInv, VoucherInv, AccountTypeOK,
           VoucherTypeOK, RewardsTypeOK
  <2>2. status \in [Orders -> ORDER_STATUSES \cup {"absent"}]
    BY DEF OrdersInv, StatusTypeOK, AllStatuses
  <2> QED
    BY <2>1, <2>2
    DEF OrdersTypeOK, DataTypeOK, PaymentsTypeOK, RowsTypeOK, NoticesTypeOK, LogTypeOK
<1> QED BY <1>1, <1>2, OrdersInvariant, PTL
=============================================================================
