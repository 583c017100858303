------------------------------- MODULE Orders -------------------------------
(***************************************************************************)
(* The life of a store's orders: the handlers of routes/orders.js,         *)
(* routes/payments.js and routes/merchant_orders.js over the rows of an    *)
(* order, its payments and its refunds, next to the payment provider       *)
(* (Stripe) and the loyalty ledger (Rewards).                              *)
(*                                                                         *)
(* A handler is one step.  Each runs in one transaction, starts by locking *)
(* the Order row (the webhook: the payment row, then the Order row) and    *)
(* commits last, so the handlers of one order are serialised.  The         *)
(* provider does not wait for those locks; what it does during a handler's *)
(* call is a step before or after the handler's, and what a handler loses  *)
(* by failing between the call and its COMMIT is RefundReplyLost and       *)
(* UnrecordedRefund.  A handler that answers with an error and rolls back  *)
(* is a stuttering step.                                                   *)
(***************************************************************************)
EXTENDS Rewards, Stripe

CONSTANTS
  Details,         \* what an order can be for
  AutoStartModes   \* what the automation settings may say

ASSUME OrdersAssumption ==
  /\ AutoStartModes \subseteq {"off", "start", "start_and_print"}
  /\ Details \subseteq [channel : {"online", "in_store"},
                        delivery : BOOLEAN,
                        timing : {"before_fulfillment", "at_pickup", "after_service"},
                        total : 0..MaxTotal]
  /\ \A d \in Details : d.delivery => d.channel = "online"

VARIABLES
  detail,      \* what each order is for; fixed when it is placed
  status,      \* Order.order_status ("absent": not placed)
  payments,    \* payment_status of the order's payments, oldest first
  refundRows,  \* the order's payment_refunds
  processed,   \* the order's payment_events
  notices,     \* kinds of notification recorded, deduplicated by their key
  printJobs    \* orders with an automatic receipt in the print queue

orderVars == <<detail, status, payments, refundRows, processed, notices, printJobs>>
vars == <<orderVars, stripeVars, rewardsVars>>

ORDER_STATUSES ==
  {"created", "paid", "accepted", "preparing", "ready", "on_the_way",
   "delivered", "completed", "cancelled", "partially_refunded", "refunded"}
\* 'requires_action' is written and read like 'pending' and stands for it, as
\* 'cancelled' refunds stand for failed ones.
PaymentStatuses ==
  {"pending", "paid", "failed", "cancelled", "refunded", "awaiting_collection"}
Notices ==
  {"new_order", "customer_cancelled", "collected", "points_earned",
   "points_reversed", "accepted", "preparing", "ready", "on_the_way",
   "delivered", "completed", "cancelled", "partially_refunded", "refunded"}
\* ref is the refund at Stripe that provider_refund_id names, 0 for NULL.
\* Rows that failed alike are one row here.
RefundRow == [pay : Payments, amount : 1..MaxTotal,
              status : {"pending", "succeeded", "failed"}, ref : 0..MaxRefunds]

OrdersTypeOK ==
  /\ RewardsTypeOK
  /\ StripeTypeOK
  /\ detail \in [Orders -> Details]
  /\ status \in [Orders -> ORDER_STATUSES \cup {"absent"}]
  /\ payments \in [Orders -> Seq(PaymentStatuses)]
  /\ \A o \in Orders : Len(payments[o]) <= MaxPayments
  /\ refundRows \in [Orders -> SUBSET RefundRow]
  /\ processed \in [Orders -> SUBSET (Payments \X EventTypes)]
  /\ notices \in [Orders -> SUBSET Notices]
  /\ printJobs \subseteq Orders

OrdersInit ==
  /\ RewardsInit
  /\ StripeInit
  /\ detail \in [Orders -> Details]
  /\ status = [o \in Orders |-> "absent"]
  /\ payments = [o \in Orders |-> <<>>]
  /\ refundRows = [o \in Orders |-> {}]
  /\ processed = [o \in Orders |-> {}]
  /\ notices = [o \in Orders |-> {}]
  /\ printJobs = {}

-----------------------------------------------------------------------------
(* What the handlers read                                                  *)

Total(o) == detail[o].total
InStore(o) == detail[o].channel = "in_store"

\* The payment selected by ORDER BY created_at DESC LIMIT 1.
LatestPaymentIs(o, st) == payments[o] # <<>> /\ payments[o][Len(payments[o])] = st
isAwaitingInStoreCollection(o) == InStore(o) /\ LatestPaymentIs(o, "awaiting_collection")

\* Seeded fault of PaidInStore: collected money is not looked at.
FaultIgnoresCollection(o) == FALSE

PaidInStore(o) == InStore(o) /\ LatestPaymentIs(o, "paid")

canCancelOrderStatus(st) == st \in {"created", "paid"}
canCreatePaymentForOrder(st) == st \in {"created", "paid"}
FulfilledStatuses == {"completed", "delivered"}
ClosedStatuses == {"cancelled", "refunded"}

isFullRefund(o, refunded) == refunded >= Total(o)

\* The status the UPDATE ... WHERE order_status IN ('created', 'paid') leaves.
\* Seeded faults of PaidStatus: no WHERE; the payment row read before its UPDATE.
FaultAlwaysPaid(o) == "paid"
FaultReadsStalePayment(o) ==
  IF status[o] = "created" /\ LatestPaymentIs(o, "paid") THEN "paid" ELSE status[o]

PaidStatus(o) == IF status[o] = "created" THEN "paid" ELSE status[o]

\* summarizePaymentRefunds.
\* Seeded fault of SucceededAmount: the refunds of the whole order count.
FaultSumsOrder(rows, i) == Amount({r \in rows : r.status = "succeeded"})

SucceededAmount(rows, i) ==
  Amount({r \in rows : r.pay = i /\ r.status = "succeeded"})

\* nextStatusesFor, less the targets the endpoint refuses.
nextStatusesFor(o) ==
  CASE status[o] = "created" ->
         IF isAwaitingInStoreCollection(o) \/ PaidInStore(o)
         THEN {"accepted", "preparing", "cancelled"} ELSE {"cancelled"}
    [] status[o] = "paid" -> {"accepted", "preparing", "cancelled"}
    [] status[o] = "accepted" -> {"preparing", "cancelled"}
    [] status[o] = "preparing" -> {"ready", "cancelled"}
    [] status[o] = "ready" ->
         {IF detail[o].delivery THEN "on_the_way" ELSE "completed", "cancelled"}
    [] status[o] = "on_the_way" -> {"delivered", "cancelled"}
    [] OTHER -> {}

eligibleStatusesForCollection(timing) ==
  CASE timing = "before_fulfillment" ->
         {"created", "accepted", "preparing", "ready", "completed"}
    [] timing = "at_pickup" -> {"ready", "completed"}
    [] OTHER -> {"completed"}

-----------------------------------------------------------------------------
(* What the handlers share                                                 *)

Tell(o, kinds) == notices' = [notices EXCEPT ![o] = @ \cup kinds]

\* Seeded fault of RefundTold: every refund is announced as a partial one.
FaultTellsPartly(full) == {"partially_refunded"}

\* What the functions that record a notice leave for Tell: the merchant's
\* recordNewPaidOrderNotification and recordNewInStoreOrderNotification, and
\* recordCustomerCancelledOrderNotification; the buyer's
\* recordBuyerRefundNotification, recordBuyerInStorePaymentCollectedNotification,
\* and recordBuyerPointsEarnedNotification, which has nothing to say of no points.
NewOrderTold == {"new_order"}
CustomerCancelTold == {"customer_cancelled"}
RefundTold(full) == IF full THEN {"refunded"} ELSE {"partially_refunded"}
CollectedTold == {"collected"}
EarnedTold(o, p) == IF Awardable(o, p) THEN {"points_earned"} ELSE {}

isAutoStartEligible(o, st, pays) ==
  LET latest == pays[Len(pays)] IN
  IF InStore(o)
  THEN st = "created" /\ latest \in {"awaiting_collection", "paid"}
  ELSE st = "paid" /\ latest = "paid"

\* autoStartOrder, called by a handler that leaves the order in st with the
\* payments pays and records the notices told.  The settings are read inside
\* the transaction and may have changed since the last call.
AutoStart(o, st, pays, told) ==
  \E mode \in AutoStartModes :
  LET starts == mode # "off" /\ isAutoStartEligible(o, st, pays) IN
  /\ status' = [status EXCEPT ![o] = IF starts THEN "preparing" ELSE st]
  /\ Tell(o, told \cup (IF starts THEN {"preparing"} ELSE {}))
  /\ printJobs' = IF starts /\ mode = "start_and_print"
                  THEN printJobs \cup {o} ELSE printJobs

\* Seeded faults of TakeBenefitsBack: the voucher is forgotten; the status is
\* read before it is updated.
FaultKeepsVoucher(o) == ReversePoints(o) /\ UNCHANGED voucherVars
FaultReversesClosedOnly(o) ==
  \/ status[o] \in ClosedStatuses /\ ReversePoints(o) /\ RestoreVoucher(o)
  \/ status[o] \notin ClosedStatuses /\ UNCHANGED rewardsVars

\* reversePointsForOrder and restoreOrderRewardRedemptions.
TakeBenefitsBack(o) == ReversePoints(o) /\ RestoreVoucher(o)

\* Seeded fault of ReversalTold: told whether or not points were reversed.
FaultTellsAlways(o) == {"points_reversed"}

ReversalTold(o) == IF Reversible(o) THEN {"points_reversed"} ELSE {}

\* awardPointsForCompletedOrder, by a handler that records the notices told:
\* an order of no amount earns nothing.
Earn(o, p, told) ==
  /\ Total(o) = 0 => p = 0
  /\ AwardPoints(o, p)
  /\ Tell(o, told \cup EarnedTold(o, p))

-----------------------------------------------------------------------------
(* The buyer                                                               *)

\* An order to be paid in the store: its payment row is written with it, and
\* it may start at once.
PlaceInStore(o) ==
  /\ payments' = [payments EXCEPT ![o] = <<"awaiting_collection">>]
  /\ AutoStart(o, "created", <<"awaiting_collection">>, NewOrderTold)

\* POST /orders/create.  Only a voucher brings the total down to nothing.
CreateOrder(o, v) ==
  /\ status[o] = "absent"
  /\ Total(o) = 0 => v # NoVoucher
  /\ IF v = NoVoucher THEN UNCHANGED voucherVars ELSE UseVoucher(v, o)
  /\ IF InStore(o)
     THEN PlaceInStore(o)
     ELSE /\ status' = [status EXCEPT ![o] = "created"]
          /\ UNCHANGED <<payments, notices, printJobs>>
  /\ UNCHANGED <<detail, refundRows, processed, stripeVars, accountVars>>

\* The order can be paid for online.
Payable(o) ==
  /\ ~InStore(o)
  /\ canCreatePaymentForOrder(status[o])
  /\ Total(o) > 0

\* POST /payments/create: a new online payment, however many there are.
CreatePayment(o) ==
  /\ Payable(o)
  /\ Len(payments[o]) < MaxPayments
  /\ payments' = [payments EXCEPT ![o] = Append(@, "pending")]
  /\ OpenCharge(o, Len(payments[o]) + 1)
  /\ UNCHANGED <<detail, status, refundRows, processed, notices, printJobs,
                 rewardsVars>>

\* POST /orders/cancel.
CancelByCustomer(o) ==
  /\ canCancelOrderStatus(status[o])
  /\ ~PaidInStore(o)
  /\ status' = [status EXCEPT ![o] = "cancelled"]
  /\ payments' = [payments EXCEPT ![o] =
                    IF isAwaitingInStoreCollection(o) THEN <<"cancelled">> ELSE @]
  /\ TakeBenefitsBack(o)
  /\ Tell(o, CustomerCancelTold \cup ReversalTold(o))
  /\ UNCHANGED <<detail, refundRows, processed, printJobs, stripeVars>>

-----------------------------------------------------------------------------
(* The provider's webhook                                                  *)

\* POST /payments/webhook/stripe.  Any event emitted so far can arrive, for
\* the first time or again, in any order; payment_events is never read.
Webhook(o, i, ev) ==
  /\ <<i, ev>> \in events[o]
  /\ payments' = [payments EXCEPT ![o][i] = ev]
  /\ processed' = [processed EXCEPT ![o] = @ \cup {<<i, ev>>}]
  /\ \/ /\ ev = "paid"
        /\ AutoStart(o, PaidStatus(o), payments'[o], NewOrderTold)
        /\ UNCHANGED rewardsVars
     \/ /\ ev = "refunded"
        /\ status' = [status EXCEPT ![o] =
                        IF @ \in ClosedStatuses THEN @ ELSE "refunded"]
        /\ TakeBenefitsBack(o)
        /\ Tell(o, ReversalTold(o))
        /\ UNCHANGED printJobs
     \/ /\ ev = "failed"
        /\ UNCHANGED <<status, notices, printJobs, rewardsVars>>
  /\ UNCHANGED <<detail, refundRows, stripeVars>>

-----------------------------------------------------------------------------
(* The merchant                                                            *)

\* What the endpoint lets the merchant ask for: a status further on, or the
\* same again; collected money is refunded instead of cancelled.
MayBecome(o, st) ==
  /\ st \in ORDER_STATUSES \ {"refunded", "partially_refunded"}
  /\ st = status[o] \/ st \in nextStatusesFor(o)
  /\ ~(st = "cancelled" /\ PaidInStore(o))

\* POST /orders/status/update.
UpdateStatus(o, st) ==
  /\ MayBecome(o, st)
  /\ status' = [status EXCEPT ![o] = st]
  /\ LET earns == st \in FulfilledStatuses /\ (InStore(o) => PaidInStore(o))
         told == IF st = status[o] THEN {} ELSE {st}
     IN
     \/ /\ earns
        /\ \E p \in PointValues : Earn(o, p, told)
        /\ UNCHANGED <<payments, voucherVars>>
     \/ /\ st = "cancelled"
        /\ payments' = [payments EXCEPT ![o] =
             IF isAwaitingInStoreCollection(o) THEN <<"cancelled">> ELSE @]
        /\ TakeBenefitsBack(o)
        /\ Tell(o, told \cup ReversalTold(o))
     \/ /\ ~earns /\ st # "cancelled"
        /\ Tell(o, told)
        /\ UNCHANGED <<payments, rewardsVars>>
  /\ UNCHANGED <<detail, refundRows, processed, printJobs, stripeVars>>

Collectible(o) ==
  /\ isAwaitingInStoreCollection(o)
  /\ status[o] \in eligibleStatusesForCollection(detail[o].timing)

\* POST /orders/in-store-payment/collect.
CollectInStorePayment(o) ==
  /\ Collectible(o)
  /\ payments' = [payments EXCEPT ![o] = <<"paid">>]
  /\ \/ /\ status[o] \in FulfilledStatuses
        /\ \E p \in PointValues : Earn(o, p, CollectedTold)
     \/ /\ status[o] \notin FulfilledStatuses
        /\ Tell(o, CollectedTold)
        /\ UNCHANGED accountVars
  /\ UNCHANGED <<detail, status, refundRows, processed, printJobs, stripeVars,
                 voucherVars>>

\* Seeded fault of ProviderStatuses: whatever is not expired counts as paid.
FaultTrustsCheckout(c) == IF c = "expired" THEN {"failed"} ELSE {"paid"}

\* What mapPaymentIntentStatus and mapCheckoutSessionStatus can make of a
\* charge: a fresh payment intent reads as 'failed', a checkout as 'pending'.
ProviderStatuses(c) ==
  CASE c = "captured" -> {"paid"}
    [] c = "expired" -> {"failed", "cancelled"}
    [] OTHER -> {"pending", "failed"}

\* Seeded fault of SyncedRows: a refund listed by Stripe counts as succeeded.
FaultSyncsAsSucceeded(o, i) ==
  refundRows[o] \cup
    {[pay |-> i, amount |-> refunds[o][k].amount, status |-> "succeeded", ref |-> k] :
       k \in RefundIds(refunds[o], i, RefundStates)}

\* upsertProviderRefunds for payment i: one row for each refund at Stripe,
\* found by its id.
SyncedRows(o, i) ==
  LET ids == RefundIds(refunds[o], i, RefundStates) IN
  {r \in refundRows[o] : ~(r.pay = i /\ r.ref \in ids)}
    \cup {[pay |-> i, amount |-> refunds[o][k].amount,
           status |-> refunds[o][k].status, ref |-> k] : k \in ids}

\* applySyncedPaymentState: the order follows the refunds, else the payment.
SyncedStatus(o, refunded, ps) ==
  IF refunded > 0
  THEN IF isFullRefund(o, refunded) THEN "refunded" ELSE "partially_refunded"
  ELSE IF ps = "paid" THEN PaidStatus(o) ELSE status[o]

\* The provider has a charge for the order's latest payment.
Syncable(o) == payments[o] # <<>> /\ ~InStore(o)

\* POST /orders/payments/sync, for the latest payment i, whose charge reads ps.
SyncPayment(o, ps) ==
  LET i == Len(payments[o])
      rows == SyncedRows(o, i)
      refunded == SucceededAmount(rows, i)
      full == isFullRefund(o, refunded)
      next == SyncedStatus(o, refunded, ps)
  IN
  /\ Syncable(o)
  /\ ps \in ProviderStatuses(charge[o][i])
  /\ refundRows' = [refundRows EXCEPT ![o] = rows]
  /\ payments' = [payments EXCEPT ![o][i] = IF full THEN "refunded" ELSE ps]
  /\ \/ /\ refunded = 0 /\ ps = "paid" /\ next = "paid"
        /\ AutoStart(o, next, payments'[o], NewOrderTold)
        /\ UNCHANGED rewardsVars
     \/ /\ ~(refunded = 0 /\ ps = "paid" /\ next = "paid")
        /\ status' = [status EXCEPT ![o] = next]
        /\ UNCHANGED printJobs
        /\ IF next = "refunded" /\ status[o] # "refunded"
           THEN TakeBenefitsBack(o) /\ Tell(o, RefundTold(TRUE) \cup ReversalTold(o))
           ELSE /\ Tell(o, IF refunded > 0 THEN RefundTold(next = "refunded") ELSE {})
                /\ UNCHANGED rewardsVars
  /\ UNCHANGED <<detail, processed, stripeVars>>

-----------------------------------------------------------------------------
(* POST /orders/refund                                                     *)

PaymentsIn(o, st) == {i \in DOMAIN payments[o] : payments[o][i] = st}

\* The newest paid payment, else the newest refunded one.
RefundTarget(o, i) ==
  LET paid == PaymentsIn(o, "paid") IN
  /\ i \in (IF paid # {} THEN paid ELSE PaymentsIn(o, "refunded"))
  /\ \A j \in DOMAIN payments[o] : j > i => payments[o][j] # payments[o][i]
  /\ InStore(o) => status[o] \in FulfilledStatuses

Refunded(o, i) == SucceededAmount(refundRows[o], i)
AlreadyRefunded(o, i) == payments[o][i] = "refunded" \/ isFullRefund(o, Refunded(o, i))

\* There is nothing left to refund: only the order follows.
RefundAlreadyDone(o, i) ==
  /\ RefundTarget(o, i)
  /\ AlreadyRefunded(o, i)
  /\ status' = [status EXCEPT ![o] = "refunded"]
  /\ TakeBenefitsBack(o)
  /\ Tell(o, RefundTold(TRUE) \cup ReversalTold(o))
  /\ UNCHANGED <<detail, payments, refundRows, processed, printJobs, stripeVars>>

\* A refund of a is due for payment i.
Refundable(o, i, a) ==
  /\ RefundTarget(o, i)
  /\ ~AlreadyRefunded(o, i)
  /\ a <= Total(o) - Refunded(o, i)

InsertRow(o, i, a, st, ref) ==
  refundRows' = [refundRows EXCEPT ![o] =
    @ \cup {[pay |-> i, amount |-> a, status |-> st, ref |-> ref]}]

\* The tail of the handler, after the refund of a: only a refund that has
\* succeeded reaches the payment and the order (else the answer is 202).
ApplyRefund(o, i, a, st) ==
  LET full == isFullRefund(o, Refunded(o, i) + a) IN
  \/ /\ st = "succeeded"
     /\ payments' = [payments EXCEPT ![o][i] = IF full THEN "refunded" ELSE "paid"]
     /\ status' = [status EXCEPT ![o] =
                     IF full THEN "refunded" ELSE "partially_refunded"]
     /\ IF full
        THEN TakeBenefitsBack(o) /\ Tell(o, RefundTold(full) \cup ReversalTold(o))
        ELSE Tell(o, RefundTold(full)) /\ UNCHANGED rewardsVars
  \/ /\ st # "succeeded"
     /\ UNCHANGED <<payments, status, notices, rewardsVars>>

\* Cash or card handed back over the counter.
RefundInStore(o, i, a) ==
  /\ InStore(o)
  /\ Refundable(o, i, a)
  /\ InsertRow(o, i, a, "succeeded", 0)
  /\ ApplyRefund(o, i, a, "succeeded")
  /\ UNCHANGED <<detail, processed, printJobs, stripeVars>>

\* Stripe executes the refund and answers.
RefundOnline(o, i, a, st) ==
  /\ ~InStore(o)
  /\ Refundable(o, i, a)
  /\ AcceptRefund(o, i, a, st, Total(o))
  /\ InsertRow(o, i, a, st, Len(refunds[o]) + 1)
  /\ ApplyRefund(o, i, a, st)
  /\ UNCHANGED <<detail, processed, printJobs>>

\* Stripe refuses, or cannot be reached: the row is kept as failed.
RefundRefused(o, i, a) ==
  /\ ~InStore(o)
  /\ Refundable(o, i, a)
  /\ InsertRow(o, i, a, "failed", 0)
  /\ UNCHANGED <<detail, status, payments, processed, notices, printJobs,
                 stripeVars, rewardsVars>>

\* Stripe executes the refund and its answer is lost: the row is failed too.
RefundReplyLost(o, i, a, st) ==
  /\ ~InStore(o)
  /\ Refundable(o, i, a)
  /\ AcceptRefund(o, i, a, st, Total(o))
  /\ InsertRow(o, i, a, "failed", 0)
  /\ UNCHANGED <<detail, status, payments, processed, notices, printJobs,
                 rewardsVars>>

\* The process dies between Stripe's answer and COMMIT, or someone refunds
\* in Stripe's dashboard: the database knows nothing.
UnrecordedRefund(o, i, a, st) ==
  /\ AcceptRefund(o, i, a, st, Total(o))
  /\ UNCHANGED <<orderVars, rewardsVars>>

-----------------------------------------------------------------------------
BuyerStep(o) ==
  \/ \E v \in Vouchers \cup {NoVoucher} : CreateOrder(o, v)
  \/ CreatePayment(o)
  \/ CancelByCustomer(o)

Amounts == 1..MaxTotal

RefundStep(o) ==
  \E i \in Payments :
    \/ RefundAlreadyDone(o, i)
    \/ \E a \in Amounts :
         \/ RefundInStore(o, i, a)
         \/ RefundRefused(o, i, a)
         \/ \E st \in RefundStates :
              \/ RefundOnline(o, i, a, st)
              \/ RefundReplyLost(o, i, a, st)

MerchantStep(o) ==
  \/ \E st \in ORDER_STATUSES : UpdateStatus(o, st)
  \/ CollectInStorePayment(o)
  \/ \E ps \in PaymentStatuses : SyncPayment(o, ps)
  \/ RefundStep(o)

WebhookStep(o) ==
  \E i \in Payments, ev \in EventTypes : Webhook(o, i, ev)

ProviderStep(o) ==
  \/ \E i \in Payments :
       \/ (CaptureCharge(o, i) \/ DeclineCharge(o, i) \/ ExpireCharge(o, i))
          /\ UNCHANGED <<orderVars, rewardsVars>>
       \/ \E a \in Amounts, st \in RefundStates : UnrecordedRefund(o, i, a, st)
  \/ \E k \in DOMAIN refunds[o], st \in {"succeeded", "failed"} :
       /\ SettleRefund(o, k, st, Total(o))
       /\ UNCHANGED <<orderVars, rewardsVars>>

VoucherStep(v) ==
  (RedeemReward(v) \/ ExpireVoucher(v)) /\ UNCHANGED <<orderVars, stripeVars>>

OrderStep(o) == BuyerStep(o) \/ MerchantStep(o) \/ WebhookStep(o) \/ ProviderStep(o)

OrdersNext ==
  \/ \E o \in Orders : OrderStep(o)
  \/ \E v \in Vouchers : VoucherStep(v)

OrdersSpec == OrdersInit /\ [][OrdersNext]_vars

\* Stripe repeats an event until the webhook has answered it, which it does
\* after the event is in payment_events.
FirstDelivery(o, i, ev) ==
  /\ <<i, ev>> \notin processed[o]
  /\ Webhook(o, i, ev)

Delivery ==
  \A o \in Orders, i \in Payments, ev \in EventTypes :
    WF_vars(FirstDelivery(o, i, ev))

FairOrdersSpec == OrdersSpec /\ Delivery

-----------------------------------------------------------------------------
(* Properties                                                              *)

OnlineOrders == {o \in Orders : status[o] # "absent" /\ ~InStore(o)}
InStoreOrders == {o \in Orders : status[o] # "absent" /\ InStore(o)}

\* A cancelled or refunded order keeps neither its points nor the voucher it
\* was paid with, whichever handler closed it and in whatever order the
\* award, the webhook and the merchant came: six call sites each have to
\* reverse and restore, and none may award or use afterwards.
ClosedOrdersHoldNoBenefits ==
  \A o \in Orders :
    status[o] \in ClosedStatuses =>
      earnStatus[o] # "available" /\ useStatus[o] # "applied"

\* The order and its in-store payment, two tables written by different
\* handlers, tell one story: a cancelled order has a cancelled payment, a
\* refunded one a refunded payment, money that was not collected earns no
\* points and is not refunded.
InStoreBooksAgree ==
  \A o \in InStoreOrders :
    /\ Len(payments[o]) = 1
    /\ status[o] = "cancelled" <=> LatestPaymentIs(o, "cancelled")
    /\ LatestPaymentIs(o, "refunded") => status[o] = "refunded"
    /\ status[o] = "refunded" /\ Total(o) > 0 => LatestPaymentIs(o, "refunded")
    /\ status[o] = "partially_refunded" => LatestPaymentIs(o, "paid")
    /\ isAwaitingInStoreCollection(o) => earnStatus[o] = "none" /\ refundRows[o] = {}

\* No online order reaches the kitchen, or is served, unless Stripe holds a
\* captured charge for it, and the merchant was told of every order that did:
\* the Stripe state, the order and the notices are written at different
\* times by the webhook, the sync and the automatic start.
ServedOrdersWereChargedAndAnnounced ==
  \A o \in Orders :
    status[o] \notin {"absent", "created", "cancelled"} =>
      /\ ~InStore(o) => \E i \in Payments : charge[o][i] = "captured"
      /\ status[o] \notin {"refunded", "partially_refunded"} => "new_order" \in notices[o]

\* The refunds the database counts as succeeded were paid back by Stripe:
\* never more than Stripe paid back, never more than the payment, whichever
\* of the refund, the sync, lost answers and dashboard refunds came first.
RefundRowsAreReal ==
  \A o \in OnlineOrders, i \in Payments :
    /\ Refunded(o, i) <= PaidBack(refunds[o], i)
    /\ PaidBack(refunds[o], i) <= Total(o)

\* An online order or payment marked refunded has a payment that Stripe has
\* paid back in full: a failed, pending or partial refund never closes it.
RefundedOrdersGotMoneyBack ==
  \A o \in OnlineOrders :
    /\ status[o] = "refunded" => \E i \in Payments : PaidBack(refunds[o], i) = Total(o)
    /\ \A i \in DOMAIN payments[o] :
         payments[o][i] = "refunded" => PaidBack(refunds[o], i) = Total(o)

\* The webhook has processed the charge.refunded of one of the order's payments.
LearntFromStripe(o) == \E i \in Payments : <<i, "refunded">> \in processed[o]

\* The buyer is told once the order moves: no handler reaches one of these
\* statuses without its notice, also when the automatic start skips 'accepted';
\* the points notices follow the ledger; a printed order was started.  For
\* 'refunded' there is one exception, and no other: the charge.refunded
\* webhook closes the order and tells of reversed points at most.
BuyerIsTold ==
  \A o \in Orders :
    /\ status[o] \in {"accepted", "preparing", "ready", "on_the_way", "delivered",
                      "completed", "partially_refunded"} => status[o] \in notices[o]
    /\ status[o] = "refunded" => "refunded" \in notices[o] \/ LearntFromStripe(o)
    /\ status[o] = "cancelled" =>
         {"cancelled", "customer_cancelled"} \cap notices[o] # {}
    /\ "points_earned" \in notices[o] <=> earnStatus[o] # "none"
    /\ "points_reversed" \in notices[o] <=> earnStatus[o] = "reversed"
    /\ o \in printJobs => "preparing" \in notices[o]

Rank(st) ==
  CASE st = "absent" -> 0
    [] st = "created" -> 1
    [] st = "paid" -> 2
    [] st = "accepted" -> 3
    [] st = "preparing" -> 4
    [] st = "ready" -> 5
    [] st = "on_the_way" -> 6
    [] st \in {"delivered", "completed"} -> 7
    [] OTHER -> 8

\* An order only moves forward: a late or repeated webhook, a sync or a
\* second payment never takes it back from the kitchen, and an order that
\* was closed or partially refunded is never prepared or served again.
OrdersOnlyMoveForward ==
  [][\A o \in Orders : Rank(status'[o]) >= Rank(status[o])]_vars

\* What db/order_statuses.sql says of order_status: "terminal states are
\* cancelled/refunded".  A refund or a sync of a closed order still moves it.
TerminalStatesAreFinal ==
  [][\A o \in Orders : status[o] \in ClosedStatuses => status'[o] = status[o]]_vars

\* What nextStatusesFor offers a partially refunded order, and the refund's
\* own message ("can be refunded after the order is completed") promises: an
\* order whose in-store payment was partially refunded can be refunded for
\* the rest.  The refund asks for 'completed' or 'delivered', which the first
\* partial refund has overwritten.
PartialRefundCanBeFinished ==
  \A o \in InStoreOrders :
    status[o] = "partially_refunded" =>
      \E a \in Amounts : Refundable(o, Len(payments[o]), a)

\* Money the buyer paid is noticed: once Stripe has captured a charge the
\* order does not stay 'created', even if handlers crash or events are late.
CapturedPaymentIsNoticed ==
  \A o \in Orders, i \in Payments :
    (charge[o][i] = "captured") ~> (status[o] # "created")

\* Once Stripe has paid a payment back in full, the points of the order and
\* its voucher are taken back, even if the merchant's refund was never
\* recorded: the charge.refunded webhook repairs it.
FullRefundTakesBenefitsBack ==
  \A o \in Orders :
    (\E i \in Payments : <<i, "refunded">> \in events[o])
      ~> [](earnStatus[o] # "available" /\ useStatus[o] # "applied")
=============================================================================
