------------------------------- MODULE Stripe -------------------------------
(***************************************************************************)
(* The payment provider as services/payments/stripe_provider.js uses it:   *)
(* the charge behind each online payment of an order, the refunds it has   *)
(* executed and the webhook events it has to deliver.                      *)
(*                                                                         *)
(* Nothing here is code of the repository.  A charge that was captured     *)
(* stays captured, a refund is accepted only up to the captured amount,    *)
(* and each change emits its event, which Stripe then delivers at least    *)
(* once, in any order.  A checkout session completes only when its charge  *)
(* is captured (no delayed payment methods).                               *)
(***************************************************************************)
EXTENDS Integers, Sequences, FiniteSetsExt, OrderIds

CONSTANTS
  MaxPayments,   \* bound: payments of one order
  MaxRefunds,    \* bound: refunds Stripe executes for one order
  MaxTotal       \* bound: order totals, in the smallest refundable amount

ASSUME StripeAssumption == {MaxPayments, MaxRefunds, MaxTotal} \subseteq Nat \ {0}

VARIABLES
  charge,   \* per order and payment: the state of its payment intent
  refunds,  \* per order: the refunds Stripe holds, in order of creation
  events    \* per order: the webhook events emitted so far

stripeVars == <<charge, refunds, events>>

Payments == 1..MaxPayments
ChargeStates == {"none", "open", "declined", "expired", "captured"}
EventTypes == {"paid", "failed", "refunded"}
RefundStates == {"pending", "succeeded", "failed"}
StripeRefund == [pay : Payments, amount : 1..MaxTotal, status : RefundStates]

StripeTypeOK ==
  /\ charge \in [Orders -> [Payments -> ChargeStates]]
  /\ refunds \in [Orders -> Seq(StripeRefund)]
  /\ \A o \in Orders : Len(refunds[o]) <= MaxRefunds
  /\ events \in [Orders -> SUBSET (Payments \X EventTypes)]

StripeInit ==
  /\ charge = [o \in Orders |-> [i \in Payments |-> "none"]]
  /\ refunds = [o \in Orders |-> <<>>]
  /\ events = [o \in Orders |-> {}]

Amount(S) == MapThenSumSet(LAMBDA r : r.amount, S)

\* What Stripe has paid back, and what it has promised to, for one payment.
RefundIds(rs, i, states) == {k \in DOMAIN rs : rs[k].pay = i /\ rs[k].status \in states}
AmountOf(rs, ids) == MapThenSumSet(LAMBDA k : rs[k].amount, ids)
PaidBack(rs, i) == AmountOf(rs, RefundIds(rs, i, {"succeeded"}))
Promised(rs, i) == AmountOf(rs, RefundIds(rs, i, {"pending", "succeeded"}))

\* The events that go with the refunds rs of an order: charge.refunded, of
\* which the webhook only heeds the one for a fully refunded charge.
RefundEvents(rs, total) ==
  {<<i, "refunded">> : i \in {j \in Payments : PaidBack(rs, j) = total}}

-----------------------------------------------------------------------------
\* POST /checkout/sessions or /payment_intents.
OpenCharge(o, i) ==
  /\ charge' = [charge EXCEPT ![o][i] = "open"]
  /\ UNCHANGED <<refunds, events>>

\* The buyer pays.
CaptureCharge(o, i) ==
  /\ charge[o][i] \in {"open", "declined"}
  /\ charge' = [charge EXCEPT ![o][i] = "captured"]
  /\ events' = [events EXCEPT ![o] = @ \cup {<<i, "paid">>}]
  /\ UNCHANGED refunds

\* The buyer's card is declined: the buyer may try again.
DeclineCharge(o, i) ==
  /\ charge[o][i] = "open"
  /\ charge' = [charge EXCEPT ![o][i] = "declined"]
  /\ events' = [events EXCEPT ![o] = @ \cup {<<i, "failed">>}]
  /\ UNCHANGED refunds

\* The checkout session expires unpaid.
ExpireCharge(o, i) ==
  /\ charge[o][i] \in {"open", "declined"}
  /\ charge' = [charge EXCEPT ![o][i] = "expired"]
  /\ events' = [events EXCEPT ![o] = @ \cup {<<i, "failed">>}]
  /\ UNCHANGED refunds

\* POST /refunds is accepted.
CanRefund(o, i, a, total) ==
  /\ charge[o][i] = "captured"
  /\ a <= total - Promised(refunds[o], i)
  /\ Len(refunds[o]) < MaxRefunds

AcceptRefund(o, i, a, st, total) ==
  /\ CanRefund(o, i, a, total)
  /\ refunds' = [refunds EXCEPT ![o] =
                   Append(@, [pay |-> i, amount |-> a, status |-> st])]
  /\ events' = [events EXCEPT ![o] = @ \cup RefundEvents(refunds'[o], total)]
  /\ UNCHANGED charge

\* A pending refund reaches the buyer's bank, or is returned.
SettleRefund(o, k, st, total) ==
  /\ k \in DOMAIN refunds[o]
  /\ refunds[o][k].status = "pending"
  /\ refunds' = [refunds EXCEPT ![o][k].status = st]
  /\ events' = [events EXCEPT ![o] = @ \cup RefundEvents(refunds'[o], total)]
  /\ UNCHANGED charge
=============================================================================
