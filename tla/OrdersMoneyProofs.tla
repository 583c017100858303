------------------------- MODULE OrdersMoneyProofs -------------------------
(***************************************************************************)
(* What the database says of an order's money is what happened to it: the  *)
(* payments, the refund rows and the status of an online order against     *)
(* what Stripe holds, the payment of an order in the store against its     *)
(* status, and the notices against both, for any number of orders,         *)
(* payments, refunds and vouchers, and any totals.                         *)
(*                                                                         *)
(* BaseInv relates the database to Stripe and is preserved by every step.  *)
(* On top of it stand three invariants that do not need each other:        *)
(* ToldInv (notices), BooksInv (in the store) and MoneyInv (online). Each  *)
(* has one lemma per handler.                                              *)
(***************************************************************************)
EXTENDS OrdersProofs, FiniteSums

(***************************************************************************)
(*                          What refunds add up to                         *)
(***************************************************************************)

\* Amount, which adds up refund rows with the fold of the community
\* modules, is this Sum.
LEMMA AmountIsSum ==
  ASSUME NEW S, IsFiniteSet(S), NEW w, \A r \in S : w[r] = r.amount
  PROVE  Amount(S) = Sum(w, S)
<1> DEFINE Step(f) == [s \in SUBSET S |->
                         IF s = {} THEN 0 ELSE Pick(s).amount + f[s \ {Pick(s)}]]
           WStep(f) == [s \in SUBSET S |->
                          IF s = {} THEN 0 ELSE w[Pick(s)] + f[s \ {Pick(s)}]]
<1>1. Amount(S) = (CHOOSE f : f = Step(f))[S]
  BY DEF Amount, MapThenSumSet, MapThenFoldSet, Pick
<1>2. \A f : Step(f) = WStep(f)
  BY PickIn
<1>3. \A f : f = Step(f) <=> IsSum(f, w, S)
  BY <1>2 DEF IsSum
<1> HIDE DEF Step
<1>4. PICK g : IsSum(g, w, S)
  BY SumExists
<1>5. IsSum(CHOOSE f : f = Step(f), w, S)
  <2>1. g = Step(g)
    BY <1>3, <1>4
  <2> QED BY <1>3, <2>1
<1> QED BY <1>1, <1>5, SumIs

\* AmountOf, which adds up refunds at Stripe by their index, is this Sum.
LEMMA AmountOfIsSum ==
  ASSUME NEW S, IsFiniteSet(S), NEW rs, NEW w, \A r \in S : w[r] = rs[r].amount
  PROVE  AmountOf(rs, S) = Sum(w, S)
<1> DEFINE Step(f) == [s \in SUBSET S |->
                         IF s = {} THEN 0 ELSE rs[Pick(s)].amount + f[s \ {Pick(s)}]]
           WStep(f) == [s \in SUBSET S |->
                          IF s = {} THEN 0 ELSE w[Pick(s)] + f[s \ {Pick(s)}]]
<1>1. AmountOf(rs, S) = (CHOOSE f : f = Step(f))[S]
  BY DEF AmountOf, MapThenSumSet, MapThenFoldSet, Pick
<1>2. \A f : Step(f) = WStep(f)
  BY PickIn
<1>3. \A f : f = Step(f) <=> IsSum(f, w, S)
  BY <1>2 DEF IsSum
<1> HIDE DEF Step
<1>4. PICK g : IsSum(g, w, S)
  BY SumExists
<1>5. IsSum(CHOOSE f : f = Step(f), w, S)
  <2>1. g = Step(g)
    BY <1>3, <1>4
  <2> QED BY <1>3, <2>1
<1> QED BY <1>1, <1>5, SumIs

\* No rows, no amount.
LEMMA AmountOfNothing == Amount({}) = 0
<1> DEFINE w == [r \in {} |-> 0]
<1>1. IsFiniteSet({}) /\ \A r \in {} : w[r] = r.amount
  BY FS_EmptySet
<1> QED BY <1>1, AmountIsSum, SumEmpty

\* There are finitely many refund rows to have.
LEMMA RowsAreFinite == IsFiniteSet(RefundRow)
<1> DEFINE states == {"pending", "succeeded", "failed"}
           T == Payments \X ((1..MaxTotal) \X (states \X (0..MaxRefunds)))
           f == [r \in RefundRow |-> <<r.pay, <<r.amount, <<r.status, r.ref>>>>>>]
<1>1. IsFiniteSet(states)
  <2>1. IsFiniteSet({"pending"}) /\ IsFiniteSet({"succeeded"}) /\ IsFiniteSet({"failed"})
    BY FS_Singleton
  <2>2. states = ({"pending"} \cup {"succeeded"}) \cup {"failed"}
    OBVIOUS
  <2>3. IsFiniteSet({"pending"} \cup {"succeeded"})
    BY <2>1, FS_Union
  <2> QED BY <2>1, <2>2, <2>3, FS_Union
<1>2. IsFiniteSet(Payments) /\ IsFiniteSet(1..MaxTotal) /\ IsFiniteSet(0..MaxRefunds)
  BY Bounds, FS_Interval DEF Payments
<1>3. IsFiniteSet(T)
  <2>1. IsFiniteSet(states \X (0..MaxRefunds))
    BY <1>1, <1>2, FS_Product
  <2>2. IsFiniteSet((1..MaxTotal) \X (states \X (0..MaxRefunds)))
    BY <1>2, <2>1, FS_Product
  <2> QED BY <1>2, <2>2, FS_Product
<1>4. f \in Injection(RefundRow, T)
  <2>1. f \in [RefundRow -> T]
    BY DEF RefundRow
  <2>2. ASSUME NEW r \in RefundRow, NEW s \in RefundRow, f[r] = f[s]
        PROVE  r = s
    <3>1. r.pay = s.pay /\ r.amount = s.amount /\ r.status = s.status /\ r.ref = s.ref
      BY <2>2
    <3> QED BY <3>1 DEF RefundRow
  <2> QED BY <2>1, <2>2 DEF Injection, IsInjective
<1> QED BY <1>3, <1>4, FS_Injection

\* What rows add up to.
LEMMA AmountNat ==
  ASSUME NEW S \in SUBSET RefundRow
  PROVE  IsFiniteSet(S) /\ Amount(S) \in Nat
<1> DEFINE w == [r \in RefundRow |-> r.amount]
<1>1. IsFiniteSet(S)
  BY RowsAreFinite, FS_Subset
<1>2. \A r \in S : w[r] = r.amount /\ w[r] \in Nat
  BY Bounds DEF RefundRow
<1> HIDE DEF w
<1> QED BY <1>1, <1>2, AmountIsSum, SumNat

\* What has been refunded of a payment is a natural number.
LEMMA SucceededNat ==
  ASSUME NEW rows \in SUBSET RefundRow, NEW i
  PROVE  SucceededAmount(rows, i) \in Nat
BY AmountNat DEF SucceededAmount

-----------------------------------------------------------------------------
\* The sums over the refunds Stripe holds.
LEMMA RefundsDomain ==
  ASSUME NEW rs \in Seq(StripeRefund)
  PROVE  /\ Len(rs) \in Nat /\ DOMAIN rs = 1..Len(rs) /\ IsFiniteSet(DOMAIN rs)
         /\ \A k \in DOMAIN rs : rs[k] \in StripeRefund /\ rs[k].amount \in Nat
<1>1. Len(rs) \in Nat /\ DOMAIN rs = 1..Len(rs)
  BY LenProperties
<1>2. \A k \in DOMAIN rs : rs[k] \in StripeRefund
  BY <1>1, ElementOfSeq
<1>3. \A r \in StripeRefund : r.amount \in Nat
  BY Bounds DEF StripeRefund
<1> QED BY <1>1, <1>2, <1>3, FS_Interval

\* What Stripe's refunds add up to.
LEMMA RefundAmounts ==
  ASSUME NEW rs \in Seq(StripeRefund), NEW ids \in SUBSET DOMAIN rs
  PROVE  /\ IsFiniteSet(ids)
         /\ AmountOf(rs, ids) = Sum([k \in DOMAIN rs |-> rs[k].amount], ids)
         /\ AmountOf(rs, ids) \in Nat
         /\ ids = {} => AmountOf(rs, ids) = 0
<1> DEFINE w == [k \in DOMAIN rs |-> rs[k].amount]
<1>1. IsFiniteSet(ids) /\ \A k \in ids : w[k] = rs[k].amount /\ w[k] \in Nat
  BY RefundsDomain, FS_Subset
<1> HIDE DEF w
<1>2. AmountOf(rs, ids) = Sum(w, ids) /\ Sum(w, ids) \in Nat
  BY <1>1, AmountOfIsSum, SumNat
<1>3. ids = {} => Sum(w, ids) = 0
  BY SumEmpty
<1> QED BY <1>1, <1>2, <1>3 DEF w

\* More refunds of the same amounts add up to no less.
LEMMA AmountGrows ==
  ASSUME NEW rs \in Seq(StripeRefund), NEW ids \in SUBSET DOMAIN rs,
         NEW qs \in Seq(StripeRefund), NEW more \in SUBSET DOMAIN qs,
         \A k \in ids : k \in more /\ qs[k].amount = rs[k].amount
  PROVE  AmountOf(rs, ids) <= AmountOf(qs, more)
<1> DEFINE w == [k \in DOMAIN rs |-> rs[k].amount]
           v == [k \in DOMAIN qs |-> qs[k].amount]
           e == [k \in ids |-> k]
<1>1. /\ IsFiniteSet(ids) /\ IsFiniteSet(more)
      /\ AmountOf(rs, ids) = Sum(w, ids) /\ AmountOf(qs, more) = Sum(v, more)
  BY RefundAmounts
<1>2. \A k \in ids : w[k] \in Nat /\ e[k] \in more /\ w[k] <= v[e[k]]
  BY RefundsDomain
<1>3. \A k \in more : v[k] \in Nat
  BY RefundsDomain
<1>4. \A j, k \in ids : e[j] = e[k] => j = k
  OBVIOUS
<1> HIDE DEF w, v, e
<1>5. Sum(w, ids) <= Sum(v, more)
  BY <1>1, <1>2, <1>3, <1>4, SumEmbeds
<1> QED BY <1>1, <1>5

\* RefundIds are indices.
LEMMA IdsAreIndices ==
  \A rs, i, states : RefundIds(rs, i, states) \in SUBSET DOMAIN rs
BY DEF RefundIds

\* Paid back is promised.
LEMMA PaidBackIsPromised ==
  ASSUME NEW rs \in Seq(StripeRefund), NEW i
  PROVE  /\ PaidBack(rs, i) \in Nat /\ Promised(rs, i) \in Nat
         /\ PaidBack(rs, i) <= Promised(rs, i)
         /\ (\A k \in DOMAIN rs : rs[k].pay # i) => PaidBack(rs, i) = 0
<1> DEFINE done == RefundIds(rs, i, {"succeeded"})
           due == RefundIds(rs, i, {"pending", "succeeded"})
<1>1. done \in SUBSET DOMAIN rs /\ due \in SUBSET DOMAIN rs /\ done \subseteq due
  BY DEF RefundIds
<1>2. (\A k \in DOMAIN rs : rs[k].pay # i) => done = {}
  BY DEF RefundIds
<1>3. PaidBack(rs, i) = AmountOf(rs, done) /\ Promised(rs, i) = AmountOf(rs, due)
  BY DEF PaidBack, Promised
<1> HIDE DEF done, due
<1>4. AmountOf(rs, done) <= AmountOf(rs, due)
  BY <1>1, AmountGrows
<1> QED BY <1>1, <1>2, <1>3, <1>4, RefundAmounts

\* One more refund adds its amount, if it counts.
LEMMA AppendAmount ==
  ASSUME NEW rs \in Seq(StripeRefund), NEW r \in StripeRefund, NEW j, NEW states
  PROVE  /\ Append(rs, r) \in Seq(StripeRefund)
         /\ AmountOf(Append(rs, r), RefundIds(Append(rs, r), j, states))
              = AmountOf(rs, RefundIds(rs, j, states))
                + (IF r.pay = j /\ r.status \in states THEN r.amount ELSE 0)
<1> DEFINE qs == Append(rs, r)
           n == Len(rs) + 1
           old == RefundIds(rs, j, states)
           new == RefundIds(qs, j, states)
           w == [k \in DOMAIN rs |-> rs[k].amount]
           v == [k \in DOMAIN qs |-> qs[k].amount]
<1>1. /\ qs \in Seq(StripeRefund) /\ DOMAIN qs = DOMAIN rs \cup {n} /\ n \notin DOMAIN rs
      /\ qs[n] = r /\ \A k \in DOMAIN rs : qs[k] = rs[k]
  <2>1. Len(rs) \in Nat /\ DOMAIN rs = 1..Len(rs)
    BY RefundsDomain
  <2>2. qs \in Seq(StripeRefund) /\ Len(qs) = Len(rs) + 1 /\ qs[Len(rs) + 1] = r
        /\ \A k \in 1..Len(rs) : qs[k] = rs[k]
    BY AppendProperties
  <2>3. DOMAIN qs = 1..Len(qs)
    BY <2>2, RefundsDomain
  <2> QED BY <2>1, <2>2, <2>3
<1>2. new = old \cup (IF r.pay = j /\ r.status \in states THEN {n} ELSE {})
  BY <1>1 DEF RefundIds
<1>3. old \in SUBSET DOMAIN rs /\ new \in SUBSET DOMAIN qs /\ old \in SUBSET DOMAIN qs
  BY <1>1, IdsAreIndices
<1>4. n \notin old /\ r.amount \in Nat
  BY <1>1, <1>3, Bounds DEF StripeRefund
<1> HIDE DEF qs, old, new
<1>5. AmountOf(rs, old) = Sum(v, old) /\ AmountOf(qs, new) = Sum(v, new)
      /\ IsFiniteSet(old) /\ AmountOf(rs, old) \in Nat
  <2>1. \A k \in old : v[k] = rs[k].amount
    BY <1>1, <1>3
  <2>2. IsFiniteSet(old)
    BY <1>3, RefundAmounts
  <2> HIDE DEF v
  <2>3. AmountOf(rs, old) = Sum(v, old)
    BY <2>1, <2>2, AmountOfIsSum
  <2> QED BY <2>2, <2>3, <1>1, <1>3, RefundAmounts DEF v
<1>6. CASE r.pay = j /\ r.status \in states
  <2>1. new = old \cup {n} /\ v[n] = r.amount
    BY <1>1, <1>2, <1>6
  <2>2. \A k \in old \cup {n} : v[k] \in Int
    BY <1>1, <1>3, RefundsDomain
  <2> HIDE DEF v, n
  <2>3. Sum(v, old \cup {n}) = Sum(v, old) + v[n]
    BY <1>4, <1>5, <2>2, SumInsert
  <2> QED BY <1>1, <1>5, <1>6, <2>1, <2>3 DEF qs, old, new
<1>7. CASE ~(r.pay = j /\ r.status \in states)
  <2>1. new = old
    BY <1>2, <1>7
  <2> QED BY <1>1, <1>5, <1>7, <2>1 DEF qs, old, new
<1> QED BY <1>6, <1>7

(***************************************************************************)
(*                  Charges and what the provider has told                 *)
(***************************************************************************)

\* An order has a charge at Stripe for each of its online payments and for
\* nothing else, and it had been placed, with something to pay.
Charged(o) ==
  /\ \A i \in Payments :
       charge[o][i] # "none" <=> ~InStore(o) /\ i <= Len(payments[o])
  /\ status[o] = "absent" => Len(payments[o]) = 0
  /\ ~InStore(o) /\ Len(payments[o]) > 0 => Total(o) > 0

\* Handlers write the rows of one order.
LEMMA OneStatus ==
  ASSUME NEW o \in Orders, StatusTypeOK, Shape(o)
  PROVE  /\ status'[o] = "absent" => status[o] = "absent"
         /\ \A q \in Orders \ {o} : status'[q] = status[q]
<1>1. PICK st \in AllStatuses : MovesTo(o, st)
  BY DEF Shape
<1>2. status'[o] = st /\ Rank(st) >= Rank(status[o])
  BY <1>1 DEF MovesTo, StatusTypeOK
<1>3. \A s \in AllStatuses : s # "absent" => Rank(s) >= 1
  BY RankValues DEF AllStatuses, ORDER_STATUSES
<1>4. status[o] \in AllStatuses /\ Rank(status[o]) \in Int
  BY RankBound DEF StatusTypeOK
<1>5. st = "absent" => Rank(st) = 0
  BY RankValues
<1>6. st = "absent" => ~(Rank(status[o]) >= 1)
  BY <1>2, <1>4, <1>5
<1> QED BY <1>1, <1>2, <1>3, <1>4, <1>6 DEF MovesTo, StatusTypeOK

\* Lengths of the payments are natural numbers, and kept by an update.
LEMMA PaymentCount ==
  ASSUME NEW o \in Orders, PaymentsTypeOK
  PROVE  /\ Len(payments[o]) \in Nat /\ Len(payments[o]) <= MaxPayments
         /\ payments[o] = <<>> <=> Len(payments[o]) = 0
         /\ DOMAIN payments[o] = 1..Len(payments[o])
         /\ DOMAIN payments[o] \subseteq Payments
<1>1. payments[o] \in Seq(PaymentStatuses) /\ Len(payments[o]) <= MaxPayments
  BY DEF PaymentsTypeOK
<1>2. Len(payments[o]) \in Nat /\ DOMAIN payments[o] = 1..Len(payments[o])
  BY <1>1, LenProperties
<1>3. payments[o] = <<>> <=> Len(payments[o]) = 0
  BY <1>1, EmptySeq
<1> QED BY <1>1, <1>2, <1>3, Bounds DEF Payments

\* A payment's new status leaves the number of payments, and the other
\* orders', as they were.
LEMMA PaymentUpdated ==
  ASSUME NEW o \in Orders, PaymentsTypeOK, NEW i, NEW st,
         payments' = [payments EXCEPT ![o][i] = st]
  PROVE  /\ Len(payments'[o]) = Len(payments[o])
         /\ DOMAIN payments'[o] = DOMAIN payments[o]
         /\ \A j \in DOMAIN payments[o] :
              payments'[o][j] = IF j = i THEN st ELSE payments[o][j]
         /\ \A q \in Orders \ {o} : payments'[q] = payments[q]
<1>1. payments[o] \in Seq(PaymentStatuses)
  BY DEF PaymentsTypeOK
<1>2. payments'[o] = [payments[o] EXCEPT ![i] = st]
  BY DEF PaymentsTypeOK
<1>3. DOMAIN payments[o] = 1..Len(payments[o]) /\ Len(payments[o]) \in Nat
  BY <1>1, LenProperties
<1>4. Len([payments[o] EXCEPT ![i] = st]) = Len(payments[o])
  <2>1. payments[o] \in Seq(PaymentStatuses \cup {st})
    BY <1>1, SeqMonotonic
  <2>2. CASE i \in 1..Len(payments[o])
    BY <2>1, <2>2, ExceptSeq
  <2>3. CASE i \notin 1..Len(payments[o])
    <3>1. payments[o] \in [1..Len(payments[o]) -> PaymentStatuses]
      BY <1>1, LenProperties
    <3> QED BY <2>3, <3>1
  <2> QED BY <2>2, <2>3
<1> QED BY <1>2, <1>3, <1>4 DEF PaymentsTypeOK

-----------------------------------------------------------------------------
\* What Stripe holds for an order, and has told about it: refunds are of
\* captured charges, together within the total; 'paid' is told of captured
\* charges and 'refunded' of those paid back in full.
StripeTrue(o) ==
  /\ \A k \in DOMAIN refunds[o] : charge[o][refunds[o][k].pay] = "captured"
  /\ \A i \in Payments : Promised(refunds[o], i) <= Total(o)
  /\ \A i \in Payments :
       /\ \A ev \in EventTypes : <<i, ev>> \in events[o] => charge[o][i] # "none"
       /\ <<i, "paid">> \in events[o] => charge[o][i] = "captured"
       /\ <<i, "refunded">> \in events[o] =>
            charge[o][i] = "captured" /\ PaidBack(refunds[o], i) = Total(o)

\* The provider's part of a step: one of its operations on the order, or none.
StripeStep(o) ==
  \/ UNCHANGED stripeVars
  \/ \E i \in Payments : charge[o][i] = "none" /\ OpenCharge(o, i)
  \/ \E i \in Payments :
       CaptureCharge(o, i) \/ DeclineCharge(o, i) \/ ExpireCharge(o, i)
  \/ \E i \in Payments, a \in Amounts, st \in RefundStates :
       AcceptRefund(o, i, a, st, Total(o))
  \/ \E k \in DOMAIN refunds[o], st \in {"succeeded", "failed"} :
       SettleRefund(o, k, st, Total(o))

\* What it has captured and paid back stays so.
StripeKeeps(o) ==
  /\ \A i \in Payments :
       /\ charge[o][i] = "captured" => charge'[o][i] = "captured"
       /\ PaidBack(refunds[o], i) <= PaidBack(refunds'[o], i)
  /\ \A k \in DOMAIN refunds[o] :
       /\ k \in DOMAIN refunds'[o]
       /\ refunds[o][k].status = "succeeded" => refunds'[o][k] = refunds[o][k]

\* The events of a refund: the payments that are now paid back in full.
LEMMA RefundEventsTrue ==
  ASSUME NEW rs \in Seq(StripeRefund), NEW total \in Nat, total > 0, NEW i, NEW ev,
         <<i, ev>> \in RefundEvents(rs, total)
  PROVE  /\ ev = "refunded" /\ PaidBack(rs, i) = total
         /\ \E k \in DOMAIN rs : rs[k].pay = i
<1>1. ev = "refunded" /\ PaidBack(rs, i) = total
  BY DEF RefundEvents
<1> QED BY <1>1, PaidBackIsPromised

\* Everything promised is within the total, so a full amount stays full.
LEMMA FullStaysFull ==
  ASSUME NEW rs \in Seq(StripeRefund), NEW qs \in Seq(StripeRefund), NEW i,
         NEW total \in Nat, PaidBack(rs, i) = total,
         PaidBack(rs, i) <= PaidBack(qs, i), Promised(qs, i) <= total
  PROVE  PaidBack(qs, i) = total
BY PaidBackIsPromised

\* Charges alone change.
LEMMA ChargeStepTrue ==
  ASSUME NEW o \in Orders, StripeTypeOK, StripeTrue(o), UNCHANGED detail,
         NEW i \in Payments,
         \/ charge[o][i] = "none" /\ OpenCharge(o, i)
         \/ CaptureCharge(o, i) \/ DeclineCharge(o, i) \/ ExpireCharge(o, i)
  PROVE  StripeTrue(o)' /\ StripeKeeps(o)
<1>1. UNCHANGED refunds /\ refunds[o] \in Seq(StripeRefund)
  BY DEF OpenCharge, CaptureCharge, DeclineCharge, ExpireCharge, StripeTypeOK
<1>2. PICK st \in {"open", "captured", "declined", "expired"} :
        /\ charge' = [charge EXCEPT ![o][i] = st]
        /\ charge[o][i] \notin {"captured"}
  BY DEF OpenCharge, CaptureCharge, DeclineCharge, ExpireCharge
<1>3. \A j \in Payments : charge'[o][j] = IF j = i THEN st ELSE charge[o][j]
  BY <1>2 DEF StripeTypeOK
<1>4. \A j \in Payments, ev \in EventTypes : <<j, ev>> \in events'[o] =>
        \/ <<j, ev>> \in events[o]
        \/ j = i /\ ev = "failed"
        \/ j = i /\ ev = "paid" /\ charge'[o][i] = "captured"
  BY <1>3 DEF OpenCharge, CaptureCharge, DeclineCharge, ExpireCharge, StripeTypeOK
<1>5. \A k \in DOMAIN refunds[o] : refunds[o][k].pay \in Payments
  BY <1>1, RefundsDomain DEF StripeRefund
<1>6. "paid" \in EventTypes /\ "refunded" \in EventTypes
  BY DEF EventTypes
<1>7. StripeTrue(o)'
  <2>1. \A k \in DOMAIN refunds'[o] : charge'[o][refunds'[o][k].pay] = "captured"
    BY <1>1, <1>2, <1>3, <1>5 DEF StripeTrue
  <2>2. \A j \in Payments : Promised(refunds'[o], j) <= Total(o)'
    BY <1>1 DEF StripeTrue, Total
  <2>3. \A j \in Payments :
          /\ \A ev \in EventTypes : <<j, ev>> \in events'[o] => charge'[o][j] # "none"
          /\ <<j, "paid">> \in events'[o] => charge'[o][j] = "captured"
          /\ <<j, "refunded">> \in events'[o] =>
               charge'[o][j] = "captured" /\ PaidBack(refunds'[o], j) = Total(o)'
    BY <1>1, <1>2, <1>3, <1>4, <1>6 DEF StripeTrue, Total
  <2> QED BY <2>1, <2>2, <2>3 DEF StripeTrue
<1>8. StripeKeeps(o)
  BY <1>1, <1>2, <1>3, PaidBackIsPromised DEF StripeKeeps
<1> QED BY <1>7, <1>8

\* Refunds alone change, and the new ones keep within the total.
LEMMA RefundStepTrue ==
  ASSUME NEW o \in Orders, StripeTypeOK, StripeTrue(o), UNCHANGED <<detail, charge>>,
         Total(o) \in Nat, Total(o) > 0,
         NEW qs \in Seq(StripeRefund), refunds' = [refunds EXCEPT ![o] = qs],
         events' = [events EXCEPT ![o] = @ \cup RefundEvents(qs, Total(o))],
         \A k \in DOMAIN qs : charge[o][qs[k].pay] = "captured",
         \A i \in Payments :
           /\ PaidBack(refunds[o], i) <= PaidBack(qs, i)
           /\ Promised(qs, i) <= Total(o),
         \A k \in DOMAIN refunds[o] :
           /\ k \in DOMAIN qs
           /\ refunds[o][k].status = "succeeded" => qs[k] = refunds[o][k]
  PROVE  StripeTrue(o)' /\ StripeKeeps(o)
<1>1. refunds'[o] = qs /\ refunds[o] \in Seq(StripeRefund)
  BY DEF StripeTypeOK
<1>2. events'[o] = events[o] \cup RefundEvents(qs, Total(o))
  BY DEF StripeTypeOK
<1>3. StripeKeeps(o)
  BY <1>1 DEF StripeKeeps
<1>4. ASSUME NEW i \in Payments, NEW ev \in EventTypes, <<i, ev>> \in events'[o]
      PROVE  \/ <<i, ev>> \in events[o]
             \/ ev = "refunded" /\ PaidBack(qs, i) = Total(o) /\ charge[o][i] = "captured"
  BY <1>2, <1>4, RefundEventsTrue
<1>5. \A i \in Payments : <<i, "refunded">> \in events[o] => PaidBack(qs, i) = Total(o)
  <2>1. ASSUME NEW i \in Payments, <<i, "refunded">> \in events[o]
        PROVE  PaidBack(qs, i) = Total(o)
    <3>1. PaidBack(refunds[o], i) = Total(o)
      BY <2>1 DEF StripeTrue
    <3>2. PaidBack(refunds[o], i) <= PaidBack(qs, i) /\ Promised(qs, i) <= Total(o)
      OBVIOUS
    <3> QED BY <1>1, <3>1, <3>2, FullStaysFull
  <2> QED BY <2>1
<1>6. "paid" \in EventTypes /\ "refunded" \in EventTypes
  BY DEF EventTypes
<1>7. StripeTrue(o)'
  BY <1>1, <1>4, <1>5, <1>6 DEF StripeTrue, Total
<1> QED BY <1>3, <1>7

\* A new refund is within what is left of the charge.
LEMMA AcceptRefundTrue ==
  ASSUME NEW o \in Orders, StripeTypeOK, StripeTrue(o), UNCHANGED detail,
         Total(o) \in Nat, Total(o) > 0,
         NEW i \in Payments, NEW a \in Amounts, NEW st \in RefundStates,
         AcceptRefund(o, i, a, st, Total(o))
  PROVE  StripeTrue(o)' /\ StripeKeeps(o)
<1> DEFINE r == [pay |-> i, amount |-> a, status |-> st]
           rs == refunds[o]
           qs == Append(rs, r)
<1>1. rs \in Seq(StripeRefund) /\ r \in StripeRefund
  BY DEF StripeTypeOK, StripeRefund, Amounts
<1>2. /\ qs \in Seq(StripeRefund)
      /\ DOMAIN qs = DOMAIN rs \cup {Len(rs) + 1}
      /\ qs[Len(rs) + 1] = r
      /\ \A k \in DOMAIN rs : qs[k] = rs[k]
  <2> HIDE DEF r
  <2>1. Len(rs) \in Nat /\ DOMAIN rs = 1..Len(rs)
    BY <1>1, RefundsDomain
  <2>2. /\ qs \in Seq(StripeRefund) /\ Len(qs) = Len(rs) + 1 /\ qs[Len(rs) + 1] = r
        /\ \A k \in 1..Len(rs) : qs[k] = rs[k]
    BY <1>1, AppendProperties
  <2>3. DOMAIN qs = 1..Len(qs)
    BY <2>2, RefundsDomain
  <2> QED BY <2>1, <2>2, <2>3
<1>3. /\ charge[o][i] = "captured" /\ UNCHANGED charge
      /\ a <= Total(o) - Promised(rs, i)
      /\ refunds' = [refunds EXCEPT ![o] = qs]
      /\ events' = [events EXCEPT ![o] = @ \cup RefundEvents(qs, Total(o))]
  BY DEF AcceptRefund, CanRefund, StripeTypeOK
<1>4. ASSUME NEW j \in Payments
      PROVE  /\ PaidBack(rs, j) <= PaidBack(qs, j)
             /\ Promised(qs, j) <= Total(o)
  <2>1. /\ PaidBack(qs, j) = PaidBack(rs, j)
             + (IF r.pay = j /\ r.status \in {"succeeded"} THEN r.amount ELSE 0)
        /\ Promised(qs, j) = Promised(rs, j)
             + (IF r.pay = j /\ r.status \in {"pending", "succeeded"} THEN r.amount ELSE 0)
    <3> HIDE DEF r
    <3> QED BY <1>1, AppendAmount DEF PaidBack, Promised
  <2>2. PaidBack(rs, j) \in Nat /\ Promised(rs, j) \in Nat
    BY <1>1, PaidBackIsPromised
  <2>3. Promised(rs, j) <= Total(o)
    BY DEF StripeTrue
  <2>4. a \in Nat
    BY Bounds DEF Amounts
  <2> HIDE DEF qs, rs
  <2> QED BY <1>3, <2>1, <2>2, <2>3, <2>4
<1>5. \A k \in DOMAIN qs : charge[o][qs[k].pay] = "captured"
  <2>1. ASSUME NEW k \in DOMAIN qs
        PROVE  charge[o][qs[k].pay] = "captured"
    <3>1. CASE k \in DOMAIN rs
      BY <1>2, <3>1 DEF StripeTrue
    <3>2. CASE k = Len(rs) + 1
      BY <1>2, <1>3, <3>2
    <3> QED BY <1>2, <3>1, <3>2
  <2> QED BY <2>1
<1> HIDE DEF qs
<1> QED BY <1>2, <1>3, <1>4, <1>5, RefundStepTrue

\* A pending refund that is settled was promised already.
LEMMA SettleRefundTrue ==
  ASSUME NEW o \in Orders, StripeTypeOK, StripeTrue(o), UNCHANGED detail,
         Total(o) \in Nat, Total(o) > 0,
         NEW n \in DOMAIN refunds[o], NEW st \in {"succeeded", "failed"},
         SettleRefund(o, n, st, Total(o))
  PROVE  StripeTrue(o)' /\ StripeKeeps(o)
<1> DEFINE rs == refunds[o]
           qs == [rs EXCEPT ![n].status = st]
<1>1. rs \in Seq(StripeRefund) /\ rs[n].status = "pending"
  BY DEF StripeTypeOK, SettleRefund
<1>2. DOMAIN rs = 1..Len(rs) /\ \A k \in DOMAIN rs : rs[k] \in StripeRefund
  BY <1>1, RefundsDomain
<1>3. /\ DOMAIN qs = DOMAIN rs
      /\ \A k \in DOMAIN rs : k # n => qs[k] = rs[k]
      /\ qs[n] = [rs[n] EXCEPT !.status = st]
  BY <1>2
<1>4. qs[n].pay = rs[n].pay /\ qs[n].amount = rs[n].amount /\ qs[n].status = st
      /\ qs[n] \in StripeRefund
  BY <1>2, <1>3 DEF StripeRefund, RefundStates
<1>5. qs \in Seq(StripeRefund)
  <2>1. qs = [rs EXCEPT ![n] = [rs[n] EXCEPT !.status = st]]
    BY <1>2
  <2>2. [rs[n] EXCEPT !.status = st] \in StripeRefund
    BY <1>3, <1>4
  <2> HIDE DEF qs
  <2> QED BY <1>1, <1>2, <2>1, <2>2, ExceptSeq
<1>6. /\ refunds' = [refunds EXCEPT ![o] = qs] /\ UNCHANGED charge
      /\ events' = [events EXCEPT ![o] = @ \cup RefundEvents(qs, Total(o))]
  BY DEF SettleRefund, StripeTypeOK
<1> HIDE DEF qs
<1>7. ASSUME NEW j \in Payments
      PROVE  /\ PaidBack(rs, j) <= PaidBack(qs, j)
             /\ Promised(qs, j) <= Total(o)
  <2>1. /\ RefundIds(rs, j, {"succeeded"}) \subseteq RefundIds(qs, j, {"succeeded"})
        /\ RefundIds(qs, j, {"pending", "succeeded"})
             \subseteq RefundIds(rs, j, {"pending", "succeeded"})
    BY <1>1, <1>3, <1>4 DEF RefundIds
  <2>2. \A k \in DOMAIN rs : qs[k].amount = rs[k].amount
    BY <1>3, <1>4
  <2>3. PaidBack(rs, j) <= PaidBack(qs, j)
    BY <1>1, <1>3, <1>5, <2>1, <2>2, IdsAreIndices, AmountGrows DEF PaidBack
  <2>4. Promised(qs, j) <= Promised(rs, j)
    BY <1>1, <1>3, <1>5, <2>1, <2>2, IdsAreIndices, AmountGrows DEF Promised
  <2>5. Promised(rs, j) <= Total(o) /\ Promised(rs, j) \in Nat /\ Promised(qs, j) \in Nat
    BY <1>1, <1>5, PaidBackIsPromised DEF StripeTrue
  <2> QED BY <2>3, <2>4, <2>5
<1>8. \A k \in DOMAIN qs : charge[o][qs[k].pay] = "captured"
  <2>1. \A k \in DOMAIN rs : charge[o][rs[k].pay] = "captured"
    BY DEF StripeTrue
  <2>2. \A k \in DOMAIN rs : qs[k].pay = rs[k].pay
    BY <1>3, <1>4
  <2> QED BY <1>3, <2>1, <2>2
<1> QED BY <1>1, <1>3, <1>5, <1>6, <1>7, <1>8, RefundStepTrue

\* Any of them.
LEMMA StripeStepTrue ==
  ASSUME NEW o \in Orders, StripeTypeOK, StripeTrue(o), UNCHANGED detail,
         Total(o) \in Nat,
         (\E i \in Payments : charge[o][i] # "none") => Total(o) > 0,
         StripeStep(o)
  PROVE  StripeTrue(o)' /\ StripeKeeps(o)
<1>1. CASE UNCHANGED stripeVars
  <2>1. UNCHANGED <<charge, refunds, events>> /\ refunds[o] \in Seq(StripeRefund)
    BY <1>1 DEF stripeVars, StripeTypeOK
  <2>2. StripeTrue(o)'
    BY <2>1 DEF StripeTrue, Total
  <2>3. StripeKeeps(o)
    BY <2>1, PaidBackIsPromised DEF StripeKeeps
  <2> QED BY <2>2, <2>3
<1>2. ASSUME NEW i \in Payments,
             \/ charge[o][i] = "none" /\ OpenCharge(o, i)
             \/ CaptureCharge(o, i) \/ DeclineCharge(o, i) \/ ExpireCharge(o, i)
      PROVE  StripeTrue(o)' /\ StripeKeeps(o)
  BY <1>2, ChargeStepTrue
<1>3. ASSUME NEW i \in Payments, NEW a \in Amounts, NEW st \in RefundStates,
             AcceptRefund(o, i, a, st, Total(o))
      PROVE  StripeTrue(o)' /\ StripeKeeps(o)
  <2>1. charge[o][i] = "captured"
    BY <1>3 DEF AcceptRefund, CanRefund
  <2> QED BY <1>3, <2>1, AcceptRefundTrue
<1>4. ASSUME NEW k \in DOMAIN refunds[o], NEW st \in {"succeeded", "failed"},
             SettleRefund(o, k, st, Total(o))
      PROVE  StripeTrue(o)' /\ StripeKeeps(o)
  <2>1. charge[o][refunds[o][k].pay] = "captured" /\ refunds[o][k].pay \in Payments
    BY RefundsDomain DEF StripeTrue, StripeTypeOK, StripeRefund
  <2> QED BY <1>4, <2>1, SettleRefundTrue
<1> QED BY <1>1, <1>2, <1>3, <1>4 DEF StripeStep

-----------------------------------------------------------------------------
\* A step on an order writes the rows of that order only.
WritesOne(o) ==
  /\ detail' = detail
  /\ \A q \in Orders \ {o} :
       /\ payments'[q] = payments[q] /\ refundRows'[q] = refundRows[q]
       /\ charge'[q] = charge[q] /\ refunds'[q] = refunds[q] /\ events'[q] = events[q]

\* Stripe's steps are about the charges of one order.
LEMMA StripeStepOthers ==
  ASSUME NEW o \in Orders, StripeTypeOK, StripeStep(o)
  PROVE  \A q \in Orders \ {o} :
           charge'[q] = charge[q] /\ refunds'[q] = refunds[q] /\ events'[q] = events[q]
<1> USE DEF StripeTypeOK
<1>1. CASE UNCHANGED stripeVars
  BY <1>1 DEF stripeVars
<1>2. ASSUME NEW i, \/ OpenCharge(o, i) \/ CaptureCharge(o, i)
                    \/ DeclineCharge(o, i) \/ ExpireCharge(o, i)
      PROVE  \A q \in Orders \ {o} :
               charge'[q] = charge[q] /\ refunds'[q] = refunds[q] /\ events'[q] = events[q]
  BY <1>2 DEF OpenCharge, CaptureCharge, DeclineCharge, ExpireCharge
<1>3. ASSUME NEW i, NEW a, NEW st, NEW total, AcceptRefund(o, i, a, st, total)
      PROVE  \A q \in Orders \ {o} :
               charge'[q] = charge[q] /\ refunds'[q] = refunds[q] /\ events'[q] = events[q]
  BY <1>3 DEF AcceptRefund
<1>4. ASSUME NEW k, NEW st, NEW total, SettleRefund(o, k, st, total)
      PROVE  \A q \in Orders \ {o} :
               charge'[q] = charge[q] /\ refunds'[q] = refunds[q] /\ events'[q] = events[q]
  BY <1>4 DEF SettleRefund
<1> QED BY <1>1, <1>2, <1>3, <1>4 DEF StripeStep

\* What each handler asks of the provider, and the payments it leaves.
Counts(o) ==
  \/ CreatePayment(o)
  \/ /\ \A i \in Payments : (charge'[o][i] = "none") <=> (charge[o][i] = "none")
     /\ \/ Len(payments'[o]) = Len(payments[o])
        \/ InStore(o) /\ status'[o] # "absent"

StepsOn(o) == WritesOne(o) /\ StripeStep(o) /\ Counts(o)

\* A handler that asks nothing of the provider.
LEMMA StepsAlone ==
  ASSUME NEW o \in Orders, DataTypeOK, UNCHANGED <<detail, stripeVars>>,
         NEW pays, payments' = [payments EXCEPT ![o] = pays],
         UNCHANGED refundRows,
         \/ Len(pays) = Len(payments[o])
         \/ InStore(o) /\ status'[o] # "absent"
  PROVE  StepsOn(o)
<1>1. /\ payments'[o] = pays
      /\ \A q \in Orders \ {o} :
           payments'[q] = payments[q] /\ refundRows'[q] = refundRows[q]
  BY DEF DataTypeOK, PaymentsTypeOK, RowsTypeOK
<1> QED BY <1>1 DEF StepsOn, WritesOne, StripeStep, Counts, stripeVars

\* A handler that writes no payment and asks nothing of the provider.
LEMMA StepsQuietly ==
  ASSUME NEW o \in Orders, DataTypeOK, UNCHANGED <<detail, payments, stripeVars>>,
         \/ UNCHANGED refundRows
         \/ \E rows : refundRows' = [refundRows EXCEPT ![o] = rows]
  PROVE  StepsOn(o)
BY DEF StepsOn, WritesOne, StripeStep, Counts, stripeVars, DataTypeOK, RowsTypeOK

\* One payment is written.
LEMMA StepsOnPayment ==
  ASSUME NEW o \in Orders, DataTypeOK, UNCHANGED <<detail, stripeVars>>,
         NEW i, NEW st, payments' = [payments EXCEPT ![o][i] = st],
         \/ UNCHANGED refundRows
         \/ \E rows : refundRows' = [refundRows EXCEPT ![o] = rows]
  PROVE  StepsOn(o)
<1>1. /\ Len(payments'[o]) = Len(payments[o])
      /\ \A q \in Orders \ {o} : payments'[q] = payments[q]
  BY PaymentUpdated DEF DataTypeOK
<1> QED BY <1>1 DEF StepsOn, WritesOne, StripeStep, Counts, stripeVars, DataTypeOK,
           RowsTypeOK

\* POST /orders/create.
LEMMA CreateOrderSteps ==
  ASSUME NEW o \in Orders, NEW v, StatusTypeOK, DataTypeOK, CreateOrder(o, v)
  PROVE  StepsOn(o)
<1>1. CASE InStore(o)
  <2>2. status'[o] # "absent"
    BY <1>1 DEF CreateOrder, PlaceInStore, AutoStart, StatusTypeOK
  <2> QED BY <1>1, <2>2, StepsAlone DEF CreateOrder, PlaceInStore
<1>2. CASE ~InStore(o)
  BY <1>2, StepsQuietly DEF CreateOrder
<1> QED BY <1>1, <1>2

\* POST /payments/create: the charge is opened for the payment that is
\* added.
LEMMA CreatePaymentSteps ==
  ASSUME NEW o \in Orders, DataTypeOK, Charged(o), CreatePayment(o)
  PROVE  StepsOn(o)
<1>1. Len(payments[o]) + 1 \in Payments /\ ~(Len(payments[o]) + 1 <= Len(payments[o]))
  <2>1. Len(payments[o]) \in Nat /\ Len(payments[o]) < MaxPayments
    BY PaymentCount DEF CreatePayment, DataTypeOK
  <2> QED BY <2>1, Bounds DEF Payments
<1>2. StripeStep(o)
  BY <1>1 DEF CreatePayment, Charged, StripeStep
<1>3. WritesOne(o)
  BY <1>2, StripeStepOthers DEF CreatePayment, WritesOne, DataTypeOK, PaymentsTypeOK
<1> QED BY <1>2, <1>3 DEF StepsOn, Counts

\* A cancellation, by the buyer or the merchant.
LEMMA CancelSteps ==
  ASSUME NEW o \in Orders, StatusTypeOK, DataTypeOK, UNCHANGED <<detail, refundRows,
         stripeVars>>,
         status' = [status EXCEPT ![o] = "cancelled"],
         payments' = [payments EXCEPT ![o] =
           IF isAwaitingInStoreCollection(o) THEN <<"cancelled">> ELSE @]
  PROVE  StepsOn(o)
<1> DEFINE pays == IF isAwaitingInStoreCollection(o) THEN <<"cancelled">> ELSE payments[o]
<1>1. payments' = [payments EXCEPT ![o] = pays]
  BY DEF DataTypeOK, PaymentsTypeOK
<1>2. \/ Len(pays) = Len(payments[o])
      \/ InStore(o) /\ status'[o] # "absent"
  BY DEF isAwaitingInStoreCollection, StatusTypeOK
<1> HIDE DEF pays
<1> QED BY <1>1, <1>2, StepsAlone

\* The webhook.
LEMMA WebhookSteps ==
  ASSUME NEW o \in Orders, DataTypeOK, NEW i, NEW ev, Webhook(o, i, ev)
  PROVE  StepsOn(o)
<1>1. /\ UNCHANGED <<detail, refundRows, stripeVars>>
      /\ payments' = [payments EXCEPT ![o][i] = ev]
  BY DEF Webhook
<1> QED BY <1>1, StepsOnPayment

\* POST /orders/status/update.
LEMMA UpdateStatusSteps ==
  ASSUME NEW o \in Orders, StatusTypeOK, DataTypeOK, NEW st, UpdateStatus(o, st)
  PROVE  StepsOn(o)
<1>1. CASE UNCHANGED payments
  BY <1>1, StepsQuietly DEF UpdateStatus
<1>2. CASE ~UNCHANGED payments
  BY <1>2, CancelSteps DEF UpdateStatus
<1> QED BY <1>1, <1>2

\* POST /orders/in-store-payment/collect.
LEMMA CollectSteps ==
  ASSUME NEW o \in Orders, StatusTypeOK, DataTypeOK, Charged(o),
         CollectInStorePayment(o)
  PROVE  StepsOn(o)
<1>1. status'[o] # "absent" /\ InStore(o)
  BY DEF CollectInStorePayment, Collectible, eligibleStatusesForCollection,
         isAwaitingInStoreCollection
<1> QED BY <1>1, StepsAlone DEF CollectInStorePayment

\* POST /orders/payments/sync.
LEMMA SyncPaymentSteps ==
  ASSUME NEW o \in Orders, DataTypeOK, NEW ps, SyncPayment(o, ps)
  PROVE  StepsOn(o)
<1> DEFINE i == Len(payments[o])
           rows == SyncedRows(o, i)
           st == IF isFullRefund(o, SucceededAmount(rows, i)) THEN "refunded" ELSE ps
<1>1. /\ UNCHANGED <<detail, stripeVars>>
      /\ payments' = [payments EXCEPT ![o][i] = st]
      /\ refundRows' = [refundRows EXCEPT ![o] = rows]
  BY DEF SyncPayment
<1> HIDE DEF i, rows, st
<1> QED BY <1>1, StepsOnPayment

\* The provider's own operations, and the refunds it is asked for.
LEMMA StepsAtStripe ==
  ASSUME NEW o \in Orders, DataTypeOK, UNCHANGED detail,
         \/ UNCHANGED refundRows
         \/ \E rows : refundRows' = [refundRows EXCEPT ![o] = rows],
         \/ UNCHANGED payments
         \/ \E i, st : payments' = [payments EXCEPT ![o][i] = st],
         \/ \E i \in Payments :
              CaptureCharge(o, i) \/ DeclineCharge(o, i) \/ ExpireCharge(o, i)
         \/ \E i \in Payments, a \in Amounts, st \in RefundStates :
              AcceptRefund(o, i, a, st, Total(o))
         \/ \E k \in DOMAIN refunds[o], st \in {"succeeded", "failed"} :
              SettleRefund(o, k, st, Total(o))
  PROVE  StepsOn(o)
<1>1. StripeStep(o)
  BY DEF StripeStep
<1>2. Len(payments'[o]) = Len(payments[o])
      /\ \A q \in Orders \ {o} : payments'[q] = payments[q]
  <2>1. CASE UNCHANGED payments
    BY <2>1
  <2>2. ASSUME NEW i, NEW st, payments' = [payments EXCEPT ![o][i] = st]
        PROVE  /\ Len(payments'[o]) = Len(payments[o])
               /\ \A q \in Orders \ {o} : payments'[q] = payments[q]
    BY <2>2, PaymentUpdated DEF DataTypeOK
  <2> QED BY <2>1, <2>2
<1>3. WritesOne(o)
  BY <1>1, <1>2, StripeStepOthers DEF WritesOne, DataTypeOK, RowsTypeOK
<1>4. \A i \in Payments : (charge'[o][i] = "none") <=> (charge[o][i] = "none")
  <2>1. ASSUME NEW j \in Payments,
               CaptureCharge(o, j) \/ DeclineCharge(o, j) \/ ExpireCharge(o, j)
        PROVE  \A i \in Payments : (charge'[o][i] = "none") <=> (charge[o][i] = "none")
    BY <2>1 DEF CaptureCharge, DeclineCharge, ExpireCharge, DataTypeOK, StripeTypeOK
  <2> QED BY <2>1 DEF AcceptRefund, SettleRefund
<1> QED BY <1>1, <1>2, <1>3, <1>4 DEF StepsOn, Counts

\* POST /orders/refund.
LEMMA RefundSteps ==
  ASSUME NEW o \in Orders, DataTypeOK, RefundStep(o)
  PROVE  StepsOn(o)
<1>1. PICK i \in Payments :
        \/ RefundAlreadyDone(o, i)
        \/ \E a \in Amounts :
             \/ RefundInStore(o, i, a)
             \/ RefundRefused(o, i, a)
             \/ \E st \in RefundStates :
                  RefundOnline(o, i, a, st) \/ RefundReplyLost(o, i, a, st)
  BY DEF RefundStep
<1>2. ASSUME NEW a, NEW st, NEW ref, InsertRow(o, i, a, st, ref)
      PROVE  \E rows : refundRows' = [refundRows EXCEPT ![o] = rows]
  <2>1. refundRows' = [refundRows EXCEPT ![o] = refundRows[o] \cup
          {[pay |-> i, amount |-> a, status |-> st, ref |-> ref]}]
    BY <1>2 DEF InsertRow, DataTypeOK, RowsTypeOK
  <2> QED BY <2>1
<1>3. ASSUME NEW a, NEW st, ApplyRefund(o, i, a, st)
      PROVE  UNCHANGED payments \/ \E s : payments' = [payments EXCEPT ![o][i] = s]
  BY <1>3 DEF ApplyRefund
<1>4. CASE RefundAlreadyDone(o, i)
  BY <1>4, StepsQuietly DEF RefundAlreadyDone
<1>5. ASSUME NEW a \in Amounts, RefundInStore(o, i, a)
      PROVE  StepsOn(o)
  <2>1. UNCHANGED <<detail, stripeVars>>
    BY <1>5 DEF RefundInStore
  <2>2. PICK rows : refundRows' = [refundRows EXCEPT ![o] = rows]
    BY <1>2, <1>5 DEF RefundInStore
  <2> QED
    BY <1>3, <1>5, <2>1, <2>2, StepsQuietly, StepsOnPayment DEF RefundInStore
<1>6. ASSUME NEW a \in Amounts, RefundRefused(o, i, a)
      PROVE  StepsOn(o)
  BY <1>2, <1>6, StepsQuietly DEF RefundRefused
<1>7. ASSUME NEW a \in Amounts, NEW st \in RefundStates, RefundOnline(o, i, a, st)
      PROVE  StepsOn(o)
  <2>1. /\ UNCHANGED detail /\ AcceptRefund(o, i, a, st, Total(o))
        /\ UNCHANGED payments \/ \E s : payments' = [payments EXCEPT ![o][i] = s]
    BY <1>3, <1>7 DEF RefundOnline
  <2>2. PICK rows : refundRows' = [refundRows EXCEPT ![o] = rows]
    BY <1>2, <1>7 DEF RefundOnline
  <2> QED BY <2>1, <2>2, StepsAtStripe
<1>8. ASSUME NEW a \in Amounts, NEW st \in RefundStates, RefundReplyLost(o, i, a, st)
      PROVE  StepsOn(o)
  <2>1. UNCHANGED <<detail, payments>> /\ AcceptRefund(o, i, a, st, Total(o))
    BY <1>8 DEF RefundReplyLost
  <2>2. PICK rows : refundRows' = [refundRows EXCEPT ![o] = rows]
    BY <1>2, <1>8 DEF RefundReplyLost
  <2> QED BY <2>1, <2>2, StepsAtStripe
<1> QED BY <1>1, <1>4, <1>5, <1>6, <1>7, <1>8

\* The provider on its own.
LEMMA ProviderSteps ==
  ASSUME NEW o \in Orders, DataTypeOK, ProviderStep(o)
  PROVE  StepsOn(o)
<1>1. UNCHANGED <<detail, payments, refundRows>>
  BY DEF ProviderStep, UnrecordedRefund, orderVars
<1> QED BY <1>1, StepsAtStripe DEF ProviderStep, UnrecordedRefund

\* Every step on an order.
LEMMA OrderStepSteps ==
  ASSUME NEW o \in Orders, StatusTypeOK, DataTypeOK, Charged(o), OrderStep(o)
  PROVE  StepsOn(o)
<1>1. CASE BuyerStep(o)
  <2>1. CancelByCustomer(o) => StepsOn(o)
    BY CancelSteps DEF CancelByCustomer
  <2> QED BY <1>1, <2>1, CreateOrderSteps, CreatePaymentSteps DEF BuyerStep
<1>2. CASE MerchantStep(o)
  BY <1>2, UpdateStatusSteps, CollectSteps, SyncPaymentSteps, RefundSteps
  DEF MerchantStep
<1>3. CASE WebhookStep(o)
  BY <1>3, WebhookSteps DEF WebhookStep
<1>4. CASE ProviderStep(o)
  BY <1>4, ProviderSteps
<1> QED BY <1>1, <1>2, <1>3, <1>4 DEF OrderStep

\* So the charges keep up with the payments.
LEMMA ChargedStep ==
  ASSUME NEW o \in Orders, StatusTypeOK, DataTypeOK, Charged(o), StepsOn(o), Shape(o)
  PROVE  Charged(o)'
<1>1. detail' = detail
  BY DEF StepsOn, WritesOne
<1>2. status'[o] = "absent" => status[o] = "absent"
  BY OneStatus
<1>3. CASE CreatePayment(o)
  <2>1. /\ Len(payments[o]) \in Nat /\ Len(payments[o]) < MaxPayments
        /\ payments'[o] = Append(payments[o], "pending")
        /\ \A i \in Payments : charge'[o][i] =
             IF i = Len(payments[o]) + 1 THEN "open" ELSE charge[o][i]
        /\ ~InStore(o) /\ Total(o) > 0 /\ status'[o] # "absent"
    BY <1>3, PaymentCount
    DEF CreatePayment, Payable, canCreatePaymentForOrder, OpenCharge, DataTypeOK,
        PaymentsTypeOK, StripeTypeOK
  <2>2. Len(payments'[o]) = Len(payments[o]) + 1
    <3>1. payments[o] \in Seq(PaymentStatuses) /\ "pending" \in PaymentStatuses
      BY DEF DataTypeOK, PaymentsTypeOK, PaymentStatuses
    <3> QED BY <2>1, <3>1, AppendProperties
  <2>3. \A i \in Payments : i \in Int
    BY DEF Payments
  <2> QED BY <1>1, <2>1, <2>2, <2>3 DEF Charged, InStore, Total
<1>4. CASE /\ \A i \in Payments : (charge'[o][i] = "none") <=> (charge[o][i] = "none")
           /\ \/ Len(payments'[o]) = Len(payments[o])
              \/ InStore(o) /\ status'[o] # "absent"
  BY <1>1, <1>2, <1>4 DEF Charged, InStore, Total
<1> QED BY <1>3, <1>4 DEF StepsOn, Counts

-----------------------------------------------------------------------------
\* An order's total is within MaxTotal.
LEMMA TotalNat ==
  ASSUME NEW o \in Orders, DataTypeOK
  PROVE  Total(o) \in Nat /\ Total(o) <= MaxTotal
BY OrdersAssumption, Bounds DEF DataTypeOK, LogTypeOK, Total

\* The database's payments, the charges and the events agree.
BaseInv == OrdersInv /\ DataTypeOK /\ \A o \in Orders : Charged(o) /\ StripeTrue(o)

\* BaseInv holds of the initial states.
LEMMA BaseInit == OrdersInit => BaseInv
<1> SUFFICES ASSUME OrdersInit PROVE BaseInv
  OBVIOUS
<1>1. OrdersInv /\ DataTypeOK
  BY OrdersInvInit, DataInit
<1>2. ASSUME NEW o \in Orders
      PROVE  Charged(o) /\ StripeTrue(o)
  <2>1. /\ refunds[o] = <<>> /\ events[o] = {} /\ payments[o] = <<>>
        /\ \A i \in Payments : charge[o][i] = "none"
        /\ status[o] = "absent"
    BY DEF OrdersInit, StripeInit
  <2>2. <<>> \in Seq(StripeRefund) /\ Len(<<>>) = 0 /\ DOMAIN <<>> = {}
    OBVIOUS
  <2>3. \A i : PaidBack(<<>>, i) = 0 /\ Promised(<<>>, i) = 0
    <3>1. ASSUME NEW i, NEW states
          PROVE  AmountOf(<<>>, RefundIds(<<>>, i, states)) = 0
      <4>1. RefundIds(<<>>, i, states) = {}
        BY <2>2 DEF RefundIds
      <4>2. {} \in SUBSET DOMAIN <<>>
        OBVIOUS
      <4> QED BY <2>2, <4>1, <4>2, RefundAmounts
    <3> QED BY <3>1 DEF PaidBack, Promised
  <2>4. Charged(o)
    <3>1. \A i \in Payments : ~(i <= Len(payments[o]))
      BY <2>1, <2>2 DEF Payments
    <3> QED BY <2>1, <2>2, <3>1 DEF Charged
  <2>5. StripeTrue(o)
    BY <1>1, <2>1, <2>2, <2>3, TotalNat DEF StripeTrue
  <2> QED BY <2>4, <2>5
<1> QED BY <1>1, <1>2 DEF BaseInv

\* What a step on an order does to it, and to the others.
LEMMA OrderStepBase ==
  ASSUME NEW o \in Orders, BaseInv, OrderStep(o)
  PROVE  /\ Shape(o) /\ WritesOne(o)
         /\ Charged(o)' /\ StripeTrue(o)' /\ StripeKeeps(o)
         /\ \A q \in Orders \ {o} :
              /\ status'[q] = status[q] /\ earnStatus'[q] = earnStatus[q]
              /\ Charged(q)' /\ StripeTrue(q)'
<1>1. OrdersInv /\ DataTypeOK /\ StatusTypeOK /\ StripeTypeOK /\ LedgerInv
  BY DEF BaseInv, OrdersInv, DataTypeOK
<1>2. Charged(o) /\ StripeTrue(o)
  BY DEF BaseInv
<1>3. Shape(o) /\ StepsOn(o)
  BY <1>1, <1>2, OrderStepShape, OrderStepSteps
<1>4. Charged(o)'
  BY <1>1, <1>2, <1>3, ChargedStep
<1>5. StripeTrue(o)' /\ StripeKeeps(o)
  <2>1. (\E i \in Payments : charge[o][i] # "none") => Total(o) > 0
    <3>1. \A i \in Payments : i <= Len(payments[o]) => Len(payments[o]) > 0
      BY <1>1, PaymentCount DEF DataTypeOK, Payments
    <3> QED BY <1>2, <3>1 DEF Charged
  <2>2. Total(o) \in Nat
    BY <1>1, TotalNat
  <2> QED BY <1>1, <1>2, <1>3, <2>1, <2>2, StripeStepTrue DEF StepsOn, WritesOne
<1>6. ASSUME NEW q \in Orders \ {o}
      PROVE  /\ status'[q] = status[q] /\ earnStatus'[q] = earnStatus[q]
             /\ Charged(q)' /\ StripeTrue(q)'
  <2>1. status'[q] = status[q] /\ earnStatus'[q] = earnStatus[q]
    BY <1>1, <1>3, OneStatus, OthersKeepBenefits
  <2>2. /\ detail' = detail /\ payments'[q] = payments[q]
        /\ charge'[q] = charge[q] /\ refunds'[q] = refunds[q] /\ events'[q] = events[q]
    BY <1>3 DEF StepsOn, WritesOne
  <2>3. Charged(q) /\ StripeTrue(q)
    BY DEF BaseInv
  <2>4. Charged(q)'
    BY <2>1, <2>2, <2>3 DEF Charged, InStore, Total
  <2>5. StripeTrue(q)'
    BY <2>2, <2>3 DEF StripeTrue, Total
  <2> QED BY <2>1, <2>4, <2>5
<1> QED BY <1>3, <1>4, <1>5, <1>6 DEF StepsOn

\* Steps on no order.
LEMMA NoOrderStep ==
  ASSUME [OrdersNext]_vars, ~\E o \in Orders : OrderStep(o)
  PROVE  UNCHANGED <<orderVars, stripeVars, earnStatus>>
BY DEF OrdersNext, VoucherStep, RedeemReward, ExpireVoucher, vars, rewardsVars,
   accountVars

\* Every step keeps BaseInv.
LEMMA BaseStep == BaseInv /\ [OrdersNext]_vars => BaseInv'
<1> SUFFICES ASSUME BaseInv, [OrdersNext]_vars PROVE BaseInv'
  OBVIOUS
<1>1. OrdersInv' /\ DataTypeOK'
  BY OrdersInvStep, DataStep DEF BaseInv
<1>2. ASSUME NEW o \in Orders, OrderStep(o), NEW q \in Orders
      PROVE  Charged(q)' /\ StripeTrue(q)'
  BY <1>2, OrderStepBase
<1>3. ASSUME ~\E o \in Orders : OrderStep(o), NEW q \in Orders
      PROVE  Charged(q)' /\ StripeTrue(q)'
  <2>1. UNCHANGED <<detail, status, payments, charge, refunds, events>>
    BY <1>3, NoOrderStep DEF orderVars, stripeVars
  <2> QED BY <2>1 DEF BaseInv, Charged, StripeTrue, InStore, Total
<1> QED BY <1>1, <1>2, <1>3 DEF BaseInv

\* The types, the ledger, and what the database and Stripe hold of each
\* other: a charge for each online payment and no other, refunds within
\* the charge, and events that tell the truth.
THEOREM BaseInvariant == OrdersSpec => []BaseInv
BY BaseInit, BaseStep, PTL DEF OrdersSpec

(***************************************************************************)
(*                               The notices                               *)
(***************************************************************************)

Active == {"accepted", "preparing", "ready", "on_the_way", "delivered", "completed"}
Quiet == Notices \ {"points_earned", "points_reversed"}

\* The notices go with the status, and with the receipt that was printed.
StatusTold(o) ==
  /\ status[o] \in Active => {status[o], "new_order"} \subseteq notices[o]
  /\ status[o] = "paid" => "new_order" \in notices[o]
  /\ status[o] = "partially_refunded" => "partially_refunded" \in notices[o]
  /\ status[o] = "refunded" => "refunded" \in notices[o] \/ LearntFromStripe(o)
  /\ status[o] = "cancelled" =>
       "cancelled" \in notices[o] \/ "customer_cancelled" \in notices[o]
  /\ InStore(o) /\ status[o] # "absent" => "new_order" \in notices[o]
  /\ o \in printJobs => "preparing" \in notices[o]

\* The notices go with the ledger.
PointsTold(o) ==
  /\ "points_earned" \in notices[o] <=> earnStatus[o] # "none"
  /\ "points_reversed" \in notices[o] <=> earnStatus[o] = "reversed"

ToldInv == \A o \in Orders : StatusTold(o) /\ PointsTold(o)

\* What an operation on one order does to its notices and to the others'.
LEMMA TellOne ==
  ASSUME NEW o \in Orders, NEW kinds, NoticesTypeOK, Tell(o, kinds)
  PROVE  /\ notices'[o] = notices[o] \cup kinds
         /\ \A q \in Orders \ {o} : notices'[q] = notices[q]
BY DEF Tell, NoticesTypeOK

\* Notices about something else than points.
LEMMA PointsQuiet ==
  ASSUME NEW o \in Orders, NEW kinds \in SUBSET Quiet, NoticesTypeOK,
         PointsTold(o), Tell(o, kinds), UNCHANGED accountVars
  PROVE  PointsTold(o)'
BY TellOne DEF PointsTold, Quiet, accountVars

\* The points and their notice come together.
LEMMA PointsEarned ==
  ASSUME NEW o \in Orders, NEW kinds \in SUBSET Quiet, NEW p \in Nat,
         NoticesTypeOK, AccountInv, PointsTold(o), Earn(o, p, kinds)
  PROVE  PointsTold(o)'
<1>1. /\ notices'[o] = notices[o] \cup kinds \cup EarnedTold(o, p)
      /\ AwardPoints(o, p)
  BY TellOne DEF Earn
<1>2. CASE Awardable(o, p)
  BY <1>1, <1>2
  DEF PointsTold, EarnedTold, Awardable, AwardPoints, Quiet, AccountInv, AccountTypeOK
<1>3. CASE ~Awardable(o, p)
  BY <1>1, <1>3 DEF PointsTold, EarnedTold, AwardPoints, Quiet, accountVars
<1> QED BY <1>2, <1>3

\* So do the reversal and its notice.
LEMMA PointsTakenBack ==
  ASSUME NEW o \in Orders, NEW kinds \in SUBSET Quiet, NoticesTypeOK, AccountInv,
         PointsTold(o), TakeBenefitsBack(o), Tell(o, kinds \cup ReversalTold(o))
  PROVE  PointsTold(o)'
<1>1. /\ notices'[o] = notices[o] \cup kinds \cup ReversalTold(o)
      /\ ReversePoints(o)
  BY TellOne DEF TakeBenefitsBack
<1>2. CASE Reversible(o)
  BY <1>1, <1>2
  DEF PointsTold, ReversalTold, Reversible, ReversePoints, Quiet, AccountInv,
      AccountTypeOK
<1>3. CASE ~Reversible(o)
  BY <1>1, <1>3 DEF PointsTold, ReversalTold, ReversePoints, Quiet, accountVars
<1> QED BY <1>2, <1>3

\* None of the kinds the handlers name is about points.
LEMMA QuietKinds ==
  /\ NewOrderTold \in SUBSET Quiet /\ CustomerCancelTold \in SUBSET Quiet
  /\ \A full : RefundTold(full) \in SUBSET Quiet
  /\ CollectedTold \in SUBSET Quiet
  /\ {} \in SUBSET Quiet
  /\ NewOrderTold \cup {"preparing"} \in SUBSET Quiet
BY DEF NewOrderTold, CustomerCancelTold, RefundTold, CollectedTold, Notices, Quiet

\* A handler of order o leaves the others' notices alone and o's right.
Tells(o) ==
  /\ StatusTold(o)' /\ PointsTold(o)'
  /\ detail' = detail
  /\ \A q \in Orders \ {o} :
       /\ notices'[q] = notices[q] /\ (q \in printJobs' <=> q \in printJobs)
       /\ LearntFromStripe(q) => LearntFromStripe(q)'

ToldTypes == StatusTypeOK /\ NoticesTypeOK /\ LedgerInv
WasTold(o) == StatusTold(o) /\ PointsTold(o)

\* Processed events stay processed.
Remembers == \A q \in Orders : LearntFromStripe(q) => LearntFromStripe(q)'

LEMMA StillLearnt == ASSUME UNCHANGED processed PROVE Remembers
BY DEF Remembers, LearntFromStripe

\* The automatic start announces the order it starts.
LEMMA AutoStartTells ==
  ASSUME NEW o \in Orders, NEW st, NEW pays, ToldTypes, WasTold(o),
         AutoStart(o, st, pays, NewOrderTold), UNCHANGED <<accountVars, detail>>,
         Remembers,
         st \in {"created", "paid"} \/ st = status[o]
  PROVE  Tells(o)
<1>1. PICK mode \in AutoStartModes, starts \in BOOLEAN :
        /\ status' = [status EXCEPT ![o] = IF starts THEN "preparing" ELSE st]
        /\ Tell(o, NewOrderTold \cup (IF starts THEN {"preparing"} ELSE {}))
        /\ printJobs' = IF starts /\ mode = "start_and_print"
                        THEN printJobs \cup {o} ELSE printJobs
  BY DEF AutoStart
<1> DEFINE kinds == NewOrderTold \cup (IF starts THEN {"preparing"} ELSE {})
<1>2. /\ notices'[o] = notices[o] \cup kinds
      /\ \A q \in Orders \ {o} : notices'[q] = notices[q]
  BY <1>1, TellOne DEF ToldTypes
<1>3. kinds \in SUBSET Quiet
  BY QuietKinds
<1>4. PointsTold(o)'
  BY <1>1, <1>3, PointsQuiet DEF WasTold, ToldTypes
<1>5. status'[o] = IF starts THEN "preparing" ELSE st
  BY <1>1 DEF ToldTypes, StatusTypeOK
<1>6. StatusTold(o)'
  BY <1>1, <1>2, <1>5 DEF StatusTold, WasTold, NewOrderTold, Active, InStore, Remembers
<1> QED BY <1>1, <1>2, <1>4, <1>6 DEF Tells, Remembers

\* A handler that moves the order to st, or leaves it, and says so.
Says(o, st, kinds) ==
  /\ st \in Active /\ st # status[o] =>
       st \in kinds /\ (InStore(o) \/ status[o] \in Active \cup {"paid"})
  /\ st = "paid" => status[o] = "paid"
  /\ st = "partially_refunded" /\ status[o] # st => "partially_refunded" \in kinds
  /\ st = "refunded" /\ status[o] # st => "refunded" \in kinds \/ LearntFromStripe(o)'
  /\ st = "cancelled" /\ status[o] # "cancelled" =>
       "cancelled" \in kinds \/ "customer_cancelled" \in kinds
  /\ InStore(o) => status[o] # "absent" \/ st = "absent"

\* A handler that sets the status and records the notices that go with
\* it.
LEMMA SaidIsTold ==
  ASSUME NEW o \in Orders, NEW st, NEW kinds, ToldTypes, WasTold(o),
         status' = [status EXCEPT ![o] = st], Says(o, st, kinds),
         \E more : Tell(o, kinds \cup more), PointsTold(o)',
         UNCHANGED <<detail, printJobs>>, Remembers
  PROVE  Tells(o)
<1>1. PICK more : Tell(o, kinds \cup more)
  OBVIOUS
<1>2. /\ notices'[o] = notices[o] \cup (kinds \cup more)
      /\ \A q \in Orders \ {o} : notices'[q] = notices[q]
  BY <1>1, TellOne DEF ToldTypes
<1>3. status'[o] = st /\ status[o] \in AllStatuses
  BY DEF ToldTypes, StatusTypeOK
<1>4. StatusTold(o)'
  BY <1>2, <1>3 DEF StatusTold, WasTold, Says, Active, InStore, Remembers
<1> QED BY <1>2, <1>4 DEF Tells, Remembers

\* The three things that can happen to the points meanwhile.
LEMMA SaysQuietly ==
  ASSUME NEW o \in Orders, NEW st, NEW kinds \in SUBSET Quiet, ToldTypes, WasTold(o),
         status' = [status EXCEPT ![o] = st], Says(o, st, kinds),
         Tell(o, kinds), UNCHANGED <<accountVars, detail, printJobs>>, Remembers
  PROVE  Tells(o)
<1>1. kinds = kinds \cup {}
  OBVIOUS
<1>2. PointsTold(o)'
  BY PointsQuiet DEF ToldTypes, WasTold
<1> QED BY <1>1, <1>2, SaidIsTold

\* It may award points as well.
LEMMA SaysEarned ==
  ASSUME NEW o \in Orders, NEW st, NEW kinds \in SUBSET Quiet, NEW p \in PointValues,
         ToldTypes, WasTold(o),
         status' = [status EXCEPT ![o] = st], Says(o, st, kinds),
         Earn(o, p, kinds), UNCHANGED <<detail, printJobs>>, Remembers
  PROVE  Tells(o)
<1>1. Tell(o, kinds \cup EarnedTold(o, p))
  BY DEF Earn
<1>2. PointsTold(o)'
  BY PointsEarned, RewardsAssumption DEF ToldTypes, WasTold, LedgerInv
<1> QED BY <1>1, <1>2, SaidIsTold

\* Or take the benefits back.
LEMMA SaysTakenBack ==
  ASSUME NEW o \in Orders, NEW st, NEW kinds \in SUBSET Quiet, ToldTypes, WasTold(o),
         status' = [status EXCEPT ![o] = st], Says(o, st, kinds),
         TakeBenefitsBack(o), Tell(o, kinds \cup ReversalTold(o)),
         UNCHANGED <<detail, printJobs>>, Remembers
  PROVE  Tells(o)
<1>1. PointsTold(o)'
  BY PointsTakenBack DEF ToldTypes, WasTold, LedgerInv
<1> QED BY <1>1, SaidIsTold

\* Steps that leave the status, the points and the notices alone.
LEMMA SaysNothing ==
  ASSUME NEW o \in Orders, ToldTypes, WasTold(o),
         UNCHANGED <<status, accountVars, detail, notices, printJobs>>, Remembers
  PROVE  Tells(o)
BY DEF Tells, WasTold, StatusTold, PointsTold, InStore, accountVars, Remembers

-----------------------------------------------------------------------------
\* POST /orders/create.
LEMMA CreateOrderTells ==
  ASSUME NEW o \in Orders, ToldTypes, WasTold(o),
         NEW v \in Vouchers \cup {NoVoucher}, CreateOrder(o, v)
  PROVE  Tells(o)
<1>0. Remembers
  BY StillLearnt DEF CreateOrder
<1>1. CASE InStore(o)
  BY <1>0, <1>1, AutoStartTells DEF CreateOrder, PlaceInStore
<1>2. CASE ~InStore(o)
  <2>1. /\ status' = [status EXCEPT ![o] = "created"]
        /\ UNCHANGED <<notices, printJobs, detail, accountVars>>
    BY <1>2 DEF CreateOrder
  <2>2. status[o] = "absent" /\ status'[o] = "created"
    BY <2>1 DEF CreateOrder, ToldTypes, StatusTypeOK
  <2> QED BY <1>0, <1>2, <2>1, <2>2 DEF Tells, WasTold, StatusTold, PointsTold,
             InStore, accountVars, Active, Remembers
<1> QED BY <1>1, <1>2

\* POST /payments/create.
LEMMA CreatePaymentTells ==
  ASSUME NEW o \in Orders, ToldTypes, WasTold(o), CreatePayment(o)
  PROVE  Tells(o)
BY SaysNothing, StillLearnt DEF CreatePayment, rewardsVars

\* POST /orders/cancel.
LEMMA CancelByCustomerTells ==
  ASSUME NEW o \in Orders, ToldTypes, WasTold(o), CancelByCustomer(o)
  PROVE  Tells(o)
<1>1. Says(o, "cancelled", CustomerCancelTold)
  BY DEF Says, CancelByCustomer, canCancelOrderStatus, CustomerCancelTold, Active
<1> QED BY <1>1, QuietKinds, SaysTakenBack, StillLearnt DEF CancelByCustomer

\* The webhook, which is about an online order.
LEMMA WebhookTells ==
  ASSUME NEW o \in Orders, ToldTypes, LogTypeOK, WasTold(o), NEW i \in Payments, NEW ev,
         Webhook(o, i, ev), ~InStore(o)
  PROVE  Tells(o)
<1>0. /\ Remembers
      /\ ev = "refunded" => LearntFromStripe(o)'
  <2>1. \A q \in Orders : processed[q] \subseteq processed'[q]
    BY DEF Webhook, LogTypeOK
  <2>2. <<i, ev>> \in processed'[o]
    BY DEF Webhook, LogTypeOK
  <2> QED BY <2>1, <2>2 DEF Remembers, LearntFromStripe
<1>1. CASE ev = "paid"
  <2>1. PaidStatus(o) \in {"created", "paid"} \/ PaidStatus(o) = status[o]
    BY DEF PaidStatus
  <2> QED BY <1>0, <1>1, <2>1, AutoStartTells DEF Webhook, rewardsVars
<1>2. CASE ev = "refunded"
  <2> DEFINE st == IF status[o] \in ClosedStatuses THEN status[o] ELSE "refunded"
  <2>1. status' = [status EXCEPT ![o] = st]
    BY <1>2 DEF Webhook, ToldTypes, StatusTypeOK
  <2>2. Says(o, st, {})
    BY <1>0, <1>2 DEF Says, ClosedStatuses, Active
  <2>3. /\ TakeBenefitsBack(o) /\ Tell(o, {} \cup ReversalTold(o))
        /\ UNCHANGED <<detail, printJobs>>
    BY <1>2 DEF Webhook
  <2> HIDE DEF st
  <2> QED BY <1>0, <2>1, <2>2, <2>3, QuietKinds, SaysTakenBack
<1>3. CASE ev = "failed"
  BY <1>0, <1>3, SaysNothing DEF Webhook, rewardsVars
<1> QED BY <1>1, <1>2, <1>3 DEF Webhook

\* POST /orders/status/update.
LEMMA UpdateStatusTells ==
  ASSUME NEW o \in Orders, ToldTypes, WasTold(o), NEW st, UpdateStatus(o, st)
  PROVE  Tells(o)
<1> DEFINE kinds == IF st = status[o] THEN {} ELSE {st}
           earns == st \in FulfilledStatuses /\ (InStore(o) => PaidInStore(o))
<1>1. /\ status' = [status EXCEPT ![o] = st]
      /\ UNCHANGED <<detail, printJobs>> /\ Remembers
      /\ st \in ORDER_STATUSES \ {"refunded", "partially_refunded"}
      /\ st = status[o] \/ st \in nextStatusesFor(o)
  BY StillLearnt DEF UpdateStatus, MayBecome
<1>2. \/ earns /\ \E p \in PointValues : Earn(o, p, kinds)
      \/ TakeBenefitsBack(o) /\ Tell(o, kinds \cup ReversalTold(o))
      \/ Tell(o, kinds) /\ UNCHANGED accountVars
  BY DEF UpdateStatus, rewardsVars
<1>3. kinds \in SUBSET Quiet
  BY <1>1 DEF nextStatusesFor, Quiet, Notices
<1>4. Says(o, st, kinds)
  BY <1>1 DEF Says, nextStatusesFor, ORDER_STATUSES, Active,
     isAwaitingInStoreCollection, PaidInStore
<1> HIDE DEF kinds
<1> QED BY <1>1, <1>2, <1>3, <1>4, SaysQuietly, SaysEarned, SaysTakenBack

\* POST /orders/in-store-payment/collect.
LEMMA CollectTells ==
  ASSUME NEW o \in Orders, ToldTypes, WasTold(o), CollectInStorePayment(o)
  PROVE  Tells(o)
<1>1. status' = [status EXCEPT ![o] = status[o]]
  BY DEF CollectInStorePayment, ToldTypes, StatusTypeOK
<1>2. Says(o, status[o], CollectedTold)
  <2>1. status[o] \notin {"absent", "partially_refunded", "refunded"}
    BY DEF CollectInStorePayment, Collectible, eligibleStatusesForCollection
  <2> QED BY <2>1 DEF Says
<1>3. \/ \E p \in PointValues : Earn(o, p, CollectedTold)
      \/ Tell(o, CollectedTold) /\ UNCHANGED accountVars
  BY DEF CollectInStorePayment
<1>4. UNCHANGED <<detail, printJobs>> /\ Remembers
  BY StillLearnt DEF CollectInStorePayment
<1> QED BY <1>1, <1>2, <1>3, <1>4, QuietKinds, SaysQuietly, SaysEarned

\* The latest of an order's payments.
LEMMA LatestIsPayment ==
  ASSUME NEW o \in Orders, PaymentsTypeOK, payments[o] # <<>>
  PROVE  Len(payments[o]) \in Payments
<1>1. payments[o] \in Seq(PaymentStatuses) /\ Len(payments[o]) <= MaxPayments
  BY DEF PaymentsTypeOK
<1>2. Len(payments[o]) \in Nat /\ Len(payments[o]) # 0
  BY <1>1, LenProperties, EmptySeq
<1> QED BY <1>1, <1>2, Bounds DEF Payments

\* POST /orders/payments/sync.
LEMMA SyncPaymentTells ==
  ASSUME NEW o \in Orders, ToldTypes, WasTold(o), DataTypeOK, NEW ps, SyncPayment(o,
         ps)
  PROVE  Tells(o)
<1> DEFINE refunded == SucceededAmount(SyncedRows(o, Len(payments[o])), Len(payments[o]))
           next == SyncedStatus(o, refunded, ps)
           kinds == IF refunded > 0 THEN RefundTold(next = "refunded") ELSE {}
<1>0. refunded \in Nat
  <2>1. SyncedRows(o, Len(payments[o])) \in SUBSET RefundRow
    BY LatestIsPayment, SyncedRowsType DEF DataTypeOK, SyncPayment, Syncable
  <2> QED BY <2>1, SucceededNat
<1>1. /\ UNCHANGED detail /\ Remembers
      /\ ~InStore(o)
      /\ \/ /\ AutoStart(o, next, payments'[o], NewOrderTold)
            /\ ~(refunded > 0) /\ ps = "paid" /\ UNCHANGED rewardsVars
         \/ /\ ~(refunded > 0) => ~(ps = "paid" /\ next = "paid")
            /\ status' = [status EXCEPT ![o] = next]
            /\ UNCHANGED printJobs
            /\ IF next = "refunded" /\ status[o] # "refunded"
               THEN TakeBenefitsBack(o) /\ Tell(o, RefundTold(TRUE) \cup ReversalTold(o))
               ELSE /\ Tell(o, kinds)
                    /\ UNCHANGED rewardsVars
  BY <1>0, StillLearnt DEF SyncPayment, Syncable
<1> HIDE DEF refunded
<1>2. CASE AutoStart(o, next, payments'[o], NewOrderTold)
           /\ ~(refunded > 0) /\ ps = "paid" /\ UNCHANGED rewardsVars
  <2>1. next \in {"created", "paid"} \/ next = status[o]
    BY <1>2 DEF SyncedStatus, PaidStatus
  <2> QED BY <1>1, <1>2, <2>1, AutoStartTells DEF rewardsVars
<1>3. ASSUME ~(refunded > 0) => ~(ps = "paid" /\ next = "paid"),
             status' = [status EXCEPT ![o] = next], UNCHANGED printJobs
      PROVE  Says(o, next, kinds)
  BY <1>1, <1>3 DEF Says, SyncedStatus, PaidStatus, RefundTold, Active
<1>4. kinds \in SUBSET Quiet
  BY QuietKinds
<1>5. next = "refunded" => Says(o, next, RefundTold(TRUE))
  BY <1>1 DEF Says, Active, RefundTold
<1> HIDE DEF next, kinds
<1> QED BY <1>1, <1>2, <1>3, <1>4, <1>5, QuietKinds, SaysTakenBack, SaysQuietly
           DEF rewardsVars

\* The refunds.  Only those that succeed speak.
LEMMA ApplyRefundTells ==
  ASSUME NEW o \in Orders, ToldTypes, WasTold(o), NEW i, NEW a, NEW st,
         ApplyRefund(o, i, a, st), UNCHANGED <<detail, printJobs>>, Remembers,
         InStore(o) => status[o] # "absent"
  PROVE  Tells(o)
<1> DEFINE full == isFullRefund(o, Refunded(o, i) + a)
           next == IF full THEN "refunded" ELSE "partially_refunded"
<1>1. CASE st = "succeeded"
  <2>1. /\ status' = [status EXCEPT ![o] = next]
        /\ \/ TakeBenefitsBack(o) /\ Tell(o, RefundTold(full) \cup ReversalTold(o))
           \/ Tell(o, RefundTold(full)) /\ UNCHANGED rewardsVars
    BY <1>1 DEF ApplyRefund
  <2>2. Says(o, next, RefundTold(full))
    BY DEF Says, RefundTold, Active
  <2> HIDE DEF next, full
  <2> QED BY <2>1, <2>2, QuietKinds, SaysTakenBack, SaysQuietly DEF rewardsVars
<1>2. CASE st # "succeeded"
  BY <1>2, SaysNothing DEF ApplyRefund, rewardsVars
<1> QED BY <1>1, <1>2

\* POST /orders/refund.
LEMMA RefundTells ==
  ASSUME NEW o \in Orders, ToldTypes, WasTold(o), RefundStep(o)
  PROVE  Tells(o)
<1>1. PICK i \in Payments :
        \/ RefundAlreadyDone(o, i)
        \/ \E a \in Amounts :
             \/ RefundInStore(o, i, a)
             \/ RefundRefused(o, i, a)
             \/ \E st \in RefundStates :
                  RefundOnline(o, i, a, st) \/ RefundReplyLost(o, i, a, st)
  BY DEF RefundStep
<1>2. ASSUME RefundTarget(o, i), InStore(o)
      PROVE  status[o] # "absent"
  BY <1>2 DEF RefundTarget, FulfilledStatuses
<1>3. CASE RefundAlreadyDone(o, i)
  <2>1. Says(o, "refunded", RefundTold(TRUE))
    BY <1>2, <1>3 DEF Says, RefundAlreadyDone, Active, RefundTold
  <2> QED BY <1>3, <2>1, QuietKinds, SaysTakenBack, StillLearnt DEF RefundAlreadyDone
<1>4. ASSUME NEW a \in Amounts, RefundInStore(o, i, a)
      PROVE  Tells(o)
  BY <1>2, <1>4, ApplyRefundTells, StillLearnt DEF RefundInStore, Refundable
<1>5. ASSUME NEW a \in Amounts, NEW st \in RefundStates, RefundOnline(o, i, a, st)
      PROVE  Tells(o)
  BY <1>5, ApplyRefundTells, StillLearnt DEF RefundOnline
<1>6. ASSUME NEW a \in Amounts, NEW st,
             RefundRefused(o, i, a) \/ RefundReplyLost(o, i, a, st)
      PROVE  Tells(o)
  BY <1>6, SaysNothing, StillLearnt DEF RefundRefused, RefundReplyLost, rewardsVars
<1> QED BY <1>1, <1>3, <1>4, <1>5, <1>6

\* Every step on an order.
LEMMA OrderStepTells ==
  ASSUME NEW o \in Orders, ToldTypes, BaseInv, WasTold(o), OrderStep(o)
  PROVE  Tells(o)
<1>0. DataTypeOK /\ Charged(o) /\ StripeTrue(o)
  BY DEF BaseInv
<1>1. CASE BuyerStep(o)
  BY <1>1, CreateOrderTells, CreatePaymentTells, CancelByCustomerTells DEF BuyerStep
<1>2. CASE MerchantStep(o)
  BY <1>0, <1>2, UpdateStatusTells, CollectTells, SyncPaymentTells, RefundTells
  DEF MerchantStep
<1>3. CASE WebhookStep(o)
  <2>1. PICK i \in Payments, ev \in EventTypes : Webhook(o, i, ev)
    BY <1>3 DEF WebhookStep
  <2>2. ~InStore(o)
    BY <1>0, <2>1 DEF Webhook, Charged, StripeTrue
  <2> QED BY <1>0, <2>1, <2>2, WebhookTells DEF DataTypeOK
<1>4. CASE ProviderStep(o)
  <2>1. UNCHANGED <<orderVars, rewardsVars>>
    BY <1>4 DEF ProviderStep, UnrecordedRefund
  <2> QED BY <2>1, SaysNothing, StillLearnt DEF orderVars, rewardsVars
<1> QED BY <1>1, <1>2, <1>3, <1>4 DEF OrderStep

\* ToldInv holds of the initial states.
LEMMA ToldInit == OrdersInit => ToldInv
<1> SUFFICES ASSUME OrdersInit PROVE ToldInv
  OBVIOUS
<1>1. ASSUME NEW o \in Orders
      PROVE  StatusTold(o) /\ PointsTold(o)
  BY DEF OrdersInit, RewardsInit, StatusTold, PointsTold, Active
<1> QED BY <1>1 DEF ToldInv

\* Every step keeps ToldInv.
LEMMA ToldStep == BaseInv /\ ToldInv /\ [OrdersNext]_vars => ToldInv'
<1> SUFFICES ASSUME BaseInv, ToldInv, [OrdersNext]_vars PROVE ToldInv'
  OBVIOUS
<1>1. ToldTypes /\ \A q \in Orders : WasTold(q)
  BY DEF BaseInv, OrdersInv, DataTypeOK, ToldTypes, ToldInv, WasTold
<1>2. ASSUME NEW o \in Orders, OrderStep(o), NEW q \in Orders
      PROVE  StatusTold(q)' /\ PointsTold(q)'
  <2>1. Tells(o)
    BY <1>1, <1>2, OrderStepTells
  <2>2. CASE q # o
    <3>1. status'[q] = status[q] /\ earnStatus'[q] = earnStatus[q]
      BY <1>2, <2>2, OrderStepBase
    <3> QED
      BY <1>1, <2>1, <2>2, <3>1 DEF Tells, WasTold, StatusTold, PointsTold, InStore
  <2> QED BY <2>1, <2>2 DEF Tells
<1>3. CASE ~\E o \in Orders : OrderStep(o)
  <2>1. UNCHANGED <<status, processed, notices, printJobs, detail, earnStatus>>
    BY <1>3, NoOrderStep DEF orderVars
  <2> QED BY <2>1 DEF ToldInv, StatusTold, PointsTold, InStore, LearntFromStripe
<1> QED BY <1>2, <1>3 DEF ToldInv

\* The notices go with the status, the receipt and the ledger.
THEOREM ToldInvariant == OrdersSpec => []ToldInv
BY BaseInvariant, ToldInit, ToldStep, PTL DEF OrdersSpec

\* For any orders, payments and automatic-start settings: no handler reaches a
\* status with a notice silently (services/buyer_notifications.js), but the
\* webhook that learns of a refund from Stripe.
THEOREM BuyerTold == OrdersSpec => []BuyerIsTold
<1>1. ToldInv => BuyerIsTold
  BY DEF ToldInv, StatusTold, PointsTold, BuyerIsTold, Active
<1> QED BY <1>1, ToldInvariant, PTL

(***************************************************************************)
(*                               In the store                              *)
(***************************************************************************)

InStorePays == {"awaiting_collection", "paid", "cancelled", "refunded"}

\* An order in the store with its one payment in p.
Agrees(o, p) ==
  /\ status[o] = "cancelled" <=> p = "cancelled"
  /\ p = "refunded" => status[o] = "refunded"
  /\ status[o] = "refunded" /\ Total(o) > 0 => p = "refunded"
  /\ status[o] = "partially_refunded" => p = "paid"
  /\ p = "awaiting_collection" => earnStatus[o] = "none"
  /\ status[o] \notin {"partially_refunded", "refunded"} \/ p = "awaiting_collection"
       => refundRows[o] = {}

InStoreTrue(o) ==
  InStore(o) =>
    IF status[o] = "absent" THEN earnStatus[o] = "none" /\ refundRows[o] = {}
    ELSE \E p \in InStorePays : payments[o] = <<p>> /\ Agrees(o, p)

BooksInv == \A o \in Orders : InStoreTrue(o)

\* The latest payment of an order with one payment.
LEMMA LatestOfOne ==
  ASSUME NEW o, NEW p, payments[o] = <<p>>
  PROVE  /\ \A st : LatestPaymentIs(o, st) <=> p = st
         /\ Len(payments[o]) = 1 /\ DOMAIN payments[o] = {1} /\ payments[o][1] = p
BY DEF LatestPaymentIs

\* The points of an order that has none are not touched by a reversal.
LEMMA NothingToReverse ==
  ASSUME NEW o \in Orders, LedgerInv, TakeBenefitsBack(o), earnStatus[o] = "none"
  PROVE  earnStatus'[o] = "none"
BY DEF TakeBenefitsBack, ReversePoints, Reversible, accountVars, LedgerInv,
       AccountInv, AccountTypeOK

\* POST /orders/create.
LEMMA CreateOrderBooks ==
  ASSUME NEW o \in Orders, BaseInv, InStore(o), InStoreTrue(o),
         NEW v \in Vouchers \cup {NoVoucher}, CreateOrder(o, v)
  PROVE  InStoreTrue(o)'
<1>1. /\ status[o] = "absent" /\ earnStatus[o] = "none" /\ refundRows[o] = {}
      /\ status'[o] \in {"created", "preparing"}
      /\ payments'[o] = <<"awaiting_collection">>
      /\ UNCHANGED <<refundRows, accountVars>>
  BY DEF CreateOrder, PlaceInStore, AutoStart, InStoreTrue, BaseInv, DataTypeOK,
         PaymentsTypeOK, OrdersInv, StatusTypeOK
<1>2. Agrees(o, "awaiting_collection")'
  BY <1>1 DEF Agrees, accountVars
<1> QED BY <1>1, <1>2 DEF InStoreTrue, InStorePays

\* The merchant or the buyer cancels.
LEMMA CancelBooks ==
  ASSUME NEW o \in Orders, BaseInv, InStore(o), InStoreTrue(o),
         status[o] \notin {"absent", "partially_refunded", "refunded"}, ~PaidInStore(o),
         status' = [status EXCEPT ![o] = "cancelled"],
         payments' = [payments EXCEPT ![o] =
           IF isAwaitingInStoreCollection(o) THEN <<"cancelled">> ELSE @],
         UNCHANGED <<detail, refundRows>>, TakeBenefitsBack(o)
  PROVE  InStoreTrue(o)'
<1>1. PICK p \in InStorePays : payments[o] = <<p>> /\ Agrees(o, p)
  BY DEF InStoreTrue
<1>2. p \in {"awaiting_collection", "cancelled"}
  BY <1>1, LatestOfOne DEF PaidInStore, Agrees, InStorePays
<1>3. payments'[o] = <<"cancelled">>
  BY <1>1, <1>2, LatestOfOne
  DEF isAwaitingInStoreCollection, BaseInv, DataTypeOK, PaymentsTypeOK
<1>4. status'[o] = "cancelled" /\ refundRows'[o] = {}
  BY <1>1 DEF Agrees, BaseInv, OrdersInv, StatusTypeOK
<1>5. Agrees(o, "cancelled")'
  BY <1>4 DEF Agrees
<1> QED BY <1>3, <1>4, <1>5 DEF InStoreTrue, InStorePays

\* POST /orders/cancel.
LEMMA CancelByCustomerBooks ==
  ASSUME NEW o \in Orders, BaseInv, InStore(o), InStoreTrue(o), CancelByCustomer(o)
  PROVE  InStoreTrue(o)'
BY CancelBooks DEF CancelByCustomer, canCancelOrderStatus

\* POST /orders/status/update.
LEMMA UpdateStatusBooks ==
  ASSUME NEW o \in Orders, BaseInv, InStore(o), InStoreTrue(o), NEW st,
         UpdateStatus(o, st)
  PROVE  InStoreTrue(o)'
<1>1. /\ status' = [status EXCEPT ![o] = st] /\ status'[o] = st
      /\ UNCHANGED <<detail, refundRows>>
      /\ st \in ORDER_STATUSES \ {"refunded", "partially_refunded"}
      /\ st = status[o] \/ st \in nextStatusesFor(o)
      /\ status[o] \notin {"absent", "refunded", "partially_refunded"}
      /\ status[o] = "cancelled" => st = "cancelled"
  BY DEF UpdateStatus, MayBecome, nextStatusesFor, BaseInv, OrdersInv, StatusTypeOK,
         ORDER_STATUSES
<1>2. PICK p \in InStorePays : payments[o] = <<p>> /\ Agrees(o, p)
  BY <1>1 DEF InStoreTrue
<1>3. CASE st = "cancelled"
  <2>1. /\ ~PaidInStore(o) /\ TakeBenefitsBack(o)
        /\ payments' = [payments EXCEPT ![o] =
             IF isAwaitingInStoreCollection(o) THEN <<"cancelled">> ELSE @]
    BY <1>3 DEF UpdateStatus, MayBecome, FulfilledStatuses
  <2> QED BY <1>1, <1>3, <2>1, CancelBooks
<1>4. CASE st # "cancelled"
  <2>1. payments'[o] = <<p>>
    BY <1>2, <1>4 DEF UpdateStatus
  <2>2. p = "awaiting_collection" => earnStatus'[o] = "none"
    <3>1. p = "awaiting_collection" => ~PaidInStore(o)
      BY <1>2, LatestOfOne DEF PaidInStore
    <3>2. p = "awaiting_collection" => UNCHANGED rewardsVars
      BY <1>4, <3>1 DEF UpdateStatus
    <3> QED BY <1>2, <3>2 DEF Agrees, rewardsVars, accountVars
  <2>3. Agrees(o, p)'
    BY <1>1, <1>2, <1>4, <2>2 DEF Agrees
  <2> QED BY <1>1, <2>1, <2>3 DEF InStoreTrue, ORDER_STATUSES
<1> QED BY <1>3, <1>4

\* POST /orders/in-store-payment/collect.
LEMMA CollectBooks ==
  ASSUME NEW o \in Orders, BaseInv, InStore(o), InStoreTrue(o),
         CollectInStorePayment(o)
  PROVE  InStoreTrue(o)'
<1>1. /\ payments' = [payments EXCEPT ![o] = <<"paid">>]
      /\ UNCHANGED <<detail, status, refundRows>>
      /\ LatestPaymentIs(o, "awaiting_collection")
      /\ status[o] \in {"created", "accepted", "preparing", "ready", "completed"}
  BY DEF CollectInStorePayment, Collectible, isAwaitingInStoreCollection,
         eligibleStatusesForCollection
<1>2. PICK p \in InStorePays : payments[o] = <<p>> /\ Agrees(o, p)
  BY <1>1 DEF InStoreTrue
<1>3. payments'[o] = <<"paid">>
  BY <1>1 DEF BaseInv, DataTypeOK, PaymentsTypeOK
<1>4. Agrees(o, "paid")'
  BY <1>1, <1>2 DEF Agrees
<1> QED BY <1>1, <1>3, <1>4 DEF InStoreTrue, InStorePays

\* Nothing is refunded twice in the store: the first refund takes the order
\* out of the statuses the handler accepts.
LEMMA RefundTargetBooks ==
  ASSUME NEW o \in Orders, BaseInv, InStore(o), InStoreTrue(o), NEW i,
         RefundTarget(o, i)
  PROVE  /\ i = 1 /\ payments[o] = <<"paid">> /\ Agrees(o, "paid")
         /\ refundRows[o] = {} /\ Refunded(o, i) = 0
         /\ status[o] \in FulfilledStatuses
<1>1. status[o] \in FulfilledStatuses
  BY DEF RefundTarget
<1>2. PICK p \in InStorePays : payments[o] = <<p>> /\ Agrees(o, p)
  BY <1>1 DEF InStoreTrue, FulfilledStatuses
<1>3. refundRows[o] = {} /\ p # "refunded"
  BY <1>1, <1>2 DEF Agrees, FulfilledStatuses
<1>4. i = 1 /\ p = "paid"
  BY <1>2, <1>3, LatestOfOne DEF RefundTarget, PaymentsIn
<1>5. Refunded(o, i) = 0
  <2>1. {r \in refundRows[o] : r.pay = i /\ r.status = "succeeded"} = {}
    BY <1>3
  <2> QED BY <2>1, AmountOfNothing DEF Refunded, SucceededAmount
<1> QED BY <1>1, <1>2, <1>3, <1>4, <1>5

\* POST /orders/refund.
LEMMA RefundBooks ==
  ASSUME NEW o \in Orders, BaseInv, InStore(o), InStoreTrue(o), RefundStep(o)
  PROVE  InStoreTrue(o)'
<1>1. PICK i \in Payments :
        RefundAlreadyDone(o, i) \/ \E a \in Amounts : RefundInStore(o, i, a)
  BY DEF RefundStep, RefundRefused, RefundOnline, RefundReplyLost
<1>2. RefundTarget(o, i)
  BY <1>1 DEF RefundAlreadyDone, RefundInStore, Refundable
<1>3. /\ i = 1 /\ payments[o] = <<"paid">> /\ Agrees(o, "paid")
      /\ refundRows[o] = {} /\ Refunded(o, i) = 0
  BY <1>2, RefundTargetBooks
<1>4. Total(o) \in Nat /\ UNCHANGED detail
  BY <1>1, TotalNat DEF BaseInv, RefundAlreadyDone, RefundInStore
<1>5. CASE RefundAlreadyDone(o, i)
  <2>1. Total(o) = 0
    BY <1>3, <1>4, <1>5 DEF RefundAlreadyDone, AlreadyRefunded, isFullRefund
  <2>2. status'[o] = "refunded" /\ payments'[o] = <<"paid">>
    BY <1>3, <1>5 DEF RefundAlreadyDone, BaseInv, OrdersInv, StatusTypeOK
  <2>3. Agrees(o, "paid")'
    BY <1>4, <2>1, <2>2 DEF Agrees, Total
  <2> QED BY <2>2, <2>3 DEF InStoreTrue, InStorePays
<1>6. ASSUME NEW a \in Amounts, RefundInStore(o, i, a)
      PROVE  InStoreTrue(o)'
  <2>1. PICK p \in {"refunded", "paid"}, st \in {"refunded", "partially_refunded"} :
          /\ p = "refunded" <=> st = "refunded"
          /\ payments' = [payments EXCEPT ![o][i] = p]
          /\ status' = [status EXCEPT ![o] = st]
    BY <1>6 DEF RefundInStore, ApplyRefund
  <2>2. payments'[o] = <<p>>
    <3>1. payments'[o] = [<<"paid">> EXCEPT ![1] = p]
      BY <1>3, <2>1 DEF BaseInv, DataTypeOK, PaymentsTypeOK
    <3> QED BY <3>1
  <2>3. status'[o] = st
    BY <2>1 DEF BaseInv, OrdersInv, StatusTypeOK
  <2>4. Agrees(o, p)'
    BY <2>1, <2>3 DEF Agrees
  <2> QED BY <2>1, <2>2, <2>3, <2>4 DEF InStoreTrue, InStorePays
<1> QED BY <1>1, <1>5, <1>6

\* Every step on an order in the store.
LEMMA OrderStepBooks ==
  ASSUME NEW o \in Orders, BaseInv, InStore(o), InStoreTrue(o), OrderStep(o)
  PROVE  InStoreTrue(o)'
<1>1. CASE BuyerStep(o)
  BY <1>1, CreateOrderBooks, CancelByCustomerBooks DEF BuyerStep, CreatePayment,
     Payable
<1>2. CASE MerchantStep(o)
  BY <1>2, UpdateStatusBooks, CollectBooks, RefundBooks
  DEF MerchantStep, SyncPayment, Syncable
<1>3. CASE WebhookStep(o)
  <2>1. PICK i \in Payments, ev \in EventTypes : Webhook(o, i, ev)
    BY <1>3 DEF WebhookStep
  <2> QED BY <2>1 DEF Webhook, BaseInv, Charged, StripeTrue
<1>4. CASE ProviderStep(o)
  <2>1. UNCHANGED <<orderVars, rewardsVars>>
    BY <1>4 DEF ProviderStep, UnrecordedRefund
  <2> QED
    BY <2>1 DEF orderVars, rewardsVars, accountVars, InStoreTrue, InStore, Agrees,
       Total
<1> QED BY <1>1, <1>2, <1>3, <1>4 DEF OrderStep

\* Every step keeps BooksInv.
LEMMA BooksStep == BaseInv /\ BooksInv /\ [OrdersNext]_vars => BooksInv'
<1> SUFFICES ASSUME BaseInv, BooksInv, [OrdersNext]_vars PROVE BooksInv'
  OBVIOUS
<1>1. ASSUME NEW o \in Orders, OrderStep(o), NEW q \in Orders
      PROVE  InStoreTrue(q)'
  <2>1. /\ detail' = detail
        /\ q # o => /\ payments'[q] = payments[q] /\ refundRows'[q] = refundRows[q]
                    /\ status'[q] = status[q] /\ earnStatus'[q] = earnStatus[q]
    BY <1>1, OrderStepBase DEF WritesOne
  <2>2. CASE q # o \/ ~InStore(q)
    BY <2>1, <2>2 DEF BooksInv, InStoreTrue, InStore, Agrees, Total
  <2>3. CASE q = o /\ InStore(o)
    BY <1>1, <2>3, OrderStepBooks DEF BooksInv
  <2> QED BY <2>2, <2>3
<1>2. CASE ~\E o \in Orders : OrderStep(o)
  <2>1. UNCHANGED <<detail, status, payments, refundRows, earnStatus>>
    BY <1>2, NoOrderStep DEF orderVars
  <2> QED BY <2>1 DEF BooksInv, InStoreTrue, InStore, Agrees, Total
<1> QED BY <1>1, <1>2 DEF BooksInv

\* BooksInv holds of the initial states.
LEMMA BooksInit == OrdersInit => BooksInv
BY DEF OrdersInit, RewardsInit, BooksInv, InStoreTrue

\* The one payment of an order in the store agrees with its status.
THEOREM BooksInvariant == OrdersSpec => []BooksInv
BY BaseInvariant, BooksInit, BooksStep, PTL DEF OrdersSpec

\* The order and its in-store payment tell one story, whichever of the
\* buyer, the merchant and the refunds wrote them.
THEOREM BooksAgree == OrdersSpec => []InStoreBooksAgree
<1>1. BooksInv => InStoreBooksAgree
  <2> SUFFICES ASSUME BooksInv, NEW o \in InStoreOrders
      PROVE /\ Len(payments[o]) = 1
            /\ status[o] = "cancelled" <=> LatestPaymentIs(o, "cancelled")
            /\ LatestPaymentIs(o, "refunded") => status[o] = "refunded"
            /\ status[o] = "refunded" /\ Total(o) > 0 => LatestPaymentIs(o, "refunded")
            /\ status[o] = "partially_refunded" => LatestPaymentIs(o, "paid")
            /\ isAwaitingInStoreCollection(o) =>
                 earnStatus[o] = "none" /\ refundRows[o] = {}
    BY DEF InStoreBooksAgree
  <2>1. PICK p \in InStorePays : payments[o] = <<p>> /\ Agrees(o, p)
    BY DEF BooksInv, InStoreTrue, InStoreOrders
  <2> QED BY <2>1, LatestOfOne DEF Agrees, isAwaitingInStoreCollection
<1> QED BY <1>1, BooksInvariant, PTL

(***************************************************************************)
(*                        The money of online orders                       *)
(***************************************************************************)

Captured(o, i) == charge[o][i] = "captured"
Full(o, i) == PaidBack(refunds[o], i) = Total(o)

\* The rows counted as succeeded are among the refunds rs that Stripe holds.
RowsAre(rs, rows) ==
  \A r \in rows : r.status = "succeeded" =>
    /\ r.ref \in DOMAIN rs
    /\ rs[r.ref].pay = r.pay
    /\ rs[r.ref].amount = r.amount
    /\ rs[r.ref].status = "succeeded"

\* What the payments, the refund rows and the status of an online order claim.
PaymentsTrue(o) ==
  \A i \in DOMAIN payments[o] :
    /\ payments[o][i] \in {"paid", "refunded"} => Captured(o, i)
    /\ payments[o][i] = "refunded" => Full(o, i)
RowsTrue(o) == RowsAre(refunds[o], refundRows[o])
StatusTrue(o) ==
  /\ status[o] \notin {"absent", "created", "cancelled"} =>
       \E i \in Payments : Captured(o, i)
  /\ status[o] = "refunded" => \E i \in Payments : Full(o, i)

MoneyTrue(o) == ~InStore(o) => PaymentsTrue(o) /\ RowsTrue(o) /\ StatusTrue(o)

MoneyInv == \A o \in Orders : MoneyTrue(o)

-----------------------------------------------------------------------------
\* Rows that are refunds add up to no more than Stripe paid back: each has its
\* own refund, the one its provider_refund_id names.
LEMMA RowsAddUp ==
  ASSUME NEW o \in Orders, StripeTypeOK, NEW rows \in SUBSET RefundRow,
         RowsAre(refunds[o], rows), NEW i
  PROVE  SucceededAmount(rows, i) <= PaidBack(refunds[o], i)
<1> DEFINE S == {r \in rows : r.pay = i /\ r.status = "succeeded"}
           T == RefundIds(refunds[o], i, {"succeeded"})
           w == [r \in RefundRow |-> r.amount]
           v == [k \in DOMAIN refunds[o] |-> refunds[o][k].amount]
           e == [r \in S |-> r.ref]
<1>1. refunds[o] \in Seq(StripeRefund)
  BY DEF StripeTypeOK
<1>2. S \in SUBSET RefundRow /\ IsFiniteSet(S)
  <2>1. S \in SUBSET RefundRow
    OBVIOUS
  <2> HIDE DEF S
  <2> QED BY <2>1, AmountNat
<1>3. SucceededAmount(rows, i) = Sum(w, S)
  <2>1. \A r \in S : w[r] = r.amount
    BY <1>2
  <2>2. SucceededAmount(rows, i) = Amount(S)
    BY DEF SucceededAmount
  <2> HIDE DEF S, w
  <2> QED BY <1>2, <2>1, <2>2, AmountIsSum
<1>4. PaidBack(refunds[o], i) = Sum(v, T) /\ IsFiniteSet(T)
  BY <1>1, IdsAreIndices, RefundAmounts DEF PaidBack
<1>5. \A k \in T : v[k] \in Nat
  BY <1>1, RefundsDomain DEF RefundIds
<1>6. ASSUME NEW r \in S
      PROVE  w[r] \in Nat /\ e[r] \in T /\ w[r] <= v[e[r]]
  <2>1. r.ref \in T /\ v[r.ref] = r.amount
    BY DEF RowsAre, RefundIds
  <2>2. w[r] = r.amount /\ r.amount \in Nat
    BY <1>2, Bounds DEF RefundRow
  <2> QED BY <2>1, <2>2
<1>7. ASSUME NEW r \in S, NEW s \in S, e[r] = e[s]
      PROVE  r = s
  <2>1. r.ref = s.ref /\ r.pay = s.pay /\ r.status = s.status
    BY <1>7
  <2>2. r.amount = s.amount
    BY <2>1 DEF RowsAre
  <2> QED BY <1>2, <2>1, <2>2 DEF RefundRow
<1> HIDE DEF S, T, w, v, e
<1> QED BY <1>2, <1>3, <1>4, <1>5, <1>6, <1>7, SumEmbeds

\* What is paid back is at most the total; if it is anything, or the total is,
\* there is a captured charge.
LEMMA PaidBackBounds ==
  ASSUME NEW o \in Orders, BaseInv, NEW i \in Payments
  PROVE  /\ PaidBack(refunds[o], i) \in Nat
         /\ PaidBack(refunds[o], i) <= Total(o)
         /\ PaidBack(refunds[o], i) > 0 => Captured(o, i)
<1>1. refunds[o] \in Seq(StripeRefund) /\ StripeTrue(o) /\ Total(o) \in Nat
  BY TotalNat DEF BaseInv, DataTypeOK, StripeTypeOK
<1>2. /\ PaidBack(refunds[o], i) \in Nat /\ Promised(refunds[o], i) \in Nat
      /\ PaidBack(refunds[o], i) <= Promised(refunds[o], i)
      /\ (\A k \in DOMAIN refunds[o] : refunds[o][k].pay # i) => PaidBack(refunds[o], i) = 0
  BY <1>1, PaidBackIsPromised
<1>3. Promised(refunds[o], i) <= Total(o)
  BY <1>1 DEF StripeTrue
<1>4. PaidBack(refunds[o], i) > 0 => Captured(o, i)
  BY <1>1, <1>2 DEF StripeTrue, Captured
<1> QED BY <1>1, <1>2, <1>3, <1>4

\* Rows that reach the total of an order with something to pay.
LEMMA FullRows ==
  ASSUME NEW o \in Orders, BaseInv, NEW rows \in SUBSET RefundRow,
         RowsAre(refunds[o], rows),
         NEW i \in Payments
  PROVE  /\ SucceededAmount(rows, i) \in Nat
         /\ isFullRefund(o, SucceededAmount(rows, i)) => Full(o, i)
         /\ SucceededAmount(rows, i) > 0 => Captured(o, i)
         /\ Total(o) > 0 /\ Full(o, i) => Captured(o, i)
<1>1. SucceededAmount(rows, i) <= PaidBack(refunds[o], i)
  BY RowsAddUp DEF BaseInv, DataTypeOK
<1>2. SucceededAmount(rows, i) \in Nat /\ Total(o) \in Nat
  BY SucceededNat, TotalNat DEF BaseInv
<1> QED BY <1>1, <1>2, PaidBackBounds DEF isFullRefund, Full

\* An online payment means that there is something to pay.
LEMMA SomethingToPay ==
  ASSUME NEW o \in Orders, BaseInv, ~InStore(o), NEW i \in DOMAIN payments[o]
  PROVE  Total(o) > 0 /\ i \in Payments
<1>1. i \in Payments /\ i \in 1..Len(payments[o]) /\ Len(payments[o]) \in Nat
  BY PaymentCount DEF BaseInv, DataTypeOK
<1>2. Len(payments[o]) > 0
  BY <1>1
<1> QED BY <1>1, <1>2 DEF BaseInv, Charged

-----------------------------------------------------------------------------
\* What was true of the money stays true while a step goes on.
Kept(o) ==
  /\ detail' = detail
  /\ \A i \in Payments :
       (Captured(o, i) => Captured(o, i)') /\ (Full(o, i) => Full(o, i)')
  /\ RowsAre(refunds'[o], refundRows[o])

\* What Stripe has captured and paid back in full stays so, and the rows
\* stay real.
LEMMA MoneyKept ==
  ASSUME NEW o \in Orders, BaseInv, RowsTrue(o), OrderStep(o)
  PROVE  Kept(o)
<1>1. detail' = detail /\ StripeKeeps(o) /\ StripeTrue(o)'
  BY OrderStepBase DEF WritesOne
<1>2. ASSUME NEW i \in Payments
      PROVE  (Captured(o, i) => Captured(o, i)') /\ (Full(o, i) => Full(o, i)')
  <2>1. Captured(o, i) => Captured(o, i)'
    BY <1>1 DEF StripeKeeps, Captured
  <2>2. ASSUME Full(o, i) PROVE Full(o, i)'
    <3>1. refunds[o] \in Seq(StripeRefund) /\ refunds'[o] \in Seq(StripeRefund)
      <4>1. DataTypeOK'
        BY DataStep DEF BaseInv, OrdersNext
      <4> QED BY <4>1 DEF BaseInv, DataTypeOK, StripeTypeOK
    <3>2. /\ PaidBack(refunds[o], i) = Total(o)
          /\ PaidBack(refunds[o], i) <= PaidBack(refunds'[o], i)
          /\ Promised(refunds'[o], i) <= Total(o)
      BY <1>1, <2>2 DEF StripeKeeps, StripeTrue, Full, Total
    <3>3. Total(o) \in Nat
      BY TotalNat DEF BaseInv
    <3>4. PaidBack(refunds'[o], i) = Total(o)
      BY <3>1, <3>2, <3>3, FullStaysFull
    <3> QED BY <1>1, <3>4 DEF Full, Total
  <2> QED BY <2>1, <2>2
<1>3. RowsAre(refunds'[o], refundRows[o])
  BY <1>1 DEF StripeKeeps, RowsTrue, RowsAre
<1> QED BY <1>1, <1>2, <1>3 DEF Kept

\* The three claims, when their rows are left alone or written.
LEMMA PaymentsKept ==
  ASSUME NEW o \in Orders, BaseInv, PaymentsTrue(o), Kept(o),
         payments'[o] = payments[o]
  PROVE  PaymentsTrue(o)'
BY PaymentCount DEF PaymentsTrue, Kept, BaseInv, DataTypeOK

\* One payment is written.
LEMMA PaymentSet ==
  ASSUME NEW o \in Orders, BaseInv, PaymentsTrue(o), Kept(o),
         NEW i, NEW st, payments' = [payments EXCEPT ![o][i] = st],
         st \in {"paid", "refunded"} => Captured(o, i)',
         st = "refunded" => Full(o, i)'
  PROVE  PaymentsTrue(o)'
BY PaymentUpdated, PaymentCount DEF PaymentsTrue, Kept, BaseInv, DataTypeOK

\* No refund row is written.
LEMMA RowsKept ==
  ASSUME NEW o \in Orders, Kept(o), refundRows'[o] = refundRows[o]
  PROVE  RowsTrue(o)'
BY DEF Kept, RowsTrue

\* The status stays, or becomes one that claims nothing.
LEMMA StatusKept ==
  ASSUME NEW o \in Orders, StatusTrue(o), Kept(o),
         \/ status'[o] = status[o]
         \/ status'[o] \in {"absent", "created", "cancelled"}
  PROVE  StatusTrue(o)'
BY DEF Kept, StatusTrue

\* The status may claim what a charge shows.
LEMMA StatusSet ==
  ASSUME NEW o \in Orders, NEW i \in Payments, Captured(o, i)',
         status'[o] # "refunded" \/ Full(o, i)'
  PROVE  StatusTrue(o)'
BY DEF StatusTrue

\* The automatic start.
LEMMA AutoStartStatus ==
  ASSUME NEW o \in Orders, StatusTypeOK, NEW st, NEW pays, NEW told,
         AutoStart(o, st, pays, told)
  PROVE  status'[o] \in {st, "preparing"}
BY DEF AutoStart, StatusTypeOK

-----------------------------------------------------------------------------
\* The handlers, for an online order.
OnlineStep(o) ==
  /\ BaseInv /\ ~InStore(o) /\ Kept(o)
  /\ PaymentsTrue(o) /\ RowsTrue(o) /\ StatusTrue(o)
ClaimsTrue(o) == PaymentsTrue(o) /\ RowsTrue(o) /\ StatusTrue(o)

\* A step that writes neither payments nor refund rows.
LEMMA QuietMoney ==
  ASSUME NEW o \in Orders, OnlineStep(o), UNCHANGED <<payments, refundRows>>,
         \/ status'[o] = status[o]
         \/ status'[o] \in {"absent", "created", "cancelled"}
  PROVE  ClaimsTrue(o)'
BY PaymentsKept, RowsKept, StatusKept DEF OnlineStep, ClaimsTrue

\* POST /orders/create.
LEMMA CreateOrderMoney ==
  ASSUME NEW o \in Orders, OnlineStep(o), NEW v, CreateOrder(o, v)
  PROVE  ClaimsTrue(o)'
<1>1. status'[o] = "created" /\ UNCHANGED <<payments, refundRows>>
  BY DEF CreateOrder, OnlineStep, BaseInv, OrdersInv, StatusTypeOK
<1> QED BY <1>1, QuietMoney

\* POST /payments/create: a new payment claims nothing yet.
LEMMA CreatePaymentMoney ==
  ASSUME NEW o \in Orders, OnlineStep(o), CreatePayment(o)
  PROVE  ClaimsTrue(o)'
<1>1. /\ payments[o] \in Seq(PaymentStatuses) /\ "pending" \in PaymentStatuses
      /\ payments'[o] = Append(payments[o], "pending")
      /\ UNCHANGED <<status, refundRows>>
  BY DEF CreatePayment, OnlineStep, BaseInv, DataTypeOK, PaymentsTypeOK,
     PaymentStatuses
<1>2. /\ Len(payments[o]) \in Nat /\ DOMAIN payments[o] = 1..Len(payments[o])
      /\ DOMAIN payments[o] \subseteq Payments
  BY PaymentCount DEF OnlineStep, BaseInv, DataTypeOK
<1>3. /\ Len(payments'[o]) = Len(payments[o]) + 1
      /\ DOMAIN payments'[o] = 1..Len(payments'[o])
      /\ payments'[o][Len(payments[o]) + 1] = "pending"
      /\ \A i \in 1..Len(payments[o]) : payments'[o][i] = payments[o][i]
  <2>1. Append(payments[o], "pending") \in Seq(PaymentStatuses)
    BY <1>1, AppendProperties
  <2> QED BY <1>1, <2>1, AppendProperties, LenProperties
<1>4. \A i \in DOMAIN payments'[o] :
        \/ payments'[o][i] = "pending"
        \/ i \in DOMAIN payments[o] /\ payments'[o][i] = payments[o][i]
  BY <1>2, <1>3
<1>5. PaymentsTrue(o)'
  BY <1>2, <1>4 DEF PaymentsTrue, OnlineStep, Kept
<1> QED BY <1>1, <1>5, RowsKept, StatusKept DEF OnlineStep, ClaimsTrue

\* POST /orders/cancel.
LEMMA CancelByCustomerMoney ==
  ASSUME NEW o \in Orders, OnlineStep(o), CancelByCustomer(o)
  PROVE  ClaimsTrue(o)'
<1>1. ~isAwaitingInStoreCollection(o)
  BY DEF OnlineStep, isAwaitingInStoreCollection
<1>2. UNCHANGED <<payments, refundRows>> /\ status'[o] = "cancelled"
  BY <1>1 DEF CancelByCustomer, OnlineStep, BaseInv, DataTypeOK, PaymentsTypeOK,
         OrdersInv, StatusTypeOK
<1> QED BY <1>2, QuietMoney

\* The webhook: an event, however late, tells of a charge that was
\* captured, or paid back in full, and stays so.
LEMMA WebhookMoney ==
  ASSUME NEW o \in Orders, OnlineStep(o), NEW i \in Payments, NEW ev \in EventTypes,
         Webhook(o, i, ev)
  PROVE  ClaimsTrue(o)'
<1>1. /\ payments' = [payments EXCEPT ![o][i] = ev]
      /\ UNCHANGED refundRows /\ <<i, ev>> \in events[o]
  BY DEF Webhook
<1>2. /\ ev \in {"paid", "refunded"} => Captured(o, i)'
      /\ ev = "refunded" => Full(o, i)'
  BY <1>1 DEF OnlineStep, BaseInv, StripeTrue, Kept, Captured, Full
<1>3. PaymentsTrue(o)' /\ RowsTrue(o)'
  BY <1>1, <1>2, PaymentSet, RowsKept DEF OnlineStep
<1>4. StatusTrue(o)'
  <2>1. CASE ev = "paid"
    BY <2>1, <1>2, AutoStartStatus, StatusKept, StatusSet
    DEF Webhook, OnlineStep, PaidStatus, BaseInv, OrdersInv
  <2>2. CASE ev = "refunded"
    <3>1. status'[o] = status[o] \/ status'[o] = "refunded"
      BY <2>2 DEF Webhook, OnlineStep, BaseInv, OrdersInv, StatusTypeOK
    <3> QED BY <2>2, <3>1, <1>2, StatusKept, StatusSet DEF OnlineStep
  <2>3. CASE ev = "failed"
    BY <2>3, StatusKept DEF Webhook, OnlineStep
  <2> QED BY <2>1, <2>2, <2>3 DEF EventTypes
<1> QED BY <1>3, <1>4 DEF ClaimsTrue

\* POST /orders/status/update goes on from a status that was paid.
LEMMA UpdateStatusMoney ==
  ASSUME NEW o \in Orders, OnlineStep(o), NEW st, UpdateStatus(o, st)
  PROVE  ClaimsTrue(o)'
<1>1. ~isAwaitingInStoreCollection(o) /\ ~PaidInStore(o)
  BY DEF OnlineStep, isAwaitingInStoreCollection, PaidInStore
<1>2. UNCHANGED <<payments, refundRows>> /\ status'[o] = st
  BY <1>1 DEF UpdateStatus, OnlineStep, BaseInv, DataTypeOK, PaymentsTypeOK,
         OrdersInv, StatusTypeOK
<1>3. /\ st # "refunded" \/ st = status[o]
      /\ \/ st = status[o] \/ st = "cancelled"
         \/ status[o] \notin {"absent", "created", "cancelled"}
  BY <1>1 DEF UpdateStatus, MayBecome, nextStatusesFor
<1>4. StatusTrue(o)'
  BY <1>2, <1>3 DEF OnlineStep, StatusTrue, Kept
<1> QED BY <1>2, <1>4, PaymentsKept, RowsKept DEF OnlineStep, ClaimsTrue

\* A sync copies what Stripe holds.
LEMMA SyncedRowsAre ==
  ASSUME NEW o \in Orders, RowsTrue(o), NEW i
  PROVE  RowsAre(refunds[o], SyncedRows(o, i))
<1> DEFINE ids == RefundIds(refunds[o], i, RefundStates)
<1>1. ASSUME NEW r \in SyncedRows(o, i)
      PROVE  \/ r \in refundRows[o]
             \/ \E k \in ids : r = [pay |-> i, amount |-> refunds[o][k].amount,
                                    status |-> refunds[o][k].status, ref |-> k]
  BY DEF SyncedRows
<1>2. \A k \in ids : k \in DOMAIN refunds[o] /\ refunds[o][k].pay = i
  BY DEF RefundIds
<1> HIDE DEF ids
<1> QED BY <1>1, <1>2 DEF RowsAre, RowsTrue

\* POST /orders/payments/sync.
LEMMA SyncPaymentMoney ==
  ASSUME NEW o \in Orders, OnlineStep(o), NEW ps, SyncPayment(o, ps)
  PROVE  ClaimsTrue(o)'
<1> DEFINE n == Len(payments[o])
           rows == SyncedRows(o, n)
           amount == SucceededAmount(rows, n)
<1>1. PICK i \in Payments : i = n /\ i \in DOMAIN payments[o]
  <2>1. payments[o] # <<>>
    BY DEF SyncPayment, Syncable
  <2>2. n \in Payments
    BY <2>1, LatestIsPayment DEF OnlineStep, BaseInv, DataTypeOK
  <2>3. DOMAIN payments[o] = 1..n /\ n \in Nat
    BY PaymentCount DEF OnlineStep, BaseInv, DataTypeOK
  <2> QED BY <2>2, <2>3 DEF Payments
<1>2. /\ rows \in SUBSET RefundRow /\ RowsAre(refunds[o], rows)
      /\ UNCHANGED refunds /\ refundRows'[o] = rows
  BY <1>1, SyncedRowsType, SyncedRowsAre
  DEF OnlineStep, BaseInv, DataTypeOK, RowsTypeOK, SyncPayment, stripeVars
<1>3. RowsTrue(o)'
  BY <1>2 DEF RowsTrue
<1>4. /\ amount \in Nat
      /\ isFullRefund(o, amount) => Full(o, i) /\ Captured(o, i)
      /\ amount > 0 => Captured(o, i)
  BY <1>1, <1>2, FullRows, SomethingToPay DEF OnlineStep
<1>5. ps = "paid" => Captured(o, i)
  BY <1>1 DEF SyncPayment, ProviderStatuses, Captured
<1>6. /\ Captured(o, i) => Captured(o, i)'
      /\ Full(o, i) => Full(o, i)'
  BY DEF OnlineStep, Kept
<1>7. PICK st : /\ payments' = [payments EXCEPT ![o][i] = st]
                /\ st = IF isFullRefund(o, amount) THEN "refunded" ELSE ps
  BY <1>1 DEF SyncPayment
<1>8. ps # "refunded"
  <2>1. ps \in ProviderStatuses(charge[o][n])
    BY DEF SyncPayment
  <2>2. ProviderStatuses(charge[o][n]) \subseteq {"paid", "failed", "cancelled", "pending"}
    BY DEF ProviderStatuses
  <2> QED BY <2>1, <2>2
<1>9. PaymentsTrue(o)'
  <2>1. (st = "refunded" => Full(o, i)') /\ (st \in {"paid", "refunded"} => Captured(o, i)')
    BY <1>4, <1>5, <1>6, <1>7, <1>8
  <2> QED BY <1>7, <2>1, PaymentSet DEF OnlineStep
<1>10. PICK next :
         /\ next = SyncedStatus(o, amount, ps)
         /\ status'[o] \in {next, "preparing"}
         /\ status'[o] # next => ps = "paid"
  <2>1. \/ /\ ps = "paid"
           /\ AutoStart(o, SyncedStatus(o, amount, ps), payments'[o], NewOrderTold)
        \/ status' = [status EXCEPT ![o] = SyncedStatus(o, amount, ps)]
    BY DEF SyncPayment
  <2> QED BY <2>1, AutoStartStatus DEF OnlineStep, BaseInv, OrdersInv, StatusTypeOK
<1> HIDE DEF n, rows, amount
<1>11. StatusTrue(o)'
  <2>1. CASE Captured(o, i) /\ (next # "refunded" \/ Full(o, i))
    BY <1>6, <1>10, <2>1, StatusSet
  <2>2. CASE ~(amount > 0)
    BY <1>5, <1>6, <1>10, <2>2, StatusSet, StatusKept DEF SyncedStatus, PaidStatus,
       OnlineStep
  <2>3. CASE amount > 0
    BY <1>4, <2>1, <2>3, <1>10 DEF SyncedStatus
  <2> QED BY <2>2, <2>3
<1> QED BY <1>3, <1>9, <1>11 DEF ClaimsTrue

-----------------------------------------------------------------------------
\* A payment to refund is one of the order's.
LEMMA RefundTargetIs ==
  ASSUME NEW o \in Orders, OnlineStep(o), NEW i, RefundTarget(o, i)
  PROVE  /\ i \in DOMAIN payments[o] /\ i \in Payments
         /\ Total(o) \in Nat /\ Total(o) > 0 /\ Captured(o, i)
         /\ refundRows[o] \in SUBSET RefundRow
<1>1. i \in DOMAIN payments[o] /\ payments[o][i] \in {"paid", "refunded"}
  BY DEF RefundTarget, PaymentsIn
<1>2. Captured(o, i)
  BY <1>1 DEF OnlineStep, PaymentsTrue
<1>3. refundRows[o] \in SUBSET RefundRow
  BY DEF OnlineStep, BaseInv, DataTypeOK, RowsTypeOK
<1> QED BY <1>1, <1>2, <1>3, SomethingToPay, TotalNat DEF OnlineStep, BaseInv

\* A refund of what has been refunded: only the order follows.
LEMMA RefundAlreadyDoneMoney ==
  ASSUME NEW o \in Orders, OnlineStep(o), NEW i \in Payments, RefundAlreadyDone(o, i)
  PROVE  ClaimsTrue(o)'
<1>1. /\ RefundTarget(o, i) /\ AlreadyRefunded(o, i)
      /\ UNCHANGED <<payments, refundRows>>
  BY DEF RefundAlreadyDone
<1>2. i \in DOMAIN payments[o] /\ refundRows[o] \in SUBSET RefundRow /\ Captured(o, i)
  BY <1>1, RefundTargetIs
<1>3. Full(o, i)
  <2>1. payments[o][i] = "refunded" => Full(o, i)
    BY <1>2 DEF OnlineStep, PaymentsTrue
  <2>2. isFullRefund(o, Refunded(o, i)) => Full(o, i)
    BY <1>2, FullRows DEF Refunded, OnlineStep, RowsTrue
  <2> QED BY <1>1, <2>1, <2>2 DEF AlreadyRefunded
<1>4. Captured(o, i)' /\ Full(o, i)'
  BY <1>2, <1>3 DEF OnlineStep, Kept
<1> QED BY <1>1, <1>4, PaymentsKept, RowsKept, StatusSet DEF OnlineStep, ClaimsTrue

\* A row that failed counts for nothing.
LEMMA FailedRow ==
  ASSUME NEW o \in Orders, OnlineStep(o), NEW i, NEW a, InsertRow(o, i, a, "failed",
         0)
  PROVE  RowsTrue(o)'
<1> DEFINE row == [pay |-> i, amount |-> a, status |-> "failed", ref |-> 0]
<1>1. refundRows'[o] = refundRows[o] \cup {row} /\ row.status = "failed"
  BY DEF InsertRow, OnlineStep, BaseInv, DataTypeOK, RowsTypeOK
<1> HIDE DEF row
<1> QED BY <1>1 DEF RowsTrue, RowsAre, OnlineStep, Kept

\* A refund whose answer is a refusal, or is lost.
LEMMA RefundUnrecordedMoney ==
  ASSUME NEW o \in Orders, OnlineStep(o), NEW i \in Payments, NEW a \in Amounts,
         RefundRefused(o, i, a) \/ \E st \in RefundStates : RefundReplyLost(o, i, a, st)
  PROVE  ClaimsTrue(o)'
<1>1. InsertRow(o, i, a, "failed", 0) /\ UNCHANGED <<status, payments>>
  BY DEF RefundRefused, RefundReplyLost
<1> QED BY <1>1, FailedRow, PaymentsKept, StatusKept DEF OnlineStep, ClaimsTrue

\* A refund that Stripe has accepted has its own row.
LEMMA RefundOnlineMoney ==
  ASSUME NEW o \in Orders, OnlineStep(o), BaseInv', NEW i \in Payments,
         NEW a \in Amounts,
         NEW st \in RefundStates, RefundOnline(o, i, a, st)
  PROVE  ClaimsTrue(o)'
<1> DEFINE rs == refunds[o]
           r == [pay |-> i, amount |-> a, status |-> st]
           n == Len(rs) + 1
           row == [pay |-> i, amount |-> a, status |-> st, ref |-> n]
           full == isFullRefund(o, Refunded(o, i) + a)
<1>1. /\ RefundTarget(o, i) /\ AcceptRefund(o, i, a, st, Total(o))
      /\ InsertRow(o, i, a, st, n) /\ ApplyRefund(o, i, a, st)
      /\ detail' = detail
  BY DEF RefundOnline, Refundable
<1>2. /\ i \in DOMAIN payments[o] /\ refundRows[o] \in SUBSET RefundRow
      /\ Total(o) \in Nat /\ Total(o) > 0 /\ Captured(o, i)
  BY <1>1, RefundTargetIs
<1>3. rs \in Seq(StripeRefund) /\ r \in StripeRefund /\ a \in Nat
  <2>1. rs \in Seq(StripeRefund)
    BY DEF OnlineStep, BaseInv, DataTypeOK, StripeTypeOK
  <2>2. r \in StripeRefund /\ a \in Nat
    BY Bounds DEF StripeRefund, Amounts
  <2> QED BY <2>1, <2>2
<1>4. refunds'[o] = Append(rs, r)
  BY <1>1 DEF AcceptRefund, OnlineStep, BaseInv, DataTypeOK, StripeTypeOK
<1>5. n \in DOMAIN refunds'[o] /\ refunds'[o][n] = r
  BY <1>3, <1>4, AppendProperties
<1>6. RowsTrue(o)'
  <2>1. refundRows'[o] = refundRows[o] \cup {row}
    BY <1>1 DEF InsertRow, OnlineStep, BaseInv, DataTypeOK, RowsTypeOK
  <2>2. /\ row.ref = n /\ row.pay = r.pay /\ row.amount = r.amount /\ row.status = r.status
    OBVIOUS
  <2> HIDE DEF row, r, n, rs
  <2> QED BY <1>5, <2>1, <2>2 DEF RowsTrue, RowsAre, OnlineStep, Kept
<1>7. Captured(o, i)'
  BY <1>2 DEF OnlineStep, Kept
<1>8. ASSUME st = "succeeded", full
      PROVE  Full(o, i)'
  <2>1. PaidBack(refunds'[o], i) = PaidBack(rs, i) + a
    <3>1. r.pay = i /\ r.status \in {"succeeded"} /\ r.amount = a
      BY <1>8
    <3> HIDE DEF r, rs
    <3> QED BY <1>3, <1>4, <3>1, AppendAmount DEF PaidBack
  <2>2. Refunded(o, i) \in Nat /\ Refunded(o, i) <= PaidBack(rs, i)
    BY <1>2, FullRows, RowsAddUp DEF OnlineStep, RowsTrue, Refunded, BaseInv,
       DataTypeOK
  <2>3. PaidBack(rs, i) \in Nat
    BY <1>3, PaidBackIsPromised
  <2>4. PaidBack(refunds'[o], i) <= Total(o)
    <3>1. (PaidBack(refunds[o], i) <= Total(o))'
      BY PaidBackBounds, PTL
    <3> QED BY <1>1, <3>1 DEF Total
  <2>5. Refunded(o, i) + a >= Total(o)
    BY <1>8 DEF isFullRefund
  <2>6. PaidBack(refunds'[o], i) = Total(o)
    <3> HIDE DEF rs
    <3> QED BY <1>2, <1>3, <2>1, <2>2, <2>3, <2>4, <2>5
  <2> QED BY <1>1, <2>6 DEF Full, Total
<1>9. CASE st = "succeeded"
  <2>1. /\ payments' = [payments EXCEPT ![o][i] = IF full THEN "refunded" ELSE "paid"]
        /\ status'[o] = IF full THEN "refunded" ELSE "partially_refunded"
    BY <1>1, <1>9 DEF ApplyRefund, OnlineStep, BaseInv, OrdersInv, StatusTypeOK
  <2> HIDE DEF full
  <2>2. PaymentsTrue(o)'
    <3>1. PICK p : p = (IF full THEN "refunded" ELSE "paid")
      OBVIOUS
    <3>2. payments' = [payments EXCEPT ![o][i] = p]
      BY <2>1, <3>1
    <3>3. p = "refunded" => Full(o, i)'
      BY <1>8, <1>9, <3>1
    <3> QED BY <1>7, <3>2, <3>3, PaymentSet DEF OnlineStep
  <2>3. StatusTrue(o)'
    BY <1>7, <1>8, <1>9, <2>1, StatusSet
  <2> QED BY <1>6, <2>2, <2>3 DEF ClaimsTrue
<1>10. CASE st # "succeeded"
  <2>1. UNCHANGED <<payments, status>>
    BY <1>1, <1>10 DEF ApplyRefund
  <2> QED BY <1>6, <2>1, PaymentsKept, StatusKept DEF OnlineStep, ClaimsTrue
<1> QED BY <1>9, <1>10

\* POST /orders/refund.
LEMMA RefundMoney ==
  ASSUME NEW o \in Orders, OnlineStep(o), BaseInv', RefundStep(o)
  PROVE  ClaimsTrue(o)'
<1>1. PICK i \in Payments :
        \/ RefundAlreadyDone(o, i)
        \/ \E a \in Amounts :
             \/ RefundInStore(o, i, a)
             \/ RefundRefused(o, i, a)
             \/ \E st \in RefundStates :
                  \/ RefundOnline(o, i, a, st)
                  \/ RefundReplyLost(o, i, a, st)
  BY DEF RefundStep
<1>2. \A a \in Amounts : ~RefundInStore(o, i, a)
  BY DEF RefundInStore, OnlineStep
<1> QED BY <1>1, <1>2, RefundAlreadyDoneMoney, RefundUnrecordedMoney,
           RefundOnlineMoney

-----------------------------------------------------------------------------
\* Every step on an order.
LEMMA OrderStepMoney ==
  ASSUME NEW o \in Orders, BaseInv, BaseInv', MoneyTrue(o), OrderStep(o)
  PROVE  MoneyTrue(o)'
<1>1. detail' = detail
  BY OrderStepBase DEF WritesOne
<1>2. SUFFICES ASSUME ~InStore(o) PROVE ClaimsTrue(o)'
  BY <1>1 DEF MoneyTrue, ClaimsTrue, InStore
<1>3. OnlineStep(o)
  BY <1>2, MoneyKept DEF OnlineStep, MoneyTrue
<1>4. CASE BuyerStep(o)
  BY <1>3, <1>4, CreateOrderMoney, CreatePaymentMoney, CancelByCustomerMoney
     DEF BuyerStep
<1>5. CASE MerchantStep(o)
  <2>1. ~CollectInStorePayment(o)
    BY <1>2 DEF CollectInStorePayment, Collectible, isAwaitingInStoreCollection
  <2> QED BY <1>3, <1>5, <2>1, UpdateStatusMoney, SyncPaymentMoney, RefundMoney
             DEF MerchantStep
<1>6. CASE WebhookStep(o)
  BY <1>3, <1>6, WebhookMoney DEF WebhookStep
<1>7. CASE ProviderStep(o)
  <2>1. UNCHANGED <<payments, refundRows, status>>
    BY <1>7 DEF ProviderStep, UnrecordedRefund, orderVars
  <2> QED BY <1>3, <2>1, QuietMoney
<1> QED BY <1>4, <1>5, <1>6, <1>7 DEF OrderStep

\* MoneyInv holds of the initial states.
LEMMA MoneyInit == OrdersInit => MoneyInv
<1> SUFFICES ASSUME OrdersInit, NEW o \in Orders PROVE MoneyTrue(o)
  BY DEF MoneyInv
<1>1. payments[o] = <<>> /\ refundRows[o] = {} /\ status[o] = "absent"
  BY DEF OrdersInit
<1>2. DOMAIN <<>> = {}
  OBVIOUS
<1> QED BY <1>1, <1>2 DEF MoneyTrue, PaymentsTrue, RowsTrue, RowsAre, StatusTrue

\* Every step keeps MoneyInv.
LEMMA MoneyStep == BaseInv /\ MoneyInv /\ [OrdersNext]_vars => MoneyInv'
<1> SUFFICES ASSUME BaseInv, MoneyInv, [OrdersNext]_vars, NEW q \in Orders
             PROVE  MoneyTrue(q)'
  BY DEF MoneyInv
<1>1. BaseInv' /\ MoneyTrue(q)
  BY BaseStep DEF MoneyInv
<1>2. ASSUME NEW o \in Orders, OrderStep(o)
      PROVE  MoneyTrue(q)'
  <2>1. CASE q = o
    BY <1>1, <1>2, <2>1, OrderStepMoney
  <2>2. CASE q # o
    <3>1. /\ detail' = detail /\ payments'[q] = payments[q]
          /\ refundRows'[q] = refundRows[q] /\ charge'[q] = charge[q]
          /\ refunds'[q] = refunds[q] /\ status'[q] = status[q]
      BY <1>2, <2>2, OrderStepBase DEF WritesOne
    <3> QED BY <1>1, <3>1
        DEF MoneyTrue, PaymentsTrue, RowsTrue, RowsAre, StatusTrue, InStore, Captured,
            Full, Total
  <2> QED BY <2>1, <2>2
<1>3. ASSUME ~\E o \in Orders : OrderStep(o)
      PROVE  MoneyTrue(q)'
  <2>1. UNCHANGED <<detail, status, payments, refundRows, charge, refunds>>
    BY <1>3, NoOrderStep DEF orderVars, stripeVars
  <2> QED BY <1>1, <2>1
      DEF MoneyTrue, PaymentsTrue, RowsTrue, RowsAre, StatusTrue, InStore, Captured,
          Full, Total
<1> QED BY <1>2, <1>3

\* What the database says of an online order's money is what Stripe
\* holds.
THEOREM MoneyInvariant == OrdersSpec => []MoneyInv
BY BaseInvariant, MoneyInit, MoneyStep, PTL DEF OrdersSpec

\* No online order is prepared or served that Stripe has no captured
\* charge for, and the merchant is told of every order that is.
THEOREM ServedCharged == OrdersSpec => []ServedOrdersWereChargedAndAnnounced
<1>1. BaseInv /\ MoneyInv /\ ToldInv => ServedOrdersWereChargedAndAnnounced
  <2> SUFFICES ASSUME BaseInv, MoneyInv, ToldInv, NEW o \in Orders,
                      status[o] \notin {"absent", "created", "cancelled"}
               PROVE  /\ ~InStore(o) => \E i \in Payments : Captured(o, i)
                      /\ status[o] \notin {"refunded", "partially_refunded"} =>
                           "new_order" \in notices[o]
    BY DEF ServedOrdersWereChargedAndAnnounced, Captured
  <2>1. ~InStore(o) => \E i \in Payments : Captured(o, i)
    BY DEF MoneyInv, MoneyTrue, StatusTrue
  <2>2. status[o] \in AllStatuses
    BY DEF BaseInv, OrdersInv, StatusTypeOK
  <2>3. StatusTold(o)
    BY DEF ToldInv
  <2> QED BY <2>1, <2>2, <2>3 DEF StatusTold, Active, AllStatuses, ORDER_STATUSES
<1> QED BY <1>1, BaseInvariant, MoneyInvariant, ToldInvariant, PTL

\* The refunds the database counts as succeeded were paid back, and never
\* more than the payment.
THEOREM RowsReal == OrdersSpec => []RefundRowsAreReal
<1>1. BaseInv /\ MoneyInv => RefundRowsAreReal
  <2> SUFFICES ASSUME BaseInv, MoneyInv, NEW o \in OnlineOrders, NEW i \in Payments
               PROVE  /\ Refunded(o, i) <= PaidBack(refunds[o], i)
                      /\ PaidBack(refunds[o], i) <= Total(o)
    BY DEF RefundRowsAreReal
  <2>1. o \in Orders /\ RowsTrue(o) /\ refundRows[o] \in SUBSET RefundRow
    BY DEF OnlineOrders, MoneyInv, MoneyTrue, BaseInv, DataTypeOK, RowsTypeOK
  <2> QED BY <2>1, RowsAddUp, PaidBackBounds DEF RowsTrue, Refunded, BaseInv,
             DataTypeOK
<1> QED BY <1>1, BaseInvariant, MoneyInvariant, PTL

\* An online order or payment marked refunded was paid back in full.
THEOREM MoneyBack == OrdersSpec => []RefundedOrdersGotMoneyBack
<1>1. MoneyInv => RefundedOrdersGotMoneyBack
  BY DEF MoneyInv, MoneyTrue, PaymentsTrue, StatusTrue, Full, OnlineOrders,
         RefundedOrdersGotMoneyBack
<1> QED BY <1>1, MoneyInvariant, PTL
=============================================================================
