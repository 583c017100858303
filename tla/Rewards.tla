------------------------------ MODULE Rewards ------------------------------
(***************************************************************************)
(* The loyalty ledger of one buyer in one store (services/rewards.js): the *)
(* account row, the loyalty_transactions rows, the vouchers bought with    *)
(* points (reward_redemptions) and their use by orders                     *)
(* (order_reward_redemptions).                                             *)
(*                                                                         *)
(* Each operation runs inside one database transaction that holds the row  *)
(* locks of everything it reads (the order or the voucher, then the        *)
(* account), so it is one step here.  The order handlers conjoin these     *)
(* operations with their own updates: AwardPoints and ReversePoints change *)
(* accountVars, UseVoucher and RestoreVoucher change voucherVars.          *)
(***************************************************************************)
EXTENDS Integers, OrderIds

CONSTANTS
  Vouchers,     \* redemption ids: one for every purchase of a reward
  NoOrder,      \* used_order_id is NULL
  NoVoucher,    \* the order was placed without a voucher
  Cost,         \* points_cost the voucher is bought for
  PointValues   \* what calculateEarnPoints can return for an order

ASSUME RewardsAssumption ==
  /\ NoOrder \notin Orders
  /\ NoVoucher \notin Vouchers
  /\ Cost \in [Vouchers -> Nat \ {0}]
  /\ PointValues \subseteq Nat

VARIABLES
  available,         \* loyalty_accounts.available_points
  lifetimeEarned,    \* loyalty_accounts.lifetime_earned_points
  lifetimeRedeemed,  \* loyalty_accounts.lifetime_redeemed_points
  earnStatus,        \* status of the order's 'earn' row ("none": no row)
  earnPoints,        \* its points
  refundPoints,      \* points of the order's 'refund' row (0: no row)
  deducted,          \* its metadata.deducted_points
  clawedBack,        \* history: the sum of deducted_points over all rows
  voucher,           \* reward_redemptions.status ("none": not bought)
  usedOrder,         \* reward_redemptions.used_order_id
  expired,           \* vouchers whose expires_at has passed
  orderVoucher,      \* voucher of the order's order_reward_redemptions row
  useStatus          \* status of that row ("none": no row)

accountVars == <<available, lifetimeEarned, lifetimeRedeemed, earnStatus,
                 earnPoints, refundPoints, deducted, clawedBack>>
voucherVars == <<voucher, usedOrder, expired, orderVoucher, useStatus>>
rewardsVars == <<accountVars, voucherVars>>

EarnStatuses == {"none", "available", "reversed"}
VoucherStatuses == {"none", "active", "used"}
UseStatuses == {"none", "applied", "restored"}

RewardsTypeOK ==
  /\ available \in Nat
  /\ lifetimeEarned \in Nat
  /\ lifetimeRedeemed \in Nat
  /\ clawedBack \in Nat
  /\ earnStatus \in [Orders -> EarnStatuses]
  /\ earnPoints \in [Orders -> Nat]
  /\ refundPoints \in [Orders -> Nat]
  /\ deducted \in [Orders -> Nat]
  /\ voucher \in [Vouchers -> VoucherStatuses]
  /\ usedOrder \in [Vouchers -> Orders \cup {NoOrder}]
  /\ expired \subseteq Vouchers
  /\ orderVoucher \in [Orders -> Vouchers \cup {NoVoucher}]
  /\ useStatus \in [Orders -> UseStatuses]

RewardsInit ==
  /\ available = 0
  /\ lifetimeEarned = 0
  /\ lifetimeRedeemed = 0
  /\ clawedBack = 0
  /\ earnStatus = [o \in Orders |-> "none"]
  /\ earnPoints = [o \in Orders |-> 0]
  /\ refundPoints = [o \in Orders |-> 0]
  /\ deducted = [o \in Orders |-> 0]
  /\ voucher = [v \in Vouchers |-> "none"]
  /\ usedOrder = [v \in Vouchers |-> NoOrder]
  /\ expired = {}
  /\ orderVoucher = [o \in Orders |-> NoVoucher]
  /\ useStatus = [o \in Orders |-> "none"]

-----------------------------------------------------------------------------
(* Points                                                                  *)

\* Seeded fault of Awardable: a reversed row can be earned again.
FaultAwardsAfterReversal(o, p) == p > 0 /\ earnStatus[o] # "available"

\* The 'earn' row is inserted: unique per order, never for zero points.
Awardable(o, p) == p > 0 /\ earnStatus[o] = "none"

\* awardPointsForCompletedOrder, for an order its caller knows completed.
AwardPoints(o, p) ==
  \/ /\ Awardable(o, p)
     /\ earnStatus' = [earnStatus EXCEPT ![o] = "available"]
     /\ earnPoints' = [earnPoints EXCEPT ![o] = p]
     /\ available' = available + p
     /\ lifetimeEarned' = lifetimeEarned + p
     /\ UNCHANGED <<lifetimeRedeemed, refundPoints, deducted, clawedBack>>
  \/ /\ ~Awardable(o, p)
     /\ UNCHANGED accountVars

\* Seeded fault of Reversible: spent points keep the order from being reversed.
FaultReversibleUnspent(o) ==
  refundPoints[o] = 0 /\ earnStatus[o] = "available" /\ available >= earnPoints[o]

\* There is no 'refund' row yet and the 'earn' row is not reversed.
Reversible(o) == refundPoints[o] = 0 /\ earnStatus[o] = "available"

\* Seeded fault: no Math.min in the record of the reversal.
FaultRecoversAll(o) == earnPoints[o]

Recoverable(o) == IF available < earnPoints[o] THEN available ELSE earnPoints[o]
Remaining(o) == IF available < earnPoints[o] THEN 0 ELSE available - earnPoints[o]

\* reversePointsForOrder: points already spent are not taken back.
ReversePoints(o) ==
  \/ /\ Reversible(o)
     /\ refundPoints' = [refundPoints EXCEPT ![o] = earnPoints[o]]
     /\ deducted' = [deducted EXCEPT ![o] = Recoverable(o)]
     /\ clawedBack' = clawedBack + Recoverable(o)
     /\ available' = Remaining(o)
     /\ earnStatus' = [earnStatus EXCEPT ![o] = "reversed"]
     /\ UNCHANGED <<lifetimeEarned, lifetimeRedeemed, earnPoints>>
  \/ /\ ~Reversible(o)
     /\ UNCHANGED accountVars

-----------------------------------------------------------------------------
(* Vouchers                                                                *)

\* What redeemReward requires before it writes: the reward is locked, then
\* the account, and the balance covers the cost.
Affordable(v) == voucher[v] = "none" /\ available >= Cost[v]

\* redeemReward: the account row stays locked until the voucher is there.
RedeemReward(v) ==
  /\ Affordable(v)
  /\ available' = available - Cost[v]
  /\ lifetimeRedeemed' = lifetimeRedeemed + Cost[v]
  /\ voucher' = [voucher EXCEPT ![v] = "active"]
  /\ UNCHANGED <<lifetimeEarned, earnStatus, earnPoints, refundPoints,
                 deducted, clawedBack>>
  /\ UNCHANGED <<usedOrder, expired, orderVoucher, useStatus>>

\* Seeded fault of Usable: only the expiry is checked.
FaultUsesTwice(v) == voucher[v] # "none" /\ v \notin expired

\* What prepareRewardRedemptionForOrder requires of the locked voucher row.
Usable(v) ==
  /\ voucher[v] = "active"
  /\ usedOrder[v] = NoOrder
  /\ v \notin expired

\* The partial unique index on order_reward_redemptions(redemption_id) where
\* status = 'applied' lets the INSERT through.
NoAppliedUse(v) ==
  \A o \in Orders : ~(orderVoucher[o] = v /\ useStatus[o] = "applied")

\* markRewardRedemptionUsedForOrder, for an order that is being created.
\* On a conflict the INSERT does nothing and the order goes on without a row.
UseVoucher(v, o) ==
  /\ Usable(v)
  /\ orderVoucher[o] = NoVoucher
  /\ voucher' = [voucher EXCEPT ![v] = "used"]
  /\ usedOrder' = [usedOrder EXCEPT ![v] = o]
  /\ IF NoAppliedUse(v)
     THEN /\ orderVoucher' = [orderVoucher EXCEPT ![o] = v]
          /\ useStatus' = [useStatus EXCEPT ![o] = "applied"]
     ELSE UNCHANGED <<orderVoucher, useStatus>>
  /\ UNCHANGED expired

\* restoreOrderRewardRedemptions: the rows of the order that are 'applied'
\* give their voucher back, expired or not.
RestoreVoucher(o) ==
  \/ /\ useStatus[o] = "applied"
     /\ voucher' = [v \in Vouchers |->
                      IF v = orderVoucher[o] /\ voucher[v] = "used"
                      THEN "active" ELSE voucher[v]]
     /\ usedOrder' = [v \in Vouchers |->
                        IF v = orderVoucher[o] /\ voucher[v] = "used"
                        THEN NoOrder ELSE usedOrder[v]]
     /\ useStatus' = [useStatus EXCEPT ![o] = "restored"]
     /\ UNCHANGED <<expired, orderVoucher>>
  \/ /\ useStatus[o] # "applied"
     /\ UNCHANGED voucherVars

\* Time passes the voucher's expires_at.
ExpireVoucher(v) ==
  /\ voucher[v] # "none"
  /\ v \notin expired
  /\ expired' = expired \cup {v}
  /\ UNCHANGED <<voucher, usedOrder, orderVoucher, useStatus>>
  /\ UNCHANGED accountVars

-----------------------------------------------------------------------------
(* The ledger under any caller: the handlers may award, reverse and        *)
(* restore in any order and as often as they like.                         *)

LedgerNext ==
  \/ \E v \in Vouchers : RedeemReward(v) \/ ExpireVoucher(v)
  \/ \E o \in Orders, v \in Vouchers : UseVoucher(v, o) /\ UNCHANGED accountVars
  \/ \E o \in Orders, p \in PointValues :
       AwardPoints(o, p) /\ UNCHANGED voucherVars
  \/ \E o \in Orders : ReversePoints(o) /\ RestoreVoucher(o)

LedgerSpec == RewardsInit /\ [][LedgerNext]_rewardsVars

-----------------------------------------------------------------------------
(* Properties                                                              *)

\* The balance is what was earned less what was spent on vouchers and less
\* what reversals really took: reversePointsForOrder records deducted_points
\* and lowers the balance by two separate computations (Math.min in the
\* program, GREATEST in the UPDATE), and redeemReward can run between the
\* award and the reversal.
AccountBalances ==
  available + lifetimeRedeemed + clawedBack = lifetimeEarned

\* Every reversed 'earn' row has its 'refund' row for the same points, and
\* the reversal never took more than it reversed.
ReversalsMatchEarnings ==
  \A o \in Orders :
    /\ earnStatus[o] = "none" <=> earnPoints[o] = 0
    /\ earnStatus[o] = "reversed" <=> refundPoints[o] # 0
    /\ earnStatus[o] = "reversed" => refundPoints[o] = earnPoints[o]
    /\ deducted[o] <= refundPoints[o]

\* A voucher is marked used exactly while one order holds it: used_order_id
\* and the 'applied' row of order_reward_redemptions, two tables written by
\* separate statements, name each other.  So no voucher pays for two orders
\* and none is lost when its order is closed.
VouchersHeldOnce ==
  /\ \A v \in Vouchers :
       /\ voucher[v] = "used" <=> usedOrder[v] # NoOrder
       /\ voucher[v] = "used" =>
            /\ orderVoucher[usedOrder[v]] = v
            /\ useStatus[usedOrder[v]] = "applied"
  /\ \A o \in Orders :
       useStatus[o] = "applied" =>
         /\ orderVoucher[o] \in Vouchers
         /\ voucher[orderVoucher[o]] = "used"
         /\ usedOrder[orderVoucher[o]] = o

\* The account, its rows and its vouchers tell one story, whatever callers
\* award, reverse, use and restore, in any order and however often.
LedgerIsSound == AccountBalances /\ ReversalsMatchEarnings /\ VouchersHeldOnce

\* An order earns at most once in its life: its 'earn' row is inserted once,
\* keeps its points and never comes back from 'reversed', however often the
\* completion or the cancellation is repeated.
EarnsAtMostOnce ==
  [][\A o \in Orders :
       earnStatus[o] # "none" =>
         /\ earnPoints'[o] = earnPoints[o]
         /\ earnStatus'[o] # "none"
         /\ earnStatus[o] = "reversed" => earnStatus'[o] = "reversed"]_rewardsVars
=============================================================================
