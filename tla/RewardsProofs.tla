---------------------------- MODULE RewardsProofs ---------------------------
(***************************************************************************)
(* The loyalty ledger's type correctness and its three safety invariants,  *)
(* for any sets of orders and vouchers, any costs and any earned points.   *)
(* Every lemma is about one operation and the half of the state it         *)
(* touches, so that the order handlers, which conjoin these operations     *)
(* with steps of their own, can cite them.                                 *)
(***************************************************************************)
EXTENDS Rewards, TLAPS

\* The type invariant split along accountVars and voucherVars.
AccountTypeOK ==
  /\ available \in Nat
  /\ lifetimeEarned \in Nat
  /\ lifetimeRedeemed \in Nat
  /\ clawedBack \in Nat
  /\ earnStatus \in [Orders -> EarnStatuses]
  /\ earnPoints \in [Orders -> Nat]
  /\ refundPoints \in [Orders -> Nat]
  /\ deducted \in [Orders -> Nat]

VoucherTypeOK ==
  /\ voucher \in [Vouchers -> VoucherStatuses]
  /\ usedOrder \in [Vouchers -> Orders \cup {NoOrder}]
  /\ expired \subseteq Vouchers
  /\ orderVoucher \in [Orders -> Vouchers \cup {NoVoucher}]
  /\ useStatus \in [Orders -> UseStatuses]

\* The invariants of each half.
AccountInv == AccountTypeOK /\ AccountBalances /\ ReversalsMatchEarnings
VoucherInv == VoucherTypeOK /\ VouchersHeldOnce

LedgerInv == AccountInv /\ VoucherInv

-----------------------------------------------------------------------------
(* The initial state                                                       *)

\* LedgerInv holds of the initial states.
LEMMA LedgerInit == RewardsInit => LedgerInv
BY RewardsAssumption
DEF RewardsInit, LedgerInv, AccountInv, VoucherInv, AccountTypeOK,
    VoucherTypeOK, AccountBalances, ReversalsMatchEarnings, VouchersHeldOnce,
    EarnStatuses, VoucherStatuses, UseStatuses

-----------------------------------------------------------------------------
(* The account                                                             *)

\* awardPointsForCompletedOrder keeps the account's invariants.
LEMMA AwardKeepsAccount ==
  ASSUME NEW o \in Orders, NEW p \in Nat, AccountInv, AwardPoints(o, p)
  PROVE  AccountInv'
<1>1. CASE ~Awardable(o, p)
  BY <1>1 DEF AwardPoints, AccountInv, AccountTypeOK, AccountBalances,
       ReversalsMatchEarnings, accountVars
<1>2. CASE Awardable(o, p)
  <2> USE <1>2 DEF AwardPoints, Awardable, AccountInv
  <2>1. AccountTypeOK'
    BY DEF AccountTypeOK, EarnStatuses
  <2>2. AccountBalances'
    BY DEF AccountTypeOK, AccountBalances
  <2>3. ReversalsMatchEarnings'
    BY DEF AccountTypeOK, EarnStatuses, ReversalsMatchEarnings
  <2> QED BY <2>1, <2>2, <2>3
<1> QED BY <1>1, <1>2

\* reversePointsForOrder keeps the account's invariants.
LEMMA ReverseKeepsAccount ==
  ASSUME NEW o \in Orders, AccountInv, ReversePoints(o)
  PROVE  AccountInv'
<1>1. CASE ~Reversible(o)
  BY <1>1 DEF ReversePoints, AccountInv, AccountTypeOK, AccountBalances,
       ReversalsMatchEarnings, accountVars
<1>2. CASE Reversible(o)
  <2> USE <1>2 DEF ReversePoints, Reversible, AccountInv
  <2>1. /\ Recoverable(o) \in Nat
        /\ Remaining(o) \in Nat
        /\ Recoverable(o) + Remaining(o) = available
        /\ Recoverable(o) <= earnPoints[o]
    BY DEF AccountTypeOK, Recoverable, Remaining
  <2>2. AccountTypeOK'
    BY <2>1 DEF AccountTypeOK, EarnStatuses
  <2>3. AccountBalances'
    <3>1. /\ available' = Remaining(o)
          /\ clawedBack' = clawedBack + Recoverable(o)
          /\ lifetimeEarned' = lifetimeEarned
          /\ lifetimeRedeemed' = lifetimeRedeemed
      OBVIOUS
    <3> HIDE <1>2 DEF ReversePoints, Reversible
    <3> QED BY <2>1, <3>1 DEF AccountTypeOK, AccountBalances
  <2>4. ReversalsMatchEarnings'
    BY <2>1 DEF AccountTypeOK, EarnStatuses, ReversalsMatchEarnings
  <2> QED BY <2>2, <2>3, <2>4
<1> QED BY <1>1, <1>2

\* After reversePointsForOrder the order has no points left to its name.
LEMMA ReverseLeavesNothing ==
  ASSUME NEW o \in Orders, AccountInv, ReversePoints(o)
  PROVE  earnStatus'[o] # "available"
BY DEF ReversePoints, Reversible, AccountInv, AccountTypeOK, accountVars,
       ReversalsMatchEarnings

\* redeemReward keeps the account's invariants.
LEMMA RedeemKeepsAccount ==
  ASSUME NEW v \in Vouchers, AccountInv, RedeemReward(v)
  PROVE  AccountInv'
<1>1. Cost[v] \in Nat
  BY RewardsAssumption
<1> QED
  BY <1>1 DEF RedeemReward, Affordable, AccountInv, AccountTypeOK, AccountBalances,
       ReversalsMatchEarnings

-----------------------------------------------------------------------------
(* The vouchers                                                            *)

\* redeemReward keeps the invariants of the vouchers.
LEMMA RedeemKeepsVouchers ==
  ASSUME NEW v \in Vouchers, VoucherInv, RedeemReward(v)
  PROVE  VoucherInv'
BY RewardsAssumption
DEF RedeemReward, Affordable, VoucherInv, VoucherTypeOK, VouchersHeldOnce,
    VoucherStatuses, UseStatuses

\* markRewardRedemptionUsedForOrder keeps the invariants of the vouchers.
LEMMA UseKeepsVouchers ==
  ASSUME NEW v \in Vouchers, NEW o \in Orders, VoucherInv, UseVoucher(v, o)
  PROVE  VoucherInv'
<1> USE RewardsAssumption DEF UseVoucher, Usable, VoucherInv
<1>1. NoAppliedUse(v)
  BY DEF NoAppliedUse, VouchersHeldOnce, VoucherTypeOK
<1>2. useStatus[o] # "applied"
  BY DEF VouchersHeldOnce, VoucherTypeOK
<1>3. VoucherTypeOK'
  BY <1>1 DEF VoucherTypeOK, VoucherStatuses, UseStatuses
<1>4. VouchersHeldOnce'
  BY <1>1, <1>2 DEF VoucherTypeOK, VouchersHeldOnce
<1> QED BY <1>3, <1>4

\* restoreOrderRewardRedemptions keeps the invariants of the vouchers.
LEMMA RestoreKeepsVouchers ==
  ASSUME NEW o \in Orders, VoucherInv, RestoreVoucher(o)
  PROVE  VoucherInv'
<1>1. CASE useStatus[o] # "applied"
  BY <1>1 DEF RestoreVoucher, VoucherInv, VoucherTypeOK, VouchersHeldOnce,
       voucherVars
<1>2. CASE useStatus[o] = "applied"
  <2> USE <1>2, RewardsAssumption DEF RestoreVoucher, VoucherInv
  <2>1. VoucherTypeOK'
    BY DEF VoucherTypeOK, VoucherStatuses, UseStatuses
  <2>2. VouchersHeldOnce'
    BY DEF VoucherTypeOK, VouchersHeldOnce
  <2> QED BY <2>1, <2>2
<1> QED BY <1>1, <1>2

\* After restoreOrderRewardRedemptions the order holds no voucher.
LEMMA RestoreLeavesNothing ==
  ASSUME NEW o \in Orders, VoucherInv, RestoreVoucher(o)
  PROVE  useStatus'[o] # "applied"
BY DEF RestoreVoucher, VoucherInv, VoucherTypeOK, voucherVars

\* The passing of expires_at keeps the invariants of the vouchers.
LEMMA ExpireKeepsVouchers ==
  ASSUME NEW v \in Vouchers, VoucherInv, ExpireVoucher(v)
  PROVE  VoucherInv'
BY DEF ExpireVoucher, VoucherInv, VoucherTypeOK, VouchersHeldOnce

\* Steps that leave one half alone keep its invariants.
LEMMA AccountUnchanged == AccountInv /\ UNCHANGED accountVars => AccountInv'
BY DEF AccountInv, AccountTypeOK, AccountBalances, ReversalsMatchEarnings,
       accountVars

\* What does not touch the vouchers keeps their invariant.
LEMMA VouchersUnchanged == VoucherInv /\ UNCHANGED voucherVars => VoucherInv'
BY DEF VoucherInv, VoucherTypeOK, VouchersHeldOnce, voucherVars

-----------------------------------------------------------------------------
(* The ledger under any caller                                             *)

\* Every step of the ledger keeps LedgerInv.
LEMMA LedgerStep == LedgerInv /\ [LedgerNext]_rewardsVars => LedgerInv'
<1> SUFFICES ASSUME LedgerInv, [LedgerNext]_rewardsVars
             PROVE  LedgerInv'
  OBVIOUS
<1> USE DEF LedgerInv
<1>1. ASSUME NEW v \in Vouchers, RedeemReward(v)
      PROVE  LedgerInv'
  BY <1>1, RedeemKeepsAccount, RedeemKeepsVouchers
<1>2. ASSUME NEW v \in Vouchers, ExpireVoucher(v)
      PROVE  LedgerInv'
  BY <1>2, ExpireKeepsVouchers, AccountUnchanged DEF ExpireVoucher
<1>3. ASSUME NEW o \in Orders, NEW v \in Vouchers,
             UseVoucher(v, o), UNCHANGED accountVars
      PROVE  LedgerInv'
  BY <1>3, UseKeepsVouchers, AccountUnchanged
<1>4. ASSUME NEW o \in Orders, NEW p \in PointValues,
             AwardPoints(o, p), UNCHANGED voucherVars
      PROVE  LedgerInv'
  BY <1>4, AwardKeepsAccount, VouchersUnchanged, RewardsAssumption
<1>5. ASSUME NEW o \in Orders, ReversePoints(o), RestoreVoucher(o)
      PROVE  LedgerInv'
  BY <1>5, ReverseKeepsAccount, RestoreKeepsVouchers
<1>6. CASE UNCHANGED rewardsVars
  BY <1>6, AccountUnchanged, VouchersUnchanged DEF rewardsVars
<1> QED BY <1>1, <1>2, <1>3, <1>4, <1>5, <1>6 DEF LedgerNext

\* Whatever sequence of awards, reversals, purchases, uses and restorations
\* the handlers run, the ledger of services/rewards.js keeps its invariants.
THEOREM LedgerInvariant == LedgerSpec => []LedgerInv
BY LedgerInit, LedgerStep, PTL DEF LedgerSpec

\* Type correctness of the ledger.
THEOREM LedgerTypeOK == LedgerSpec => []RewardsTypeOK
<1>1. LedgerInv => RewardsTypeOK
  BY DEF LedgerInv, AccountInv, VoucherInv, AccountTypeOK, VoucherTypeOK,
         RewardsTypeOK
<1> QED BY <1>1, LedgerInvariant, PTL

\* The balance is always explained by the transactions.
THEOREM LedgerBalances == LedgerSpec => []AccountBalances
<1>1. LedgerInv => AccountBalances
  BY DEF LedgerInv, AccountInv
<1> QED BY <1>1, LedgerInvariant, PTL

\* Every reversal is matched by the row it reverses.
THEOREM LedgerReversals == LedgerSpec => []ReversalsMatchEarnings
<1>1. LedgerInv => ReversalsMatchEarnings
  BY DEF LedgerInv, AccountInv
<1> QED BY <1>1, LedgerInvariant, PTL

\* No voucher is ever held by two orders, or used and held by none.
THEOREM LedgerVouchers == LedgerSpec => []VouchersHeldOnce
<1>1. LedgerInv => VouchersHeldOnce
  BY DEF LedgerInv, VoucherInv
<1> QED BY <1>1, LedgerInvariant, PTL

\* The three together.
THEOREM LedgerSound == LedgerSpec => []LedgerIsSound
<1>1. AccountBalances /\ ReversalsMatchEarnings /\ VouchersHeldOnce => LedgerIsSound
  BY DEF LedgerIsSound
<1> QED BY <1>1, LedgerBalances, LedgerReversals, LedgerVouchers, PTL

\* An order earns at most once, and not again after a reversal.
THEOREM LedgerEarnsOnce == LedgerSpec => EarnsAtMostOnce
<1> DEFINE Once == \A o \in Orders :
       earnStatus[o] # "none" =>
         /\ earnPoints'[o] = earnPoints[o]
         /\ earnStatus'[o] # "none"
         /\ earnStatus[o] = "reversed" => earnStatus'[o] = "reversed"
<1>1. ASSUME RewardsTypeOK, LedgerNext PROVE Once
  <2>1. ASSUME NEW o \in Orders, NEW p \in PointValues, AwardPoints(o, p) PROVE Once
    BY <1>1, <2>1 DEF AwardPoints, Awardable, RewardsTypeOK, accountVars
  <2>2. ASSUME NEW o \in Orders, ReversePoints(o) PROVE Once
    BY <1>1, <2>2 DEF ReversePoints, Reversible, RewardsTypeOK, accountVars
  <2>3. ASSUME earnStatus' = earnStatus, earnPoints' = earnPoints PROVE Once
    BY <2>3
  <2> QED BY <1>1, <2>1, <2>2, <2>3 DEF LedgerNext, RedeemReward, Affordable,
             ExpireVoucher, accountVars
<1>2. RewardsTypeOK /\ [LedgerNext]_rewardsVars => [Once]_rewardsVars BY <1>1
<1> QED BY <1>2, LedgerTypeOK, PTL DEF LedgerSpec, EarnsAtMostOnce
=============================================================================
