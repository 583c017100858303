------------------------------- MODULE MCBuyer -------------------------------
(***************************************************************************)
(* What belongs to the buyers: the accounts, the loyalty ledger, the saved *)
(* payment methods and delivery addresses, and the menu they order from.   *)
(* They share no state here, so a behaviour is about one of them.          *)
(***************************************************************************)
EXTENDS MCRewards, PaymentMethods, DeliveryAddresses, BuyerProfiles, Menu

CONSTANTS m1, m2, m3, c1, c2, u1, u2, p1, p2, s1, s2, dish, side, sauce, g1, g2

VARIABLE focus

ThreeMethods == {m1, m2, m3}
TwoCalls == {c1, c2}
TwoBuyers == {u1, u2}
TwoPhones == {p1, p2}
TwoSecrets == {s1, s2}

\* A dish and a side dish with groups of their own, which can meet in cycles.
SmallMenu == {dish, side, sauce}
WithGroups == {dish, side}
TwoGroups == {g1, g2}
Rule(least, most, on) == [min |-> least, max |-> most, active |-> on]
AnyRules == {Rule(0, 1, TRUE), Rule(1, 2, TRUE), Rule(1, 2, FALSE), Rule(2, 1, TRUE)}
MCPrice == dish :> 4 @@ side :> 2 @@ sauce :> 1

buyerVars == <<rewardsVars, walletVars, addressVars, profileVars, menuVars, focus>>

BuyerInit ==
  /\ focus \in {"ledger", "wallet", "addresses", "profiles", "menu"}
  /\ RewardsInit /\ WalletInit /\ AddressInit /\ ProfilesInit
  /\ MenuInit /\ (focus # "menu" => \A g \in Groups : rule[g].min = 0)

BuyerNext ==
  /\ UNCHANGED focus
  /\ focus = "ledger" \/ UNCHANGED rewardsVars
  /\ focus = "wallet" \/ UNCHANGED walletVars
  /\ focus = "addresses" \/ UNCHANGED addressVars
  /\ focus = "profiles" \/ UNCHANGED profileVars
  /\ focus = "menu" \/ UNCHANGED menuVars
  /\ \/ focus = "ledger" /\ LedgerNext
     \/ focus = "wallet" /\ WalletNext
     \/ focus = "addresses" /\ AddressNext
     \/ focus = "profiles" /\ ProfilesNext
     \/ focus = "menu" /\ MenuNext

BuyerSpec == BuyerInit /\ [][BuyerNext]_buyerVars

\* The rows of the ledger, the wallet, the addresses and the menu keep their
\* types: no balance below zero (GREATEST), no group that asks for more than
\* it allows (normalizeOptionGroup).
BuyerTypeOK == RewardsTypeOK /\ WalletTypeOK /\ AddressTypeOK /\ MenuTypeOK
=============================================================================
