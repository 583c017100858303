------------------------------ MODULE MCDevices -----------------------------
(***************************************************************************)
(* What reaches the devices: the receipts that are printed, the            *)
(* notifications that are sent and the list of them in the apps.  They     *)
(* share no state here, so a behaviour is about one of them.  All start    *)
(* with nothing to do, so the fairness of those a behaviour is not about   *)
(* asks for nothing.                                                       *)
(***************************************************************************)
EXTENDS PrintQueue, NotificationDelivery, NotificationInbox

CONSTANTS o1, o2, n1, n2, d1, d2, buyer, clerk

VARIABLE focus

\* Two orders whose jobs compete for the devices.
TwoOrders == {o1, o2}

\* A notice for the merchant, whose two devices can fail apart; a buyer may be
\* signed in on one of them instead.
OneNotice == {n1}
ForStaff == [n \in {n1} |-> MerchantAll]
Shared == [d \in {d1, d2} |-> IF d = d1 THEN {buyer, clerk} ELSE {clerk}]
TwoDevices == {d1, d2}
OneBuyer == {buyer}
OneClerk == {clerk}
\* A note for two accounts and one for one of them.
TwoNotes == {n1, n2}
TwoPeople == {buyer, clerk}
ForBothOrOne == [n \in {n1, n2} |-> IF n = n1 THEN {buyer, clerk} ELSE {clerk}]

deviceRunVars == <<printVars, deliveryVars, inboxVars, focus>>

DevicesInit ==
  /\ focus \in {"receipts", "notices", "inbox"}
  /\ PrintInit /\ DeliveryInit /\ InboxInit
DevicesNext ==
  /\ UNCHANGED focus
  /\ \/ focus = "receipts" /\ PrintNext /\ UNCHANGED <<deliveryVars, inboxVars>>
     \/ focus = "notices" /\ DeliveryNext /\ UNCHANGED <<printVars, inboxVars>>
     \/ focus = "inbox" /\ InboxNext /\ UNCHANGED <<printVars, deliveryVars>>

DevicesSpec ==
  DevicesInit /\ [][DevicesNext]_deviceRunVars /\ PrintFairness /\ DeliveryFairness
=============================================================================
