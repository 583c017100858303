---------------------------- MODULE MCSaasControl ----------------------------
(***************************************************************************)
(* Small instances of SaasControl.  Provisioning: two epochs, the older    *)
(* with two competing requests.  Tenant: two merchant users who can turn   *)
(* on each other, a main store and another one, licences that run out.     *)
(***************************************************************************)
EXTENDS SaasControl

CONSTANTS k1, k2, a1, a2, s0, s1, i1, i2, l1, l2

Request(epoch, identity, seats, owner) ==
  [epoch |-> epoch, identity |-> identity, seats |-> seats, owner |-> owner]
Licence(id, term, seats) == [id |-> id, identity |-> i1, term |-> term, seats |-> seats]

TwoKeys == {k1, k2}
CompetingRequests ==
  {Request(1, i1, 1, a1), Request(1, NULL, NULL, a2), Request(2, i1, Keep, NULL)}
TwoLicences == {Licence(l1, 1, 1), Licence(l1, 2, Keep), Licence(l2, 2, NULL)}
QuietRequest == {Request(1, i1, Keep, a1)}
NoLicence == {}
OneAccount == {a1}
TwoAccounts == {a1, a2}
OneStore == {s0}
TwoStores == {s0, s1}
OneKey == {k1}
OneIdentity == {i1}
TwoIdentities == {i1, i2}
ScopedTokens == {i1}
AnyTokens == {i1, NULL}
OneLimit == {1}
=============================================================================
