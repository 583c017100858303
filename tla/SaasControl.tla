----------------------------- MODULE SaasControl -----------------------------
(***************************************************************************)
(* The control plane of one merchant instance                              *)
(* (services/saas/control_service.js, quota_service.js) together with the  *)
(* merchant operations that consume its quotas (routes/merchant_users.js,  *)
(* merchant_stores.js).                                                    *)
(*                                                                         *)
(* Every operation but two is a transaction that first locks the singleton *)
(* saas_instances row and keeps it to its COMMIT, so it is one step here;  *)
(* a ROLLBACK is no step.  The two exceptions are what is interesting:     *)
(* merchant requests are authorised before they lock anything, and an edit *)
(* of a store locks nothing at all.                                        *)
(*                                                                         *)
(* A provisioning request is its normalized body with the fence in its     *)
(* metadata, so that two requests have the same hash exactly if they are   *)
(* equal.  Branding, themes and first-owner passwords are left out.        *)
(***************************************************************************)
EXTENDS Integers, FiniteSets

CONSTANTS
  Keys,         \* Idempotency-Key headers
  Requests,     \* provisioning requests the platform may send
  Tokens,       \* signed licences: id, identity, term (exp), seats
  Accounts,     \* merchant usernames
  Stores,       \* stores, Main among them
  Main,         \* the default store
  Identities,   \* external_instance_id values
  Claims,       \* instance claims of control tokens (NULL: an unscoped one)
  Limits,       \* values an entitlement may be set to (NULL: unlimited)
  MaxNow,       \* the last instant of the model's clock
  NULL, Keep

Epochs == {r.epoch : r \in Requests}
LicenceIds == {t.id : t \in Tokens}
Quotas == Limits \cup {NULL}
Receipts == [epoch : Epochs, seats : Quotas, created : BOOLEAN]
LicenceRows ==
  [status : {"current", "superseded"}, expires : Nat, signed : Nat]

ASSUME SaasAssumption ==
  /\ MaxNow \in Nat
  /\ IsFiniteSet(Accounts) /\ IsFiniteSet(Stores)
  /\ Main \in Stores
  /\ NULL \notin Accounts \cup Identities \cup LicenceIds
  /\ NULL \notin Requests \cup Receipts \cup LicenceRows
  /\ Keep \notin Limits \cup Identities \cup {NULL}
  /\ Claims \subseteq Identities \cup {NULL}
  /\ Limits \subseteq Nat \ {0}
  /\ Requests \subseteq [epoch : Nat \ {0}, identity : Identities \cup {NULL},
                         seats : Quotas \cup {Keep}, owner : Accounts \cup {NULL}]
  /\ \A t \in Tokens :
       t.identity \in Identities \cup {NULL} /\ t.term \in Nat /\ t.seats \in Quotas \cup {Keep}

VARIABLES
  instance,    \* saas_instances: status, identity, epoch (0: null), request, result
  operations,  \* saas_provisioning_operations (NULL: no row)
  applied,     \* saas_audit_logs: 'instance.provisioned' rows, per epoch
  answers,     \* history: the receipts POST /provision answered with
  licences,    \* saas_licenses (NULL: no row)
  installed,   \* history: the licence that was installed last (NULL: none yet)
  now,         \* the database clock
  limit,       \* saas_entitlements: merchant.active_users.max and stores.max
  accounts,    \* merchant_users
  stores,      \* stores.status ("absent": no row)
  signedIn,    \* merchant requests that passed authorizeMerchantRequest
  edits        \* POST /stores/update requests that passed it

fenceVars == <<instance, operations, applied, answers>>
licenceVars == <<licences, installed, now>>
merchantVars == <<accounts, signedIn>>
storeVars == <<stores, edits>>
saasVars == <<fenceVars, licenceVars, limit, merchantVars, storeVars>>

NoAccount == [role |-> "none", active |-> FALSE]

SaasInit ==
  /\ instance \in [status : {"active"}, identity : Identities \cup {NULL},
                   epoch : {0}, request : {NULL}, result : {NULL}]
  /\ operations = [k \in Keys |-> NULL]
  /\ applied = [e \in Epochs |-> 0]
  /\ answers = {}
  /\ licences = [l \in LicenceIds |-> NULL]
  /\ installed = NULL
  /\ now = 0
  /\ limit = [seats |-> NULL, stores |-> NULL]
  /\ accounts = [a \in Accounts |-> NoAccount]
  /\ stores = [s \in Stores |-> IF s = Main THEN "active" ELSE "absent"]
  /\ signedIn = {}
  /\ edits = {}

-----------------------------------------------------------------------------
(* Quotas and the state of the instance                                    *)

ActiveAccounts == {a \in Accounts : accounts[a].active}
ActiveOwners == {a \in ActiveAccounts : accounts[a].role = "owner"}
ActiveStores == {s \in Stores : stores[s] = "active"}

\* Seeded fault: one more than the quota.
FaultAllowsOneMore(quota, used) == quota # NULL => used <= quota

HasRoom(quota, used) == quota # NULL => used + 1 <= quota

Current(row) == row # NULL /\ row.status = "current"

Licensed == \A l \in LicenceIds : Current(licences[l]) => licences[l].expires > now

Operational == instance.status = "active" /\ Licensed

\* upsertEntitlements: the keys of the body, and only they.
Updated(quotas, seats) ==
  IF seats = Keep THEN quotas ELSE [quotas EXCEPT !.seats = seats]

-----------------------------------------------------------------------------
(* Provisioning                                                            *)

IdentityAccepted(r, claim) ==
  /\ claim # NULL => r.identity = claim
  /\ instance.identity # NULL /\ r.identity # NULL => instance.identity = r.identity

\* Seeded faults: an older epoch is taken for a new one; the request behind
\* an epoch is not compared; a receipt is computed again.
FaultAcceptsOlder(r) == r.epoch # instance.epoch
FaultBindsEpochOnly(r) == r.epoch = instance.epoch
FaultAnswersAnew(r) == [epoch |-> r.epoch, seats |-> limit.seats, created |-> FALSE]

Advances(r) == r.epoch > instance.epoch
Bound(r) == r.epoch = instance.epoch /\ r = instance.request
Claimed(r) == Advances(r) \/ Bound(r)
StoredReceipt(r) == instance.result

\* An epoch that has its receipt is answered from it, never applied again.
FaultAppliesAgain(r) == Claimed(r)
Unanswered(r) == Advances(r) \/ (Bound(r) /\ instance.result = NULL)

CreatesOwner(r) == r.owner # NULL /\ ActiveOwners = {}

\* The quota is the one this request has just set; the instance is active,
\* as the request has just made it so.
OwnerCanBeCreated(r) ==
  /\ Licensed
  /\ HasRoom(Updated(limit, r.seats).seats, Cardinality(ActiveAccounts))
  /\ accounts[r.owner] = NoAccount

Receipt(r) ==
  [epoch |-> r.epoch, seats |-> Updated(limit, r.seats).seats, created |-> CreatesOwner(r)]

Provision(k, r, claim) ==
  /\ IdentityAccepted(r, claim)
  /\ Unanswered(r)
  /\ operations[k] = NULL
  /\ CreatesOwner(r) => OwnerCanBeCreated(r)
  /\ instance' = [status |-> "active",
                  identity |-> IF r.identity = NULL THEN instance.identity ELSE r.identity,
                  epoch |-> r.epoch, request |-> r, result |-> Receipt(r)]
  /\ operations' = [operations EXCEPT ![k] = [request |-> r, result |-> Receipt(r)]]
  /\ applied' = [applied EXCEPT ![r.epoch] = @ + 1]
  /\ answers' = answers \cup {Receipt(r)}
  /\ limit' = Updated(limit, r.seats)
  /\ accounts' = IF CreatesOwner(r)
                 THEN [accounts EXCEPT ![r.owner] = [role |-> "owner", active |-> TRUE]]
                 ELSE accounts
  /\ UNCHANGED <<licenceVars, signedIn, storeVars>>

\* A new key for an epoch that has been applied: the key gets its receipt.
ReplayEpoch(k, r, claim) ==
  /\ IdentityAccepted(r, claim)
  /\ Bound(r) /\ instance.result # NULL
  /\ operations[k] = NULL
  /\ operations' = [operations EXCEPT ![k] = [request |-> r, result |-> StoredReceipt(r)]]
  /\ answers' = answers \cup {StoredReceipt(r)}
  /\ UNCHANGED <<instance, applied, licenceVars, limit, merchantVars, storeVars>>

\* A key that was used for this very request.  The COMMIT of this branch
\* would also keep an epoch the request had just claimed.
ReplayKey(k, r, claim) ==
  /\ IdentityAccepted(r, claim)
  /\ Claimed(r)
  /\ operations[k] # NULL /\ operations[k].request = r
  /\ operations[k].result.epoch = r.epoch
  /\ instance' = IF Advances(r)
                 THEN [instance EXCEPT !.epoch = r.epoch, !.request = r, !.result = NULL]
                 ELSE instance
  /\ answers' = answers \cup {operations[k].result}
  /\ UNCHANGED <<operations, applied, licenceVars, limit, merchantVars, storeVars>>

-----------------------------------------------------------------------------
(* The other control operations                                            *)

UpdateEntitlements(seats, quota) ==
  /\ limit' = [seats |-> IF seats = Keep THEN limit.seats ELSE seats,
               stores |-> IF quota = Keep THEN limit.stores ELSE quota]
  /\ UNCHANGED <<fenceVars, licenceVars, merchantVars, storeVars>>

MayWriteIdentity(identity, claim) ==
  /\ claim # NULL /\ identity # Keep => identity = claim
  /\ claim # NULL /\ instance.identity # NULL => instance.identity = claim

UpdateInstance(status, identity, claim) ==
  /\ MayWriteIdentity(identity, claim)
  /\ instance' = [instance EXCEPT !.status = status,
                                  !.identity = IF identity = Keep THEN @ ELSE identity]
  /\ UNCHANGED <<operations, applied, answers, licenceVars, limit, merchantVars, storeVars>>

Superseded(row) == IF Current(row) THEN [row EXCEPT !.status = "superseded"] ELSE row

\* Seeded fault: a licence that has a row is not made current again.
FaultKeepsTheStatus(row, t) == [row EXCEPT !.signed = t.term]

\* ON CONFLICT (license_id) DO UPDATE sets status, hash, entitlements and
\* claims of the row; issued_at and expires_at stay what they were.
Reinstalled(row, t) == [row EXCEPT !.status = "current", !.signed = t.term]

\* ux_saas_licenses_current: a second current row would be a ROLLBACK.
AtMostOneCurrent(rows) ==
  \A l, m \in LicenceIds : Current(rows[l]) /\ Current(rows[m]) => l = m

InstallLicense(t) ==
  /\ t.term > now
  /\ t.identity # NULL /\ instance.identity # NULL => t.identity = instance.identity
  /\ LET superseded == [l \in LicenceIds |-> Superseded(licences[l])]
         new == [status |-> "current", expires |-> t.term, signed |-> t.term]
     IN  licences' = [superseded EXCEPT ![t.id] =
                        IF @ = NULL THEN new ELSE Reinstalled(@, t)]
  /\ AtMostOneCurrent(licences')
  /\ installed' = t.id
  /\ limit' = Updated(limit, t.seats)
  /\ UNCHANGED <<fenceVars, now, merchantVars, storeVars>>

\* External: the database clock.
Tick ==
  /\ now < MaxNow
  /\ now' = now + 1
  /\ UNCHANGED <<fenceVars, licences, installed, limit, merchantVars, storeVars>>
-----------------------------------------------------------------------------
(* Merchant accounts                                                       *)

\* authorizeMerchantRequest: the role is read here, without a lock, and
\* used after the lock was waited for.
SignIn(a) ==
  /\ accounts[a].active
  /\ signedIn' = signedIn \cup {[actor |-> a, owner |-> accounts[a].role = "owner"]}
  /\ UNCHANGED <<fenceVars, licenceVars, limit, accounts, storeVars>>

CreateAccount(req, a, role) ==
  /\ role = "owner" => req.owner
  /\ Operational
  /\ HasRoom(limit.seats, Cardinality(ActiveAccounts))
  /\ accounts[a] = NoAccount
  /\ accounts' = [accounts EXCEPT ![a] = [role |-> role, active |-> TRUE]]
  /\ signedIn' = signedIn \ {req}
  /\ UNCHANGED <<fenceVars, licenceVars, limit, storeVars>>

\* Seeded faults: owners that are not active count; a reactivation needs no
\* seat.
FaultCountsInactiveOwners(a, role, active) ==
  accounts[a].role = "owner" /\ accounts[a].active /\ (role # "owner" \/ ~active)
    => \E o \in Accounts \ {a} : accounts[o].role = "owner"
FaultReactivatesFreely(a, active) == TRUE

AnOwnerRemains(a, role, active) ==
  accounts[a].role = "owner" /\ accounts[a].active /\ (role # "owner" \/ ~active)
    => ActiveOwners \ {a} # {}

SeatIsFree(a, active) ==
  ~accounts[a].active /\ active
    => Operational /\ HasRoom(limit.seats, Cardinality(ActiveAccounts))

UpdateAccount(req, a, role, active) ==
  /\ accounts[a] # NoAccount
  /\ accounts[a].role = "owner" \/ role = "owner" => req.owner
  /\ a = req.actor => active
  /\ AnOwnerRemains(a, role, active)
  /\ SeatIsFree(a, active)
  /\ accounts' = [accounts EXCEPT ![a] = [role |-> role, active |-> active]]
  /\ signedIn' = signedIn \ {req}
  /\ UNCHANGED <<fenceVars, licenceVars, limit, storeVars>>

-----------------------------------------------------------------------------
(* Stores                                                                  *)

CreateStore(req, s) ==
  /\ req.owner
  /\ Operational
  /\ HasRoom(limit.stores, Cardinality(ActiveStores))
  /\ stores[s] = "absent"
  /\ stores' = [stores EXCEPT ![s] = "active"]
  /\ signedIn' = signedIn \ {req}
  /\ UNCHANGED <<fenceVars, licenceVars, limit, accounts, edits>>

\* The store is found in the list of active stores, which may itself be
\* some seconds old: an edit waits that much longer.
AuthoriseEdit(a, s, status) ==
  /\ accounts[a].active
  /\ stores[s] = "active"
  /\ status = "inactive" => accounts[a].role = "owner" /\ s # Main
  /\ edits' = edits \cup {[store |-> s, status |-> status]}
  /\ UNCHANGED <<fenceVars, licenceVars, limit, merchantVars, stores>>

\* One UPDATE by store_id.  A request that names no status means 'active'.
WriteEdit(edit) ==
  /\ stores' = [stores EXCEPT ![edit.store] = edit.status]
  /\ edits' = edits \ {edit}
  /\ UNCHANGED <<fenceVars, licenceVars, limit, merchantVars>>

-----------------------------------------------------------------------------
Roles == {"owner", "manager"}

ProvisioningStep ==
  \E k \in Keys, r \in Requests, claim \in Claims :
    Provision(k, r, claim) \/ ReplayEpoch(k, r, claim) \/ ReplayKey(k, r, claim)

ControlStep ==
  \/ \E seats, quota \in Quotas \cup {Keep} : UpdateEntitlements(seats, quota)
  \/ \E status \in {"active", "suspended"}, claim \in Claims,
        identity \in Identities \cup {NULL, Keep} : UpdateInstance(status, identity, claim)
  \/ \E t \in Tokens : InstallLicense(t)
  \/ Tick

AccountStep ==
  \/ \E a \in Accounts : SignIn(a)
  \/ \E req \in signedIn, a \in Accounts, role \in Roles :
        \/ CreateAccount(req, a, role)
        \/ \E active \in BOOLEAN : UpdateAccount(req, a, role, active)

StoreStep ==
  \/ \E req \in signedIn, s \in Stores : CreateStore(req, s)
  \/ \E a \in Accounts, s \in Stores, status \in {"active", "inactive"} :
        AuthoriseEdit(a, s, status)
  \/ \E edit \in edits : WriteEdit(edit)

SaasNext == ProvisioningStep \/ ControlStep \/ AccountStep \/ StoreStep

SaasSpec == SaasInit /\ [][SaasNext]_saasVars

-----------------------------------------------------------------------------
(* Properties                                                              *)

InstanceRows ==
  [status : {"active", "suspended"}, identity : Identities \cup {NULL},
   epoch : Epochs \cup {0}, request : Requests \cup {NULL},
   result : Receipts \cup {NULL}]

\* Every row and every request in flight has its type.
SaasTypeOK ==
  /\ instance \in InstanceRows
  /\ operations \in [Keys -> [request : Requests, result : Receipts] \cup {NULL}]
  /\ applied \in [Epochs -> Nat]
  /\ answers \subseteq Receipts
  /\ licences \in [LicenceIds -> LicenceRows \cup {NULL}]
  /\ installed \in LicenceIds \cup {NULL}
  /\ now \in 0 .. MaxNow
  /\ limit \in [seats : Quotas, stores : Quotas]
  /\ accounts \in [Accounts -> [role : Roles \cup {"none"}, active : BOOLEAN]]
  /\ stores \in [Stores -> {"absent", "active", "inactive"}]
  /\ signedIn \subseteq [actor : Accounts, owner : BOOLEAN]
  /\ edits \subseteq [store : Stores, status : {"active", "inactive"}]

\* The epoch never goes back, and the request and the receipt of an epoch
\* never change while it is the latest one, whatever requests are delayed,
\* retried or repeated under other keys (claimProvisioningExternalEpoch).
EpochsAreFenced ==
  [][/\ instance'.epoch >= instance.epoch
     /\ instance'.epoch = instance.epoch =>
          instance'.request = instance.request /\ instance'.result = instance.result
    ]_saasVars

\* Every answer to an epoch is the same receipt, also when a retry comes
\* after later entitlement updates, and also under another key.
OneReceiptPerEpoch ==
  \A one, other \in answers : one.epoch = other.epoch => one = other

\* The receipt of a completed key is the one its epoch was answered with,
\* and an epoch was applied once exactly if it has been answered.
ReceiptsAreOfAppliedEpochs ==
  /\ \A e \in Epochs : applied[e] = IF \E r \in answers : r.epoch = e THEN 1 ELSE 0
  /\ \A k \in Keys : operations[k] # NULL =>
       /\ operations[k].result \in answers
       /\ operations[k].result.epoch = operations[k].request.epoch
       /\ operations[k].request.epoch = instance.epoch =>
            operations[k].request = instance.request

\* A tenant that was suspended is not reactivated by a late retry of the
\* provisioning that activated it: only a newer epoch does that.  (The
\* operator's own update leaves answers and operations alone.)
RetriesDoNotReactivate ==
  [][instance.status = "suspended" /\ instance'.status = "active"
       /\ <<operations, answers>>' # <<operations, answers>>
     => instance'.epoch > instance.epoch]_saasVars

\* However often, late or under whichever key a provisioning request comes, its
\* epoch is applied once and answered with one receipt.
EpochsAreAnsweredOnce == OneReceiptPerEpoch /\ ReceiptsAreOfAppliedEpochs

\* Nothing that comes late moves the instance back: neither its epoch, nor what
\* the epoch is bound to, nor a suspension.
ProvisioningIsFenced == EpochsAreFenced /\ RetriesDoNotReactivate

\* Whoever creates, reactivates or provisions an account, and however long
\* the request waited: the number of active accounts grows only within
\* merchant.active_users.max.
SeatsAreWithinQuota ==
  [][Cardinality(ActiveAccounts') > Cardinality(ActiveAccounts)
     => limit'.seats = NULL \/ Cardinality(ActiveAccounts') <= limit'.seats]_saasVars

\* A tenant with an active owner keeps one: two owners that demote or
\* deactivate each other at the same time do not both succeed.
AnOwnerStaysActive ==
  [][ActiveOwners # {} => ActiveOwners' # {}]_saasVars

\* No account or store comes into being, or back, while the instance is
\* suspended or its licence has run out.
GrowthNeedsOperation ==
  [][\/ ~(ActiveAccounts' \subseteq ActiveAccounts)
     \/ (\E s \in Stores : stores[s] = "absent" /\ stores'[s] = "active")
     => Operational']_saasVars

\* In whatever order licences are installed, replaced and installed again, the
\* one current licence, by whose term the instance is judged, is the one that
\* was installed last; from the first on there always is one (installLicense:
\* without a current row the expiry would not be checked at all).
OneCurrentLicence ==
  {l \in LicenceIds : Current(licences[l])} = IF installed = NULL THEN {} ELSE {installed}

\* A new store is within stores.max.
NewStoresAreWithinQuota ==
  [][(\E s \in Stores : stores[s] = "absent" /\ stores'[s] = "active")
     => limit'.stores = NULL \/ Cardinality(ActiveStores') <= limit'.stores]_saasVars

\* Four handlers make accounts and stores, and each quota, limit and licence can
\* change while a request waits for the instance's lock: what grows, grows
\* within the plan that is in force at that moment.
GrowthIsWithinPlan ==
  SeatsAreWithinQuota /\ NewStoresAreWithinQuota /\ GrowthNeedsOperation

\* What SAAS_CONTROL.md says of stores.max: the number of active stores
\* grows only within it.  It does not hold: see the README's findings.
StoresAreWithinQuota ==
  [][Cardinality(ActiveStores') > Cardinality(ActiveStores)
     => limit'.stores = NULL \/ Cardinality(ActiveStores') <= limit'.stores]_saasVars

\* What SAAS_CONTROL.md says of saas_licenses: they store the metadata of
\* the signed licence.  It does not hold: see the README's findings.
StoredTermIsTheSignedOne ==
  \A l \in LicenceIds : licences[l] # NULL => licences[l].expires = licences[l].signed
=============================================================================
