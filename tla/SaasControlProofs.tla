-------------------------- MODULE SaasControlProofs --------------------------
(***************************************************************************)
(* What SaasControl guarantees for any requests, keys, licences, accounts, *)
(* stores and limits.  The argument for the fence is FenceInv: whatever is *)
(* stored under a key or was ever answered belongs to an epoch that is not *)
(* newer than the instance's, and the newest epoch has its receipt.        *)
(* RequestCaches, the seats of BuyerAccess and their composition with      *)
(* SaasControl have sections of their own at the end.                      *)
(***************************************************************************)
EXTENDS MCInstance, FiniteSetTheorems, TLAPS

\* A receipt has the type of a receipt.
LEMMA ReceiptType ==
  ASSUME SaasTypeOK, NEW r \in Requests
  PROVE  /\ Updated(limit, r.seats) \in [seats : Quotas, stores : Quotas]
         /\ Receipt(r) \in Receipts
         /\ r.epoch \in Epochs
  BY SaasAssumption DEF SaasTypeOK, Updated, Receipt, Receipts, CreatesOwner,
     ActiveOwners, ActiveAccounts, Epochs, Quotas

\* The types are kept by provisioning,
LEMMA ProvisioningTypes == ASSUME SaasTypeOK, ProvisioningStep PROVE SaasTypeOK'
<1>1. PICK k \in Keys, r \in Requests, claim \in Claims :
        Provision(k, r, claim) \/ ReplayEpoch(k, r, claim) \/ ReplayKey(k, r, claim)
  BY DEF ProvisioningStep
<1>2. CASE Provision(k, r, claim)
  <2>1. /\ Updated(limit, r.seats) \in [seats : Quotas, stores : Quotas]
        /\ Receipt(r) \in Receipts
        /\ r.epoch \in Epochs
    BY ReceiptType
  <2>2. instance' \in InstanceRows
    BY <1>2, <2>1, SaasAssumption DEF Provision, InstanceRows, SaasTypeOK
  <2>3. operations' \in [Keys -> [request : Requests, result : Receipts] \cup {NULL}]
    BY <1>2, <2>1 DEF Provision, SaasTypeOK
  <2>4. applied' \in [Epochs -> Nat]
    BY <1>2, <2>1 DEF Provision, SaasTypeOK
  <2>5. accounts' \in [Accounts -> [role : Roles \cup {"none"}, active : BOOLEAN]]
    <3>1. CASE CreatesOwner(r)
      <4>1. r.owner \in Accounts BY <3>1, SaasAssumption DEF CreatesOwner
      <4>2. accounts' = [accounts EXCEPT ![r.owner] = [role |-> "owner", active |-> TRUE]]
        BY <1>2, <3>1 DEF Provision
      <4> QED BY <4>1, <4>2 DEF SaasTypeOK, Roles
    <3>2. CASE ~CreatesOwner(r) BY <1>2, <3>2 DEF Provision, SaasTypeOK
    <3> QED BY <3>1, <3>2
  <2> QED BY <1>2, <2>1, <2>2, <2>3, <2>4, <2>5
    DEF Provision, SaasTypeOK, licenceVars, storeVars
<1>3. CASE ReplayEpoch(k, r, claim)
  BY <1>3, SaasAssumption DEF ReplayEpoch, StoredReceipt, SaasTypeOK, InstanceRows, licenceVars,
     merchantVars, storeVars
<1>4. CASE ReplayKey(k, r, claim)
  <2>1. /\ operations[k] \in [request : Requests, result : Receipts]
        /\ r.epoch \in Epochs
    BY <1>4, ReceiptType DEF ReplayKey, SaasTypeOK
  <2>2. instance' \in InstanceRows
    <3>1. CASE Advances(r)
      BY <1>4, <2>1, <3>1 DEF ReplayKey, SaasTypeOK, InstanceRows
    <3>2. CASE ~Advances(r)
      BY <1>4, <3>2 DEF ReplayKey, SaasTypeOK
    <3> QED BY <3>1, <3>2
  <2>3. answers' \subseteq Receipts
    BY <1>4, <2>1 DEF ReplayKey, SaasTypeOK
  <2> QED BY <1>4, <2>2, <2>3 DEF ReplayKey, SaasTypeOK, licenceVars, merchantVars, storeVars
<1> QED BY <1>1, <1>2, <1>3, <1>4

\* by the other control operations,
LEMMA ControlTypes == ASSUME SaasTypeOK, ControlStep PROVE SaasTypeOK'
<1>1. ASSUME NEW seats \in Quotas \cup {Keep}, NEW quota \in Quotas \cup {Keep},
             UpdateEntitlements(seats, quota)
      PROVE  SaasTypeOK'
  <2>1. limit' \in [seats : Quotas, stores : Quotas]
    BY <1>1 DEF UpdateEntitlements, SaasTypeOK
  <2> QED BY <1>1, <2>1 DEF UpdateEntitlements, SaasTypeOK, fenceVars, licenceVars,
    merchantVars, storeVars
<1>2. ASSUME NEW status \in {"active", "suspended"}, NEW claim \in Claims,
             NEW identity \in Identities \cup {NULL, Keep},
             UpdateInstance(status, identity, claim)
      PROVE  SaasTypeOK'
  <2>1. instance' \in InstanceRows
    BY <1>2 DEF UpdateInstance, InstanceRows, SaasTypeOK
  <2> QED BY <1>2, <2>1 DEF UpdateInstance, SaasTypeOK, licenceVars, merchantVars, storeVars
<1>3. ASSUME NEW t \in Tokens, InstallLicense(t) PROVE SaasTypeOK'
  <2> DEFINE superseded == [l \in LicenceIds |-> Superseded(licences[l])]
             new == [status |-> "current", expires |-> t.term, signed |-> t.term]
             row == IF superseded[t.id] = NULL THEN new ELSE Reinstalled(superseded[t.id], t)
  <2>1. t.id \in LicenceIds /\ t.term \in Nat
    BY SaasAssumption DEF LicenceIds
  <2>2. superseded \in [LicenceIds -> LicenceRows \cup {NULL}]
    BY DEF Superseded, Current, SaasTypeOK, LicenceRows
  <2>3. licences' \in [LicenceIds -> LicenceRows \cup {NULL}]
    <3>1. row \in LicenceRows
      BY <2>1, <2>2 DEF LicenceRows, Reinstalled
    <3>2. licences' = [superseded EXCEPT ![t.id] = row]
      BY <1>3, <2>1 DEF InstallLicense
    <3> HIDE DEF superseded, row
    <3> QED BY <2>2, <3>1, <3>2
  <2>4. limit' \in [seats : Quotas, stores : Quotas]
    BY <1>3, SaasAssumption DEF InstallLicense, Updated, SaasTypeOK
  <2> QED BY <1>3, <2>3, <2>4 DEF InstallLicense, SaasTypeOK, fenceVars, merchantVars, storeVars
<1>4. ASSUME Tick PROVE SaasTypeOK'
  BY <1>4, SaasAssumption DEF Tick, SaasTypeOK, fenceVars, merchantVars, storeVars
<1> QED BY <1>1, <1>2, <1>3, <1>4 DEF ControlStep

\* and by the merchant operations.
LEMMA MerchantTypes == ASSUME SaasTypeOK, AccountStep \/ StoreStep PROVE SaasTypeOK'
<1> USE DEF SaasTypeOK, fenceVars, licenceVars, merchantVars, storeVars, Roles
<1>1. ASSUME NEW a \in Accounts, SignIn(a) PROVE SaasTypeOK'
  <2>1. [actor |-> a, owner |-> accounts[a].role = "owner"] \in [actor : Accounts, owner : BOOLEAN]
    OBVIOUS
  <2>2. signedIn' \subseteq [actor : Accounts, owner : BOOLEAN]
    BY <1>1, <2>1 DEF SignIn
  <2> QED BY <1>1, <2>2 DEF SignIn
<1>2. ASSUME NEW req \in signedIn, NEW a \in Accounts, NEW role \in Roles,
             CreateAccount(req, a, role)
      PROVE  SaasTypeOK'
  BY <1>2 DEF CreateAccount
<1>3. ASSUME NEW req \in signedIn, NEW a \in Accounts, NEW role \in Roles, NEW active \in BOOLEAN,
             UpdateAccount(req, a, role, active)
      PROVE  SaasTypeOK'
  BY <1>3 DEF UpdateAccount
<1>4. ASSUME NEW req \in signedIn, NEW s \in Stores, CreateStore(req, s) PROVE SaasTypeOK'
  BY <1>4 DEF CreateStore
<1>5. ASSUME NEW a \in Accounts, NEW s \in Stores, NEW status \in {"active", "inactive"},
             AuthoriseEdit(a, s, status)
      PROVE  SaasTypeOK'
  BY <1>5 DEF AuthoriseEdit
<1>6. ASSUME NEW edit \in edits, WriteEdit(edit) PROVE SaasTypeOK'
  BY <1>6 DEF WriteEdit
<1> QED BY <1>1, <1>2, <1>3, <1>4, <1>5, <1>6 DEF AccountStep, StoreStep

LEMMA InitTypes == SaasInit => SaasTypeOK
  BY SaasAssumption DEF SaasInit, SaasTypeOK, InstanceRows, LicenceRows, NoAccount, Quotas

LEMMA StepTypes == SaasTypeOK /\ [SaasNext]_saasVars => SaasTypeOK'
<1>1. SaasTypeOK /\ SaasNext => SaasTypeOK'
  BY ProvisioningTypes, ControlTypes, MerchantTypes DEF SaasNext
<1>2. SaasTypeOK /\ UNCHANGED saasVars => SaasTypeOK'
  BY DEF SaasTypeOK, saasVars, fenceVars, licenceVars, merchantVars, storeVars,
     InstanceRows, LicenceRows
<1> QED BY <1>1, <1>2

\* The control plane and what it governs keep their types, for any constants.
THEOREM SaasTypes == SaasSpec => []SaasTypeOK
  BY InitTypes, StepTypes, PTL DEF SaasSpec

-----------------------------------------------------------------------------
(* The fence                                                               *)

Known == \A receipt \in answers : receipt.epoch <= instance.epoch

NewestIsAnswered ==
  \/ instance.epoch = 0 /\ answers = {}
  \/ /\ instance.request \in Requests /\ instance.request.epoch = instance.epoch
     /\ instance.result \in answers /\ instance.result.epoch = instance.epoch

FenceInv == /\ SaasTypeOK
            /\ Known
            /\ NewestIsAnswered
            /\ OneReceiptPerEpoch
            /\ ReceiptsAreOfAppliedEpochs

LEMMA InitFence == SaasInit => FenceInv
<1> SUFFICES ASSUME SaasInit PROVE FenceInv
  OBVIOUS
<1>1. SaasTypeOK BY InitTypes
<1> QED BY <1>1 DEF SaasInit, FenceInv, Known, NewestIsAnswered, OneReceiptPerEpoch,
  ReceiptsAreOfAppliedEpochs

\* A request that claims an epoch without a receipt claims a newer one.
LEMMA OnlyNewEpochsAreApplied ==
  ASSUME FenceInv, NEW r \in Requests, Unanswered(r)
  PROVE  Advances(r) /\ \A receipt \in answers : receipt.epoch # r.epoch
<1>1. r.epoch \in Nat \ {0} /\ instance.epoch \in Nat
  BY SaasAssumption DEF FenceInv, SaasTypeOK, InstanceRows, Epochs
<1>2. ~(Bound(r) /\ instance.result = NULL)
  BY <1>1, SaasAssumption DEF Bound, FenceInv, NewestIsAnswered, SaasTypeOK
<1>3. r.epoch > instance.epoch BY <1>2 DEF Unanswered, Advances
<1>4. \A receipt \in answers : receipt.epoch \in Nat
  BY SaasAssumption DEF FenceInv, SaasTypeOK, Receipts, Epochs
<1> QED BY <1>1, <1>3, <1>4 DEF FenceInv, Known, Advances

\* A key is used again only for the epoch that is still the newest.
LEMMA KeysReplayTheNewest ==
  ASSUME FenceInv, NEW r \in Requests, NEW k \in Keys,
         operations[k] # NULL, operations[k].request = r, operations[k].result.epoch = r.epoch
  PROVE  ~Advances(r) /\ operations[k].result \in answers
<1>1. operations[k].result \in answers
  BY DEF FenceInv, ReceiptsAreOfAppliedEpochs
<1>2. r.epoch \in Nat /\ instance.epoch \in Nat /\ r.epoch <= instance.epoch
  BY <1>1, SaasAssumption DEF FenceInv, Known, SaasTypeOK, InstanceRows, Epochs
<1> QED BY <1>1, <1>2 DEF Advances

LEMMA ProvisionKeepsFence ==
  ASSUME FenceInv, NEW k \in Keys, NEW r \in Requests, NEW claim \in Claims,
         Provision(k, r, claim)
  PROVE  Known' /\ NewestIsAnswered' /\ OneReceiptPerEpoch' /\ ReceiptsAreOfAppliedEpochs'
<1>1. Advances(r) /\ \A receipt \in answers : receipt.epoch # r.epoch
  BY OnlyNewEpochsAreApplied DEF Provision
<1>2. /\ r.epoch \in Nat \ {0} /\ r.epoch \in Epochs
      /\ instance.epoch \in Nat
      /\ \A receipt \in answers : receipt.epoch \in Nat
  BY SaasAssumption DEF FenceInv, SaasTypeOK, InstanceRows, Epochs, Receipts
<1>3. /\ instance'.epoch = r.epoch /\ instance'.request = r /\ instance'.result = Receipt(r)
      /\ answers' = answers \cup {Receipt(r)}
      /\ Receipt(r).epoch = r.epoch
  BY DEF Provision, Receipt
<1>4. Known'
  BY <1>1, <1>2, <1>3 DEF Known, Advances, FenceInv
<1>5. NewestIsAnswered'
  BY <1>3 DEF NewestIsAnswered
<1>6. OneReceiptPerEpoch'
  BY <1>1, <1>3 DEF OneReceiptPerEpoch, FenceInv
<1>7. ASSUME NEW e \in Epochs
      PROVE  applied'[e] = IF \E receipt \in answers' : receipt.epoch = e THEN 1 ELSE 0
  <2>1. applied' = [applied EXCEPT ![r.epoch] = @ + 1] /\ applied \in [Epochs -> Nat]
    BY DEF Provision, FenceInv, SaasTypeOK
  <2>2. applied[e] = IF \E receipt \in answers : receipt.epoch = e THEN 1 ELSE 0
    BY DEF FenceInv, ReceiptsAreOfAppliedEpochs
  <2>3. CASE e = r.epoch
    BY <1>1, <1>2, <1>3, <2>1, <2>2, <2>3
  <2>4. CASE e # r.epoch
    BY <1>2, <1>3, <2>1, <2>2, <2>4
  <2> QED BY <2>3, <2>4
<1>8. ASSUME NEW j \in Keys, operations'[j] # NULL
      PROVE  /\ operations'[j].result \in answers'
             /\ operations'[j].result.epoch = operations'[j].request.epoch
             /\ operations'[j].request.epoch = instance'.epoch =>
                  operations'[j].request = instance'.request
  <2>1. operations' = [operations EXCEPT ![k] = [request |-> r, result |-> Receipt(r)]]
        /\ DOMAIN operations = Keys
    BY DEF Provision, FenceInv, SaasTypeOK
  <2>2. CASE j = k BY <1>3, <2>1, <2>2
  <2>3. CASE j # k
    <3>1. operations'[j] = operations[j] BY <2>1, <2>3
    <3>2. operations[j].result \in answers
          /\ operations[j].result.epoch = operations[j].request.epoch
      BY <1>8, <3>1 DEF FenceInv, ReceiptsAreOfAppliedEpochs
    <3> QED BY <1>1, <1>3, <3>1, <3>2
  <2> QED BY <2>2, <2>3
<1> QED BY <1>4, <1>5, <1>6, <1>7, <1>8 DEF ReceiptsAreOfAppliedEpochs

LEMMA ReplayFence ==
  ASSUME FenceInv, NEW k \in Keys, NEW r \in Requests, NEW claim \in Claims,
         ReplayEpoch(k, r, claim) \/ ReplayKey(k, r, claim)
  PROVE  /\ instance' = instance /\ answers' = answers /\ applied' = applied
         /\ ReceiptsAreOfAppliedEpochs'
<1>1. CASE ReplayEpoch(k, r, claim)
  <2>1. r = instance.request /\ r.epoch = instance.epoch /\ r.epoch \in Nat \ {0}
    BY <1>1, SaasAssumption DEF ReplayEpoch, Bound
  <2>2. instance.result \in answers /\ instance.result.epoch = instance.epoch
    BY <2>1 DEF FenceInv, NewestIsAnswered
  <2>3. instance' = instance /\ answers' = answers /\ applied' = applied
        /\ operations' = [operations EXCEPT ![k] = [request |-> r, result |-> instance.result]]
    BY <1>1, <2>2 DEF ReplayEpoch, StoredReceipt
  <2>4. DOMAIN operations = Keys BY DEF FenceInv, SaasTypeOK
  <2>5. ASSUME NEW j \in Keys, operations'[j] # NULL
        PROVE  /\ operations'[j].result \in answers'
               /\ operations'[j].result.epoch = operations'[j].request.epoch
               /\ operations'[j].request.epoch = instance'.epoch =>
                    operations'[j].request = instance'.request
    <3>1. CASE j = k BY <2>1, <2>2, <2>3, <2>4, <3>1
    <3>2. CASE j # k
      <4>1. operations'[j] = operations[j] BY <2>3, <2>4, <3>2
      <4> QED BY <2>3, <2>5, <4>1 DEF FenceInv, ReceiptsAreOfAppliedEpochs
    <3> QED BY <3>1, <3>2
  <2>6. \A e \in Epochs :
          applied'[e] = IF \E receipt \in answers' : receipt.epoch = e THEN 1 ELSE 0
    BY <2>3 DEF FenceInv, ReceiptsAreOfAppliedEpochs
  <2> QED BY <2>3, <2>5, <2>6 DEF ReceiptsAreOfAppliedEpochs
<1>2. CASE ReplayKey(k, r, claim)
  <2>1. ~Advances(r) /\ operations[k].result \in answers
    BY <1>2, KeysReplayTheNewest DEF ReplayKey
  <2>2. instance' = instance /\ answers' = answers /\ applied' = applied
        /\ operations' = operations
    BY <1>2, <2>1 DEF ReplayKey
  <2> QED BY <2>2 DEF FenceInv, ReceiptsAreOfAppliedEpochs
<1> QED BY <1>1, <1>2

\* What the other operations leave of the fence.
LEMMA OthersKeepFence ==
  ASSUME ControlStep \/ AccountStep \/ StoreStep, FenceInv
  PROVE  /\ instance'.epoch = instance.epoch /\ instance'.request = instance.request
         /\ instance'.result = instance.result
         /\ UNCHANGED <<operations, applied, answers>>
<1>1. CASE \E status \in {"active", "suspended"}, claim \in Claims,
              identity \in Identities \cup {NULL, Keep} : UpdateInstance(status, identity, claim)
  BY <1>1 DEF UpdateInstance, FenceInv, SaasTypeOK, InstanceRows
<1>2. CASE UNCHANGED fenceVars BY <1>2 DEF fenceVars
<1> QED BY <1>1, <1>2 DEF ControlStep, AccountStep, StoreStep, UpdateEntitlements, InstallLicense,
  Tick, SignIn, CreateAccount, UpdateAccount, CreateStore, AuthoriseEdit, WriteEdit,
  fenceVars

LEMMA StepFence == FenceInv /\ [SaasNext]_saasVars => FenceInv'
<1> SUFFICES ASSUME FenceInv, [SaasNext]_saasVars PROVE FenceInv'
  OBVIOUS
<1>1. SaasTypeOK' BY StepTypes DEF FenceInv
<1>2. CASE ProvisioningStep
  <2>1. PICK k \in Keys, r \in Requests, claim \in Claims :
          Provision(k, r, claim) \/ ReplayEpoch(k, r, claim) \/ ReplayKey(k, r, claim)
    BY <1>2 DEF ProvisioningStep
  <2>2. CASE Provision(k, r, claim)
    BY <1>1, <2>2, ProvisionKeepsFence DEF FenceInv
  <2>3. CASE ReplayEpoch(k, r, claim) \/ ReplayKey(k, r, claim)
    <3>1. /\ instance' = instance /\ answers' = answers
          /\ ReceiptsAreOfAppliedEpochs'
      BY <2>3, ReplayFence
    <3> QED BY <1>1, <3>1 DEF FenceInv, Known, NewestIsAnswered, OneReceiptPerEpoch
  <2> QED BY <2>1, <2>2, <2>3
<1>3. CASE ControlStep \/ AccountStep \/ StoreStep
  <2>1. /\ instance'.epoch = instance.epoch /\ instance'.request = instance.request
        /\ instance'.result = instance.result
        /\ UNCHANGED <<operations, applied, answers>>
    BY <1>3, OthersKeepFence
  <2> QED BY <1>1, <2>1 DEF FenceInv, Known, NewestIsAnswered, OneReceiptPerEpoch,
    ReceiptsAreOfAppliedEpochs
<1>4. CASE UNCHANGED saasVars
  BY <1>1, <1>4 DEF saasVars, fenceVars, FenceInv, Known, NewestIsAnswered, OneReceiptPerEpoch,
    ReceiptsAreOfAppliedEpochs
<1> QED BY <1>2, <1>3, <1>4 DEF SaasNext

LEMMA Fence == SaasSpec => []FenceInv
  BY InitFence, StepFence, PTL DEF SaasSpec

\* Whatever is retried, and however late: every answer to an epoch is the
\* same receipt.
THEOREM OneReceipt == SaasSpec => []OneReceiptPerEpoch
<1>1. FenceInv => OneReceiptPerEpoch BY DEF FenceInv
<1> QED BY <1>1, Fence, PTL

\* Every answered epoch was applied exactly once, and every completed key
\* holds an answer to its own request's epoch.
THEOREM AppliedOnce == SaasSpec => []ReceiptsAreOfAppliedEpochs
<1>1. FenceInv => ReceiptsAreOfAppliedEpochs BY DEF FenceInv
<1> QED BY <1>1, Fence, PTL

\* Late and repeated requests never take the instance back to an older
\* epoch, and never change what the newest one asked for and was told.
THEOREM FencedEpochs == SaasSpec => EpochsAreFenced
<1> DEFINE Kept == /\ instance'.epoch >= instance.epoch
                   /\ instance'.epoch = instance.epoch =>
                        instance'.request = instance.request /\ instance'.result = instance.result
<1>1. ASSUME FenceInv, SaasNext PROVE Kept
  <2>1. instance.epoch \in Nat
    BY <1>1, SaasAssumption DEF FenceInv, SaasTypeOK, InstanceRows, Epochs
  <2>2. CASE ProvisioningStep
    <3>1. PICK k \in Keys, r \in Requests, claim \in Claims :
            Provision(k, r, claim) \/ ReplayEpoch(k, r, claim) \/ ReplayKey(k, r, claim)
      BY <2>2 DEF ProvisioningStep
    <3>2. CASE Provision(k, r, claim)
      <4>1. instance'.epoch = r.epoch /\ r.epoch > instance.epoch /\ r.epoch \in Nat
        BY <1>1, <3>2, OnlyNewEpochsAreApplied, SaasAssumption DEF Provision, Advances
      <4> QED BY <2>1, <4>1
    <3>3. CASE ReplayEpoch(k, r, claim) \/ ReplayKey(k, r, claim)
      <4>1. instance' = instance BY <1>1, <3>3, ReplayFence
      <4> QED BY <2>1, <4>1
    <3> QED BY <3>1, <3>2, <3>3
  <2>3. CASE ControlStep \/ AccountStep \/ StoreStep
    BY <1>1, <2>1, <2>3, OthersKeepFence
  <2> QED BY <1>1, <2>2, <2>3 DEF SaasNext
<1>2. FenceInv /\ [SaasNext]_saasVars => [Kept]_saasVars BY <1>1
<1> QED BY <1>2, Fence, PTL DEF SaasSpec, EpochsAreFenced

\* A retry of an old provisioning does not bring a suspended tenant back.
THEOREM NoLateReactivation == SaasSpec => RetriesDoNotReactivate
<1> DEFINE Sober == instance.status = "suspended" /\ instance'.status = "active"
                      /\ <<operations, answers>>' # <<operations, answers>>
                    => instance'.epoch > instance.epoch
<1>1. ASSUME FenceInv, SaasNext PROVE Sober
  <2>1. CASE ProvisioningStep
    <3>1. PICK k \in Keys, r \in Requests, claim \in Claims :
            Provision(k, r, claim) \/ ReplayEpoch(k, r, claim) \/ ReplayKey(k, r, claim)
      BY <2>1 DEF ProvisioningStep
    <3>2. CASE Provision(k, r, claim)
      BY <1>1, <3>2, OnlyNewEpochsAreApplied DEF Provision, Advances
    <3>3. CASE ReplayEpoch(k, r, claim) \/ ReplayKey(k, r, claim)
      <4>1. instance' = instance BY <1>1, <3>3, ReplayFence
      <4> QED BY <4>1
    <3> QED BY <3>1, <3>2, <3>3
  <2>2. CASE ControlStep \/ AccountStep \/ StoreStep
    BY <1>1, <2>2, OthersKeepFence
  <2> QED BY <1>1, <2>1, <2>2 DEF SaasNext
<1>2. FenceInv /\ [SaasNext]_saasVars => [Sober]_saasVars BY <1>1
<1> QED BY <1>2, Fence, PTL DEF SaasSpec, RetriesDoNotReactivate

-----------------------------------------------------------------------------
(* Owners, seats and licences                                              *)

\* Outside the account operations nothing changes an account.
LEMMA AccountsAreLeftAlone ==
  ASSUME ControlStep \/ StoreStep PROVE accounts' = accounts
  BY DEF ControlStep, StoreStep, UpdateEntitlements, UpdateInstance, InstallLicense, Tick,
     CreateStore, AuthoriseEdit, WriteEdit, merchantVars

\* An account that becomes active takes exactly one seat.
LEMMA OneMoreSeat ==
  ASSUME SaasTypeOK, NEW a \in Accounts, ~accounts[a].active, NEW row, row.active,
         accounts' = [accounts EXCEPT ![a] = row]
  PROVE  /\ Cardinality(ActiveAccounts) \in Nat
         /\ Cardinality(ActiveAccounts') = Cardinality(ActiveAccounts) + 1
<1>1. IsFiniteSet(ActiveAccounts)
  BY SaasAssumption, FS_Subset DEF ActiveAccounts
<1>2. ActiveAccounts' = ActiveAccounts \cup {a} /\ a \notin ActiveAccounts
  BY DEF ActiveAccounts, SaasTypeOK
<1> QED BY <1>1, <1>2, FS_AddElement, FS_CardinalityType

\* An update that activates nobody takes no seat.
LEMMA NoMoreSeats ==
  ASSUME ActiveAccounts' \subseteq ActiveAccounts
  PROVE  ~(Cardinality(ActiveAccounts') > Cardinality(ActiveAccounts))
<1>1. IsFiniteSet(ActiveAccounts)
  BY SaasAssumption, FS_Subset DEF ActiveAccounts
<1>2. /\ Cardinality(ActiveAccounts') <= Cardinality(ActiveAccounts)
      /\ Cardinality(ActiveAccounts) \in Nat
      /\ Cardinality(ActiveAccounts') \in Nat
  BY <1>1, FS_Subset, FS_CardinalityType
<1> QED BY <1>2

\* The last active owner cannot be lost, however stale the requests that
\* would take it away.
THEOREM LastOwner == SaasSpec => AnOwnerStaysActive
<1> DEFINE Stays == ActiveOwners # {} => ActiveOwners' # {}
<1>1. ASSUME SaasTypeOK, SaasNext, ActiveOwners # {} PROVE ActiveOwners' # {}
  <2>1. PICK o \in ActiveOwners : TRUE BY <1>1
  <2>2. o \in Accounts /\ accounts[o].active /\ accounts[o].role = "owner"
    BY <2>1 DEF ActiveOwners, ActiveAccounts
  <2>3. ASSUME NEW q \in ActiveOwners, accounts'[q] = accounts[q] PROVE ActiveOwners' # {}
    BY <2>3 DEF ActiveOwners, ActiveAccounts
  <2>4. CASE accounts' = accounts BY <2>1, <2>3, <2>4
  <2>5. CASE ProvisioningStep
    BY <1>1, <2>4, <2>5 DEF ProvisioningStep, Provision, ReplayEpoch, ReplayKey, CreatesOwner,
      merchantVars
  <2>6. ASSUME NEW req \in signedIn, NEW a \in Accounts, NEW role \in Roles,
               CreateAccount(req, a, role)
        PROVE  ActiveOwners' # {}
    BY <1>1, <2>1, <2>2, <2>3, <2>6 DEF CreateAccount, NoAccount, SaasTypeOK
  <2>7. ASSUME NEW req \in signedIn, NEW a \in Accounts, NEW role \in Roles, NEW active \in BOOLEAN,
               UpdateAccount(req, a, role, active)
        PROVE  ActiveOwners' # {}
    <3>1. accounts' = [accounts EXCEPT ![a] = [role |-> role, active |-> active]]
          /\ DOMAIN accounts = Accounts
      BY <1>1, <2>7 DEF UpdateAccount, SaasTypeOK
    <3>2. CASE o # a BY <2>1, <2>2, <2>3, <3>1, <3>2
    <3>3. CASE o = a /\ role = "owner" /\ active
      BY <3>1, <3>3 DEF ActiveOwners, ActiveAccounts
    <3>4. CASE o = a /\ (role # "owner" \/ ~active)
      <4>1. ActiveOwners \ {a} # {} BY <2>2, <2>7, <3>4 DEF UpdateAccount, AnOwnerRemains
      <4>2. PICK q \in ActiveOwners : q # a BY <4>1
      <4>3. q \in Accounts BY <4>2 DEF ActiveOwners, ActiveAccounts
      <4> QED BY <2>3, <3>1, <4>2, <4>3
    <3> QED BY <3>2, <3>3, <3>4
  <2>8. CASE ControlStep \/ StoreStep BY <2>4, <2>8, AccountsAreLeftAlone
  <2>9. CASE AccountStep
    BY <2>4, <2>6, <2>7, <2>9 DEF AccountStep, SignIn
  <2> QED BY <1>1, <2>5, <2>8, <2>9 DEF SaasNext
<1>2. SaasTypeOK /\ [SaasNext]_saasVars => [Stays]_saasVars BY <1>1
<1> QED BY <1>2, SaasTypes, PTL DEF SaasSpec, AnOwnerStaysActive

\* The number of active accounts grows only to the quota that is in force
\* when it grows, whoever raises it and however stale the request.
THEOREM SeatQuota == SaasSpec => SeatsAreWithinQuota
<1> DEFINE Within == Cardinality(ActiveAccounts') > Cardinality(ActiveAccounts)
                     => limit'.seats = NULL \/ Cardinality(ActiveAccounts') <= limit'.seats
<1>1. ASSUME SaasTypeOK, accounts' = accounts PROVE Within
  <2>1. ActiveAccounts' \subseteq ActiveAccounts BY <1>1 DEF ActiveAccounts
  <2> QED BY <2>1, NoMoreSeats
<1>2. ASSUME SaasTypeOK, NEW a \in Accounts, NEW row, accounts' = [accounts EXCEPT ![a] = row],
             row.active \in BOOLEAN,
             ~accounts[a].active /\ row.active =>
               HasRoom(limit'.seats, Cardinality(ActiveAccounts))
      PROVE  Within
  <2>1. CASE ~accounts[a].active /\ row.active
    <3>1. Cardinality(ActiveAccounts') = Cardinality(ActiveAccounts) + 1
      BY <1>2, <2>1, OneMoreSeat
    <3> QED BY <1>2, <2>1, <3>1 DEF HasRoom
  <2>2. CASE ~(~accounts[a].active /\ row.active)
    <3>1. ActiveAccounts' \subseteq ActiveAccounts
      BY <1>2, <2>2 DEF ActiveAccounts, SaasTypeOK
    <3> QED BY <3>1, NoMoreSeats
  <2> QED BY <2>1, <2>2
<1>3. ASSUME SaasTypeOK, SaasNext PROVE Within
  <2>1. ASSUME NEW k \in Keys, NEW r \in Requests, NEW claim \in Claims, Provision(k, r, claim)
        PROVE  Within
    <3>1. CASE CreatesOwner(r)
      <4>1. r.owner \in Accounts /\ r.owner # NULL
        BY <3>1, SaasAssumption DEF CreatesOwner
      <4>2. accounts' = [accounts EXCEPT ![r.owner] = [role |-> "owner", active |-> TRUE]]
            /\ HasRoom(limit'.seats, Cardinality(ActiveAccounts))
        BY <2>1, <3>1 DEF Provision, OwnerCanBeCreated
      <4> DEFINE row == [role |-> "owner", active |-> TRUE]
      <4>3. row.active \in BOOLEAN OBVIOUS
      <4>4. accounts' = [accounts EXCEPT ![r.owner] = row] BY <4>2
      <4> HIDE DEF row, Within
      <4> QED BY <1>2, <1>3, <4>1, <4>2, <4>3, <4>4
    <3>2. CASE ~CreatesOwner(r) BY <1>1, <1>3, <2>1, <3>2 DEF Provision
    <3> QED BY <3>1, <3>2
  <2>2. CASE ProvisioningStep
    BY <1>1, <1>3, <2>1, <2>2 DEF ProvisioningStep, ReplayEpoch, ReplayKey, merchantVars
  <2>3. ASSUME NEW req \in signedIn, NEW a \in Accounts, NEW role \in Roles,
               CreateAccount(req, a, role)
        PROVE  Within
    <3>1. ~accounts[a].active BY <2>3 DEF CreateAccount, NoAccount
    <3>2. accounts' = [accounts EXCEPT ![a] = [role |-> role, active |-> TRUE]]
          /\ HasRoom(limit'.seats, Cardinality(ActiveAccounts))
      BY <2>3 DEF CreateAccount
    <3> QED BY <1>2, <1>3, <3>1, <3>2
  <2>4. ASSUME NEW req \in signedIn, NEW a \in Accounts, NEW role \in Roles, NEW active \in BOOLEAN,
               UpdateAccount(req, a, role, active)
        PROVE  Within
    BY <1>2, <1>3, <2>4 DEF UpdateAccount, SeatIsFree
  <2>5. CASE AccountStep
    BY <1>1, <1>3, <2>3, <2>4, <2>5 DEF AccountStep, SignIn
  <2>6. CASE ControlStep \/ StoreStep BY <1>1, <1>3, <2>6, AccountsAreLeftAlone
  <2> QED BY <1>3, <2>2, <2>5, <2>6 DEF SaasNext
<1>4. ASSUME SaasTypeOK, UNCHANGED saasVars PROVE Within
  BY <1>1, <1>4 DEF saasVars, merchantVars
<1>5. SaasTypeOK /\ [SaasNext]_saasVars => [Within]_saasVars BY <1>3
<1> QED BY <1>5, SaasTypes, PTL DEF SaasSpec, SeatsAreWithinQuota

-----------------------------------------------------------------------------
(* Growth within the plan                                                  *)

\* An edit that waits is of a store that has come into being, so that it can
\* open a store again but never make one.
EditsHaveStores == \A edit \in edits : stores[edit.store] # "absent"

\* Everything but the handlers of stores leaves stores and edits alone.
LEMMA StoresAreLeftAlone ==
  ASSUME ProvisioningStep \/ ControlStep \/ AccountStep
  PROVE  stores' = stores /\ edits' = edits
  BY DEF ProvisioningStep, Provision, ReplayEpoch, ReplayKey, ControlStep,
     UpdateEntitlements, UpdateInstance, InstallLicense, Tick, AccountStep, SignIn,
     CreateAccount, UpdateAccount, storeVars

LEMMA EditsOfStores == SaasSpec => []EditsHaveStores
<1>1. SaasInit => EditsHaveStores BY DEF SaasInit, EditsHaveStores
<1>2. ASSUME SaasTypeOK, EditsHaveStores, SaasNext PROVE EditsHaveStores'
  <2>1. ASSUME NEW req \in signedIn, NEW s \in Stores, CreateStore(req, s) PROVE EditsHaveStores'
    BY <1>2, <2>1 DEF CreateStore, EditsHaveStores, SaasTypeOK
  <2>2. ASSUME NEW a \in Accounts, NEW s \in Stores, NEW status \in {"active", "inactive"},
               AuthoriseEdit(a, s, status)
        PROVE  EditsHaveStores'
    BY <1>2, <2>2 DEF AuthoriseEdit, EditsHaveStores
  <2>3. ASSUME NEW edit \in edits, WriteEdit(edit) PROVE EditsHaveStores'
    <3>1. edit.status # "absent" BY <1>2, <2>3 DEF SaasTypeOK
    <3>2. ASSUME NEW other \in edits' PROVE stores'[other.store] # "absent"
      BY <1>2, <2>3, <3>1, <3>2 DEF WriteEdit, EditsHaveStores, SaasTypeOK
    <3> QED BY <3>2 DEF EditsHaveStores
  <2>4. CASE StoreStep BY <2>1, <2>2, <2>3, <2>4 DEF StoreStep
  <2>5. CASE ~StoreStep BY <1>2, <2>5, StoresAreLeftAlone DEF SaasNext, EditsHaveStores
  <2> QED BY <2>4, <2>5
<1>3. ASSUME EditsHaveStores, UNCHANGED saasVars PROVE EditsHaveStores'
  BY <1>3 DEF EditsHaveStores, saasVars, storeVars
<1>4. SaasTypeOK /\ EditsHaveStores /\ [SaasNext]_saasVars => EditsHaveStores' BY <1>2, <1>3
<1> QED BY <1>1, <1>4, SaasTypes, PTL DEF SaasSpec

\* Only the creation of a store makes one, and it makes one.
LEMMA StoresAreCreated ==
  ASSUME SaasTypeOK, EditsHaveStores, SaasNext,
         NEW s \in Stores, stores[s] = "absent", stores'[s] = "active"
  PROVE  \E req \in signedIn : CreateStore(req, s)
<1>1. StoreStep BY StoresAreLeftAlone DEF SaasNext
<1>2. ~(\E edit \in edits : WriteEdit(edit))
  <2>1. ASSUME NEW edit \in edits, WriteEdit(edit) PROVE FALSE
    <3>1. edit.store = s BY <2>1 DEF WriteEdit, SaasTypeOK
    <3> QED BY <3>1 DEF EditsHaveStores
  <2> QED BY <2>1
<1>3. ~(\E a \in Accounts, q \in Stores, status \in {"active", "inactive"} :
          AuthoriseEdit(a, q, status))
  BY DEF AuthoriseEdit
<1>4. PICK req \in signedIn, q \in Stores : CreateStore(req, q)
  BY <1>1, <1>2, <1>3 DEF StoreStep
<1>5. q = s BY <1>4 DEF CreateStore, SaasTypeOK
<1> QED BY <1>4, <1>5

\* A store is created only while there is room for it.
THEOREM StoreQuota == SaasSpec => NewStoresAreWithinQuota
<1> DEFINE Within == (\E s \in Stores : stores[s] = "absent" /\ stores'[s] = "active")
                     => limit'.stores = NULL \/ Cardinality(ActiveStores') <= limit'.stores
<1>1. ASSUME SaasTypeOK, EditsHaveStores, SaasNext PROVE Within
  <2> SUFFICES ASSUME NEW s \in Stores, stores[s] = "absent", stores'[s] = "active"
               PROVE  limit'.stores = NULL \/ Cardinality(ActiveStores') <= limit'.stores
    OBVIOUS
  <2>1. PICK req \in signedIn : CreateStore(req, s) BY <1>1, StoresAreCreated
  <2>2. ActiveStores' = ActiveStores \cup {s} /\ s \notin ActiveStores
    BY <1>1, <2>1 DEF CreateStore, ActiveStores, SaasTypeOK
  <2>3. IsFiniteSet(ActiveStores) BY SaasAssumption, FS_Subset DEF ActiveStores
  <2>4. Cardinality(ActiveStores') = Cardinality(ActiveStores) + 1
    BY <2>2, <2>3, FS_AddElement
  <2>5. limit' = limit /\ HasRoom(limit.stores, Cardinality(ActiveStores))
    BY <2>1 DEF CreateStore
  <2> QED BY <2>4, <2>5 DEF HasRoom
<1>2. ASSUME UNCHANGED saasVars PROVE Within BY <1>2 DEF saasVars, storeVars
<1>3. SaasTypeOK /\ EditsHaveStores /\ [SaasNext]_saasVars => [Within]_saasVars BY <1>1
<1> QED BY <1>3, SaasTypes, EditsOfStores, PTL DEF SaasSpec, NewStoresAreWithinQuota

\* Nothing is created, reactivated or provisioned in an instance that is
\* suspended, or whose licence has run out, at that moment.
THEOREM OperationalGrowth == SaasSpec => GrowthNeedsOperation
<1> DEFINE Grows == \/ ~(ActiveAccounts' \subseteq ActiveAccounts)
                    \/ \E s \in Stores : stores[s] = "absent" /\ stores'[s] = "active"
<1>1. ASSUME SaasTypeOK, EditsHaveStores, SaasNext, Grows PROVE Operational'
  <2>1. CASE \E s \in Stores : stores[s] = "absent" /\ stores'[s] = "active"
    <3>1. PICK s \in Stores, req \in signedIn : CreateStore(req, s)
      BY <1>1, <2>1, StoresAreCreated
    <3> QED BY <3>1 DEF CreateStore, Operational, Licensed, fenceVars, licenceVars
  <2>2. CASE ~(ActiveAccounts' \subseteq ActiveAccounts)
    <3>1. accounts' # accounts BY <2>2 DEF ActiveAccounts
    <3>2. ASSUME NEW k \in Keys, NEW r \in Requests, NEW claim \in Claims, Provision(k, r, claim)
          PROVE  Operational'
      BY <3>1, <3>2 DEF Provision, OwnerCanBeCreated, Operational, Licensed, licenceVars
    <3>3. CASE ProvisioningStep
      BY <3>1, <3>2, <3>3 DEF ProvisioningStep, ReplayEpoch, ReplayKey, merchantVars
    <3>4. ASSUME NEW req \in signedIn, NEW a \in Accounts, NEW role \in Roles,
                 CreateAccount(req, a, role)
          PROVE  Operational'
      BY <3>4 DEF CreateAccount, Operational, Licensed, fenceVars, licenceVars
    <3>5. ASSUME NEW req \in signedIn, NEW a \in Accounts, NEW role \in Roles, NEW active \in BOOLEAN,
                 UpdateAccount(req, a, role, active)
          PROVE  Operational'
      <4>1. ~accounts[a].active /\ active
        BY <1>1, <2>2, <3>5 DEF UpdateAccount, ActiveAccounts, SaasTypeOK
      <4>2. Operational BY <3>5, <4>1 DEF UpdateAccount, SeatIsFree
      <4> QED BY <3>5, <4>2 DEF UpdateAccount, Operational, Licensed, fenceVars, licenceVars
    <3>6. CASE AccountStep
      BY <3>1, <3>4, <3>5, <3>6 DEF AccountStep, SignIn
    <3> QED BY <1>1, <3>1, <3>3, <3>6, AccountsAreLeftAlone DEF SaasNext
  <2> QED BY <1>1, <2>1, <2>2
<1>2. SaasTypeOK /\ EditsHaveStores /\ [SaasNext]_saasVars => [Grows => Operational']_saasVars
  BY <1>1
<1> QED BY <1>2, SaasTypes, EditsOfStores, PTL DEF SaasSpec, GrowthNeedsOperation

\* What grows, grows within the plan in force at that moment.
THEOREM PlannedGrowth == SaasSpec => GrowthIsWithinPlan
BY SeatQuota, StoreQuota, OperationalGrowth DEF GrowthIsWithinPlan

\* An epoch is applied once and has one answer.
THEOREM EpochAnswers == SaasSpec => []EpochsAreAnsweredOnce
<1>1. OneReceiptPerEpoch /\ ReceiptsAreOfAppliedEpochs => EpochsAreAnsweredOnce
  BY DEF EpochsAreAnsweredOnce
<1> QED BY <1>1, OneReceipt, AppliedOnce, PTL

\* Late requests move nothing back.
THEOREM Fenced == SaasSpec => ProvisioningIsFenced
BY FencedEpochs, NoLateReactivation DEF ProvisioningIsFenced

\* For any licences, installed for the first time or again and in whatever
\* order (installLicense): the one that was installed last is current, and no
\* other is.
THEOREM CurrentLicence == SaasSpec => []OneCurrentLicence
<1>1. SaasInit => OneCurrentLicence BY DEF SaasInit, OneCurrentLicence, Current
<1>2. ASSUME SaasTypeOK, OneCurrentLicence, NEW t \in Tokens, InstallLicense(t)
      PROVE  OneCurrentLicence'
  <2> DEFINE superseded == [l \in LicenceIds |-> Superseded(licences[l])]
             new == [status |-> "current", expires |-> t.term, signed |-> t.term]
             row == IF superseded[t.id] = NULL THEN new ELSE Reinstalled(superseded[t.id], t)
  <2>1. t.id \in LicenceIds /\ t.term \in Nat /\ installed' = t.id /\ t.id # NULL
    BY <1>2, SaasAssumption DEF LicenceIds, InstallLicense
  <2>2. superseded \in [LicenceIds -> LicenceRows \cup {NULL}]
    BY <1>2 DEF Superseded, Current, SaasTypeOK, LicenceRows
  <2>3. \A l \in LicenceIds : ~Current(superseded[l])
    BY <1>2, SaasAssumption DEF Superseded, Current, SaasTypeOK, LicenceRows
  <2>4. Current(row)
    <3>1. row \in LicenceRows /\ row.status = "current"
      BY <2>1, <2>2 DEF LicenceRows, Reinstalled
    <3> QED BY <3>1, SaasAssumption DEF Current
  <2>5. licences' = [superseded EXCEPT ![t.id] = row]
    BY <1>2, <2>1 DEF InstallLicense
  <2> HIDE DEF superseded, row
  <2>6. \A l \in LicenceIds : Current(licences'[l]) <=> l = t.id
    BY <2>1, <2>2, <2>3, <2>4, <2>5
  <2> QED BY <2>1, <2>6 DEF OneCurrentLicence
<1>3. ASSUME SaasTypeOK, OneCurrentLicence, [SaasNext]_saasVars PROVE OneCurrentLicence'
  <2>1. CASE UNCHANGED <<licences, installed>> BY <1>3, <2>1 DEF OneCurrentLicence, Current
  <2>2. CASE \E t \in Tokens : InstallLicense(t) BY <1>2, <1>3, <2>2
  <2>3. CASE ProvisioningStep
    BY <2>1, <2>3 DEF ProvisioningStep, Provision, ReplayEpoch, ReplayKey, licenceVars
  <2>4. CASE ControlStep
    BY <2>1, <2>2, <2>4 DEF ControlStep, UpdateEntitlements, UpdateInstance, Tick, licenceVars
  <2>5. CASE AccountStep
    BY <2>1, <2>5 DEF AccountStep, SignIn, CreateAccount, UpdateAccount, licenceVars
  <2>6. CASE StoreStep
    BY <2>1, <2>6 DEF StoreStep, CreateStore, AuthoriseEdit, WriteEdit, licenceVars
  <2>7. CASE UNCHANGED saasVars BY <2>1, <2>7 DEF saasVars, licenceVars
  <2> QED BY <1>3, <2>3, <2>4, <2>5, <2>6, <2>7 DEF SaasNext
<1> QED BY <1>1, <1>3, SaasTypes, PTL DEF SaasSpec

(***************************************************************************)
(*                              The caches                                 *)
(***************************************************************************)

Reads == [server : Servers, permits : BOOLEAN, at : Nat]
Copies == [permits : BOOLEAN, until : Nat]
Changes == [server : Servers, to : BOOLEAN, committed : BOOLEAN]

CachesTypes ==
  /\ which \in Caches
  /\ instant \in Nat /\ withdrawnAt \in Nat /\ overdue \in Nat
  /\ permitted \in BOOLEAN /\ straddled \in BOOLEAN
  /\ kept \in [Servers -> Copies \cup {Nothing}]
  /\ reading \in [Readers -> Reads \cup {Nothing}]
  /\ changing \in Changes \cup {Nothing}
  /\ changedBy \in Servers \cup {Nothing}

\* When the rows last permitted the request.
LastPermitted == IF permitted THEN instant ELSE withdrawnAt

\* A permission that a request has read, or a server keeps, is not much older
\* than the time the rows gave it.
ReadInv(r) ==
  reading[r] # Nothing =>
    /\ reading[r].at <= instant /\ instant - reading[r].at <= ReadTime
    /\ reading[r].permits => reading[r].at <= LastPermitted
CopyInv(s) ==
  kept[s] # Nothing /\ kept[s].permits => kept[s].until <= LastPermitted + Grace

\* While no change is between its COMMIT and its end, the server of the last
\* change has read nothing but the rows as they are.
ForgetInv ==
  (changing = Nothing \/ ~changing.committed) /\ changedBy # Nothing /\ ~straddled =>
    /\ kept[changedBy] # Nothing => kept[changedBy].permits = permitted
    /\ \A r \in Readers :
         reading[r] # Nothing /\ reading[r].server = changedBy =>
           reading[r].permits = permitted

CachesInv ==
  /\ CachesTypes
  /\ withdrawnAt <= instant
  /\ overdue < Grace
  /\ \A r \in Readers : ReadInv(r)
  /\ \A s \in Servers : CopyInv(s)
  /\ ForgetInv

\* What the assumptions say of the times.
LEMMA CacheTimes ==
  ASSUME which \in Caches
  PROVE  /\ CacheTtl[which] \in Nat /\ ReadTime \in Nat /\ Grace \in Nat /\ 0 < Grace
         /\ ReadTime < CacheTtl[which] /\ ReadTime < Grace /\ CacheTtl[which] <= Grace
         /\ which # "stores" => Grace = CacheTtl[which] + ReadTime
         /\ which = "stores" => Grace = CacheTtl[which]
<1>1. CacheTtl[which] \in Nat /\ 0 < CacheTtl[which] /\ ReadTime \in Nat
      /\ ReadTime < CacheTtl[which]
  BY CachesAssumption
<1> QED BY <1>1 DEF Grace

\* Nothing is no record.
LEMMA NothingElse == Nothing \notin Reads /\ Nothing \notin Copies /\ Nothing \notin Changes
BY CachesAssumption DEF Reads, Copies, Changes

\* CachesInv holds of the initial states.
LEMMA CachesStart == CachesInit => CachesInv
<1> SUFFICES ASSUME CachesInit PROVE CachesInv
  OBVIOUS
<1>1. CachesTypes
  BY DEF CachesInit, CachesTypes
<1>2. 0 < Grace
  BY <1>1, CacheTimes DEF CachesTypes
<1> QED BY <1>1, <1>2 DEF CachesInit, CachesInv, ReadInv, CopyInv, ForgetInv

\* A request that is let in is not overdue.
LEMMA DecidedInTime ==
  ASSUME CachesInv, NEW permits \in BOOLEAN, Decide(permits),
         permits => instant - LastPermitted < Grace
  PROVE  overdue' \in Nat /\ overdue' < Grace
<1>1. permits /\ ~permitted => instant - withdrawnAt < Grace /\ instant - withdrawnAt \in Nat
  BY DEF LastPermitted, CachesInv, CachesTypes
<1> QED BY <1>1, CacheTimes DEF Decide, CachesInv, CachesTypes

\* A request answered from the cache.
LEMMA AnswerHolds ==
  ASSUME CachesInv, NEW s \in Servers, AnswerFromCache(s)
  PROVE  CachesInv'
<1>1. /\ UNCHANGED <<which, instant, rowVars, kept, reading, changeVars>>
      /\ kept[s] # Nothing /\ kept[s].until > instant /\ Decide(kept[s].permits)
  BY DEF AnswerFromCache, Fresh
<1>2. kept[s] \in Copies
  BY <1>1 DEF CachesInv, CachesTypes
<1>3. kept[s].permits => instant - LastPermitted < Grace
  <2>1. kept[s].permits => kept[s].until <= LastPermitted + Grace
    BY <1>1 DEF CachesInv, CopyInv
  <2>2. kept[s].until \in Nat /\ LastPermitted \in Nat /\ Grace \in Nat /\ instant \in Nat
    BY <1>2, CacheTimes DEF CachesInv, CachesTypes, Copies, LastPermitted
  <2> QED BY <1>1, <2>1, <2>2
<1>4. overdue' \in Nat /\ overdue' < Grace
  BY <1>1, <1>2, <1>3, DecidedInTime DEF Copies
<1> QED
  BY <1>1, <1>4 DEF CachesInv, CachesTypes, ReadInv, CopyInv, ForgetInv, LastPermitted,
     Grace, rowVars, changeVars

\* A SELECT sees the rows.
LEMMA StartReadHolds ==
  ASSUME CachesInv, NEW r \in Readers, NEW s \in Servers, StartRead(r, s)
  PROVE  CachesInv'
<1> DEFINE read == [server |-> s, permits |-> permitted, at |-> instant]
<1>1. /\ UNCHANGED <<which, instant, permitted, withdrawnAt, kept, changing, changedBy,
                     straddled, overdue>>
      /\ reading' = [reading EXCEPT ![r] = read]
  BY DEF StartRead, rowVars, changeVars
<1>2. read \in Reads
  BY DEF Reads, CachesInv, CachesTypes
<1>3. \A q \in Readers : reading'[q] = IF q = r THEN read ELSE reading[q]
  BY <1>1 DEF CachesInv, CachesTypes
<1>4. CachesTypes'
  BY <1>1, <1>2 DEF CachesInv, CachesTypes
<1>5. ASSUME NEW q \in Readers PROVE ReadInv(q)'
  BY <1>1, <1>3, CacheTimes DEF CachesInv, CachesTypes, ReadInv, LastPermitted
<1> QED
  BY <1>1, <1>3, <1>4, <1>5 DEF CachesInv, CopyInv, ForgetInv, LastPermitted, Grace

\* The answer of a SELECT is stored and decides the request.
LEMMA EndReadHolds ==
  ASSUME CachesInv, NEW r \in Readers, EndRead(r)
  PROVE  CachesInv'
<1> DEFINE read == reading[r]
           copy == [permits |-> read.permits, until |-> Expiry(read)]
<1>1. /\ UNCHANGED <<which, instant, permitted, withdrawnAt, changing, changedBy, straddled>>
      /\ read # Nothing /\ Decide(read.permits)
      /\ kept' = [kept EXCEPT ![read.server] = copy]
      /\ reading' = [reading EXCEPT ![r] = Nothing]
  BY DEF EndRead, rowVars, changeVars
<1>2. read \in Reads
  BY <1>1 DEF CachesInv, CachesTypes
<1>3. /\ read.at <= instant /\ instant - read.at <= ReadTime
      /\ read.permits => read.at <= LastPermitted
  BY <1>1 DEF CachesInv, ReadInv
<1>4. /\ read.at \in Nat /\ instant \in Nat /\ LastPermitted \in Nat
      /\ read.server \in Servers /\ read.permits \in BOOLEAN
  BY <1>2 DEF Reads, CachesInv, CachesTypes, LastPermitted
<1>5. overdue' \in Nat /\ overdue' < Grace
  <2>1. read.permits => instant - LastPermitted < Grace
    BY <1>3, <1>4, CacheTimes DEF CachesInv, CachesTypes
  <2> HIDE DEF read
  <2> QED BY <1>1, <1>4, <2>1, DecidedInTime
<1>6. Expiry(read) \in Nat /\ (read.permits => Expiry(read) <= LastPermitted + Grace)
  <2> HIDE DEF read
  <2> QED BY <1>3, <1>4, CacheTimes DEF CachesInv, CachesTypes, Expiry
<1>7. /\ copy \in Copies /\ copy.permits = read.permits /\ copy.until = Expiry(read)
      /\ \A s \in Servers : kept'[s] = IF s = read.server THEN copy ELSE kept[s]
      /\ \A q \in Readers : reading'[q] = IF q = r THEN Nothing ELSE reading[q]
  BY <1>1, <1>4, <1>6 DEF Copies, CachesInv, CachesTypes
<1>8. CachesTypes'
  <2> HIDE DEF copy
  <2> QED BY <1>1, <1>5, <1>7 DEF CachesInv, CachesTypes
<1> HIDE DEF copy
<1>9. ASSUME NEW q \in Readers PROVE ReadInv(q)'
  BY <1>1, <1>7 DEF CachesInv, ReadInv, LastPermitted
<1>10. ASSUME NEW s \in Servers PROVE CopyInv(s)'
  BY <1>1, <1>6, <1>7 DEF CachesInv, CopyInv, LastPermitted, Grace
<1>11. ForgetInv'
  BY <1>1, <1>7 DEF CachesInv, CachesTypes, ForgetInv
<1> QED BY <1>1, <1>5, <1>8, <1>9, <1>10, <1>11 DEF CachesInv, Grace

\* A server forgets what it keeps.
LEMMA ForgottenCopies ==
  ASSUME CachesInv, NEW s, kept' = [kept EXCEPT ![s] = Nothing] \/ kept' = kept
  PROVE  /\ kept' \in [Servers -> Copies \cup {Nothing}]
         /\ \A q \in Servers : kept'[q] = Nothing \/ kept'[q] = kept[q]
         /\ kept' = [kept EXCEPT ![s] = Nothing] /\ s \in Servers => kept'[s] = Nothing
BY DEF CachesInv, CachesTypes

\* A change begins.
LEMMA StartChangeHolds ==
  ASSUME CachesInv, NEW s \in Servers, StartChange(s)
  PROVE  CachesInv'
<1>1. /\ UNCHANGED <<which, instant, permitted, withdrawnAt, reading, changedBy, straddled,
                     overdue>>
      /\ kept' = [kept EXCEPT ![s] = Nothing] \/ kept' = kept
      /\ changing = Nothing
  BY DEF StartChange, rowVars
<1>2. PICK to \in BOOLEAN : changing' = [server |-> s, to |-> to, committed |-> FALSE]
  BY DEF StartChange
<1>3. /\ kept' \in [Servers -> Copies \cup {Nothing}]
      /\ \A q \in Servers : kept'[q] = Nothing \/ kept'[q] = kept[q]
  BY <1>1, ForgottenCopies
<1>4. CachesTypes'
  BY <1>1, <1>2, <1>3 DEF CachesInv, CachesTypes, Changes
<1>5. ForgetInv'
  BY <1>1, <1>3 DEF CachesInv, CachesTypes, ForgetInv
<1> QED
  BY <1>1, <1>3, <1>4, <1>5 DEF CachesInv, ReadInv, CopyInv, LastPermitted, Grace

\* The rows change at the COMMIT.
LEMMA CommitChangeHolds ==
  ASSUME CachesInv, CommitChange
  PROVE  CachesInv'
<1>1. /\ UNCHANGED <<which, instant, kept, reading, changedBy, straddled, overdue>>
      /\ changing # Nothing /\ permitted' = changing.to
      /\ withdrawnAt' = IF permitted /\ ~changing.to THEN instant ELSE withdrawnAt
      /\ changing' = [changing EXCEPT !.committed = TRUE]
  BY DEF CommitChange
<1>2. changing \in Changes
  BY <1>1 DEF CachesInv, CachesTypes
<1>3. changing' \in Changes /\ changing'.committed /\ changing.to \in BOOLEAN
  BY <1>1, <1>2 DEF Changes
<1>4. CachesTypes'
  BY <1>1, <1>3 DEF CachesInv, CachesTypes
<1>5. /\ withdrawnAt' <= instant /\ LastPermitted <= LastPermitted'
      /\ LastPermitted \in Nat /\ LastPermitted' \in Nat
  BY <1>1, <1>3, <1>4 DEF CachesInv, CachesTypes, LastPermitted
<1>6. ForgetInv'
  BY <1>3, NothingElse DEF ForgetInv
<1>7. ASSUME NEW r \in Readers PROVE ReadInv(r)'
  <2>1. reading[r] # Nothing => reading[r].at \in Nat
    BY DEF CachesInv, CachesTypes, Reads
  <2> QED BY <1>1, <1>5, <2>1 DEF CachesInv, ReadInv
<1>8. ASSUME NEW s \in Servers PROVE CopyInv(s)'
  <2>1. kept[s] # Nothing => kept[s].until \in Nat
    BY DEF CachesInv, CachesTypes, Copies
  <2>2. Grace \in Nat /\ Grace' = Grace
    BY <1>1, CacheTimes DEF CachesInv, CachesTypes, Grace
  <2> QED BY <1>1, <1>5, <2>1, <2>2 DEF CachesInv, CopyInv
<1> QED BY <1>1, <1>4, <1>5, <1>6, <1>7, <1>8 DEF CachesInv, Grace

\* The server that made the change drops what it kept.
LEMMA FinishChangeHolds ==
  ASSUME CachesInv, FinishChange
  PROVE  CachesInv'
<1> DEFINE s == changing.server
<1>1. /\ UNCHANGED <<which, instant, permitted, withdrawnAt, reading, overdue>>
      /\ changing # Nothing /\ changing' = Nothing /\ changedBy' = s
      /\ kept' = [kept EXCEPT ![s] = Nothing]
      /\ straddled' = \E r \in Readers :
           reading[r] # Nothing /\ reading[r].server = s /\ reading[r].permits # permitted
  BY DEF FinishChange, ClearedAfterCommit, rowVars
<1>2. s \in Servers
  BY <1>1 DEF CachesInv, CachesTypes, Changes
<1>3. /\ kept' \in [Servers -> Copies \cup {Nothing}] /\ kept'[s] = Nothing
      /\ \A q \in Servers : kept'[q] = Nothing \/ kept'[q] = kept[q]
  BY <1>1, <1>2, ForgottenCopies
<1> HIDE DEF s
<1>4. CachesTypes'
  BY <1>1, <1>2, <1>3 DEF CachesInv, CachesTypes
<1>5. ForgetInv'
  BY <1>1, <1>3 DEF ForgetInv
<1> QED
  BY <1>1, <1>3, <1>4, <1>5 DEF CachesInv, ReadInv, CopyInv, LastPermitted, Grace

\* Time passes no further than a read may take.
LEMMA PassHolds ==
  ASSUME CachesInv, Pass
  PROVE  CachesInv'
<1>1. /\ UNCHANGED <<which, permitted, withdrawnAt, kept, reading, changing, changedBy,
                     straddled, overdue>>
      /\ \A r \in Readers : reading[r] # Nothing => instant - reading[r].at < ReadTime
      /\ instant' = instant + 1
  BY DEF Pass, rowVars, changeVars
<1>2. CachesTypes'
  BY <1>1 DEF CachesInv, CachesTypes
<1>3. /\ LastPermitted <= LastPermitted' /\ LastPermitted \in Nat /\ LastPermitted' \in Nat
      /\ instant \in Nat /\ withdrawnAt' <= instant'
  BY <1>1 DEF CachesInv, CachesTypes, LastPermitted
<1>4. ASSUME NEW r \in Readers PROVE ReadInv(r)'
  <2>1. reading[r] # Nothing => reading[r].at \in Nat
    BY DEF CachesInv, CachesTypes, Reads
  <2> QED BY <1>1, <1>3, <2>1, CachesAssumption DEF CachesInv, ReadInv
<1>5. ASSUME NEW s \in Servers PROVE CopyInv(s)'
  <2>1. kept[s] # Nothing => kept[s].until \in Nat
    BY DEF CachesInv, CachesTypes, Copies
  <2>2. Grace \in Nat /\ Grace' = Grace
    BY <1>1, CacheTimes DEF CachesInv, CachesTypes, Grace
  <2> QED BY <1>1, <1>3, <2>1, <2>2 DEF CachesInv, CopyInv
<1>6. ForgetInv'
  BY <1>1 DEF CachesInv, ForgetInv
<1> QED BY <1>1, <1>2, <1>3, <1>4, <1>5, <1>6 DEF CachesInv, Grace

\* Every step keeps CachesInv.
LEMMA CachesStep == CachesInv /\ [CachesNext]_cacheVars => CachesInv'
<1> SUFFICES ASSUME CachesInv, [CachesNext]_cacheVars PROVE CachesInv'
  OBVIOUS
<1>1. CASE CachesNext
  BY <1>1, AnswerHolds, StartReadHolds, EndReadHolds, StartChangeHolds, CommitChangeHolds,
     FinishChangeHolds, PassHolds DEF CachesNext
<1>2. CASE UNCHANGED cacheVars
  BY <1>2 DEF cacheVars, rowVars, changeVars, CachesInv, CachesTypes, ReadInv, CopyInv,
     ForgetInv, LastPermitted, Grace
<1> QED BY <1>1, <1>2

\* A permission that is withdrawn is obeyed by every process in time, and at
\* once where it was withdrawn (entitlement_service.js, store_context.js), for
\* any number of processes and reads, and any lifetimes.
THEOREM WithdrawalsObeyed == CachesSpec => []WithdrawalsAreObeyedInTime
<1>1. CachesInv => WithdrawalsAreObeyedInTime
  BY DEF CachesInv, ForgetInv, WithdrawalsAreObeyedInTime, ObeyedInTime, ChangersForget
<1> QED BY <1>1, CachesStart, CachesStep, PTL DEF CachesSpec

(***************************************************************************)
(*                               The seats                                 *)
(***************************************************************************)

(* As long as transactions take effect in the order of their BEGINs, the   *)
(* limit holds at every instant from the latest of them on.  A device that *)
(* was let in has a row, which is not one heartbeat old when it is told.   *)

HeldInv(d) ==
  heldSince[d] # Never =>
    /\ seenAt[d] # Never
    /\ MaxWait < told[d] => seenAt[d] > heldSince[d] - told[d]

RowInv(d) == seenAt[d] # Never <=> expiresAt[d] # Never

AccessInv ==
  /\ AccessTypeOK
  /\ ~overtaken => \A t \in Nat : latest <= t => WithinLimit(t)
  /\ \A d \in Devices : HeldInv(d) /\ RowInv(d)

LEMMA SeatsAreFinite ==
  ASSUME NEW S \in SUBSET Devices
  PROVE  IsFiniteSet(S) /\ Cardinality(S) \in Nat
BY AccessAssumption, FS_Subset, FS_CardinalityType

LEMMA FewerSeats ==
  ASSUME NEW S \in SUBSET Devices, NEW T \in SUBSET S
  PROVE  Cardinality(T) <= Cardinality(S)
BY SeatsAreFinite, FS_Subset

LEMMA PolicyType ==
  ASSUME NEW p \in Policies
  PROVE  p.lease \in Nat /\ p.heartbeat \in Nat
BY AccessAssumption

LEMMA AccessStart == AccessInit => AccessInv
<1> SUFFICES ASSUME AccessInit PROVE AccessInv
  OBVIOUS
<1> USE AccessAssumption DEF AccessInit
<1>1. AccessTypeOK
  <2>1. Never \in (0..clock) \cup {Never} /\ 0 \in 0..clock /\ clock \in Nat
    OBVIOUS
  <2>2. /\ seenAt \in [Devices -> (0..clock) \cup {Never}]
        /\ heldSince \in [Devices -> (0..clock) \cup {Never}]
        /\ expiresAt \in [Devices -> Nat \cup {Never}]
        /\ told \in [Devices -> Nat]
    BY <2>1
  <2>3. latest \in 0..clock
    BY <2>1
  <2>4. overtaken \in BOOLEAN /\ operational \in BOOLEAN
    OBVIOUS
  <2> QED BY <2>1, <2>2, <2>3, <2>4 DEF AccessTypeOK
<1>2. \A t \in Nat : Seated(t) = {}
  BY DEF Seated, Live
<1>3. \A t \in Nat : WithinLimit(t)
  BY <1>2, FS_EmptySet DEF WithinLimit
<1> QED BY <1>1, <1>3 DEF AccessInv, HeldInv, RowInv

\* A device that is let in renews its lease or takes a seat that is free.
LEMMA LetInHolds ==
  ASSUME AccessInv, NEW d \in Devices, LetIn(d)
  PROVE  AccessInv'
<1> USE AccessAssumption DEF AccessInv
<1>1. PICK t \in Begins, moved \in BOOLEAN :
        /\ ~Live(d, t) => HasSeat(t)
        /\ IF Live(d, t) /\ Young(d) /\ ~moved
           THEN UNCHANGED leaseVars
           ELSE /\ seenAt' = [seenAt EXCEPT ![d] = t]
                /\ expiresAt' = [expiresAt EXCEPT ![d] = t + policy.lease]
        /\ heldSince' = [heldSince EXCEPT ![d] = clock]
        /\ told' = [told EXCEPT ![d] = policy.heartbeat]
        /\ Began(t) /\ UNCHANGED <<clock, operational, seatLimit, policy>>
  BY DEF LetIn
<1>2. t \in 0 .. clock /\ clock - t <= MaxWait /\ t \in Nat /\ clock \in Nat
  BY DEF Begins, AccessTypeOK
<1>a. policy.lease \in Nat /\ policy.heartbeat \in Nat
  BY PolicyType DEF AccessTypeOK
<1>3. AccessTypeOK'
  <2>1. seenAt' \in [Devices -> (0..clock) \cup {Never}]
        /\ expiresAt' \in [Devices -> Nat \cup {Never}]
    BY <1>1, <1>2, <1>a DEF AccessTypeOK, leaseVars
  <2>2. heldSince' \in [Devices -> (0..clock) \cup {Never}]
        /\ told' \in [Devices -> Nat]
    BY <1>1, <1>2, <1>a DEF AccessTypeOK
  <2>3. latest' \in 0..clock /\ overtaken' \in BOOLEAN
    BY <1>1, <1>2 DEF AccessTypeOK, Began
  <2> QED BY <1>1, <2>1, <2>2, <2>3 DEF AccessTypeOK
<1>4. \A e \in Devices : HeldInv(e)' /\ RowInv(e)'
  <2>1. ASSUME NEW e \in Devices \ {d} PROVE HeldInv(e)' /\ RowInv(e)'
    <3>1. /\ seenAt'[e] = seenAt[e] /\ expiresAt'[e] = expiresAt[e]
          /\ heldSince'[e] = heldSince[e] /\ told'[e] = told[e]
      BY <1>1 DEF AccessTypeOK, leaseVars
    <3> QED BY <3>1 DEF HeldInv, RowInv
  <2>2. HeldInv(d)' /\ RowInv(d)'
    <3>0. heldSince'[d] = clock /\ told'[d] = policy.heartbeat
      BY <1>1 DEF AccessTypeOK
    <3>1. CASE Live(d, t) /\ Young(d) /\ ~moved
      <4>1. seenAt' = seenAt /\ expiresAt' = expiresAt
        BY <1>1, <3>1 DEF leaseVars
      <4> QED BY <1>2, <3>0, <3>1, <4>1 DEF HeldInv, RowInv, AccessTypeOK, Live, Young
    <3>2. CASE ~(Live(d, t) /\ Young(d) /\ ~moved)
      <4>1. seenAt'[d] = t /\ expiresAt'[d] = t + policy.lease
        BY <1>1, <3>2 DEF AccessTypeOK
      <4> QED BY <1>2, <1>a, <3>0, <4>1 DEF HeldInv, RowInv
    <3> QED BY <3>1, <3>2
  <2> QED BY <2>1, <2>2
<1>5. ASSUME ~overtaken', NEW s \in Nat, latest' <= s PROVE WithinLimit(s)'
  <2>0. ~overtaken /\ ~(t < latest)
    BY <1>1, <1>5 DEF Began
  <2>1. latest <= t /\ t <= s /\ WithinLimit(t)
    <3>1. latest \in Nat
      BY <1>2 DEF AccessTypeOK
    <3>2. latest <= t
      BY <1>2, <2>0, <3>1
    <3>3. latest' = IF t > latest THEN t ELSE latest
      BY <1>1 DEF Began
    <3>4. latest' = t
      BY <1>2, <3>1, <3>2, <3>3
    <3> QED BY <1>2, <1>5, <2>0, <3>2, <3>4
  <2>2. Seated(s)' \subseteq Seated(t) \cup {d}
    <3> SUFFICES ASSUME NEW e \in Devices, e # d, Live(e, s)' PROVE Live(e, t)
      BY DEF Seated
    <3>1. expiresAt'[e] = expiresAt[e]
      BY <1>1 DEF AccessTypeOK, leaseVars
    <3> QED BY <1>2, <2>1, <3>1 DEF Live, AccessTypeOK
  <2>3. SUFFICES ASSUME seatLimit # Unlimited
                 PROVE  Cardinality(Seated(s)') <= seatLimit
    BY <1>1 DEF WithinLimit
  <2>4. seatLimit \in Nat
    BY <2>3 DEF AccessTypeOK
  <2>5. Seated(t) \in SUBSET Devices
    BY DEF Seated
  <2>6. CASE Live(d, t)
    <3>1. Seated(s)' \in SUBSET Seated(t)
      BY <2>2, <2>6 DEF Seated
    <3>2. Cardinality(Seated(s)') <= Cardinality(Seated(t))
      BY <2>5, <3>1, FewerSeats
    <3>3. Cardinality(Seated(s)') \in Nat /\ Cardinality(Seated(t)) \in Nat
      BY <2>5, <3>1, SeatsAreFinite
    <3> QED BY <2>1, <2>3, <2>4, <3>2, <3>3 DEF WithinLimit
  <2>7. CASE ~Live(d, t)
    <3>1. Seated(t) \cup {d} \in SUBSET Devices /\ Seated(s)' \in SUBSET (Seated(t) \cup {d})
      BY <2>2, <2>5
    <3>2. Cardinality(Seated(s)') <= Cardinality(Seated(t) \cup {d})
      BY <3>1, FewerSeats
    <3>3. Cardinality(Seated(t) \cup {d}) = Cardinality(Seated(t)) + 1
      BY <2>5, <2>7, SeatsAreFinite, FS_AddElement DEF Seated
    <3>4. Cardinality(Seated(t)) + 1 <= seatLimit
      BY <1>1, <2>3, <2>7 DEF HasSeat
    <3>5. /\ Cardinality(Seated(s)') \in Nat
          /\ Cardinality(Seated(t)) \in Nat
      BY <2>5, <3>1, SeatsAreFinite
    <3> QED BY <2>4, <3>2, <3>3, <3>4, <3>5
  <2> QED BY <2>6, <2>7
<1> QED BY <1>3, <1>4, <1>5

\* A device that is turned away leaves every lease as it is.
LEMMA TurnAwayHolds ==
  ASSUME AccessInv, NEW d \in Devices, TurnAway(d)
  PROVE  AccessInv'
<1> USE AccessAssumption DEF AccessInv
<1>1. /\ heldSince' = [heldSince EXCEPT ![d] = Never]
      /\ told' = [told EXCEPT ![d] = 0]
      /\ UNCHANGED <<clock, operational, seatLimit, policy, seenAt, expiresAt, latest, overtaken>>
  BY DEF TurnAway, leaseVars, orderVars
<1>2. AccessTypeOK'
  BY <1>1 DEF AccessTypeOK
<1>3. \A e \in Devices : HeldInv(e)' /\ RowInv(e)'
  BY <1>1 DEF HeldInv, RowInv, AccessTypeOK
<1> QED BY <1>1, <1>2, <1>3 DEF WithinLimit, Seated, Live

\* A new limit keeps no more seats than it allows.
LEMMA SetSeatLimitHolds ==
  ASSUME AccessInv, NEW l \in SeatLimits \cup {Unlimited}, NEW r \in Policies,
         SetSeatLimit(l, r)
  PROVE  AccessInv'
<1> USE AccessAssumption DEF AccessInv
<1>1. PICK t \in Begins, keep \in SUBSET Devices :
        /\ seatLimit' = l /\ policy' = r /\ Keeps(t, keep)
        /\ seenAt' = [d \in Devices |-> IF d \in keep THEN seenAt[d] ELSE Never]
        /\ expiresAt' = [d \in Devices |-> IF d \in keep THEN expiresAt[d] ELSE Never]
        /\ heldSince' = [d \in Devices |-> IF d \in keep THEN heldSince[d] ELSE Never]
        /\ told' = [d \in Devices |-> IF d \in keep THEN told[d] ELSE 0]
        /\ Began(t) /\ UNCHANGED <<clock, operational>>
  BY DEF SetSeatLimit, KeptFor
<1>2. t \in 0 .. clock /\ t \in Nat /\ clock \in Nat
  BY DEF Begins, AccessTypeOK
<1>3. AccessTypeOK'
  BY <1>1, <1>2 DEF AccessTypeOK, Began
<1>4. \A e \in Devices : HeldInv(e)' /\ RowInv(e)'
  BY <1>1 DEF HeldInv, RowInv, AccessTypeOK
<1>5. ASSUME NEW s \in Nat PROVE WithinLimit(s)'
  <2>1. Seated(s)' \in SUBSET keep
    BY <1>1 DEF Seated, Live
  <2>2. SUFFICES ASSUME seatLimit' # Unlimited
                 PROVE  Cardinality(Seated(s)') <= seatLimit'
    BY DEF WithinLimit
  <2>3. Cardinality(keep) <= seatLimit' /\ seatLimit' \in Nat
    BY <1>1, <2>2 DEF Keeps
  <2>4. Cardinality(Seated(s)') <= Cardinality(keep)
    BY <2>1, FewerSeats
  <2>5. Cardinality(Seated(s)') \in Nat /\ Cardinality(keep) \in Nat
    BY <2>1, SeatsAreFinite
  <2> QED BY <2>3, <2>4, <2>5
<1> QED BY <1>3, <1>4, <1>5

\* A new policy, a pause and the time that passes leave the leases, and the
\* limit, as they are.
LEMMA TheRestHolds ==
  ASSUME AccessInv,
         \/ \E r \in Policies : SetPolicy(r)
         \/ \E up \in BOOLEAN : SetOperational(up)
         \/ Elapse
         \/ UNCHANGED accessVars
  PROVE  AccessInv'
<1> USE DEF leaseVars, deviceVars, orderVars
<1>1. UNCHANGED <<seatLimit, leaseVars, deviceVars, orderVars>>
  BY DEF SetPolicy, SetOperational, Elapse, accessVars
<1>2. AccessTypeOK'
  <2>1. CASE \E r \in Policies : SetPolicy(r)
    BY <2>1 DEF SetPolicy, AccessInv, AccessTypeOK
  <2>2. CASE \E up \in BOOLEAN : SetOperational(up)
    BY <2>2 DEF SetOperational, AccessInv, AccessTypeOK
  <2>3. CASE Elapse
    BY <2>3, AccessAssumption DEF Elapse, AccessInv, AccessTypeOK
  <2>4. CASE UNCHANGED accessVars
    BY <2>4 DEF accessVars, AccessInv, AccessTypeOK
  <2> QED BY <2>1, <2>2, <2>3, <2>4
<1> QED
  BY <1>1, <1>2 DEF AccessInv, HeldInv, RowInv, WithinLimit, Seated, Live

LEMMA AccessStep ==
  ASSUME AccessInv, [AccessNext]_accessVars
  PROVE  AccessInv'
<1>1. ASSUME NEW d \in Devices, Refuse(d)
      PROVE  UNCHANGED accessVars
  BY <1>1 DEF Refuse
<1> QED
  BY <1>1, LetInHolds, TurnAwayHolds, SetSeatLimitHolds, TheRestHolds DEF AccessNext

THEOREM AccessKeepsInv == AccessSpec => []AccessInv
BY AccessStart, AccessStep, PTL DEF AccessSpec

\* For any limit, lease policies and number of devices: never more devices in
\* their lease than the limit (acquireBuyerAccess, reconcileBuyerAccessLimit),
\* while transactions take effect in the order in which they began.
THEOREM SeatsWithinLimit == AccessSpec => []SeatsAreWithinLimit
<1>1. AccessInv => SeatsAreWithinLimit
  BY DEF AccessInv, AccessTypeOK, SeatsAreWithinLimit
<1> QED BY <1>1, AccessKeepsInv, PTL

LEMMA HeartbeatsHold ==
  ASSUME AccessInv, AccessNext, NEW d \in Devices,
         Punctual(d), LongEnough(d), MaxWait < told[d], seenAt' = seenAt
  PROVE  heldSince'[d] # Never
<1> USE AccessAssumption DEF AccessInv, AccessTypeOK, Punctual
<1>1. /\ seenAt[d] \in Nat /\ heldSince[d] \in Nat /\ clock \in Nat /\ told[d] \in Nat
      /\ expiresAt[d] \in Nat /\ expiresAt[d] # Never
      /\ seenAt[d] > heldSince[d] - told[d]
  BY DEF HeldInv, RowInv
<1>2. clock < expiresAt[d]
  BY <1>1 DEF LongEnough
<1>3. CASE TurnAway(d)
  <2>1. PICK t \in Begins : ~Live(d, t)
    BY <1>3 DEF TurnAway
  <2>2. t \in Nat /\ t <= clock
    BY <1>1, <2>1 DEF Begins
  <2> QED BY <1>1, <1>2, <2>1, <2>2 DEF Live
<1>4. ASSUME NEW e \in Devices \ {d}, TurnAway(e)
      PROVE  heldSince'[d] # Never
  BY <1>1, <1>4 DEF TurnAway
<1>5. ASSUME NEW e \in Devices, LetIn(e) \/ Refuse(e)
      PROVE  heldSince'[d] # Never
  BY <1>1, <1>5 DEF LetIn, Refuse, accessVars, deviceVars
<1>6. ASSUME NEW l \in SeatLimits \cup {Unlimited}, NEW r \in Policies, SetSeatLimit(l, r)
      PROVE  heldSince'[d] # Never
  <2>1. PICK keep \in SUBSET Devices :
          /\ seenAt' = [k \in Devices |-> IF k \in keep THEN seenAt[k] ELSE Never]
          /\ heldSince' = [k \in Devices |-> IF k \in keep THEN heldSince[k] ELSE Never]
    BY <1>6 DEF SetSeatLimit, KeptFor
  <2> QED BY <1>1, <2>1
<1>7. ASSUME \/ \E r \in Policies : SetPolicy(r)
             \/ \E up \in BOOLEAN : SetOperational(up)
             \/ Elapse
      PROVE  heldSince'[d] # Never
  BY <1>1, <1>7 DEF SetPolicy, SetOperational, Elapse, deviceVars
<1> QED BY <1>3, <1>4, <1>5, <1>6, <1>7 DEF AccessNext

LEMMA FreshestHold ==
  ASSUME AccessInv, AccessNext, NEW d \in Seated(clock), seenAt'[d] = Never
  PROVE  /\ seatLimit' # Unlimited
         /\ Cardinality({k \in Devices : seenAt'[k] # Never}) = seatLimit'
         /\ \A k \in Devices : seenAt'[k] # Never => seenAt[d] <= seenAt[k]
<1> USE AccessAssumption DEF AccessInv, AccessTypeOK
<1>1. /\ d \in Devices /\ seenAt[d] # Never /\ seenAt[d] \in Nat
      /\ expiresAt[d] # Never /\ expiresAt[d] \in Nat /\ clock < expiresAt[d]
  BY DEF Seated, Live, RowInv
<1>2. ASSUME NEW e \in Devices, LetIn(e)
      PROVE  FALSE
  BY <1>1, <1>2 DEF LetIn, Begins, leaseVars
<1>3. ~UNCHANGED leaseVars
  BY <1>1 DEF leaseVars
<1>4. PICK l \in SeatLimits \cup {Unlimited}, r \in Policies : SetSeatLimit(l, r)
  BY <1>2, <1>3
  DEF AccessNext, TurnAway, Refuse, SetPolicy, SetOperational, Elapse, accessVars
<1>5. PICK t \in Begins, keep \in SUBSET Devices :
        /\ seatLimit' = l /\ Keeps(t, keep)
        /\ seenAt' = [k \in Devices |-> IF k \in keep THEN seenAt[k] ELSE Never]
  BY <1>4 DEF SetSeatLimit, KeptFor
<1>6. t \in Nat /\ t <= clock
  BY DEF Begins
<1>7. d \in Seated(t) \ keep
  BY <1>1, <1>5, <1>6 DEF Seated, Live
<1>8. {k \in Devices : seenAt'[k] # Never} = keep
  <2>1. \A k \in keep : k \in Devices /\ seenAt[k] # Never
    BY <1>5 DEF Keeps, Seated, Live, RowInv
  <2> QED BY <1>5, <2>1
<1>9. seatLimit' # Unlimited
  BY <1>5, <1>7 DEF Keeps
<1>10. Cardinality(keep) = seatLimit'
  <2>1. seatLimit' \in Nat /\ Cardinality(keep) \in Nat
    BY <1>5, <1>9, SeatsAreFinite
  <2>2. Cardinality(keep) <= seatLimit' /\ ~(Cardinality(keep) < seatLimit')
    BY <1>5, <1>7, <1>9 DEF Keeps
  <2> QED BY <2>1, <2>2
<1>11. \A k \in keep : seenAt[d] <= seenAt[k]
  BY <1>5, <1>7, <1>9 DEF Keeps
<1> QED BY <1>8, <1>9, <1>10, <1>11

\* For any limit and lease policies, suspensions and changes of both: a device
\* that keeps making requests which are let in is turned away for no other, and
\* a new limit takes the seats seen longest ago (acquireBuyerAccess,
\* reconcileBuyerAccessLimit).
THEOREM SeatsLostForCause == AccessSpec => SeatsAreLostForCause
<1>1. AccessInv /\ [AccessNext]_accessVars =>
        [\A d \in Devices :
           Punctual(d) /\ LongEnough(d) /\ MaxWait < told[d] /\ seenAt' = seenAt
             => heldSince'[d] # Never]_accessVars
  BY HeartbeatsHold
<1>2. AccessInv /\ [AccessNext]_accessVars =>
        [\A d \in Seated(clock) :
           seenAt'[d] = Never =>
             /\ seatLimit' # Unlimited
             /\ Cardinality({k \in Devices : seenAt'[k] # Never}) = seatLimit'
             /\ \A k \in Devices : seenAt'[k] # Never => seenAt[d] <= seenAt[k]]_accessVars
  BY FreshestHold
<1> QED
  BY <1>1, <1>2, AccessStart, AccessStep, PTL
  DEF AccessSpec, SeatsAreLostForCause, HeartbeatsKeepTheSeat, FreshestKeepTheirSeats

(***************************************************************************)
(*                          An instance in service                         *)
(***************************************************************************)

\* Merchants, seats and caches share no state: together they do what each of
\* them does alone.
THEOREM InstanceParts == InstanceSpec => SaasSpec /\ AccessSpec /\ CachesSpec
<1>1. InstanceInit => SaasInit /\ AccessInit /\ CachesInit
  BY DEF InstanceInit
<1>2. [InstanceNext]_instanceRunVars =>
        [SaasNext]_saasVars /\ [AccessNext]_accessVars /\ [CachesNext]_cacheVars
  BY DEF InstanceNext, instanceRunVars
<1> QED
  BY <1>1, <1>2, PTL DEF InstanceSpec, SaasSpec, AccessSpec, CachesSpec
=============================================================================
