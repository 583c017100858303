# SpeedFeast backend: a TLA+ model

This directory models the core of the SpeedFeast ordering backend (`src/`, an
Express application over PostgreSQL with Stripe and FCM): what the order, payment
and refund handlers, the loyalty ledger, the receipt queue and the SaaS control
plane do to the database when they interleave with each other, with the payment
provider and with failures; what becomes of notifications and receipts on their way to
devices; how the database of a tenant is made and destroyed; and what buyers keep:
seats, payment methods, addresses, profiles, the menu they order from. Every definition
is translated from the source; `PROJECT.json` maps each one to its lines.

Contents: [the system](#the-system) · [the modules](#the-modules) ·
[the runs](#the-runs) · [bounds](#bounds) · [fairness](#fairness) ·
[what is proved](#what-is-proved) · [findings](#findings) ·
[limits](#what-is-not-modelled) · [plan](#plan)

## The system

One deployment serves one merchant (a "SaaS instance") with several stores. All
durable state is in PostgreSQL; handlers are Node request handlers that open a
transaction, lock rows with `SELECT ... FOR UPDATE`, and commit. Notifications
are recorded in the transaction and sent after COMMIT.

| component | state | operations | talks to |
|---|---|---|---|
| Orders (`routes/orders.js`, `routes/merchant_orders.js`) | `"Order".order_status`, in-store and online `payments` | create, cancel, status update, in-store collection, payment sync, refund | ledger, automation, notifications, Stripe |
| Payments (`routes/payments.js`) | `payments`, `payment_events`, `payment_refunds` | create a checkout, Stripe webhook | Stripe, orders, ledger, automation |
| Automatic acceptance (`services/order_automation.js`) | settings | `autoStartOrder` inside other handlers | orders, print queue, notifications |
| Loyalty ledger (`services/rewards.js`) | `loyalty_accounts`, `loyalty_transactions`, `reward_redemptions`, `order_reward_redemptions` | award, reverse, redeem, use, restore | called by the order handlers |
| Print queue (`services/merchant_print_jobs.js`) | `merchant_order_print_jobs` | enqueue, claim, report | devices, order status |
| Notifications (`services/*_notifications.js`, `services/notifications/`) | `notification_outbox`, device tokens, a read/deleted row per person | record, send after COMMIT, register and deactivate tokens, read, read-all, delete, delete-read | FCM, merchant accounts |
| Menu (`routes/merchant_products.js`, `products.js`, part of `orders.js`) | products, option groups, links, items, a listing per store | save a product with groups, replace a group, set a status; menu for the buyer, check of an order | orders |
| Buyers (`routes/users.js`, `payment_methods.js`) | `"Users"`, `address`, `user_payment_methods` | register, change the profile, add, save, delete, make default | quotas, orders |
| Payment provider (`services/payments/`) | at Stripe: sessions, charges, refunds, events | retrieve, refund, verify events | external |
| Catalogue, settings, tables, reviews | configuration rows | CRUD, price and time calculations | orders read them |
| Authentication (`secutiry/`, `services/merchant_authorization.js`) | users, permissions | token checks | every route |
| SaaS control (`services/saas/control_service.js`, `quota_service.js`, `entitlement_*.js`) | instance row, entitlements, provisioning operations, licences; a cache per process | provisioning, entitlement changes, licence installation, quota checks | control plane, every creation |
| Buyer access (`services/saas/buyer_access_service.js`) | `saas_access_leases` | take and renew a seat, trim seats to a new limit | every buyer request |
| Tenant lifecycle (`services/saas/tenant_*.js`) | prepare and cleanup journals, registry rows, receipts, the catalog of the cluster | prepare, restore, migrate, verify, activate, compensate, destroy, publish a receipt | PostgreSQL cluster, S3 |
| Restore and readiness (`services/saas/aurora_*.js` and others) | cloud resources | one-shot scripts | AWS |

Where it is hard:

- **Two rows, many writers.** An order and its payments are separate rows that
  the buyer, the merchant, Stripe's webhook, a sync and the automatic start all
  write, each from its own view of them.
- **Events in any order.** Stripe delivers events at least once and in no fixed
  order; `payment_events` is written after the processing and never read, so a
  redelivery runs the whole handler again.
- **Money outside the transaction.** A refund is executed at Stripe before the
  COMMIT that records it: a crash or a lost answer leaves money paid back that
  the database does not know of.
- **Benefits follow the order.** Points and vouchers must be given back whichever
  of six call sites closes the order, once, even if the points were spent.
- **Authorised before, executed after.** A merchant request is authorised, and
  its actor's role read, before the handler waits for the instance lock; a store
  edit never takes that lock. Provisioning requests are retried for as long as the
  platform has no answer, past suspensions and newer epochs.
- **Leases.** A print job changes hands when its device is silent, and the
  device may answer after all. A buyer's seat is lost with its lease, which later
  requests renew, each in a transaction whose `now()` is older than its effect.
- **After the COMMIT.** Notifications are sent by a callback of the process, in
  statements that share no transaction, while tokens change hands and accounts change.
- **No transaction, or no lock.** Addresses and profiles are written by statements that
  commit one by one; payment methods in transactions that lock nothing they only read.
- **Copies.** Every process caches entitlements and stores, and nobody tells the others.
- **DDL by name.** `CREATE` and `DROP DATABASE` cannot be part of a transaction, go by
  name, and stand between journal entries; a task can stop after any of them, with a
  COMMIT of its second session still on the way; names are used again.

What correct means, component by component, is the list of properties under
[the runs](#the-runs).

## The modules

```
OrderIds <- Rewards <-- Orders (also EXTENDS Stripe) <-- MCOrders
    ^           ^
    |           MCRewards
    PrintQueue
TenantSlots <- - (INSTANCE) - - TenantLifecycle <-- MCTenantLifecycle
SaasControl <-- MCSaasControl
TenantDestroy <-- MCTenantDestroy

MCBuyer    = MCRewards + PaymentMethods + DeliveryAddresses + BuyerProfiles + Menu
MCDevices  = PrintQueue + NotificationDelivery + NotificationInbox
MCInstance = MCSaasControl + BuyerAccess + RequestCaches
MCPlatform = MCSaasControl + MCTenantLifecycle + MCTenantDestroy

                              proofs
FiniteSums                    sums over finite sets
RewardsProofs                 Rewards
OrdersProofs                  Orders, on RewardsProofs
OrdersMoneyProofs             Orders, on OrdersProofs and FiniteSums
BuyerProofs                   MCBuyer, on RewardsProofs and FiniteSums
DeliveryProofs                MCDevices
SaasControlProofs             MCInstance
TenantProofs                  MCPlatform, on SaasControlProofs
```

The four `MC...` with a `+` put modules that share no state into one run: a variable
`focus` (`aspect` in MCInstance), fixed in the initial state, says which of them a
behaviour is about, and the others keep their first state. Each module is thereby checked by itself, with its own bounds, and
the run is the sum of them: that a behaviour of the run is a behaviour of each of
its modules is proved (`BuyerParts`, `DevicesParts`, `InstanceParts`,
`PlatformParts`). `Orders`, which does share state with `Rewards`
and `Stripe`, is a real composition.

- **OrderIds** declares the set of orders the other modules share.
- **Rewards** is the loyalty ledger, the *abstract specification* of what points
  and vouchers promise. `LedgerSpec` lets a caller award, reverse, use and restore
  at any time and in any order. Half of the state is the account (`available`,
  the lifetime counters, one `earn` and one `refund` row per order), the other half
  the vouchers (`reward_redemptions.status` and `used_order_id`, and the order's
  `order_reward_redemptions` row). `clawedBack` is a history variable, the sum of
  `deducted_points`.
- **Stripe** is the external provider: what a checkout session and its charge, a
  refund and the events about them can do. It is not code of the repository: only
  what `stripe_provider.js` reads of it is modelled, and every rule is an assumption
  (see [limits](#what-is-not-modelled)).
- **Orders** composes them. One action is one handler, from its locks to its COMMIT,
  with every call that changes state: the ledger call, the automatic start, the
  recorded notices. `CreateOrder`, `CreatePayment`, `CancelByCustomer`, `Webhook`,
  `UpdateStatus`, `CollectInStorePayment`, `SyncPayment` and the `Refund...` actions
  have the names of their routes. An order's `payments` is a sequence, oldest first;
  `detail` is what an order is created with (channel, delivery or not, when it is
  paid, total in units of money). `processed` and `notices` are the rows whose
  keys deduplicate events and notifications.
- **PrintQueue** is the receipt queue. A claim's uuid is its attempt number: both
  are fresh with every claim. `held` is the set of claims some device still works on;
  a device can crash, print late, report twice or lose an answer.

- **SaasControl** is the control plane and what its quotas govern: the singleton
  instance row with its fence (`external_operation_epoch`, the request bound to it
  and its receipt), the idempotency keys (`operations`), licences, two quotas
  (`limit`), merchant accounts and stores. `Provision`, `ReplayEpoch` and `ReplayKey`
  are the three ways `provisionInstance` can commit; a request is its normalised body
  with its fence, so equal hashes are equal requests. `signedIn` and `edits` are the
  merchant requests between their authorisation and their transaction, with what they
  read: the actor's role, the status to write. `applied` counts the audit rows of
  provisionings, `answers` is a history of the receipts sent and `installed` of the licence last
  installed. That at most one row is current is also a unique index
  (`ux_saas_licenses_current`): an installation that leaves two is rolled back (`AtMostOneCurrent`).
  `OneCurrentLicence` says what the index does not: that the current row is the one installed last.

Why a handler may be one step. Every handler locks the Order row (`FOR UPDATE`),
or, in the webhook, the payment row and then the Order row, before it decides
anything, and the ledger locks the account. Two handlers of one order therefore
serialise; a deadlock between the two lock orders is broken by PostgreSQL with a
rollback, which is no step at all here. The control plane is simpler: all
its operations lock the one `saas_instances` row first. Steps that really are separate are
separate: executing a refund at Stripe and recording it (`UnrecordedRefund` is the
refund whose transaction dies, `RefundReplyLost` the one recorded as failed), an
event's creation and its delivery, capture of a charge and its webhook, device and
queue, the authorisation of a merchant request and its transaction.

- **NotificationDelivery** is one notification from its record to its last mark:
  `Record` (in the handler's transaction), `FetchTokens`, `FilterTokens` (the permissions
  of staff, read for each account), `SendMessage` per token, `DeactivateInvalid`,
  `MarkResult`, each a statement of its own; `SenderDies` in between. A device is its FCM
  token with one row. `SignIn` and `SignOff` are what the app decides, `RegisterDeviceToken`
  and `DeactivateDeviceToken` what arrives of it later; `ChangeAccount` dismisses or
  reinstates staff and turns their tokens off. `owned` and `cleared` are histories: through which
  rows, and for whom, the notice could properly be sent since it was recorded.
- **NotificationInbox** is what readers do with the lists: a row per notification
  and person, and the lists as of the person's last look.
- **TenantSlots** is the *abstract specification* of tenant databases: a slot (one
  generation of one tenant) is free, reserved, ready, retiring, released; its database
  rises from level to level; it is open to the application or not; and of the slots that
  want one name a single one holds it. No journals, no locks, no crashes.
- **TenantLifecycle** implements it (`SlotsSpec == Slot!SlotsSpec` is a property of its
  run): tasks with the advisory lock of their slot, the two journals, roles and
  databases with their creators (which stand for OIDs), statement by statement. `Stop` ends
  a task anywhere; `late` holds what its second session may still commit; an outsider
  creates and drops under the same names. A slot's `stage` in the mapping is read off the
  journals, its `level` off the role (the code stores the level in role comments and
  grants), `open` off LOGIN.
- **TenantDestroy** is the other destroy, the one production runs: registry row, `DROP`
  by name under the advisory lock, marks after the fact, and an immutable receipt whose
  write may be lost or late. One generation of one tenant; `SomeoneConnects` and
  `AnotherCreates` are the world around it.
- **BuyerAccess** is the seats: `seenAt` is `last_seen_at`, `expiresAt`
  is `expires_at`; `LetIn`, `TurnAway` (429) and `Refuse` (403) are the outcomes of
  `acquireBuyerAccess`, `SetSeatLimit` and `SetPolicy` an update of the entitlements with a new limit
  and without; `t` is the `now()` of their BEGIN. A request reads `lease_seconds` and
  `heartbeat_seconds` (`policy`) under the lock, so they may change between any two. `operational` is what
  `assertSaasInstanceOperational` finds before it looks at any lease: suspension and licence
  belong to `SaasControl`, here it may change at any time. `heldSince` and `told` are the device's
  side: when it was last let in, and which heartbeat that answer told it.
- **RequestCaches** has both per-process caches in one module, for they are one
  protocol with two differences: when a copy expires and when a change clears it.
- **PaymentMethods**, **DeliveryAddresses**, **BuyerProfiles** are one buyer's rows
  (profiles: all buyers') under overlapping requests. Payment methods: READ COMMITTED
  transactions, statement by statement, with private writes, waiting for written rows, and
  the partial unique index. Addresses and profiles: bare statements.
- **Menu** is the graph of products, groups and options, the merchant's edits of it,
  and the two walks over it, `Entries` (the buyer's menu) and `Check` (an order). They recurse
  in the code with a set `visited` of the products on the way; here they are functions of
  that set (`Shown`, `Checked`), each the step of one call (`BuildGroups`, `CheckGroups`)
  over what the calls for its options return. What they are compared with has no recursion:
  `Met`, the least set of products that holds what is picked for each of its members.

The definitions named `Fault...` are not part of any specification: each one is a
plausible bug in the operator that follows it, kept to show that the properties
notice it.

## The runs

| run | what it shows |
|---|---|
| `refunds` (MCOrders) | one order of every kind: `InStoreBooksAgree` (order, in-store payment and points tell one story), `RefundRowsAreReal` (never more recorded as paid back than Stripe paid back), `BuyerIsTold` (no handler changes status, points or money without the notice the code has for it, but for `refunded` when the order is closed by the `charge.refunded` webhook) |
| `checkouts` (MCOrders) | two checkouts of one order that can both be paid: `ServedOrdersWereChargedAndAnnounced`, `RefundedOrdersGotMoneyBack`, `OrdersOnlyMoveForward`; under fair delivery `CapturedPaymentIsNoticed` and `FullRefundTakesBenefitsBack`, though handlers fail |
| `benefits` (MCOrders) | two orders and a voucher: `ClosedOrdersHoldNoBenefits`, and `LedgerSpec`: the handlers implement the ledger |
| `buyer` (MCBuyer) | `BuyerTypeOK`; `LedgerIsSound` (balance = earned − spent − taken back, every reversal has its row, a voucher is used exactly while one order's row holds it) and `EarnsAtMostOnce` under any caller; `WalletKeepsItsDefault` (two active defaults are never committed, and a request nothing overlaps leaves one); `AddressesKeepADefault` (an explicit choice stands alone, a deletion leaves a default); `PasswordsStayTheirOwners`; `AcceptedOrdersFollowTheMenu` (the check of an order accepts exactly the choices that a closure over the graph allows) and `ChargedAsShown` (what it charges is what the buyer's menu shows beside them) |
| `devices` (MCDevices) | `ClaimsAreHonoured` (a job is completed only by who printed it under its last claim, a claim is superseded only after a failure or a lapse) and `JobsAreSettled`; `PushesAreAccountedFor`, `PushesReachTheEntitled`, `SignedInDevicesStayReachable`, `RecordedIsSettled`; `ListsAreTheirReaders` |
| `instance` (MCInstance) | `GrowthIsWithinPlan` (accounts and stores grow only within the quota in force and only in an operational instance), `AnOwnerStaysActive`, `OneCurrentLicence`, with requests whose actor has been demoted or deactivated since; `SeatsAreWithinLimit`, `SeatsAreLostForCause`; `WithdrawalsAreObeyedInTime` |
| `platform` (MCPlatform) | `PlatformTypeOK`; `EpochsAreAnsweredOnce` (a provisioning is applied once and answered once and for all), `ProvisioningIsFenced` (no epoch goes back, a late retry undoes no suspension); `SlotsSpec` (TenantLifecycle implements TenantSlots), `OthersResourcesSurvive`, `JournalsTellTruth` (tombstones are true, LOGIN never precedes its database, whatever was interrupted can be resumed); `RecordsProveDestruction`, `DropsOnlyItsIdleDatabase`, `InterruptedDestroyFinishes` |
| `terminal`, `refund_the_rest` (MCOrders), `store_quota`, `licence_term` (MCSaasControl), `replay_destroy` (MCTenantDestroy) | the five [findings](#findings) |

Several properties are conjunctions whose parts are named and commented in their
modules. Deadlock is not checked in the order runs: a closed order with every event
delivered has nothing left to do, and the bounded instance really stops there. All other
passing runs check it.

## Bounds

- `refunds`: one order, one payment, two refunds, totals 1 and 2, every channel and
  payment timing, all automation settings. A partial refund needs a total of 2; two
  refunds let one fail, be lost or stay pending while the other succeeds.
- `checkouts`: one order of total 1 with two payments and one refund: all the ways
  two payments can be mistaken for each other need just two. No symmetry and no
  constraint, which would be unsound for its liveness.
- `benefits`: two orders of one buyer and one voucher. `OneOnlineOrder` (a
  CONSTRAINT) lets only one of them be paid online: the two share nothing but the
  ledger, on which an in-store order acts through other handlers but in the same
  ways. The two orders are symmetric.
- `buyer`: *ledger*, three orders, three vouchers (two cost 2, one costs 1), earnings
  of 0, 1 or 3: points of one order can be spent before it is reversed, the deduction can
  be partial or zero, a voucher can be used again after it was restored. *Wallet* and
  *addresses*, three rows and two requests at a time: a race for the default needs two
  requests and a bystander row. *Profiles*, two buyers, two phones, two passwords, two changes at
  a time. *Menu*, a dish and a side dish that both may have groups, a sauce, two groups,
  four rules (optional, required, inactive, and one that is invalid), `MaxEdits` = 2
  edits of products and groups after any status changes: two edits suffice for direct and
  indirect cycles and for a group shared by dish and side. `Parents` keeps the third product
  a leaf.
- `devices`: *receipts*, two orders that compete for the devices, two attempts each:
  one can lapse and the other be the last. *Notices*, one notice for the whole staff, a
  clerk on two devices, a buyer who shares one of them: sends can fail apart and a device
  can change hands. *Inbox*, a notification for two people and one for one of them.
- `instance`: *merchants*, two accounts and two stores, each quota 1 or none, two
  identities, two licence ids, one of them issued with two terms, two instants: two
  owners can turn on each other, an account or a store can wait for room, and a licence
  can run out before or after it is renewed or superseded. *Seats*, two devices that compete for
  one seat (limit 1 or none), `MaxWait` 1 from BEGIN to lock, `MaxClock` 6, and three lease policies:
  lease 4 and heartbeat 2, where a lease can be renewed once, left alone once and run out;
  2 and 1, a heartbeat that is not longer than the wait; 3 and 2, a lease too short for
  two heartbeats. The policy may change between any two requests. *Caches*, two processes, two reads at a time,
  lifetime 2, `ReadTime` 1, `MaxInstant` 3: a read can start before and end after a
  COMMIT, and its copy be used until it expires.
- `platform`: *provisioning*, two epochs, the first with two competing requests
  (other quota, other owner, with and without an identity), two keys, scoped and unscoped
  tokens. *Databases*, two generations of one tenant and one of another, all after the same
  names; two tasks; a stale provision fence and two competing cleanup fences. *Destroy*,
  two runs, two fences, `MaxFailures` = 3 crashes, aborts and lost answers.
- Every bound is a named constant: `MaxPayments` and `MaxRefunds` are guards of the
  actions that create payments and refunds, `MaxTotal` bounds the amounts;
  `MAX_PRINT_ATTEMPTS` is the code's own constant (10); `MaxNow`, `MaxClock` and
  `MaxInstant` end clocks; `Requests`, `Calls`, `Changes`, `Readers`, `Runs` and `Tasks`
  bound what is under way at a time, not how often it happens.

## Fairness

- `FairOrdersSpec` assumes only that Stripe's first successful delivery of every
  event happens in the end (weak fairness of `FirstDelivery`). The code earns it: the
  route answers 500 when the transaction fails and Stripe redelivers until it gets a
  2xx. Nothing is assumed of buyers, merchants, syncs or the provider's decisions.
- `DeliveryFairness` assumes that a process that is alive goes on with the sends it
  has begun: `setImmediate` and the event loop see to it. It may die at any time
  (`SenderDies`), and then `RecordedIsSettled` asks for nothing: nobody sends what a dead
  process left pending, which the code accepts.
- `DestroyFairness` assumes that the platform runs the destroy task again as long as it
  has no receipt (strong fairness: runs come and go), that a run that is alive goes on,
  and that somebody who is connected leaves in the end. Failures are finitely many
  (`MaxFailures`), their places are not restricted.
- In the combined runs these conditions bite only on the behaviours they are about: in
  the others nothing of theirs is ever enabled, for all notices, jobs and runs are still
  where they began.
- `PrintFairness` assumes that time passes (leases run out, back-off ends) and that
  some device keeps polling `/print-jobs/claim`. Nothing is assumed of a device that
  has claimed a job: it may be silent every time, and `JobsAreSettled` then says the
  attempts run out instead of the job going round for ever.

## What is proved

Eight modules hold the proofs. They are for any sets (of orders, vouchers, devices, slots, requests and
so on, finite where they are counted) and any values of the constants that satisfy the
named assumptions of the modules: types of the constants, and that values standing for
"none" are no ordinary values (`AbsentAssumption` of `TenantLifecycle`, for one, says
that "no row" is not a row); nothing else. Every safety invariant, every action
property and both refinements of the passing runs are proved; what is left to TLC is named
at the end.

- **RewardsProofs**: the ledger. `LedgerInv` = types, `AccountBalances` and
  `ReversalsMatchEarnings` for the account, types and `VouchersHeldOnce` for the
  vouchers, is inductive; `LedgerSound` and `LedgerEarnsOnce` follow. The two halves have lemmas of their own, one per operation,
  stated over the operation rather than the specification so that the handlers can cite
  them. That the balance stays a natural number rests on the reversal row:
  `Remaining` never takes more than is there.
- **OrdersProofs**: the handlers and the ledger. The argument has one idea: whatever a handler does to an order,
  it has one of a few *shapes* (lemma `OrderStepShape`): it leaves the ledger and the
  status alone, or moves the status forward, or closes the order taking the benefits
  back, or touches the ledger by exactly one of its operations. Every handler is
  shown to have a shape once. From the shapes follow `OrdersImplementLedger` (each
  step is a ledger step or a stutter: the refinement), `ClosedOrders`
  (`ClosedOrdersHoldNoBenefits`), `OrdersForward` (`OrdersOnlyMoveForward`), and,
  through the refinement, `OrdersLedgerSound` and `OrdersEarnOnce`. The inductive
  invariant is `OrdersInv` = the type of `status`, `LedgerInv`, and
  `ClosedOrdersHoldNoBenefits`; the last needs the ledger's part, because a reversal
  is skipped when the earning was reversed before, and only `ReversalsMatchEarnings`
  says that this means the points are gone. The second part, `OrdersTypes`, is the whole of
  `OrdersTypeOK`, from an invariant per group of variables (`DataTypeOK`) and the ledger's types.
- **OrdersMoneyProofs.** The money and the notices. `BaseInv` = `OrdersInv`, the types, and for
  every order `Charged` (it has a charge at Stripe for each of its online payments and for nothing
  else) and `StripeTrue` (refunds are of captured charges and together within the total, and events
  tell only what happened). Every step keeps it, and three invariants that do not need each
  other stand on it, with one lemma per handler each. `ToldInv`: status, receipt and points
  have their notices, or the webhook closed the order (`BuyerTold`). `BooksInv`: by status of the order, what its one
  in-store payment, its refund rows and its points may be (`BooksAgree`). `MoneyInv`:
  a payment that the database calls paid was captured, one that it calls refunded was paid
  back in full, each succeeded refund row is a refund at Stripe of that payment and amount, and
  the status claims no more; it gives `RowsReal`, `MoneyBack` and, with `ToldInv`,
  `ServedCharged`. That the rows are refunds one by one is the strengthening that
  `RefundRowsAreReal`, which compares sums, needs: each row has a refund of its own, the one its
  `provider_refund_id` names, so the rows add up to no more (`RowsAddUp`).
- **FiniteSums** has what sums over sets need, here and in the menu: `Amount`, `AmountOf` and the
  community modules' `MapThenSumSet` are folds, which take a set apart in the order of `CHOOSE`.
  That the order does not matter (`SumRemove`, `SumIs`), that a sum whose terms are matched one to
  one by terms at least as large is no larger (`SumEmbeds`), and that the sum over a set is the
  sum of the sums over its disjoint parts (`SumOfParts`), is shown by the least set that would
  violate it (`LeastSet`), from the library's theorem that the subset order on finite sets is well
  founded: that is how these inductions over data are done without a theorem that takes an
  operator for a parameter.

- **SaasControlProofs.** The fence rests on `FenceInv` = types, no answer is of an
  epoch newer than the instance's (`Known`), the newest epoch has its request and its
  receipt (`NewestIsAnswered`), `OneReceiptPerEpoch` and `ReceiptsAreOfAppliedEpochs`.
  `NewestIsAnswered` is what makes it inductive: it excludes a claimed epoch without a
  receipt, so the code's branch for one (line 244 with no `replayResult`) and the
  epoch that `ReplayKey` would keep are shown to be unreachable, and a request is only
  ever applied if its epoch is new. From it follow `EpochAnswers` and `Fenced`. `PlannedGrowth` (with the quota
  of seats, the quota of stores and the operational state as its parts) and `LastOwner` follow
  from the types and from `EditsHaveStores`, whatever the set of waiting requests holds: every step that
  activates an account looks at count and quota of its own moment (`OneMoreSeat`), and
  every step that takes an owner away finds another. `CurrentLicence` (the current licence is the one installed last) is inductive with
  the types. For the caches, `CachesInv`: no read and no copy that says "permitted" is
  much later than the last instant the rows said so (`ReadInv`, `CopyInv`), which bounds
  how long a copy can outlive it, and `ForgetInv`, that the process of the last change has
  nothing older than the change, kept or under way, unless a read straddled it
  (`WithdrawalsObeyed`).
  For the seats, `AccessInv` generalises the limit to all later instants (leases only run
  out), which is what makes it inductive; that transactions take effect in the order they began is needed for just
  that (`SeatsWithinLimit`). `HeldInv` bounds how old the lease of a device that was let in can be, in
  heartbeats of the answer it got then, so that no change of the policy, and no suspension, disturbs it;
  `RowInv`, that a lease is seen and expires or is no row (`SeatsLostForCause`).

- **DeliveryProofs.** `DeliveryInv` = types, `SenderInv` and `EntitlementInv`. `SenderInv`
  says, phase by phase, what a sender's tokens and answers are worth: a push has an
  answer or is being answered, so a message that has not been sent has not arrived
  (`PushesAccounted`). `EntitlementInv` says that a sender's tokens were active rows of
  addressees at some time since the record (`owned`) and, once filtered, of staff who could see
  orders since (`cleared`); it is the histories, not the rows, that make it inductive, for
  rows change under the sender's hands (`PushesEntitled`). `ReachInv` adds what may be under way for a
  device that somebody is signed in on (no registration but theirs and no sign-off of
  theirs) and that only tokens that are gone are answered as unregistered
  (`SignedInStayReachable`). `ListsAreOnesOwn` is inductive as it stands. For the
  print queue, `PrintInv` adds to the types and to `ClaimsAreHonoured` how status, token, lease and
  attempts belong together (`JobShape`). Without it a late result could carry the token of a
  job that is being printed elsewhere.
- **TenantProofs.** `DestroyInv` = types, the shape of each run, `RegistryInv` and
  `ReceiptInv`. `RunInv` ties a run's step to lock, registry and catalog: who is past the
  check of evidence holds the lock, and a name it is about to drop is its own or gone. From it
  `RecordsProved` and `DropsHitTheirOwn`.
  For the lifecycle, `LifecycleInv` says of every slot that journals, catalog and late commits
  agree (`ActiveInv`: who has the role, the guard, LOGIN; `JournalInv`: what each phase
  promises of the database, and whose a cleanup is; `LateInv`: at most one commit is on its
  way, and it takes the next step from where the role is) and of every task what its slot looks like at
  each of its steps (`StageInv`) and that it holds its lock (`HoldsInv`). `StageInv` is what a
  task knows from its reads; it stays true only because no other task moves on a slot that is
  locked, and because `apply` and `activate`, which run without the lock, look again after
  taking it. `JournalsTellTruth` alone is not inductive: it says nothing of the
  tasks and commits that are under way. A step touches one slot (`Touches`), so the other slots and their tasks stay as they
  were (`OtherSlots`, `OtherTasks`), and what it does there is one move of TenantSlots or none
  (`SlotMove`). From this `JournalsTrue`, `OthersSurvive`, `LifecycleTypesHold` and the refinement
  `LifecycleImplementsSlots`; and with it `LifecyclePromises` and `LifecycleReleasesForGood`.
  For the slots by themselves, whatever implements them, `SlotsInv` = types, `OneHolder`, `OpenIsVerified`
  (`SlotsKeepTheirPromises`), and `ReleaseIsForGood`.
- **BuyerProofs.** `WalletInv` has the transactions: `ViewInv`, what a transaction sees
  of itself; `LockInv`, a row is written by one at a time; `SoloInv`, what a transaction
  that nothing overlaps has achieved after each of its statements; the unique index alone gives
  `AtMostOneDefault`. `AddressInv` is the same for bare statements: `CallInv` says what
  each stage of a request that runs alone has established. `ProfilesInv` follows the
  password hash a change has read: if nobody wrote since, it is still in force.
  The menu is a matter of what two recursions compute, for any graph of products and groups:
  `WalkExists` shows that a function of the visited set with the equation of the code exists (so the
  `LET` functions are what they are written as): of the functions that have the equation except on
  some sets, take one with the fewest exceptions; at the largest exception it can be mended.
  Every fact about the result is shown in the same way, by the largest visited set for which it
  would be wrong (`LargestSet`): with one more visited product it is right. `OrdersFollowTheMenu`: a walk stays inside every set that the choices do not
  leave (`CheckStaysInside`) and gets to everything met on a way around what was visited
  (`CheckGoesEverywhere`), so it answers for exactly the groups of `Met`, the least such set.
  `OrdersPayWhatIsShown`: by `PickedInParts` and `PartsAreApart`, the picked entries of a call
  are those of its picked options, disjoint because each carries its option's edge, so the charge is
  the sum of the parts. That carrying an edge tells entries apart rests on visited products
  never coming again (`EntriesAvoidVisited`): it is what ends the walks on a cycle
  that also keeps the sums right. `MenuTypes` is inductive; both theorems follow from the types alone,
  hence hold of any menu, however it was edited.
- **Composition.** `BuyerParts`, `DevicesParts`, `InstanceParts` and `PlatformParts` carry the theorems about
  single modules over to the runs; from them and the modules' own type theorems come
  `BuyerTypes` and `PlatformTypes`.

Only model-checked:

- everything that must eventually happen (`CapturedPaymentIsNoticed`,
  `FullRefundTakesBenefitsBack`, `JobsAreSettled`, `RecordedIsSettled`,
  `InterruptedDestroyFinishes`): liveness under fairness, and the ENABLED in it, are out
  of the prover's reach;
- that the seeded `Fault...` definitions break their properties, and the five findings, which are
  counterexamples.

## Findings

- `terminal`: `db/order_statuses.sql` calls cancelled and refunded terminal; a refund
  of a cancelled order's late payment and a sync of a refunded one leave them.
- `refund_the_rest`: the refund endpoint allows in-store refunds for completed orders
  only, and the first partial refund takes the order out of `completed`: the rest of
  the payment can never be refunded, although `nextStatusesFor` offers it.
- `store_quota`: an edit of a store authorised before the store was closed makes it
  active again, above `stores.max`: `/stores/update` takes no lock and checks no quota.
- `licence_term`: a licence installed again under its id with another term keeps the
  `expires_at` of its first installation, which is what the expiry check reads, while
  the answer and the audit record report the new one.

- `replay_destroy`: the destroy port promises a "tombstone sufficient for idempotent
  replay", but a destroy that is repeated after its names have been used again is
  refused, because the catalog then shows resources that the registry calls deleted.

Not findings, for no document, comment or test says otherwise, but met while modelling:
two requests that delete payment methods at the same time can leave a wallet with no default
(the next request repairs it); deleting an address that is not the default makes another one
a second default; updating a missing address with `is_default` clears the defaults and
answers 404; `sold_out` is read in four places and set in none except back to FALSE
when a product is saved; a product save can make a cycle that the edit of a group
refuses (both walks end on it); a store can edit products and shared groups it does
not list; a device whose request began while its lease was good and got the lock after can
renew it although its seat was given away; a required group all of whose options are
inactive does not hinder an order; `stores/update` and the settings page write phone and
address of a store in two places each; an order that is refunded at Stripe and closed by the
`charge.refunded` webhook (or by a refund whose answer was lost, once the webhook comes) gets no
"Order refunded" notice, which merchant refunds and syncs record: its buyer hears at most of the reversed points, and
`BuyerIsTold` names the exception; a suspended instance answers buyers 403 and renews no lease, so that
a device which keeps asking can find its seat taken when service resumes; when
`heartbeat_seconds` is raised, leases that were written before keep their end, which may then be
less than two of the new heartbeats away (`LongEnough`).

## What is not modelled

- Prices, options, addresses, opening hours and tables only decide whether an order
  can be created and with which detail; they are the set `Details`.
- Authentication: callers are assumed to be allowed, except for the role and the
  activity of merchant accounts in `SaasControl`; tokens' `auth_version` is not modelled
  there (an account can log in again). Store assignments, staff accounts (managers
  without `users.manage`), display names and passwords are left out. One buyer and one store: the
  ledger's rows are per buyer and store, and no query joins two of them.
- In the control plane: branding and themes, instance metadata, entitlements other
  than the quotas and the leases; a provisioning key that is found `processing` or `failed`, which
  one transaction per request never leaves behind; and the bootstrap script
  `db/create_merchant_user.js`, which production refuses to run.
- In the tenant lifecycle: admission of a task by the epoch authority in DynamoDB, the
  inspect port, secrets, passwords, ACLs, digests and catalog details. Those checks
  only decide whether a task goes on; a check that fails is no step. The check that a
  namespace is released is outside the transaction that reserves it, as in the code.
- Restore and readiness scripts, server start-up, release tooling; merchant settings,
  reward catalogue, categories, reviews, dining tables, assets, theme and runtime
  configuration: rows that are written whole and read by key. `PROJECT.json` lists
  every component.
- Of notifications: texts, channels, payloads, and the store (one store). FCM never reuses a
  token it has called gone, and an app awaits the answers of its own account before another
  signs in on it.
- The database and the servers share one clock. `"Users"` and `address` are created
  outside the repository: that a phone is unique is taken from the handlers that answer
  its violation.
- Stripe is assumed to be as `stripe_provider.js` reads it: a session is paid once, a
  refund never exceeds what is left of its charge, `charge.refunded` reports refunds
  that succeeded, an event's payload is a snapshot of the time it was made, and the
  payment methods offered are not delayed ones (a completed session is a paid one).
- Row locks are not a state of their own: see "Why a handler may be one step".

## Plan

Done, in this order: `Rewards`, `Stripe`, `Orders` and their proofs; `PrintQueue`;
`SaasControl`; `NotificationDelivery` and `NotificationInbox`; `TenantSlots`,
`TenantLifecycle` and `TenantDestroy`; `BuyerAccess` and `RequestCaches`; `PaymentMethods`,
`DeliveryAddresses`, `BuyerProfiles`; `Menu`; the proofs of all of them, and the parts of the
composed runs.

Left, the most valuable first:

1. Row locks as states: the lock orders of webhook, order handlers and ledger, to show
   where PostgreSQL's deadlock detection is relied on.
2. Opening hours and delivery pricing as operators checked against a reference.
