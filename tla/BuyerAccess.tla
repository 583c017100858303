----------------------------- MODULE BuyerAccess -----------------------------
(***************************************************************************)
(* The seats of one merchant instance: how many buyer devices may use it   *)
(* at once (services/saas/buyer_access_service.js, entitlement_effects.js). *)
(*                                                                         *)
(* A device takes a seat with its first request and keeps it for a lease;  *)
(* later requests renew the lease.  Each request, and each change of the   *)
(* limit or of the lease policy, is a transaction that locks the           *)
(* saas_instances row: it takes effect at one point.  But now() is the     *)
(* time of its BEGIN, and a transaction may wait for the lock: at most     *)
(* MaxWait here.  Whether a lease is young enough to be left alone is      *)
(* judged by Date.now(), and by the policy of that moment; when it ends    *)
(* stands in its row.                                                      *)
(***************************************************************************)
EXTENDS Integers, FiniteSets

CONSTANTS
  Devices,     \* hashed device ids
  SeatLimits,  \* values of buyer.concurrent_access.max
  Unlimited,   \* its null
  Policies,    \* values of buyer.access.lease_seconds and heartbeat_seconds
  MaxWait,     \* bound: from BEGIN to the lock
  MaxClock,    \* bound: the last instant
  Never

\* The validation of entitlements keeps a heartbeat shorter than the lease.
ASSUME AccessAssumption ==
  /\ IsFiniteSet(Devices)
  /\ SeatLimits \subseteq Nat
  /\ Unlimited \notin Nat /\ Never \notin Nat
  /\ Policies \subseteq [lease : Nat, heartbeat : Nat \ {0}]
  /\ \A p \in Policies : p.heartbeat < p.lease
  /\ MaxWait \in Nat /\ MaxClock \in Nat

VARIABLES
  clock,       \* the time, of database and server alike
  operational, \* whether assertSaasInstanceOperational lets requests through
  seatLimit,   \* the committed entitlements: the limit
  policy,      \* and the lease policy
  seenAt,      \* saas_access_leases.last_seen_at (Never: no row)
  expiresAt,   \* saas_access_leases.expires_at
  heldSince,   \* history: when the device was last let in, since it was last out
  told,        \* history: the heartbeat_seconds of its last answer
  latest,      \* history: the latest BEGIN among the transactions that took effect
  overtaken    \* history: one took effect after another that began later

leaseVars == <<seenAt, expiresAt>>
deviceVars == <<heldSince, told>>
orderVars == <<latest, overtaken>>
accessVars ==
  <<clock, operational, seatLimit, policy, leaseVars, deviceVars, orderVars>>

AccessInit ==
  /\ clock = 0
  /\ operational = TRUE
  /\ seatLimit \in SeatLimits \cup {Unlimited}
  /\ policy \in Policies
  /\ seenAt = [d \in Devices |-> Never]
  /\ expiresAt = [d \in Devices |-> Never]
  /\ heldSince = [d \in Devices |-> Never]
  /\ told = [d \in Devices |-> 0]
  /\ latest = 0
  /\ overtaken = FALSE

\* When a transaction that now has the lock may have begun.
Begins == {t \in 0..clock : clock - t <= MaxWait}

Began(t) ==
  /\ latest' = IF t > latest THEN t ELSE latest
  /\ overtaken' = (overtaken \/ t < latest)

\* expires_at > now().
Live(d, t) == expiresAt[d] # Never /\ t < expiresAt[d]
Seated(t) == {d \in Devices : Live(d, t)}

\* Seeded fault: the seat that is asked for is not counted.
FaultOneSeatMore(t) == seatLimit # Unlimited => Cardinality(Seated(t)) <= seatLimit
HasSeat(t) == seatLimit # Unlimited => Cardinality(Seated(t)) + 1 <= seatLimit

\* Seeded fault: a lease is renewed only when it is over.
FaultYoungUntilTheEnd(d) == clock < expiresAt[d]
Young(d) == seenAt[d] > clock - policy.heartbeat

\* acquireBuyerAccess.  `moved`: the store, user or platform of the request
\* is not the lease's.
LetIn(d) ==
  \E t \in Begins, moved \in BOOLEAN :
    /\ operational
    /\ ~Live(d, t) => HasSeat(t)
    /\ IF Live(d, t) /\ Young(d) /\ ~moved
       THEN UNCHANGED leaseVars
       ELSE /\ seenAt' = [seenAt EXCEPT ![d] = t]
            /\ expiresAt' = [expiresAt EXCEPT ![d] = t + policy.lease]
    /\ heldSince' = [heldSince EXCEPT ![d] = clock]
    /\ told' = [told EXCEPT ![d] = policy.heartbeat]
    /\ Began(t)
    /\ UNCHANGED <<clock, operational, seatLimit, policy>>

\* 429, a ROLLBACK: all seats are taken.
TurnAway(d) ==
  \E t \in Begins :
    /\ operational
    /\ ~Live(d, t) /\ ~HasSeat(t)
    /\ heldSince' = [heldSince EXCEPT ![d] = Never]
    /\ told' = [told EXCEPT ![d] = 0]
    /\ UNCHANGED <<clock, operational, seatLimit, policy, leaseVars, orderVars>>

\* 403, a ROLLBACK: the instance is suspended or its licence has run out.  The
\* device keeps its row, if it has one, but renews nothing.
Refuse(d) == ~operational /\ UNCHANGED accessVars

\* Seeded fault: a lower limit takes the seats of those seen last.
FaultDropsTheFreshest(t, keep) ==
  /\ keep \subseteq Seated(t)
  /\ seatLimit' # Unlimited =>
       /\ Cardinality(keep) <= seatLimit'
       /\ Cardinality(keep) < seatLimit' => keep = Seated(t)
       /\ \A d \in Seated(t) \ keep, k \in keep : seenAt[d] >= seenAt[k]
  /\ seatLimit' = Unlimited => keep = Seated(t)

\* reconcileBuyerAccessLimit: the expired leases go, and all but the
\* seatLimit' most recently seen.
Keeps(t, keep) ==
  /\ keep \subseteq Seated(t)
  /\ seatLimit' # Unlimited =>
       /\ Cardinality(keep) <= seatLimit'
       /\ Cardinality(keep) < seatLimit' => keep = Seated(t)
       /\ \A d \in Seated(t) \ keep, k \in keep : seenAt[d] <= seenAt[k]
  /\ seatLimit' = Unlimited => keep = Seated(t)

KeptFor(f, keep, out) == [d \in Devices |-> IF d \in keep THEN f[d] ELSE out]

\* upsertEntitlements with a limit in its body, and maybe a policy.
SetSeatLimit(limit, rules) ==
  \E t \in Begins, keep \in SUBSET Devices :
    /\ seatLimit' = limit
    /\ policy' = rules
    /\ Keeps(t, keep)
    /\ seenAt' = KeptFor(seenAt, keep, Never)
    /\ expiresAt' = KeptFor(expiresAt, keep, Never)
    /\ heldSince' = KeptFor(heldSince, keep, Never)
    /\ told' = KeptFor(told, keep, 0)
    /\ Began(t)
    /\ UNCHANGED <<clock, operational>>

\* Without one: the leases stay as they were written.
SetPolicy(rules) ==
  /\ policy' = rules
  /\ UNCHANGED <<clock, operational, seatLimit, leaseVars, deviceVars, orderVars>>

\* The operator suspends or reactivates the instance; its licence runs out, or
\* is installed.
SetOperational(up) ==
  /\ operational' = up
  /\ UNCHANGED <<clock, seatLimit, policy, leaseVars, deviceVars, orderVars>>

Elapse ==
  /\ clock < MaxClock
  /\ clock' = clock + 1
  /\ UNCHANGED <<operational, seatLimit, policy, leaseVars, deviceVars, orderVars>>

AccessNext ==
  \/ \E d \in Devices : LetIn(d) \/ TurnAway(d) \/ Refuse(d)
  \/ \E limit \in SeatLimits \cup {Unlimited}, rules \in Policies : SetSeatLimit(limit, rules)
  \/ \E rules \in Policies : SetPolicy(rules)
  \/ \E up \in BOOLEAN : SetOperational(up)
  \/ Elapse

AccessSpec == AccessInit /\ [][AccessNext]_accessVars
-----------------------------------------------------------------------------
(* Properties                                                              *)

\* The types; nobody was seen in the future.
AccessTypeOK ==
  /\ clock \in Nat
  /\ operational \in BOOLEAN
  /\ seatLimit \in SeatLimits \cup {Unlimited}
  /\ policy \in Policies
  /\ seenAt \in [Devices -> (0..clock) \cup {Never}]
  /\ expiresAt \in [Devices -> Nat \cup {Never}]
  /\ heldSince \in [Devices -> (0..clock) \cup {Never}]
  /\ told \in [Devices -> Nat]
  /\ latest \in 0..clock
  /\ overtaken \in BOOLEAN

WithinLimit(t) == seatLimit # Unlimited => Cardinality(Seated(t)) <= seatLimit

\* Never are more devices in their lease than the limit in force allows,
\* through renewals, lapses and changes of the limit and of the length of a
\* lease - provided the transactions take effect in the order they began.
SeatsAreWithinLimit == ~overtaken => WithinLimit(clock)

\* Let in, and back within the heartbeat it was told then.
Punctual(d) == heldSince[d] # Never /\ clock - heldSince[d] <= told[d]

\* The lease as it is written is two of these heartbeats long: it is not
\* extended before it is one old.
LongEnough(d) == expiresAt[d] - seenAt[d] >= 2 * told[d]

\* No request finds all seats taken that comes within the heartbeat_seconds of
\* the last answer, if the lease is two of them long and no request waits one
\* for the lock: a new limit can take the seat, but no other device can, and
\* no change of the policy.  A 403 is no such answer: a device that is refused
\* while the instance is not operational renews nothing.
HeartbeatsKeepTheSeat ==
  [][\A d \in Devices :
       Punctual(d) /\ LongEnough(d) /\ MaxWait < told[d] /\ seenAt' = seenAt
         => heldSince'[d] # Never]_accessVars

\* A device that loses its seat to a new limit was seen no later than any that
\* keeps one, and does not lose it for nothing: all seats are taken.
FreshestKeepTheirSeats ==
  [][\A d \in Seated(clock) :
       seenAt'[d] = Never =>
         /\ seatLimit' # Unlimited
         /\ Cardinality({k \in Devices : seenAt'[k] # Never}) = seatLimit'
         /\ \A k \in Devices : seenAt'[k] # Never => seenAt[d] <= seenAt[k]]_accessVars

\* Both: nobody loses a seat but to silence, to a lower limit or to a pause of
\* the instance.
SeatsAreLostForCause == HeartbeatsKeepTheSeat /\ FreshestKeepTheirSeats
=============================================================================
