---------------------------- MODULE TenantDestroy ---------------------------
(***************************************************************************)
(* The destroy task as it runs in production                               *)
(* (db/tenant_lifecycle.js, PostgresTenantLifecycleDestroyPort of          *)
(* services/saas/tenant_lifecycle_production.js, and the receipt publisher *)
(* services/saas/tenant_lifecycle_receipt_publisher.js), for one           *)
(* generation of one tenant.                                               *)
(*                                                                         *)
(* A run looks for the receipt of its task; without one it destroys the    *)
(* database and the role under the advisory lock, recording each deletion  *)
(* in the lifecycle registry after it happened, and publishes a receipt.   *)
(* It can stop anywhere and the platform starts it again.  DROP goes by    *)
(* name, and once a name is free somebody else - the tenant's next         *)
(* generation - can have it.                                               *)
(***************************************************************************)
EXTENDS Naturals

CONSTANTS
  Runs,    \* executions of the command line program
  Fences,  \* cleanup tasks of this generation: their external epochs
  MaxFailures,  \* bound on crashes, aborts and lost answers
  NONE

RegistryRows == [fence : Fences, db : BOOLEAN, role : BOOLEAN]
Outcomes == {"deleted", "already_missing"}

ASSUME DestroyAssumption ==
  /\ MaxFailures \in Nat
  /\ NONE \notin Runs \cup Fences \cup RegistryRows \cup Outcomes \cup {"mine", "another"}

VARIABLES
  registry,     \* techlong_tenant_lifecycle_registry row (NONE: no row)
  tenantDb,     \* whose the database of that name is: mine, another's, NONE
  tenantRole,   \* the same for the role
  connectable,  \* ALLOW_CONNECTIONS
  connected,    \* is any session connected to the database?
  destroyLock,  \* the run that holds the advisory lock
  run,          \* where each run is
  receipts,     \* the immutable receipt object of each task
  sent,         \* PutObject requests that may still be executed
  failures      \* crashes, aborts and lost answers so far

tenantVars == <<tenantDb, tenantRole, connectable, connected>>
destroyVars ==
  <<registry, tenantVars, destroyLock, run, receipts, sent, failures>>

Waiting == [at |-> "waiting"]

DestroyInit ==
  /\ registry = NONE
  /\ tenantDb = "mine"
  /\ tenantRole = "mine"
  /\ connectable = TRUE
  /\ connected \in BOOLEAN
  /\ destroyLock = NONE
  /\ run = [r \in Runs |-> Waiting]
  /\ receipts = [f \in Fences |-> NONE]
  /\ sent = {}
  /\ failures = 0

-----------------------------------------------------------------------------
Moves(r, step) == run' = [run EXCEPT ![r].at = step]
RunAt(r, step) == run[r].at = step

\* Seeded fault: the outcome is not handed to the publisher.
FaultForgetsOutcome(r, outcome) ==
  /\ run' = [run EXCEPT ![r].at = "publish"]
  /\ destroyLock' = NONE

\* The run has its output; the finally block frees the lock.
Answers(r, outcome) ==
  /\ run' = [run EXCEPT ![r].at = "publish", ![r].outcome = outcome]
  /\ destroyLock' = NONE

Destroyed(row) == row.db /\ row.role

\* insertDestroyRegistry and updateDestroyRegistry: the tombstone begins with
\* nothing deleted, and is then written with both facts each time.
NewRow(f) == [fence |-> f, db |-> FALSE, role |-> FALSE]
Recorded(db, role) == [registry EXCEPT !.db = db, !.role = role]

\* A receipt that is there is kept: the key is written with If-None-Match,
\* and what is found is compared, never replaced.
WithReceipt(f, outcome) ==
  IF receipts[f] = NONE THEN [receipts EXCEPT ![f] = outcome] ELSE receipts

-----------------------------------------------------------------------------
(* Reading the receipt and taking the lock                                 *)

\* readExisting: a task with a receipt is not executed again.
StartRun(r, f) ==
  /\ RunAt(r, "waiting")
  /\ receipts[f] = NONE
  /\ run' = [run EXCEPT ![r] =
       [at |-> "lock", fence |-> f, outcome |-> NONE, roleGone |-> FALSE]]
  /\ UNCHANGED <<registry, tenantVars, destroyLock, receipts, sent, failures>>

\* Seeded faults: names are evidence enough; the fence of the row is not
\* compared; a deletion that was not recorded is an error.
FaultTrustsNames == TRUE
FaultAnyFence(f) ==
  IF registry = NONE
  THEN tenantDb # NONE /\ tenantRole # NONE
  ELSE ~(registry.db /\ tenantDb # NONE) /\ ~(registry.role /\ tenantRole # NONE)
FaultExpectsRecord(f) ==
  IF registry = NONE
  THEN tenantDb # NONE /\ tenantRole # NONE
  ELSE /\ registry.fence = f
       /\ registry.db <=> tenantDb = NONE
       /\ registry.role <=> tenantRole = NONE

\* readDestroyResourceEvidence: whatever has one of the names must be ours.
EvidenceReadable == tenantDb # "another" /\ tenantRole # "another"

\* The first transaction, without the insertion of the row.
RegistryAccepts(f) ==
  IF registry = NONE
  THEN tenantDb # NONE /\ tenantRole # NONE
  ELSE /\ registry.fence = f
       /\ ~(registry.db /\ tenantDb # NONE)
       /\ ~(registry.role /\ tenantRole # NONE)
       /\ ~(tenantDb # NONE /\ tenantRole = NONE)

CanDestroy(f) == EvidenceReadable /\ RegistryAccepts(f)

BeginDestroy(r) ==
  /\ RunAt(r, "lock")
  /\ destroyLock = NONE
  /\ CanDestroy(run[r].fence)
  /\ registry' = IF registry = NONE THEN NewRow(run[r].fence) ELSE registry
  /\ LET row == registry'
         dbGone == row.db \/ tenantDb = NONE
         roleGone == row.role \/ tenantRole = NONE
     IN IF Destroyed(row)
        THEN Answers(r, "already_missing")
        ELSE /\ destroyLock' = r
             /\ run' = [run EXCEPT ![r].roleGone = roleGone, ![r].at =
                  IF dbGone # row.db \/ roleGone # row.role THEN "sync"
                  ELSE IF ~dbGone THEN "close" ELSE "dropRole"]
  /\ UNCHANGED <<tenantVars, receipts, sent, failures>>

\* What was gone when the evidence was read is recorded before anything else
\* is deleted.
SyncRegistry(r) ==
  LET row == Recorded(TRUE, run[r].roleGone) IN
  /\ RunAt(r, "sync")
  /\ registry' = row
  /\ IF Destroyed(row)
     THEN Answers(r, "already_missing")
     ELSE Moves(r, "dropRole") /\ UNCHANGED destroyLock
  /\ UNCHANGED <<tenantVars, receipts, sent, failures>>

-----------------------------------------------------------------------------
(* Deleting                                                                *)

\* REVOKE CONNECT twice, ALLOW_CONNECTIONS false
CloseDatabase(r) ==
  /\ RunAt(r, "close")
  /\ connectable' = FALSE
  /\ Moves(r, "terminate")
  /\ UNCHANGED <<registry, tenantDb, tenantRole, connected, destroyLock, receipts, sent, failures>>

\* Seeded faults: the deletion is recorded before it happens; sessions are
\* not counted.
FaultRecordsFirst(r) ==
  /\ RunAt(r, "terminate")
  /\ connected' \in {FALSE, connected}
  /\ registry' = [registry EXCEPT !.db = TRUE]
  /\ Moves(r, "dropDb")
  /\ UNCHANGED <<tenantDb, tenantRole, connectable, destroyLock, receipts, sent, failures>>
FaultDropsInUse(r) ==
  /\ RunAt(r, "dropDb")
  /\ tenantDb' = NONE
  /\ Moves(r, "markDb")
  /\ UNCHANGED <<registry, tenantRole, connectable, connected, destroyLock, receipts, sent, failures>>

\* pg_terminate_backend only signals: a session may outlive it.
Terminate(r) ==
  /\ RunAt(r, "terminate")
  /\ connected' \in {FALSE, connected}
  /\ Moves(r, "dropDb")
  /\ UNCHANGED <<registry, tenantDb, tenantRole, connectable, destroyLock, receipts, sent, failures>>

DropTenantDb(r) ==
  /\ RunAt(r, "dropDb")
  /\ ~connected
  /\ tenantDb' = NONE
  /\ Moves(r, "markDb")
  /\ UNCHANGED <<registry, tenantRole, connectable, connected, destroyLock, receipts, sent, failures>>

MarkDb(r) ==
  /\ RunAt(r, "markDb")
  /\ registry' = Recorded(TRUE, registry.role)
  /\ Moves(r, "dropRole")
  /\ UNCHANGED <<tenantVars, destroyLock, receipts, sent, failures>>

DropTenantRole(r) ==
  /\ RunAt(r, "dropRole")
  /\ tenantRole' = NONE
  /\ Moves(r, "markRole")
  /\ UNCHANGED <<registry, tenantDb, connectable, connected, destroyLock, receipts, sent, failures>>

MarkRole(r) ==
  /\ RunAt(r, "markRole")
  /\ registry' = Recorded(TRUE, TRUE)
  /\ Moves(r, "prove")
  /\ UNCHANGED <<tenantVars, destroyLock, receipts, sent, failures>>

\* The final evidence: both resources absent.
ProveAbsence(r) ==
  /\ RunAt(r, "prove")
  /\ tenantDb = NONE /\ tenantRole = NONE
  /\ Answers(r, "deleted")
  /\ UNCHANGED <<registry, tenantVars, receipts, sent, failures>>

-----------------------------------------------------------------------------
(* The receipt                                                             *)

\* If-None-Match: the first receipt stays.  One that differs from the run's
\* is a collision and ends the run; so does success.
Publish(r) ==
  LET f == run[r].fence IN
  /\ RunAt(r, "publish")
  /\ receipts' = WithReceipt(f, run[r].outcome)
  /\ run' = [run EXCEPT ![r] = Waiting]
  /\ UNCHANGED <<registry, tenantVars, destroyLock, sent, failures>>

\* The write was not confirmed: it may be executed later.
LosePublish(r) ==
  /\ RunAt(r, "publish")
  /\ failures < MaxFailures /\ failures' = failures + 1
  /\ sent' = sent \cup {[fence |-> run[r].fence, outcome |-> run[r].outcome]}
  /\ run' = [run EXCEPT ![r] = Waiting]
  /\ UNCHANGED <<registry, tenantVars, destroyLock, receipts>>

LatePut(x) ==
  /\ sent' = sent \ {x}
  /\ receipts' = WithReceipt(x.fence, x.outcome)
  /\ UNCHANGED <<registry, tenantVars, destroyLock, run, failures>>

-----------------------------------------------------------------------------
(* Failures and the world outside                                          *)

\* A crash, a timeout or an abort; the lock goes with the session.
FailRun(r) ==
  /\ ~RunAt(r, "waiting")
  /\ failures < MaxFailures /\ failures' = failures + 1
  /\ run' = [run EXCEPT ![r] = Waiting]
  /\ destroyLock' = IF destroyLock = r THEN NONE ELSE destroyLock
  /\ UNCHANGED <<registry, tenantVars, receipts, sent>>

\* A check failed: in the first transaction, of the drained sessions, or of
\* the final evidence.
Refused(r) ==
  /\ \/ RunAt(r, "lock") /\ destroyLock = NONE /\ ~CanDestroy(run[r].fence)
     \/ RunAt(r, "dropDb") /\ connected
     \/ RunAt(r, "prove") /\ (tenantDb # NONE \/ tenantRole # NONE)
  /\ run' = [run EXCEPT ![r] = Waiting]
  /\ destroyLock' = IF destroyLock = r THEN NONE ELSE destroyLock
  /\ UNCHANGED <<registry, tenantVars, receipts, sent, failures>>

SomeoneConnects ==
  /\ tenantDb = "mine" /\ connectable
  /\ connected' = ~connected
  /\ UNCHANGED <<registry, tenantDb, tenantRole, connectable, destroyLock, run, receipts, sent, failures>>

SomeoneLeaves ==
  /\ connected /\ ~connectable
  /\ connected' = FALSE
  /\ UNCHANGED <<registry, tenantDb, tenantRole, connectable, destroyLock, run, receipts, sent, failures>>

\* Somebody else, such as the tenant's next generation, takes a free name.
AnotherCreates ==
  /\ \/ tenantDb = NONE /\ tenantDb' = "another" /\ UNCHANGED tenantRole
     \/ tenantRole = NONE /\ tenantRole' = "another" /\ UNCHANGED tenantDb
  /\ UNCHANGED <<registry, connectable, connected, destroyLock, run, receipts, sent, failures>>

-----------------------------------------------------------------------------
DestroySteps(r) ==
  \/ BeginDestroy(r) \/ SyncRegistry(r)
  \/ CloseDatabase(r) \/ Terminate(r) \/ DropTenantDb(r) \/ MarkDb(r)
  \/ DropTenantRole(r) \/ MarkRole(r) \/ ProveAbsence(r)

DestroyNext ==
  \/ \E r \in Runs :
       \/ \E f \in Fences : StartRun(r, f)
       \/ DestroySteps(r)
       \/ Publish(r) \/ LosePublish(r) \/ FailRun(r) \/ Refused(r)
  \/ \E x \in sent : LatePut(x)
  \/ SomeoneConnects \/ SomeoneLeaves \/ AnotherCreates

DestroySpec == DestroyInit /\ [][DestroyNext]_destroyVars

\* The platform repeats each task until it has its receipt, and a run that
\* does not fail goes on.
DestroyFairness ==
  /\ \A f \in Fences : SF_destroyVars(\E r \in Runs : StartRun(r, f))
  /\ \A r \in Runs :
       /\ WF_destroyVars(DestroySteps(r))
       /\ WF_destroyVars(Refused(r))
       /\ WF_destroyVars(Publish(r))
  /\ WF_destroyVars(SomeoneLeaves)

FairDestroySpec == DestroySpec /\ DestroyFairness

-----------------------------------------------------------------------------
(* Properties                                                              *)

Owners == {"mine", "another", NONE}

DestroyTypeOK ==
  /\ registry # NONE => registry \in RegistryRows
  /\ tenantDb \in Owners /\ tenantRole \in Owners
  /\ connectable \in BOOLEAN /\ connected \in BOOLEAN
  /\ destroyLock \in Runs \cup {NONE}
  /\ \A r \in Runs : run[r] # Waiting =>
       run[r] \in [at : {"lock", "sync", "close", "terminate", "dropDb", "markDb",
                        "dropRole", "markRole", "prove", "publish"},
                  fence : Fences, outcome : Outcomes \cup {NONE}, roleGone : BOOLEAN]
  /\ receipts \in [Fences -> Outcomes \cup {NONE}]
  /\ sent \subseteq [fence : Fences, outcome : Outcomes]
  /\ failures \in 0..MaxFailures

(* The registry never claims a deletion that did not happen, and nothing   *)
(* is deleted that it does not claim: a crash between a DROP and its       *)
(* record is found by the next run, not guessed.                           *)
RegistryTellsTruth ==
  /\ registry # NONE /\ registry.db => tenantDb # "mine"
  /\ registry # NONE /\ registry.role => tenantRole # "mine"
  /\ tenantDb # "mine" \/ tenantRole # "mine" => registry # NONE
  /\ tenantRole # "mine" => tenantDb # "mine"

(* A receipt proves the destruction under its own fence, also the receipt  *)
(* of an interrupted or repeated run and one that is written late.         *)
ReceiptsProveDestruction ==
  \A f \in Fences :
    receipts[f] # NONE =>
      /\ registry # NONE /\ registry.fence = f /\ Destroyed(registry)
      /\ tenantDb # "mine" /\ tenantRole # "mine"

(* Both: what is recorded and what is receipted did happen.                *)
RecordsProveDestruction == RegistryTellsTruth /\ ReceiptsProveDestruction

(* What another generation creates under the old names is never deleted,   *)
(* although every DROP goes by name.                                       *)
AnotherSurvives ==
  [][/\ tenantDb = "another" => tenantDb' = "another"
     /\ tenantRole = "another" => tenantRole' = "another"]_destroyVars

(* The database is dropped only by the holder of the lock, when nobody is  *)
(* connected and nobody can connect any more.                              *)
DropsAnIdleDatabase ==
  [][tenantDb = "mine" /\ tenantDb' # "mine" =>
       destroyLock # NONE /\ ~connectable /\ ~connected]_destroyVars

(* Both: a DROP hits the one database that is meant, and at a time when    *)
(* nobody uses it.                                                         *)
DropsOnlyItsIdleDatabase == AnotherSurvives /\ DropsAnIdleDatabase

(* A destroy that has begun is finished and has its receipt, wherever its  *)
(* runs stop, if nobody takes the names meanwhile.                         *)
InterruptedDestroyFinishes ==
  \A f \in Fences :
    registry # NONE /\ registry.fence = f ~>
      receipts[f] # NONE \/ ~EvidenceReadable

(* "destroy() ... keeps a generation-bound tombstone sufficient for        *)
(* idempotent replay": after the registry says destroyed, a run of the     *)
(* same task is accepted.                                                  *)
TombstoneSufficesForReplay ==
  registry # NONE /\ Destroyed(registry) => CanDestroy(registry.fence)
=============================================================================
