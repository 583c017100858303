--------------------------- MODULE TenantLifecycle --------------------------
(***************************************************************************)
(* Preparing, upgrading, opening and destroying the database of a tenant   *)
(* (services/saas/tenant_prepared_composition.js and the providers it      *)
(* composes).  Slots contend for one database name and one role name.      *)
(*                                                                         *)
(* A task is one run of the lifecycle program.  It holds the advisory lock *)
(* of its slot, and only of its slot, while it reads the journals and the  *)
(* catalog and changes them statement by statement; DDL that cannot run in *)
(* a transaction is a step of its own.  A task may stop at any step: its   *)
(* sessions end and the lock is free, but a COMMIT already sent on its     *)
(* second session, to the tenant database, may still take effect.          *)
(*                                                                         *)
(* Every slot creates at most one database and one role, so the slot that  *)
(* created a resource stands for its OID.  Passwords, hashes, ACL details  *)
(* and catalog digests are left out; a check that fails is no step.        *)
(***************************************************************************)
EXTENDS Naturals, FiniteSets

CONSTANTS
  Slots,       \* records [tenant, gen]
  Tasks,       \* runs of the lifecycle program
  Provisions,  \* fences [slot, epoch] of prepare ... verify and of compensate
  Cleanups,    \* fences [slot, epoch, pred] of destroy (pred: provision epoch)
  Outsider,    \* whoever else creates databases and roles
  Absent

ASSUME TenantAssumption ==
  /\ \A s \in Slots : s.gen \in Nat
  /\ \A p \in Provisions : p.slot \in Slots /\ p.epoch \in Nat
  /\ \A c \in Cleanups : c.slot \in Slots /\ c.epoch \in Nat /\ c.pred < c.epoch
  /\ Outsider \notin Slots
  /\ Absent \notin Slots \cup Tasks

VARIABLES
  prepare,   \* techlong_tenant_prepare_journal, per slot (Absent: no row)
  cleanup,   \* techlong_tenant_normal_cleanup_journal, per slot
  role,      \* the role of that name: by, level in its comment, login
  database,  \* the database of that name: by, owner, allow (connections)
  guards,    \* slots whose guard role tl_prepare_<nonce> exists
  sessions,  \* is some other session connected to the database?
  lock,      \* holder of the advisory lock of a slot
  task,      \* where each task is, and what it read
  late       \* commits sent by tasks that have stopped: slot, what

journals == <<prepare, cleanup>>
catalog == <<role, database, guards>>
lifecycleVars == <<journals, catalog, sessions, lock, task, late>>

Slot == INSTANCE TenantSlots WITH
  stage <- [s \in Slots |->
    IF prepare[s] = Absent THEN "free"
    ELSE IF prepare[s].phase = "compensated" THEN "released"
    ELSE IF prepare[s].phase # "prepared" THEN "reserved"
    ELSE IF cleanup[s] = Absent THEN "ready"
    ELSE IF cleanup[s].phase = "destroying" THEN "retiring" ELSE "released"],
  level <- [s \in Slots |->
    IF role # Absent /\ role.by = s THEN role.level ELSE "none"],
  open <- [s \in Slots |-> role # Absent /\ role.by = s /\ role.login]

Before == Slot!Before
Levels == Slot!Levels
Idle == [at |-> "idle"]

PrepareRows ==
  [epoch : {p.epoch : p \in Provisions}, dropped : BOOLEAN,
   phase : {"reserved", "create_submitted", "catalog_bound", "prepared",
            "compensating", "compensated"}]
CleanupRows ==
  [fence : Cleanups, phase : {"destroying", "destroyed"}, dropped : BOOLEAN]
RoleRows == [by : Slots \cup {Outsider}, level : Levels \cup {"none"}, login : BOOLEAN]
DatabaseRows ==
  [by : Slots \cup {Outsider}, allow : BOOLEAN, owner : {"guard", "management", "outsider"}]
LateCommits == [slot : Slots, what : DOMAIN Before \cup {"grant"}]

ASSUME AbsentAssumption ==
  /\ Absent \notin PrepareRows /\ Absent \notin CleanupRows
  /\ Absent \notin RoleRows /\ Absent \notin DatabaseRows

LifecycleInit ==
  /\ prepare = [s \in Slots |-> Absent]
  /\ cleanup = [s \in Slots |-> Absent]
  /\ role = Absent
  /\ database = Absent
  /\ guards = {}
  /\ sessions = FALSE
  /\ lock = [s \in Slots |-> Absent]
  /\ task = [t \in Tasks |-> Idle]
  /\ late = {}

-----------------------------------------------------------------------------
(* Locks and tasks                                                         *)

At(t, step) == task[t].at = step
MyRole(s) == role # Absent /\ role.by = s
MyDatabase(s) == database # Absent /\ database.by = s

Lock(t, s) == lock[s] = Absent /\ lock' = [lock EXCEPT ![s] = t]
Unlock(s) == lock' = [lock EXCEPT ![s] = Absent]
Goto(t, step) == task' = [task EXCEPT ![t].at = step]
Finish(t) == task' = [task EXCEPT ![t] = Idle] /\ Unlock(task[t].slot)

\* withManagement or withPair, the lock, and the first checks of a task.
Enter(t, fence, step, sawDatabase) ==
  /\ At(t, "idle")
  /\ Lock(t, fence.slot)
  /\ task' = [task EXCEPT ![t] =
       [at |-> step, slot |-> fence.slot, fence |-> fence, saw |-> sawDatabase]]

\* assertProvisionNotCleaning
NotCleaning(s) == cleanup[s] = Absent

-----------------------------------------------------------------------------
(* Preparing an empty database                                             *)

\* A compensated slot, or a prepared one whose cleanup journal says destroyed.
Released(q) ==
  \/ prepare[q].phase = "compensated"
  \/ /\ prepare[q].phase = "prepared"
     /\ cleanup[q] # Absent
     /\ cleanup[q].phase = "destroyed"

NamespaceReleased(s) ==
  \A q \in Slots :
    prepare[q] # Absent => q.tenant = s.tenant /\ q.gen < s.gen /\ Released(q)

\* assertQuarantine: ours, guarded, disconnected.
Quarantined(s) ==
  /\ MyRole(s) /\ ~role.login
  /\ s \in guards
  /\ database # Absent => database.by = s /\ database.owner = "guard"

PrepareFirst(t, p) ==
  /\ NotCleaning(p.slot)
  /\ prepare[p.slot] = Absent
  /\ NamespaceReleased(p.slot)
  /\ role = Absent /\ database = Absent
  /\ Enter(t, p, "reserve", FALSE)
  /\ UNCHANGED <<journals, catalog, sessions, late>>

ResumeStep(phase) ==
  CASE phase = "reserved" -> "submit"
    [] phase = "create_submitted" -> IF database = Absent THEN "create" ELSE "bind"
    [] phase = "catalog_bound" -> "promote"

CanResumePreparing(p) ==
  LET row == prepare[p.slot] IN
  /\ NotCleaning(p.slot)
  /\ row # Absent /\ row.epoch = p.epoch
  /\ row.phase \in {"reserved", "create_submitted", "catalog_bound"}
  /\ Quarantined(p.slot)
  /\ row.phase = "reserved" => database = Absent
  /\ row.phase = "catalog_bound" => database # Absent

PrepareResume(t, p) ==
  /\ CanResumePreparing(p)
  /\ Enter(t, p, ResumeStep(prepare[p.slot].phase), database # Absent)
  /\ UNCHANGED <<journals, catalog, sessions, late>>

\* One transaction: guard role, application role, journal row.  The unique
\* indexes of the release gate count the rows that are still preparing.
Reserve(t) ==
  LET s == task[t].slot IN
  /\ At(t, "reserve")
  /\ role = Absent
  /\ \A q \in Slots :
       prepare[q] # Absent => prepare[q].phase \in {"prepared", "compensated"}
  /\ prepare' = [prepare EXCEPT ![s] =
       [epoch |-> task[t].fence.epoch, phase |-> "reserved", dropped |-> FALSE]]
  /\ role' = [by |-> s, level |-> "empty", login |-> FALSE]
  /\ guards' = guards \cup {s}
  /\ Goto(t, "submit")
  /\ UNCHANGED <<cleanup, database, sessions, lock, late>>

SetPhase(s, phase) == prepare' = [prepare EXCEPT ![s].phase = phase]

Submit(t) ==
  /\ At(t, "submit")
  /\ Quarantined(task[t].slot) /\ database = Absent
  /\ SetPhase(task[t].slot, "create_submitted")
  /\ Goto(t, "create")
  /\ UNCHANGED <<cleanup, catalog, sessions, lock, late>>

\* CREATE DATABASE ... ALLOW_CONNECTIONS false, owned by the guard.
Create(t) ==
  /\ At(t, "create")
  /\ database = Absent
  /\ database' = [by |-> task[t].slot, owner |-> "guard", allow |-> FALSE]
  /\ Goto(t, "bind")
  /\ UNCHANGED <<journals, role, guards, sessions, lock, late>>

Bind(t) ==
  /\ At(t, "bind")
  /\ Quarantined(task[t].slot) /\ database # Absent
  /\ SetPhase(task[t].slot, "catalog_bound")
  /\ Goto(t, "promote")
  /\ UNCHANGED <<cleanup, catalog, sessions, lock, late>>

Promote(t) ==
  LET s == task[t].slot IN
  /\ At(t, "promote")
  /\ Quarantined(s) /\ database # Absent
  /\ database' = [database EXCEPT !.owner = "management", !.allow = TRUE]
  /\ guards' = guards \ {s}
  /\ SetPhase(s, "prepared")
  /\ Finish(t)
  /\ UNCHANGED <<cleanup, role, sessions, late>>

-----------------------------------------------------------------------------
(* Giving up a preparation                                                 *)

CompensateFirst(t, p) ==
  LET row == prepare[p.slot] IN
  /\ NotCleaning(p.slot)
  /\ row # Absent /\ row.epoch = p.epoch
  /\ row.phase \in {"reserved", "create_submitted", "catalog_bound"}
  /\ Quarantined(p.slot)
  /\ SetPhase(p.slot, "compensating")
  /\ Enter(t, p, "dropQuarantine", database # Absent)
  /\ UNCHANGED <<cleanup, catalog, sessions, late>>

CanResumeCompensating(p) ==
  LET row == prepare[p.slot] IN
  /\ NotCleaning(p.slot)
  /\ row # Absent /\ row.epoch = p.epoch
  /\ row.phase = "compensating"
  /\ database # Absent =>
       MyDatabase(p.slot) /\ database.owner = "guard" /\ ~row.dropped
  /\ MyRole(p.slot) /\ p.slot \in guards

CompensateResume(t, p) ==
  /\ CanResumeCompensating(p)
  /\ Enter(t, p, "dropQuarantine", database # Absent)
  /\ UNCHANGED <<journals, catalog, sessions, late>>

\* Seeded faults: whatever has the name is dropped; the guard role stays.
FaultDropsByName(t) ==
  /\ At(t, "dropQuarantine")
  /\ database' = Absent
  /\ Goto(t, "markDropped")
  /\ UNCHANGED <<journals, role, guards, sessions, lock, late>>
FaultKeepsGuard(t) ==
  /\ At(t, "dropRoles")
  /\ role' = Absent
  /\ SetPhase(task[t].slot, "compensated")
  /\ Finish(t)
  /\ UNCHANGED <<cleanup, guards, database, sessions, late>>

\* DROP DATABASE names the database; only the read under the lock says whose
\* it is, and a database that was not there then is not dropped now.
DropQuarantine(t) ==
  /\ At(t, "dropQuarantine")
  /\ database' = IF task[t].saw THEN Absent ELSE database
  /\ Goto(t, "markDropped")
  /\ UNCHANGED <<journals, role, guards, sessions, lock, late>>

MarkDropped(t) ==
  /\ At(t, "markDropped")
  /\ prepare' = [prepare EXCEPT ![task[t].slot].dropped = TRUE]
  /\ Goto(t, "dropRoles")
  /\ UNCHANGED <<cleanup, catalog, sessions, lock, late>>

DropRoles(t) ==
  /\ At(t, "dropRoles")
  /\ role' = Absent
  /\ guards' = guards \ {task[t].slot}
  /\ SetPhase(task[t].slot, "compensated")
  /\ Finish(t)
  /\ UNCHANGED <<cleanup, database, sessions, late>>

-----------------------------------------------------------------------------
(* Restore, migrate, verify: each raises the level by one                  *)

\* readProvisionReservationV2, and with ~role.login assertPrepared.
Prepared(p) ==
  LET row == prepare[p.slot] IN
  /\ NotCleaning(p.slot)
  /\ row # Absent /\ row.epoch = p.epoch /\ row.phase = "prepared"
  /\ MyRole(p.slot) /\ MyDatabase(p.slot)

NothingLate(s) == \A x \in late : x.slot # s

\* The inspection takes and frees the lock; apply takes it again.  A verified
\* database goes straight to its activation.
Inspect(t, p, l) ==
  /\ At(t, "idle")
  /\ lock[p.slot] = Absent
  /\ Prepared(p)
  /\ role.level \in {Before[l], l}
  /\ task' = [task EXCEPT ![t] =
       [at |-> IF l = "verified" /\ role.level = l THEN "activate" ELSE "apply",
        slot |-> p.slot, fence |-> p, saw |-> role.level, to |-> l]]
  /\ UNCHANGED <<journals, catalog, sessions, lock, late>>

\* After its transaction a task is done, but for verify, which activates.
AfterApply(t) ==
  task' = [task EXCEPT ![t] =
    IF task[t].to = "verified" THEN [task[t] EXCEPT !.at = "activate"] ELSE Idle]

\* The transaction opens in the tenant database, after any late one there
\* (pg_advisory_xact_lock); closed access is required.
Apply(t) ==
  LET s == task[t].slot IN
  /\ At(t, "apply")
  /\ Prepared(task[t].fence) /\ ~role.login /\ database.allow
  /\ NothingLate(s)
  /\ \/ /\ role.level = task[t].to
        /\ lock[s] = Absent
        /\ AfterApply(t)
        /\ UNCHANGED lock
     \/ /\ role.level = Before[task[t].to] /\ role.level = task[t].saw
        /\ Lock(t, s)
        /\ Goto(t, "commit")
  /\ UNCHANGED <<journals, catalog, sessions, late>>

Commit(t) ==
  /\ At(t, "commit")
  /\ role' = [role EXCEPT !.level = task[t].to]
  /\ AfterApply(t)
  /\ Unlock(task[t].slot)
  /\ UNCHANGED <<journals, database, guards, sessions, late>>

\* activate: the GRANTs and LOGIN are one transaction in the tenant database;
\* of access that is already open only the login is tried.
Activate(t) ==
  LET s == task[t].slot IN
  /\ At(t, "activate")
  /\ lock[s] = Absent
  /\ Prepared(task[t].fence)
  /\ role.level = "verified" /\ database.allow
  /\ IF role.login
     THEN task' = [task EXCEPT ![t] = Idle] /\ UNCHANGED lock
     ELSE NothingLate(s) /\ Lock(t, s) /\ Goto(t, "grant")
  /\ UNCHANGED <<journals, catalog, sessions, late>>

Grant(t) ==
  /\ At(t, "grant")
  /\ role' = [role EXCEPT !.login = TRUE]
  /\ Finish(t)
  /\ UNCHANGED <<journals, database, guards, sessions, late>>

-----------------------------------------------------------------------------
(* Destroying a prepared database                                          *)

\* Seeded fault: both resources must still be there.
FaultOwnsBoth(c) ==
  LET row == prepare[c.slot] IN
  /\ row # Absent /\ row.epoch = c.pred /\ row.phase = "prepared"
  /\ MyRole(c.slot) /\ MyDatabase(c.slot)

\* readCleanupReservation, assertOwned, assertApplicationGlobal
CleanupOwns(c) ==
  LET row == prepare[c.slot] IN
  /\ row # Absent /\ row.epoch = c.pred /\ row.phase = "prepared"
  /\ role # Absent => MyRole(c.slot)
  /\ database # Absent => MyDatabase(c.slot)

DestroyFirst(t, c) ==
  /\ CleanupOwns(c)
  /\ cleanup[c.slot] = Absent
  /\ role # Absent /\ database # Absent
  /\ database.allow
  /\ Enter(t, c, "claim", TRUE)
  /\ UNCHANGED <<journals, catalog, sessions, late>>

CanResumeCleanup(c) ==
  LET row == cleanup[c.slot] IN
  /\ CleanupOwns(c)
  /\ row # Absent /\ row.fence = c /\ row.phase = "destroying"
  /\ ~(row.dropped /\ database # Absent)

DestroyResume(t, c) ==
  /\ CanResumeCleanup(c)
  /\ Enter(t, c, IF database # Absent THEN "retire"
                 ELSE IF cleanup[c.slot].dropped THEN "dropRole" ELSE "markDatabase",
           database # Absent)
  /\ UNCHANGED <<journals, catalog, sessions, late>>

Claim(t) ==
  /\ At(t, "claim")
  /\ cleanup' = [cleanup EXCEPT ![task[t].slot] =
       [fence |-> task[t].fence, phase |-> "destroying", dropped |-> FALSE]]
  /\ Goto(t, "retire")
  /\ UNCHANGED <<prepare, catalog, sessions, lock, late>>

\* Seeded fault: the slot is released with its database.
FaultReleasesEarly(t) ==
  /\ At(t, "markDatabase")
  /\ cleanup' = [cleanup EXCEPT ![task[t].slot].dropped = TRUE,
                               ![task[t].slot].phase = "destroyed"]
  /\ Goto(t, "dropRole")
  /\ UNCHANGED <<prepare, catalog, sessions, lock, late>>

\* NOLOGIN, REVOKE and ALLOW_CONNECTIONS false in one transaction; the rows
\* it writes are locked by a late GRANT.
Retire(t) ==
  /\ At(t, "retire")
  /\ \A x \in late : x.slot = task[t].slot => x.what # "grant"
  /\ role' = [role EXCEPT !.login = FALSE]
  /\ database' = [database EXCEPT !.allow = FALSE]
  /\ Goto(t, "dropDatabase")
  /\ UNCHANGED <<journals, guards, sessions, lock, late>>

\* TENANT_APPLICATION_SESSIONS_ACTIVE unless nobody is connected.
DropDatabase(t) ==
  /\ At(t, "dropDatabase")
  /\ ~sessions /\ NothingLate(task[t].slot)
  /\ database' = Absent
  /\ Goto(t, "markDatabase")
  /\ UNCHANGED <<journals, role, guards, sessions, lock, late>>

MarkDatabase(t) ==
  /\ At(t, "markDatabase")
  /\ cleanup' = [cleanup EXCEPT ![task[t].slot].dropped = TRUE]
  /\ Goto(t, "dropRole")
  /\ UNCHANGED <<prepare, catalog, sessions, lock, late>>

\* The resources are read again: a database under the old name stops it.
DropRole(t) ==
  /\ At(t, "dropRole")
  /\ MyRole(task[t].slot) /\ ~role.login
  /\ database = Absent
  /\ role' = Absent
  /\ cleanup' = [cleanup EXCEPT ![task[t].slot].phase = "destroyed"]
  /\ Finish(t)
  /\ UNCHANGED <<prepare, database, guards, sessions, late>>

-----------------------------------------------------------------------------
(* Failures and the world outside                                          *)

\* A crash, a failed check, a lost answer or an abort.
Stop(t) ==
  /\ ~At(t, "idle")
  /\ task' = [task EXCEPT ![t] = Idle]
  /\ lock' = [s \in Slots |-> IF lock[s] = t THEN Absent ELSE lock[s]]
  /\ \/ UNCHANGED late
     \/ At(t, "commit") /\ late' = late \cup {[slot |-> task[t].slot, what |-> task[t].to]}
     \/ At(t, "grant") /\ late' = late \cup {[slot |-> task[t].slot, what |-> "grant"]}
  /\ UNCHANGED <<journals, catalog, sessions>>

LateCommit(x) ==
  /\ late' = late \ {x}
  /\ role' = IF x.what = "grant" THEN [role EXCEPT !.login = TRUE]
                                 ELSE [role EXCEPT !.level = x.what]
  /\ UNCHANGED <<journals, database, guards, sessions, lock, task>>

LateRollback(x) ==
  late' = late \ {x} /\ UNCHANGED <<journals, catalog, sessions, lock, task>>

\* The application, or a task that waits for the lock with its session open.
Connect ==
  /\ database # Absent /\ database.allow /\ ~sessions
  /\ sessions' = TRUE
  /\ UNCHANGED <<journals, catalog, lock, task, late>>

Disconnect ==
  /\ sessions /\ sessions' = FALSE
  /\ UNCHANGED <<journals, catalog, lock, task, late>>

OutsiderCreates ==
  /\ \/ /\ database = Absent /\ UNCHANGED role
        /\ database' = [by |-> Outsider, owner |-> "outsider", allow |-> FALSE]
     \/ /\ role = Absent /\ UNCHANGED database
        /\ role' = [by |-> Outsider, level |-> "none", login |-> FALSE]
  /\ UNCHANGED <<journals, guards, sessions, lock, task, late>>

OutsiderDrops ==
  /\ \/ database # Absent /\ database.by = Outsider /\ database' = Absent /\ UNCHANGED role
     \/ role # Absent /\ role.by = Outsider /\ role' = Absent /\ UNCHANGED database
  /\ UNCHANGED <<journals, guards, sessions, lock, task, late>>

-----------------------------------------------------------------------------
TaskStep(t) ==
  \/ \E p \in Provisions :
       \/ PrepareFirst(t, p) \/ PrepareResume(t, p)
       \/ CompensateFirst(t, p) \/ CompensateResume(t, p)
       \/ \E l \in DOMAIN Before : Inspect(t, p, l)
  \/ Reserve(t) \/ Submit(t) \/ Create(t) \/ Bind(t) \/ Promote(t)
  \/ DropQuarantine(t) \/ MarkDropped(t) \/ DropRoles(t)
  \/ Apply(t) \/ Commit(t) \/ Activate(t) \/ Grant(t)
  \/ \E c \in Cleanups : DestroyFirst(t, c) \/ DestroyResume(t, c)
  \/ Claim(t) \/ Retire(t) \/ DropDatabase(t) \/ MarkDatabase(t) \/ DropRole(t)
  \/ Stop(t)

Environment ==
  \/ \E x \in late : LateCommit(x) \/ LateRollback(x)
  \/ Connect \/ Disconnect \/ OutsiderCreates \/ OutsiderDrops

LifecycleNext == (\E t \in Tasks : TaskStep(t)) \/ Environment

LifecycleSpec == LifecycleInit /\ [][LifecycleNext]_lifecycleVars

-----------------------------------------------------------------------------
(* Properties                                                              *)

TaskSteps ==
  {"idle", "reserve", "submit", "create", "bind", "promote", "dropQuarantine",
   "markDropped", "dropRoles", "apply", "commit", "activate", "grant", "claim",
   "retire", "dropDatabase", "markDatabase", "dropRole"}

LifecycleTypeOK ==
  /\ prepare \in [Slots -> PrepareRows \cup {Absent}]
  /\ cleanup \in [Slots -> CleanupRows \cup {Absent}]
  /\ role \in RoleRows \cup {Absent}
  /\ database \in DatabaseRows \cup {Absent}
  /\ guards \subseteq Slots
  /\ sessions \in BOOLEAN
  /\ lock \in [Slots -> Tasks \cup {Absent}]
  /\ \A t \in Tasks : task[t].at \in TaskSteps
  /\ late \subseteq LateCommits

(* The journals, the catalog and the tasks together behave like the slots  *)
(* of TenantSlots, whichever task stops where: names have one holder, the  *)
(* level of a database rises one by one, and the application is let in     *)
(* last and put out first.                                                 *)
SlotsSpec == Slot!SlotsSpec

(* "Foreign" resources are neither taken over nor deleted, although DROP   *)
(* and CREATE go by name: a task changes a database or a role only if its  *)
(* own slot made it (assertQuarantine, assertOwned).                       *)
OthersResourcesSurvive ==
  [][\A t \in Tasks : ~At(t, "idle") /\ task'[t] # task[t] =>
       /\ database # Absent /\ ~MyDatabase(task[t].slot) => database' = database
       /\ role # Absent /\ ~MyRole(task[t].slot) => role' = role]_lifecycleVars

(* The permanent records tell the truth: once a journal says that a        *)
(* database or a slot is gone, no resource with one of its OIDs exists.    *)
TombstonesTellTruth ==
  \A s \in Slots :
    LET gone == prepare[s] # Absent /\ Released(s) IN
    /\ gone => ~MyRole(s) /\ ~MyDatabase(s) /\ s \notin guards
    /\ prepare[s] # Absent /\ prepare[s].dropped => ~MyDatabase(s)
    /\ cleanup[s] # Absent /\ cleanup[s].dropped => ~MyDatabase(s)

(* LOGIN without a connectable database of the same slot never shows, not  *)
(* even through a COMMIT that arrives after its task has stopped: "an      *)
(* exact atomic policy state".                                             *)
LoginOnlyToItsDatabase ==
  role # Absent /\ role.login =>
    /\ MyDatabase(role.by) /\ database.owner = "management" /\ database.allow
    /\ role.by \notin guards

(* A claim that was interrupted can be resumed, wherever it stopped:       *)
(* unless an outsider took a name meanwhile, every check of the run that   *)
(* resumes it accepts what is there.                                       *)
NoOutsider ==
  /\ role # Absent => role.by # Outsider
  /\ database # Absent => database.by # Outsider
CleanupCanResume ==
  \A c \in Cleanups :
    /\ cleanup[c.slot] # Absent /\ cleanup[c.slot].fence = c
    /\ cleanup[c.slot].phase = "destroying"
    /\ NoOutsider
    => CanResumeCleanup(c)

(* So can a preparation that was interrupted: finished by its own fence,   *)
(* or given up.                                                            *)
PrepareCanResume ==
  \A p \in Provisions :
    /\ prepare[p.slot] # Absent /\ prepare[p.slot].epoch = p.epoch
    /\ prepare[p.slot].phase \notin {"prepared", "compensated"}
    /\ NoOutsider
    => CanResumePreparing(p) \/ CanResumeCompensating(p)

(* All four: wherever tasks stop, the journals and the catalog agree on    *)
(* what exists, and what was interrupted can be finished.                  *)
JournalsTellTruth ==
  TombstonesTellTruth /\ LoginOnlyToItsDatabase /\ CleanupCanResume /\ PrepareCanResume
=============================================================================
