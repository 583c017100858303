---------------------------- MODULE TenantProofs ----------------------------
(***************************************************************************)
(* The destruction of a tenant database, the lifecycle of prepared ones,   *)
(* and the promises of a slot, for any number of runs, tasks, slots,       *)
(* fences and failures.  RunInv says what the registry and the two names   *)
(* look like at each step of a destruction: only the holder of the         *)
(* advisory lock changes them, but names that it has freed can be taken by *)
(* somebody else at once.  LifecycleInv says, for every slot, that the     *)
(* journals and the catalog agree, and for every task what its slot looks  *)
(* like at each step; the lifecycle implements TenantSlots.  The theorems  *)
(* at the end are about all that MCPlatform composes.                      *)
(***************************************************************************)
EXTENDS MCPlatform, SaasControlProofs

HoldingSteps ==
  {"sync", "close", "terminate", "dropDb", "markDb", "dropRole", "markRole", "prove"}

RunRecords ==
  [at : HoldingSteps \cup {"lock", "publish"}, fence : Fences,
   outcome : Outcomes \cup {NONE}, roleGone : BOOLEAN]

\* Types, with those of the runs as one set.
DestroyTypes ==
  /\ registry \in RegistryRows \cup {NONE}
  /\ tenantDb \in Owners /\ tenantRole \in Owners
  /\ connectable \in BOOLEAN /\ connected \in BOOLEAN
  /\ destroyLock \in Runs \cup {NONE}
  /\ run \in [Runs -> RunRecords \cup {Waiting}]
  /\ receipts \in [Fences -> Outcomes \cup {NONE}]
  /\ sent \subseteq [fence : Fences, outcome : Outcomes]
  /\ failures \in 0 .. MaxFailures

\* The registry has the row of fence f and says that both are gone.
Gone(f) == registry # NONE /\ registry.fence = f /\ Destroyed(registry)

RunInv(r) ==
  /\ run[r].at \in HoldingSteps <=> destroyLock = r
  /\ run[r].at \in HoldingSteps =>
       registry # NONE /\ registry.fence = run[r].fence
  /\ run[r].at = "sync" =>
       /\ tenantDb # "mine"
       /\ run[r].roleGone <=> tenantRole # "mine"
       /\ registry.role => run[r].roleGone
  /\ run[r].at \in {"close", "terminate", "dropDb"} => tenantDb = "mine"
  /\ run[r].at \in {"terminate", "dropDb"} => ~connectable
  /\ run[r].at \in {"close", "terminate", "dropDb", "markDb", "dropRole"} =>
       tenantRole = "mine"
  /\ run[r].at \in {"markDb", "dropRole", "markRole"} => tenantDb # "mine"
  /\ run[r].at = "markRole" => tenantRole # "mine"
  /\ run[r].at = "prove" => Gone(run[r].fence)
  /\ run[r].at = "publish" => run[r].outcome \in Outcomes /\ Gone(run[r].fence)

ReceiptInv ==
  /\ \A x \in sent : Gone(x.fence)
  /\ \A f \in Fences : receipts[f] # NONE => Gone(f)

RegistryInv ==
  /\ RegistryTellsTruth
  /\ registry # NONE /\ registry.role => registry.db

DestroyInv ==
  /\ DestroyTypes
  /\ \A r \in Runs : RunInv(r)
  /\ RegistryInv
  /\ ReceiptInv

\* DestroyInv holds of the initial states.
LEMMA DestroyStart == DestroyInit => DestroyInv
<1> SUFFICES ASSUME DestroyInit PROVE DestroyInv
  OBVIOUS
<1> USE DestroyAssumption DEF DestroyInit
<1>1. DestroyTypes
  BY DEF DestroyTypes, Owners
<1>2. ASSUME NEW r \in Runs PROVE RunInv(r)
  BY DEF RunInv, Waiting, HoldingSteps
<1>3. RegistryInv /\ ReceiptInv
  BY DEF RegistryInv, RegistryTellsTruth, ReceiptInv
<1> QED BY <1>1, <1>2, <1>3 DEF DestroyInv

-----------------------------------------------------------------------------
(* What the steps share                                                    *)

\* Waiting is none of the records of a run at work.
LEMMA WaitingIsNoRun == Waiting \notin RunRecords /\ Waiting.at = "waiting"
BY DEF Waiting, RunRecords, HoldingSteps

\* A run that is not waiting has a record.
LEMMA RunRecord ==
  ASSUME DestroyTypes, NEW r \in Runs, run[r].at # "waiting"
  PROVE  run[r] \in RunRecords
BY WaitingIsNoRun DEF DestroyTypes

\* Where one run has gone, the others stay.
LEMMA OthersStay ==
  ASSUME DestroyInv, NEW r \in Runs, NEW q \in Runs \ {r},
         run'[q] = run[q],
         destroyLock' \in {destroyLock, NONE, r},
         destroyLock # destroyLock' => destroyLock \in {r, NONE},
         \/ UNCHANGED <<registry, tenantDb, tenantRole, connectable>>
         \/ destroyLock \in {r, NONE} /\ (Gone(run[q].fence) => Gone(run[q].fence)')
  PROVE  RunInv(q)'
<1> USE DestroyAssumption DEF DestroyInv, RunInv, DestroyTypes
<1>1. run'[q].at \in HoldingSteps <=> destroyLock' = q
  OBVIOUS
<1>2. CASE UNCHANGED <<registry, tenantDb, tenantRole, connectable>>
  BY <1>1, <1>2 DEF Gone
<1>3. CASE destroyLock \in {r, NONE} /\ (Gone(run[q].fence) => Gone(run[q].fence)')
  <2>1. run[q].at \notin HoldingSteps
    BY <1>3
  <2> QED BY <1>1, <1>3, <2>1 DEF HoldingSteps
<1> QED BY <1>2, <1>3

\* A run's next state: its record with another step, or with its outcome.
LEMMA MovedRun ==
  ASSUME DestroyTypes, NEW r \in Runs, run[r] \in RunRecords,
         NEW step \in HoldingSteps, Moves(r, step)
  PROVE  /\ run' \in [Runs -> RunRecords \cup {Waiting}]
         /\ run'[r] = [run[r] EXCEPT !.at = step]
<1>1. [run[r] EXCEPT !.at = step] \in RunRecords
  BY DEF RunRecords
<1>2. run' = [run EXCEPT ![r] = [run[r] EXCEPT !.at = step]]
  BY DEF Moves
<1> QED BY <1>1, <1>2 DEF DestroyTypes

\* A run that has found its outcome goes on to publish it.
LEMMA AnsweredRun ==
  ASSUME DestroyTypes, NEW r \in Runs, run[r] \in RunRecords,
         NEW outcome \in Outcomes, Answers(r, outcome)
  PROVE  /\ run' \in [Runs -> RunRecords \cup {Waiting}]
         /\ run'[r] = [run[r] EXCEPT !.at = "publish", !.outcome = outcome]
         /\ destroyLock' = NONE
<1>1. [run[r] EXCEPT !.at = "publish", !.outcome = outcome] \in RunRecords
  BY DEF RunRecords
<1>2. run' = [run EXCEPT ![r] = [run[r] EXCEPT !.at = "publish", !.outcome = outcome]]
  BY DEF Answers
<1> QED BY <1>1, <1>2 DEF DestroyTypes, Answers

-----------------------------------------------------------------------------
(* The steps of a run                                                      *)

\* StartRun, and every way in which a run ends without an answer.
LEMMA RunsComeAndGo ==
  ASSUME DestroyInv, NEW r \in Runs,
         (\E f \in Fences : StartRun(r, f)) \/ FailRun(r) \/ Refused(r)
  PROVE  DestroyInv'
<1> USE DestroyAssumption DEF DestroyInv, DestroyTypes, tenantVars
<1>1. ASSUME NEW f \in Fences, StartRun(r, f) PROVE DestroyInv'
  <2>1. /\ run' \in [Runs -> RunRecords \cup {Waiting}] /\ run'[r].at = "lock"
        /\ UNCHANGED <<registry, tenantDb, tenantRole, connectable, connected,
                      destroyLock, receipts, sent, failures>>
        /\ \A q \in Runs \ {r} : run'[q] = run[q]
    BY <1>1 DEF StartRun, RunRecords
  <2>2. destroyLock # r
    BY <1>1 DEF StartRun, RunAt, RunInv, HoldingSteps
  <2>3. RunInv(r)'
    BY <2>1, <2>2 DEF RunInv, HoldingSteps
  <2>4. \A q \in Runs \ {r} : RunInv(q)'
    BY <2>1, OthersStay
  <2> QED BY <2>1, <2>3, <2>4 DEF RegistryInv, RegistryTellsTruth, ReceiptInv, Gone
<1>2. ASSUME FailRun(r) \/ Refused(r) PROVE DestroyInv'
  <2>1. /\ run' = [run EXCEPT ![r] = Waiting]
        /\ destroyLock' = IF destroyLock = r THEN NONE ELSE destroyLock
        /\ UNCHANGED <<registry, tenantDb, tenantRole, connectable, connected,
                      receipts, sent>>
        /\ failures' \in 0 .. MaxFailures
    BY <1>2 DEF FailRun, Refused
  <2>2. run' \in [Runs -> RunRecords \cup {Waiting}] /\ run'[r].at = "waiting"
    BY <2>1, WaitingIsNoRun
  <2>3. RunInv(r)'
    BY <2>1, <2>2 DEF RunInv, HoldingSteps
  <2>4. \A q \in Runs \ {r} : RunInv(q)'
    BY <2>1, OthersStay
  <2> QED BY <2>1, <2>2, <2>3, <2>4 DEF RegistryInv, RegistryTellsTruth, ReceiptInv,
             Gone
<1> QED BY <1>1, <1>2

\* The first transaction of a run, and what it leaves to do.
LEMMA BeginHolds ==
  ASSUME DestroyInv, NEW r \in Runs, BeginDestroy(r)
  PROVE  DestroyInv'
<1> USE DestroyAssumption DEF DestroyInv
<1>1. run[r] \in RunRecords /\ run[r].at = "lock" /\ destroyLock = NONE
  BY RunRecord DEF BeginDestroy, NewRow, RunAt
<1>2. run[r].fence \in Fences
  BY <1>1 DEF RunRecords
<1>3. /\ registry' \in RegistryRows /\ registry'.fence = run[r].fence
      /\ registry # NONE => registry' = registry
      /\ registry = NONE => ~registry'.db /\ ~registry'.role
      /\ UNCHANGED <<tenantDb, tenantRole, connectable, connected, receipts, sent, failures>>
  BY <1>2 DEF BeginDestroy, NewRow, CanDestroy, RegistryAccepts, RegistryRows,
     DestroyTypes,
     tenantVars
<1>4. registry' # NONE /\ \A f \in Fences : Gone(f) => Gone(f)'
  BY <1>3 DEF Gone
<1>5. RegistryInv' /\ ReceiptInv'
  BY <1>3, <1>4
  DEF RegistryInv, RegistryTellsTruth, ReceiptInv, DestroyTypes, RegistryRows
<1>6. /\ tenantDb \in {"mine", NONE} /\ tenantRole \in {"mine", NONE}
      /\ tenantRole = NONE => tenantDb = NONE
      /\ registry = NONE => tenantDb = "mine" /\ tenantRole = "mine"
  BY DEF BeginDestroy, NewRow, CanDestroy, EvidenceReadable, RegistryAccepts,
     DestroyTypes, Owners
<1>7. ASSUME NEW q \in Runs \ {r}, run'[q] = run[q], destroyLock' \in {NONE, r}
      PROVE  RunInv(q)'
  <2>1. Gone(run[q].fence) => Gone(run[q].fence)'
    BY <1>3, <1>4, <1>7 DEF Gone
  <2> QED BY <1>1, <1>7, <2>1, OthersStay
<1>8. CASE Destroyed(registry')
  <2>1. Answers(r, "already_missing")
    BY <1>8 DEF BeginDestroy, NewRow
  <2>2. /\ run' \in [Runs -> RunRecords \cup {Waiting}]
        /\ run'[r] = [run[r] EXCEPT !.at = "publish", !.outcome = "already_missing"]
        /\ destroyLock' = NONE
    BY <1>1, <2>1, AnsweredRun DEF Outcomes
  <2>3. RunInv(r)'
    BY <1>1, <1>3, <1>4, <1>8, <2>2 DEF RunInv, HoldingSteps, Gone, Outcomes,
       RunRecords
  <2>4. \A q \in Runs \ {r} : run'[q] = run[q]
    BY <2>1 DEF Answers, DestroyTypes
  <2>5. DestroyTypes'
    BY <1>3, <2>2 DEF DestroyTypes
  <2> QED BY <1>5, <1>7, <2>2, <2>3, <2>4, <2>5
<1>9. CASE ~Destroyed(registry')
  <2> DEFINE dbGone == registry'.db \/ tenantDb = NONE
             roleGone == registry'.role \/ tenantRole = NONE
             step == IF dbGone # registry'.db \/ roleGone # registry'.role THEN "sync"
                     ELSE IF ~dbGone THEN "close" ELSE "dropRole"
  <2>1. /\ destroyLock' = r
        /\ run' = [run EXCEPT ![r].roleGone = roleGone, ![r].at = step]
    BY <1>9 DEF BeginDestroy, NewRow
  <2>2. step \in {"sync", "close", "dropRole"} /\ roleGone \in BOOLEAN
    BY <1>3 DEF RegistryRows
  <2> DEFINE rec == [run[r] EXCEPT !.roleGone = roleGone, !.at = step]
  <2>3. rec \in RunRecords /\ rec.at = step /\ rec.roleGone = roleGone
        /\ rec.fence = run[r].fence
    BY <1>1, <2>2 DEF RunRecords, HoldingSteps
  <2>4. run' = [run EXCEPT ![r] = rec]
    BY <2>1
  <2>5. run'[r] = rec /\ \A q \in Runs \ {r} : run'[q] = run[q]
    BY <2>4 DEF DestroyTypes
  <2>6. DestroyTypes'
    BY <1>3, <2>1, <2>3, <2>4 DEF DestroyTypes
  <2>7. roleGone <=> tenantRole # "mine"
    BY <1>3, <1>5, <1>6 DEF RegistryInv, RegistryTellsTruth, DestroyTypes
  <2>8. dbGone <=> tenantDb # "mine"
    BY <1>3, <1>5, <1>6 DEF RegistryInv, RegistryTellsTruth, DestroyTypes
  <2>9. step = "sync" => tenantDb # "mine" /\ (registry'.role => roleGone)
    BY <1>3, <1>5, <1>6, <2>7, <2>8 DEF RegistryInv, RegistryTellsTruth, RegistryRows
  <2>10. step = "close" => tenantDb = "mine" /\ tenantRole = "mine"
    BY <1>6, <2>8
  <2>11. step = "dropRole" => tenantDb # "mine" /\ tenantRole = "mine"
    BY <1>9, <2>7, <2>8 DEF Destroyed
  <2> HIDE DEF dbGone, roleGone, step, rec
  <2>12. RunInv(r)'
    BY <1>3, <1>4, <2>1, <2>2, <2>3, <2>5, <2>7, <2>9, <2>10, <2>11
    DEF RunInv, HoldingSteps
  <2> QED BY <1>5, <1>7, <2>1, <2>5, <2>6, <2>12
<1> QED BY <1>8, <1>9

\* The steps of the holder of the lock that go on with another one.
LEMMA HolderHolds ==
  ASSUME DestroyInv, NEW r \in Runs,
         \/ CloseDatabase(r) \/ Terminate(r) \/ DropTenantDb(r) \/ MarkDb(r)
         \/ DropTenantRole(r) \/ MarkRole(r)
         \/ SyncRegistry(r) /\ ~Destroyed([registry EXCEPT !.db = TRUE, !.role = run[r].roleGone])
  PROVE  DestroyInv'
<1> USE DestroyAssumption DEF DestroyInv
<1>1. run[r] \in RunRecords /\ run[r].at \in HoldingSteps
  <2>1. run[r].at \in HoldingSteps
    BY DEF CloseDatabase, Terminate, DropTenantDb, Recorded, MarkDb, DropTenantRole,
       MarkRole,
       SyncRegistry, RunAt, HoldingSteps
  <2> QED BY <2>1, RunRecord DEF HoldingSteps
<1>2. destroyLock = r /\ registry \in RegistryRows /\ registry.fence = run[r].fence
  BY <1>1 DEF RunInv, DestroyTypes
<1>3. PICK step \in HoldingSteps :
        /\ Moves(r, step)
        /\ step = CASE run[r].at = "close" -> "terminate"
                    [] run[r].at = "terminate" -> "dropDb"
                    [] run[r].at = "dropDb" -> "markDb"
                    [] run[r].at = "markDb" -> "dropRole"
                    [] run[r].at = "dropRole" -> "markRole"
                    [] run[r].at = "markRole" -> "prove"
                    [] run[r].at = "sync" -> "dropRole"
  BY DEF CloseDatabase, Terminate, DropTenantDb, Recorded, MarkDb, DropTenantRole,
     MarkRole,
     SyncRegistry, RunAt, HoldingSteps
<1>4. /\ run' \in [Runs -> RunRecords \cup {Waiting}]
      /\ run'[r] = [run[r] EXCEPT !.at = step]
  BY <1>1, <1>3, MovedRun
<1>5. run'[r].at = step /\ run'[r].fence = run[r].fence /\ run'[r].roleGone = run[r].roleGone
  BY <1>1, <1>4 DEF RunRecords
<1>6. \A q \in Runs \ {r} : run'[q] = run[q]
  BY <1>3 DEF Moves, DestroyTypes
<1>7. destroyLock' = r /\ UNCHANGED <<receipts, sent, failures>>
  BY <1>2 DEF CloseDatabase, Terminate, DropTenantDb, Recorded, MarkDb,
     DropTenantRole, MarkRole,
     SyncRegistry, tenantVars
<1>8. /\ registry' \in RegistryRows /\ registry'.fence = registry.fence
      /\ registry.db => registry'.db
      /\ registry.role => registry'.role
  <2>1. run[r].roleGone \in BOOLEAN
    BY <1>1 DEF RunRecords
  <2>2. CASE SyncRegistry(r)
    BY <1>2, <2>1, <2>2 DEF SyncRegistry, Recorded, RegistryRows, RunInv, RunAt
  <2>3. CASE MarkDb(r) \/ MarkRole(r)
    BY <1>2, <2>3 DEF MarkDb, Recorded, MarkRole, RegistryRows
  <2>4. CASE CloseDatabase(r) \/ Terminate(r) \/ DropTenantDb(r) \/ DropTenantRole(r)
    BY <1>2, <2>4 DEF CloseDatabase, Terminate, DropTenantDb, DropTenantRole
  <2> QED BY <2>2, <2>3, <2>4
<1>9. \A f \in Fences : Gone(f) => Gone(f)'
  BY <1>8 DEF Gone, Destroyed, DestroyTypes, RegistryRows
<1>10. \A q \in Runs \ {r} : Gone(run[q].fence) => Gone(run[q].fence)'
  BY <1>6, <1>8 DEF Gone, Destroyed, DestroyTypes, RegistryRows
<1>11. \A q \in Runs \ {r} : RunInv(q)'
  BY <1>2, <1>6, <1>7, <1>10, OthersStay
<1>12. ReceiptInv'
  BY <1>7, <1>9 DEF ReceiptInv, DestroyTypes
<1>13. /\ tenantDb' \in Owners /\ tenantRole' \in Owners
       /\ connectable' \in BOOLEAN /\ connected' \in BOOLEAN
  BY DEF CloseDatabase, Terminate, DropTenantDb, Recorded, MarkDb, DropTenantRole,
     MarkRole,
     SyncRegistry, tenantVars, DestroyTypes, Owners
<1>14. DestroyTypes'
  BY <1>4, <1>7, <1>8, <1>13 DEF DestroyTypes
<1>15. RegistryInv' /\ RunInv(r)'
  <2> USE <1>2, <1>3, <1>5, <1>7, <1>8
      DEF RunAt, RunInv, HoldingSteps, RegistryInv, RegistryTellsTruth, RegistryRows
  <2>1. CASE CloseDatabase(r)
    BY <2>1 DEF CloseDatabase
  <2>2. CASE Terminate(r)
    BY <2>2 DEF Terminate
  <2>3. CASE DropTenantDb(r)
    BY <2>3 DEF DropTenantDb
  <2>4. CASE MarkDb(r)
    BY <2>4 DEF MarkDb, Recorded, tenantVars
  <2>5. CASE DropTenantRole(r)
    BY <2>5 DEF DropTenantRole
  <2>6. CASE MarkRole(r)
    <3>1. registry'.db /\ registry'.role
      BY <2>6 DEF MarkRole, Recorded
    <3> QED BY <2>6, <3>1 DEF MarkRole, Recorded, tenantVars, Gone, Destroyed
  <2>7. CASE SyncRegistry(r)
    <3>1. registry'.db /\ registry'.role = run[r].roleGone
      BY <2>7 DEF SyncRegistry, Recorded
    <3>2. run[r].roleGone \in BOOLEAN
      BY <1>1 DEF RunRecords
    <3>3. ~run[r].roleGone
      <4>1. ~Destroyed(registry')
        BY <2>7 DEF SyncRegistry, Recorded, CloseDatabase, Terminate, DropTenantDb,
           MarkDb,
           DropTenantRole, MarkRole
      <4> QED BY <3>1, <4>1 DEF Destroyed
    <3> QED BY <2>7, <3>1, <3>3 DEF SyncRegistry, Recorded, tenantVars
  <2> QED BY <2>1, <2>2, <2>3, <2>4, <2>5, <2>6, <2>7
<1> QED BY <1>11, <1>12, <1>14, <1>15

\* A run that has its outcome frees the lock.
LEMMA AnswersHold ==
  ASSUME DestroyInv, NEW r \in Runs,
         \/ ProveAbsence(r)
         \/ SyncRegistry(r) /\ Destroyed([registry EXCEPT !.db = TRUE, !.role = run[r].roleGone])
  PROVE  DestroyInv'
<1> USE DestroyAssumption DEF DestroyInv
<1>1. run[r] \in RunRecords /\ run[r].at \in {"prove", "sync"} /\ run[r].fence \in Fences
  <2>1. run[r].at \in {"prove", "sync"}
    BY DEF ProveAbsence, SyncRegistry, Recorded, RunAt
  <2> QED BY <2>1, RunRecord DEF RunRecords
<1>2. destroyLock = r /\ registry \in RegistryRows /\ registry.fence = run[r].fence
  BY <1>1 DEF RunInv, DestroyTypes, HoldingSteps
<1>3. PICK outcome \in Outcomes : Answers(r, outcome)
  BY DEF ProveAbsence, SyncRegistry, Recorded, Outcomes
<1>4. /\ run' \in [Runs -> RunRecords \cup {Waiting}]
      /\ run'[r] = [run[r] EXCEPT !.at = "publish", !.outcome = outcome]
      /\ destroyLock' = NONE
  BY <1>1, <1>3, AnsweredRun
<1>5. run'[r].at = "publish" /\ run'[r].fence = run[r].fence /\ run'[r].outcome = outcome
  BY <1>1, <1>4 DEF RunRecords
<1>6. \A q \in Runs \ {r} : run'[q] = run[q]
  BY <1>3 DEF Answers, DestroyTypes
<1>7. /\ UNCHANGED <<tenantDb, tenantRole, connectable, connected, receipts, sent, failures>>
      /\ registry' \in RegistryRows /\ registry'.fence = registry.fence
      /\ Destroyed(registry')
  <2>1. CASE ProveAbsence(r)
    BY <1>2, <2>1 DEF ProveAbsence, tenantVars, RunInv, RunAt, Gone
  <2>2. CASE SyncRegistry(r)
    <3>1. ~ProveAbsence(r)
      BY <2>2 DEF ProveAbsence, SyncRegistry, Recorded, RunAt
    <3>2. run[r].roleGone \in BOOLEAN
      BY <1>1 DEF RunRecords
    <3> QED BY <1>2, <2>2, <3>1, <3>2 DEF SyncRegistry, Recorded, tenantVars,
               RegistryRows
  <2> QED BY <2>1, <2>2
<1>8. \A f \in Fences : Gone(f) => Gone(f)'
  BY <1>2, <1>7 DEF Gone
<1>9. \A q \in Runs \ {r} : Gone(run[q].fence) => Gone(run[q].fence)'
  BY <1>2, <1>6, <1>7 DEF Gone
<1>10. \A q \in Runs \ {r} : RunInv(q)'
  BY <1>2, <1>4, <1>6, <1>9, OthersStay
<1>11. Gone(run[r].fence)'
  BY <1>2, <1>5, <1>7 DEF Gone
<1>12. RunInv(r)'
  BY <1>4, <1>5, <1>11 DEF RunInv, HoldingSteps
<1>13. RegistryInv'
  <2>1. tenantDb # "mine" /\ tenantRole # "mine"
    <3>1. CASE ProveAbsence(r)
      BY <3>1 DEF ProveAbsence
    <3>2. CASE SyncRegistry(r) /\ ~ProveAbsence(r)
      BY <1>2, <3>2 DEF SyncRegistry, Recorded, RunInv, RunAt, Destroyed, RegistryRows
    <3> QED BY <3>1, <3>2
  <2> QED BY <1>7, <2>1 DEF RegistryInv, RegistryTellsTruth, Destroyed
<1> QED
  BY <1>4, <1>7, <1>8, <1>10, <1>12, <1>13 DEF DestroyTypes, ReceiptInv

-----------------------------------------------------------------------------
(* Receipts, and the world outside                                         *)

\* What is written as a receipt, at once or late, was proved before.
LEMMA ReceiptsHold ==
  ASSUME DestroyInv,
         (\E r \in Runs : Publish(r) \/ LosePublish(r)) \/ \E x \in sent : LatePut(x)
  PROVE  DestroyInv'
<1> USE DestroyAssumption DEF DestroyInv
<1>1. ASSUME NEW r \in Runs, Publish(r) \/ LosePublish(r) PROVE DestroyInv'
  <2>1. run[r] \in RunRecords /\ run[r].at = "publish"
    BY <1>1, RunRecord DEF Publish, LosePublish, WithReceipt, RunAt
  <2>2. run[r].fence \in Fences /\ run[r].outcome \in Outcomes /\ Gone(run[r].fence)
        /\ destroyLock # r
    BY <2>1 DEF RunInv, RunRecords, HoldingSteps
  <2>3. /\ run' = [run EXCEPT ![r] = Waiting]
        /\ UNCHANGED <<registry, tenantDb, tenantRole, connectable, connected, destroyLock>>
    BY <1>1 DEF Publish, LosePublish, WithReceipt, tenantVars
  <2>4. /\ run' \in [Runs -> RunRecords \cup {Waiting}] /\ run'[r].at = "waiting"
        /\ \A q \in Runs \ {r} : run'[q] = run[q]
    BY <2>3, WaitingIsNoRun DEF DestroyTypes
  <2>5. \A q \in Runs \ {r} : RunInv(q)'
    BY <2>3, <2>4, OthersStay
  <2>6. RunInv(r)'
    BY <2>2, <2>3, <2>4 DEF RunInv, HoldingSteps
  <2>7. /\ receipts' \in [Fences -> Outcomes \cup {NONE}]
        /\ sent' \subseteq [fence : Fences, outcome : Outcomes]
        /\ failures' \in 0 .. MaxFailures
    BY <1>1, <2>2 DEF Publish, LosePublish, WithReceipt, DestroyTypes
  <2>8. ReceiptInv'
    BY <1>1, <2>2, <2>3 DEF Publish, LosePublish, WithReceipt, ReceiptInv, Gone,
       DestroyTypes
  <2> QED
    BY <2>3, <2>4, <2>5, <2>6, <2>7, <2>8
    DEF DestroyTypes, RegistryInv, RegistryTellsTruth
<1>2. ASSUME NEW x \in sent, LatePut(x) PROVE DestroyInv'
  <2>1. x.fence \in Fences /\ x.outcome \in Outcomes /\ Gone(x.fence)
    BY DEF DestroyTypes, ReceiptInv
  <2>2. UNCHANGED <<registry, tenantDb, tenantRole, connectable, connected, destroyLock,
                    run, failures>>
    BY <1>2 DEF LatePut, WithReceipt, tenantVars
  <2>3. DestroyTypes' /\ ReceiptInv'
    BY <1>2, <2>1, <2>2 DEF LatePut, WithReceipt, DestroyTypes, ReceiptInv, Gone
  <2> QED BY <2>2, <2>3 DEF RunInv, RegistryInv, RegistryTellsTruth, Gone
<1> QED BY <1>1, <1>2

\* What others do to databases and their connections keeps DestroyInv.
LEMMA WorldHolds ==
  ASSUME DestroyInv, SomeoneConnects \/ SomeoneLeaves \/ AnotherCreates
  PROVE  DestroyInv'
<1> USE DestroyAssumption DEF DestroyInv
<1>1. /\ UNCHANGED <<registry, connectable, destroyLock, run, receipts, sent, failures>>
      /\ tenantDb' \in Owners /\ (tenantDb = "mine" <=> tenantDb' = "mine")
      /\ tenantRole' \in Owners /\ (tenantRole = "mine" <=> tenantRole' = "mine")
      /\ connected' \in BOOLEAN
  BY DEF SomeoneConnects, SomeoneLeaves, AnotherCreates, DestroyTypes, Owners
<1> QED
  BY <1>1 DEF DestroyTypes, RunInv, RegistryInv, RegistryTellsTruth, ReceiptInv, Gone

-----------------------------------------------------------------------------
\* Every step keeps DestroyInv.
LEMMA DestroyStep ==
  ASSUME DestroyInv, [DestroyNext]_destroyVars
  PROVE  DestroyInv'
<1>1. ASSUME NEW r \in Runs, DestroySteps(r) PROVE DestroyInv'
  BY <1>1, BeginHolds, HolderHolds, AnswersHold DEF DestroySteps
<1>2. CASE UNCHANGED destroyVars
  BY <1>2 DEF destroyVars, tenantVars, DestroyInv, DestroyTypes, RunInv, RegistryInv,
     RegistryTellsTruth, ReceiptInv, Gone
<1> QED BY <1>1, <1>2, RunsComeAndGo, ReceiptsHold, WorldHolds DEF DestroyNext

\* DestroyInv is an invariant of the tenant's removal.
THEOREM DestroyKeepsInv == DestroySpec => []DestroyInv
BY DestroyStart, DestroyStep, PTL DEF DestroySpec

\* Types: registry, names, runs and receipts.
THEOREM DestroyTypesHold == DestroySpec => []DestroyTypeOK
<1>1. DestroyInv => DestroyTypeOK
  BY DEF DestroyInv, DestroyTypes, DestroyTypeOK, RunRecords, HoldingSteps
<1> QED BY <1>1, DestroyKeepsInv, PTL

\* The registry and the receipts never claim a deletion that did not happen,
\* wherever runs of the destroy port stop.
THEOREM RecordsProved == DestroySpec => []RecordsProveDestruction
<1>1. DestroyInv => RecordsProveDestruction
  BY DEF DestroyInv, DestroyTypes, RegistryInv, RegistryTellsTruth, ReceiptInv, Gone,
     RecordsProveDestruction, ReceiptsProveDestruction, Destroyed
<1> QED BY <1>1, DestroyKeepsInv, PTL

\* A name is freed by the holder of the lock only, while it is still its own.
LEMMA DropsAreOwn ==
  ASSUME DestroyInv, [DestroyNext]_destroyVars
  PROVE  /\ tenantDb = "another" => tenantDb' = "another"
         /\ tenantRole = "another" => tenantRole' = "another"
         /\ tenantDb = "mine" /\ tenantDb' # "mine" =>
              destroyLock # NONE /\ ~connectable /\ ~connected
<1> DEFINE Goal == /\ tenantDb = "another" => tenantDb' = "another"
                   /\ tenantRole = "another" => tenantRole' = "another"
                   /\ tenantDb = "mine" /\ tenantDb' # "mine" =>
                        destroyLock # NONE /\ ~connectable /\ ~connected
<1> USE DestroyAssumption DEF DestroyInv, RunInv, HoldingSteps
<1>1. ASSUME NEW r \in Runs, DropTenantDb(r) PROVE Goal
  BY <1>1 DEF DropTenantDb, RunAt
<1>2. ASSUME NEW r \in Runs, DropTenantRole(r) PROVE Goal
  BY <1>2 DEF DropTenantRole, RunAt
<1>3. ASSUME NEW r \in Runs, DestroySteps(r), ~DropTenantDb(r), ~DropTenantRole(r)
      PROVE  Goal
  BY <1>3 DEF DestroySteps, BeginDestroy, NewRow, SyncRegistry, Recorded,
     CloseDatabase, Terminate, MarkDb,
     MarkRole, ProveAbsence, tenantVars
<1>4. ASSUME NEW r \in Runs,
             \/ \E f \in Fences : StartRun(r, f)
             \/ Publish(r) \/ LosePublish(r) \/ FailRun(r) \/ Refused(r)
      PROVE  Goal
  BY <1>4 DEF StartRun, Publish, LosePublish, WithReceipt, FailRun, Refused,
     tenantVars
<1>5. ASSUME NEW x \in sent, LatePut(x) PROVE Goal
  BY <1>5 DEF LatePut, WithReceipt, tenantVars
<1>6. CASE SomeoneConnects \/ SomeoneLeaves \/ AnotherCreates
  BY <1>6 DEF SomeoneConnects, SomeoneLeaves, AnotherCreates
<1>7. CASE UNCHANGED destroyVars
  BY <1>7 DEF destroyVars, tenantVars
<1> QED BY <1>1, <1>2, <1>3, <1>4, <1>5, <1>6, <1>7 DEF DestroyNext

\* A DROP, which goes by name, never hits what somebody else has created under
\* that name, and hits the tenant's database only when nobody uses it.
THEOREM DropsHitTheirOwn == DestroySpec => DropsOnlyItsIdleDatabase
<1>1. DestroyInv /\ [DestroyNext]_destroyVars =>
        [/\ tenantDb = "another" => tenantDb' = "another"
         /\ tenantRole = "another" => tenantRole' = "another"]_destroyVars
  BY DropsAreOwn
<1>2. DestroyInv /\ [DestroyNext]_destroyVars =>
        [tenantDb = "mine" /\ tenantDb' # "mine" =>
           destroyLock # NONE /\ ~connectable /\ ~connected]_destroyVars
  BY DropsAreOwn
<1> QED
  BY <1>1, <1>2, DestroyKeepsInv, PTL
  DEF DestroySpec, DropsOnlyItsIdleDatabase, AnotherSurvives, DropsAnIdleDatabase

-----------------------------------------------------------------------------
(***************************************************************************)
(*                    The lifecycle of prepared databases                  *)
(***************************************************************************)

Unfinished == {"reserved", "create_submitted", "catalog_bound", "compensating"}

\* The steps of each program, and those at which a task holds a lock.
ReservingSteps == {"reserve", "submit", "create", "bind", "promote"}
GivingUpSteps == {"dropQuarantine", "markDropped", "dropRoles"}
CleaningSteps == {"claim", "retire", "dropDatabase", "markDatabase", "dropRole"}
RaisingSteps == {"apply", "commit", "activate", "grant"}
LockedSteps ==
  ReservingSteps \cup GivingUpSteps \cup CleaningSteps \cup {"commit", "grant"}

\* What a task carries: a fence and whether it saw a database, or the level
\* it saw and the one it is to reach.
FencedTasks ==
  [at : ReservingSteps \cup GivingUpSteps, slot : Slots, fence : Provisions, saw : BOOLEAN]
    \cup [at : CleaningSteps, slot : Slots, fence : Cleanups, saw : BOOLEAN]
RaisingTasks ==
  [at : RaisingSteps, slot : Slots, fence : Provisions, saw : Levels, to : DOMAIN Before]

RecordTypes ==
  /\ prepare \in [Slots -> PrepareRows \cup {Absent}]
  /\ cleanup \in [Slots -> CleanupRows \cup {Absent}]
  /\ role \in RoleRows \cup {Absent}
  /\ database \in DatabaseRows \cup {Absent}
  /\ guards \subseteq Slots
  /\ late \subseteq LateCommits
LifecycleTypes ==
  /\ RecordTypes
  /\ sessions \in BOOLEAN
  /\ lock \in [Slots -> Tasks \cup {Absent}]
  /\ task \in [Tasks -> FencedTasks \cup RaisingTasks \cup {Idle}]

Phase(s, phase) == prepare[s] # Absent /\ prepare[s].phase = phase
Destroying(s) == cleanup[s] # Absent /\ cleanup[s].phase = "destroying"

\* What the journals of a slot say is what the catalog has of it.
ActiveInv(s) ==
  /\ MyRole(s) <=> prepare[s] # Absent /\ ~Released(s)
  /\ s \in guards <=> prepare[s] # Absent /\ prepare[s].phase \in Unfinished
  /\ MyRole(s) /\ role.login =>
       Phase(s, "prepared") /\ role.level = "verified" /\ MyDatabase(s) /\ database.allow
  /\ MyRole(s) /\ ~Phase(s, "prepared") => role.level = "empty"
  /\ MyDatabase(s) => MyRole(s) /\ ~Phase(s, "reserved") /\ ~prepare[s].dropped
  /\ MyDatabase(s) => database.owner = (IF Phase(s, "prepared") THEN "management" ELSE "guard")

JournalInv(s) ==
  /\ Phase(s, "catalog_bound") => MyDatabase(s)
  /\ Phase(s, "prepared") /\ cleanup[s] = Absent => MyDatabase(s) /\ database.allow
  /\ cleanup[s] # Absent =>
       /\ Phase(s, "prepared")
       /\ cleanup[s].fence.slot = s /\ cleanup[s].fence.pred = prepare[s].epoch
       /\ cleanup[s].dropped => ~MyDatabase(s)
  /\ prepare[s] # Absent /\ prepare[s].dropped =>
       prepare[s].phase \in {"compensating", "compensated"}

\* A commit that is still on its way belongs to a slot that has its database,
\* and takes the next step from where the role is.
LateInv(s) ==
  \A x \in late : x.slot = s =>
    /\ Phase(s, "prepared") /\ MyRole(s) /\ MyDatabase(s)
    /\ x.what = "grant" => role.level = "verified" /\ database.allow
    /\ x.what # "grant" => role.level = Before[x.what] /\ ~role.login
    /\ \A y \in late : y.slot = s => y = x

\* Where a task is and what its slot looks like.
StageInv(t) ==
  LET s == task[t].slot IN
  /\ At(t, "reserve") => prepare[s] = Absent
  /\ At(t, "submit") => Phase(s, "reserved")
  /\ At(t, "create") => Phase(s, "create_submitted") /\ ~MyDatabase(s)
  /\ At(t, "bind") => Phase(s, "create_submitted") /\ MyDatabase(s)
  /\ At(t, "promote") => Phase(s, "catalog_bound")
  /\ task[t].at \in GivingUpSteps => Phase(s, "compensating")
  /\ At(t, "dropQuarantine") => (task[t].saw <=> MyDatabase(s))
  /\ task[t].at \in {"markDropped", "dropRoles"} => ~MyDatabase(s)
  /\ task[t].at \in {"commit", "grant"} =>
       /\ Phase(s, "prepared") /\ cleanup[s] = Absent
       /\ NothingLate(s) /\ ~role.login
       /\ At(t, "commit") => role.level = Before[task[t].to]
       /\ At(t, "grant") => role.level = "verified"
  /\ At(t, "claim") =>
       /\ Phase(s, "prepared") /\ cleanup[s] = Absent
       /\ prepare[s].epoch = task[t].fence.pred
  /\ task[t].at \in CleaningSteps \ {"claim"} => Destroying(s)
  /\ task[t].at \in {"retire", "dropDatabase"} => MyDatabase(s)
  /\ At(t, "dropDatabase") => ~role.login /\ \A x \in late : x.slot = s => x.what # "grant"
  /\ task[t].at \in {"markDatabase", "dropRole"} => ~MyDatabase(s)

HoldsInv(t) ==
  \A s \in Slots : lock[s] = t <=> task[t].at \in LockedSteps /\ task[t].slot = s

\* Nobody is let in with the role of an outsider.
StrangerInv == role # Absent /\ role.by = Outsider => ~role.login

SlotInv(s) == ActiveInv(s) /\ JournalInv(s) /\ LateInv(s)
TaskInv(t) ==
  /\ task[t].at # "idle" => task[t].fence.slot = task[t].slot
  /\ StageInv(t)
  /\ HoldsInv(t)
LifecycleInv ==
  /\ LifecycleTypes /\ StrangerInv
  /\ \A s \in Slots : SlotInv(s)
  /\ \A t \in Tasks : TaskInv(t)

-----------------------------------------------------------------------------
(* What the steps share                                                    *)

\* In the first state nothing is there.
LEMMA LifecycleStart == LifecycleInit => LifecycleInv
<1> SUFFICES ASSUME LifecycleInit PROVE LifecycleInv
  OBVIOUS
<1> USE TenantAssumption DEF LifecycleInit, Idle
<1>1. LifecycleTypes
  BY DEF LifecycleTypes, RecordTypes
<1>2. ASSUME NEW s \in Slots PROVE SlotInv(s)
  BY <1>2 DEF SlotInv, ActiveInv, JournalInv, LateInv, Phase, MyRole, MyDatabase
<1>3. ASSUME NEW t \in Tasks PROVE TaskInv(t)
  <2>1. task[t].at = "idle"
    BY <1>3
  <2>2. HoldsInv(t)
    <3>1. t # Absent
      BY <1>3
    <3> QED BY <2>1, <3>1 DEF HoldsInv, LockedSteps, ReservingSteps, GivingUpSteps,
         CleaningSteps
  <2>3. StageInv(t)
    BY <2>1 DEF StageInv, At, GivingUpSteps, CleaningSteps
  <2> QED BY <2>1, <2>2, <2>3 DEF TaskInv
<1> QED BY <1>1, <1>2, <1>3 DEF LifecycleInv, StrangerInv

\* The step touches the rows of slot s only, and a resource that is there
\* only if it was made for s.
Touches(s) ==
  /\ \A q \in Slots \ {s} :
       /\ prepare'[q] = prepare[q] /\ cleanup'[q] = cleanup[q]
       /\ q \in guards' <=> q \in guards
  /\ \/ role' = role
     \/ /\ role # Absent => MyRole(s)
        /\ role' # Absent => MyRole(s)'
  /\ \/ database' = database
     \/ /\ database # Absent => MyDatabase(s)
        /\ database' # Absent => MyDatabase(s)'
  /\ \A x \in LateCommits : x.slot # s => (x \in late' <=> x \in late)
  /\ late' \subseteq LateCommits

\* What is said of the others stays true.
LEMMA OtherSlots ==
  ASSUME LifecycleInv, NEW s, Touches(s), NEW q \in Slots \ {s}
  PROVE  /\ SlotInv(q)'
         /\ prepare'[q] = prepare[q] /\ cleanup'[q] = cleanup[q]
         /\ MyRole(q)' <=> MyRole(q)
         /\ MyRole(q) => role' = role
         /\ MyDatabase(q)' <=> MyDatabase(q)
         /\ MyDatabase(q) => database' = database
<1>1. /\ prepare'[q] = prepare[q] /\ cleanup'[q] = cleanup[q]
      /\ q \in guards' <=> q \in guards
      /\ \A x \in LateCommits : x.slot = q => (x \in late' <=> x \in late)
      /\ late' \subseteq LateCommits /\ late \subseteq LateCommits
  BY DEF Touches, LifecycleInv, LifecycleTypes, RecordTypes
<1>2. (MyRole(q)' <=> MyRole(q)) /\ (MyRole(q) => role' = role)
  BY DEF Touches, MyRole
<1>3. (MyDatabase(q)' <=> MyDatabase(q)) /\ (MyDatabase(q) => database' = database)
  BY DEF Touches, MyDatabase
<1>4. SlotInv(q)
  BY DEF LifecycleInv
<1>5. ActiveInv(q)'
  BY <1>1, <1>2, <1>3, <1>4 DEF SlotInv, ActiveInv, Phase, Released
<1>6. JournalInv(q)'
  BY <1>1, <1>3, <1>4 DEF SlotInv, JournalInv, Phase
<1>7. LateInv(q)'
  BY <1>1, <1>2, <1>3, <1>4 DEF SlotInv, LateInv, Phase
<1> QED BY <1>1, <1>2, <1>3, <1>5, <1>6, <1>7 DEF SlotInv

\* A task whose own slot is another, or that holds no lock, stays as it was.
LEMMA OtherTasks ==
  ASSUME LifecycleInv, NEW s, Touches(s), NEW u \in Tasks,
         task'[u] = task[u], task[u].at \in LockedSteps => task[u].slot # s,
         \A q \in Slots : lock'[q] = u <=> lock[q] = u
  PROVE  TaskInv(u)'
<1>1. TaskInv(u) /\ LifecycleTypes
  BY DEF LifecycleInv
<1>2. HoldsInv(u)'
  BY <1>1 DEF TaskInv, HoldsInv
<1>3. StageInv(u)'
  <2>1. CASE task[u].at \notin LockedSteps
    BY <2>1 DEF StageInv, At, LockedSteps, ReservingSteps, GivingUpSteps, CleaningSteps
  <2>2. CASE task[u].at \in LockedSteps
    <3> DEFINE q == task[u].slot
    <3>1. q \in Slots \ {s}
      BY <1>1, <2>2 DEF LifecycleTypes, FencedTasks, RaisingTasks, Idle, LockedSteps,
         ReservingSteps, GivingUpSteps, CleaningSteps
    <3>2. /\ prepare'[q] = prepare[q] /\ cleanup'[q] = cleanup[q]
          /\ MyRole(q)' <=> MyRole(q)
          /\ MyRole(q) => role' = role
          /\ MyDatabase(q)' <=> MyDatabase(q)
          /\ MyDatabase(q) => database' = database
      BY <3>1, OtherSlots
    <3>3. \A x \in late' : x.slot = q => x \in late
      BY <3>1 DEF Touches
    <3>4. Phase(q, "prepared") /\ (cleanup[q] = Absent \/ Destroying(q)) => MyRole(q)
      BY <3>1 DEF LifecycleInv, SlotInv, ActiveInv, Released, Phase, Destroying
    <3>5. StageInv(u)
      BY <1>1 DEF TaskInv
    <3>6. Destroying(q) => Phase(q, "prepared")
      BY <3>1 DEF LifecycleInv, SlotInv, JournalInv, Destroying
    <3>7. CASE task[u].at \in {"commit", "grant", "dropDatabase"}
      <4>1. role' = role
        BY <3>2, <3>4, <3>5, <3>6, <3>7 DEF StageInv, At, CleaningSteps
      <4> QED BY <3>2, <3>3, <3>5, <3>7, <4>1 DEF StageInv, At, Phase, Destroying,
           NothingLate, CleaningSteps, GivingUpSteps
    <3>8. CASE task[u].at \notin {"commit", "grant", "dropDatabase"}
      BY <3>2, <3>5, <3>8 DEF StageInv, At, Phase, Destroying, CleaningSteps, GivingUpSteps
    <3> QED BY <3>7, <3>8
  <2> QED BY <2>1, <2>2
<1> QED BY <1>1, <1>2, <1>3 DEF TaskInv

\* The slot as TenantSlots sees it.
StageOf(s) ==
  IF prepare[s] = Absent THEN "free"
  ELSE IF prepare[s].phase = "compensated" THEN "released"
  ELSE IF prepare[s].phase # "prepared" THEN "reserved"
  ELSE IF cleanup[s] = Absent THEN "ready"
  ELSE IF cleanup[s].phase = "destroying" THEN "retiring" ELSE "released"
LevelOf(s) == IF MyRole(s) THEN role.level ELSE "none"
OpenOf(s) == MyRole(s) /\ role.login

\* What a step does to it: nothing, or one step of TenantSlots.
SlotMove(s) ==
  \/ /\ StageOf(s)' = StageOf(s) /\ LevelOf(s)' = LevelOf(s) /\ OpenOf(s)' = OpenOf(s)
  \/ /\ StageOf(s) = "free" /\ StageOf(s)' = "reserved" /\ role = Absent
     /\ LevelOf(s)' = "empty" /\ OpenOf(s)' = OpenOf(s)
  \/ /\ StageOf(s) = "reserved" /\ StageOf(s)' = "ready"
     /\ LevelOf(s)' = LevelOf(s) /\ OpenOf(s)' = OpenOf(s)
  \/ /\ StageOf(s) = "reserved" /\ StageOf(s)' = "released"
     /\ LevelOf(s)' = "none" /\ OpenOf(s)' = OpenOf(s)
  \/ /\ StageOf(s) \in {"ready", "retiring"} /\ StageOf(s)' = StageOf(s)
     /\ \E l \in DOMAIN Before : LevelOf(s) = Before[l] /\ LevelOf(s)' = l
     /\ ~OpenOf(s) /\ ~OpenOf(s)'
  \/ /\ StageOf(s) \in {"ready", "retiring"} /\ StageOf(s)' = StageOf(s)
     /\ LevelOf(s) = "verified" /\ LevelOf(s)' = LevelOf(s) /\ OpenOf(s)'
  \/ /\ StageOf(s) = "ready" /\ StageOf(s)' = "retiring"
     /\ LevelOf(s)' = LevelOf(s) /\ OpenOf(s)' = OpenOf(s)
  \/ /\ StageOf(s) = "retiring" /\ StageOf(s)' = "retiring"
     /\ LevelOf(s)' = LevelOf(s) /\ ~OpenOf(s)'
  \/ /\ StageOf(s) = "retiring" /\ StageOf(s)' = "released" /\ ~OpenOf(s)
     /\ LevelOf(s)' = "none" /\ ~OpenOf(s)'

Implements == [Slot!SlotsNext]_(Slot!slotVars)
OthersKept ==
  \A t \in Tasks : ~At(t, "idle") /\ task'[t] # task[t] =>
    /\ database # Absent /\ ~MyDatabase(task[t].slot) => database' = database
    /\ role # Absent /\ ~MyRole(task[t].slot) => role' = role

\* What is shown of every step.
Kept == LifecycleInv' /\ Implements /\ OthersKept

\* The variables of TenantSlots, by slot.
LEMMA SlotVars ==
  /\ Slot!slotVars = <<[s \in Slots |-> StageOf(s)], [s \in Slots |-> LevelOf(s)],
                       [s \in Slots |-> OpenOf(s)]>>
  /\ Slot!slotVars' = <<[s \in Slots |-> StageOf(s)'], [s \in Slots |-> LevelOf(s)'],
                        [s \in Slots |-> OpenOf(s)']>>
BY DEF Slot!slotVars, StageOf, LevelOf, OpenOf, MyRole

\* What the rows of one slot show, and nothing of the others, is a step there.
LEMMA SlotActions ==
  ASSUME NEW s \in Slots,
         \A q \in Slots \ {s} :
           StageOf(q)' = StageOf(q) /\ LevelOf(q)' = LevelOf(q) /\ OpenOf(q)' = OpenOf(q),
         SlotMove(s),
         role = Absent => \A q \in Slots : ~Slot!Holding(q)
  PROVE  Implements
<1> DEFINE SameStage == StageOf(s)' = StageOf(s)
           SameLevel == LevelOf(s)' = LevelOf(s)
           SameOpen == OpenOf(s)' = OpenOf(s)
<1> USE DEF StageOf, LevelOf, OpenOf, MyRole, Slot!Enter
<1>1. CASE SameStage /\ SameLevel /\ SameOpen
  BY <1>1, SlotVars DEF Implements
<1>2. CASE /\ StageOf(s) = "free" /\ StageOf(s)' = "reserved" /\ role = Absent
           /\ LevelOf(s)' = "empty" /\ SameOpen
  <2>1. Slot!ReserveSlot(s)
    BY <1>2 DEF Slot!ReserveSlot
  <2> QED BY <2>1 DEF Implements, Slot!SlotsNext
<1>3. CASE /\ StageOf(s) = "reserved" /\ StageOf(s)' = "ready"
           /\ SameLevel /\ SameOpen
  <2>1. Slot!FinishPreparing(s)
    BY <1>3 DEF Slot!FinishPreparing
  <2> QED BY <2>1 DEF Implements, Slot!SlotsNext
<1>4. CASE /\ StageOf(s) = "reserved" /\ StageOf(s)' = "released"
           /\ LevelOf(s)' = "none" /\ SameOpen
  <2>1. Slot!GiveUp(s)
    BY <1>4 DEF Slot!GiveUp
  <2> QED BY <2>1 DEF Implements, Slot!SlotsNext
<1>5. ASSUME NEW l \in DOMAIN Before, LevelOf(s) = Before[l], LevelOf(s)' = l,
             StageOf(s) \in {"ready", "retiring"}, SameStage, ~OpenOf(s), ~OpenOf(s)'
      PROVE  Implements
  <2>1. Slot!Advance(s)
    BY <1>5 DEF Slot!Advance, Before
  <2> QED BY <2>1 DEF Implements, Slot!SlotsNext
<1>6. CASE /\ StageOf(s) \in {"ready", "retiring"} /\ SameStage
           /\ LevelOf(s) = "verified" /\ SameLevel /\ OpenOf(s)'
  <2>1. OpenOf(s)' = TRUE
    BY <1>6
  <2>2. [q \in Slots |-> OpenOf(q)]' = [[q \in Slots |-> OpenOf(q)] EXCEPT ![s] = TRUE]
    BY <2>1
  <2>3. Slot!Open(s)
    BY <1>6, <2>2 DEF Slot!Open
  <2> QED BY <2>3 DEF Implements, Slot!SlotsNext
<1>7. CASE /\ StageOf(s) = "ready" /\ StageOf(s)' = "retiring"
           /\ SameLevel /\ SameOpen
  <2>1. Slot!ClaimSlot(s)
    BY <1>7 DEF Slot!ClaimSlot
  <2> QED BY <2>1 DEF Implements, Slot!SlotsNext
<1>8. CASE /\ StageOf(s) = "retiring" /\ StageOf(s)' = "retiring"
           /\ SameLevel /\ ~OpenOf(s)'
  <2>1. Slot!Close(s)
    BY <1>8 DEF Slot!Close
  <2> QED BY <2>1 DEF Implements, Slot!SlotsNext
<1>9. CASE /\ StageOf(s) = "retiring" /\ StageOf(s)' = "released" /\ ~OpenOf(s)
           /\ LevelOf(s)' = "none" /\ ~OpenOf(s)'
  <2>1. Slot!Release(s)
    BY <1>9 DEF Slot!Release
  <2> QED BY <2>1 DEF Implements, Slot!SlotsNext
<1> HIDE DEF StageOf, LevelOf, OpenOf
<1> QED BY <1>1, <1>2, <1>3, <1>4, <1>5, <1>6, <1>7, <1>8, <1>9 DEF SlotMove

\* A step that touches one slot is a step of TenantSlots, or of none.
LEMMA SlotMoves ==
  ASSUME LifecycleInv, NEW s, Touches(s), s \in Slots => SlotMove(s)
  PROVE  Implements
<1>1. ASSUME NEW q \in Slots \ {s}
      PROVE  StageOf(q)' = StageOf(q) /\ LevelOf(q)' = LevelOf(q) /\ OpenOf(q)' = OpenOf(q)
  <2>1. /\ prepare'[q] = prepare[q] /\ cleanup'[q] = cleanup[q]
        /\ MyRole(q)' <=> MyRole(q)
        /\ MyRole(q) => role' = role
    BY OtherSlots
  <2> QED BY <2>1 DEF StageOf, LevelOf, OpenOf
<1>2. role = Absent => \A q \in Slots : ~Slot!Holding(q)
  <2> SUFFICES ASSUME role = Absent, NEW q \in Slots PROVE ~Slot!Holding(q)
    OBVIOUS
  <2>1. prepare[q] = Absent \/ Released(q)
    BY DEF LifecycleInv, SlotInv, ActiveInv, MyRole
  <2> QED BY <2>1 DEF Released, Slot!Holding
<1>3. CASE s \in Slots
  BY <1>1, <1>2, <1>3, SlotActions
<1>4. CASE s \notin Slots
  <2>1. UNCHANGED <<[q \in Slots |-> StageOf(q)], [q \in Slots |-> LevelOf(q)],
                    [q \in Slots |-> OpenOf(q)]>>
    BY <1>1, <1>4
  <2> QED BY <2>1, SlotVars DEF Implements
<1> QED BY <1>3, <1>4

\* A step of task t that touches slot s, which nobody else has locked.
LEMMA TaskMoves ==
  ASSUME LifecycleInv, NEW t \in Tasks, NEW s \in Slots, Touches(s),
         LifecycleTypes', SlotInv(s)', TaskInv(t)',
         \A u \in Tasks \ {t} : task'[u] = task[u],
         lock[s] \in {t, Absent}, lock'[s] \in {t, Absent},
         \A q \in Slots \ {s} : lock'[q] = lock[q],
         SlotMove(s), task[t].at = "idle" \/ task[t].slot = s
  PROVE  Kept
<1>1. ASSUME NEW u \in Tasks \ {t} PROVE TaskInv(u)'
  <2>1. lock[s] # u /\ lock'[s] # u
    BY TenantAssumption
  <2>2. task[u].at \in LockedSteps => task[u].slot # s
    BY <2>1 DEF LifecycleInv, TaskInv, HoldsInv
  <2> QED BY <2>1, <2>2, OtherTasks
<1>2. \A q \in Slots : SlotInv(q)'
  BY OtherSlots
<1>3. StrangerInv'
  BY TenantAssumption DEF LifecycleInv, StrangerInv, Touches, MyRole
<1>4. LifecycleInv'
  BY <1>1, <1>2, <1>3 DEF LifecycleInv
<1>5. Implements
  BY SlotMoves
<1>6. OthersKept
  <2>1. ASSUME NEW u \in Tasks, ~At(u, "idle"), task'[u] # task[u]
        PROVE  task[u].slot = s
    BY <2>1 DEF At
  <2> QED BY <2>1 DEF OthersKept, Touches, MyRole, MyDatabase
<1> QED BY <1>4, <1>5, <1>6 DEF Kept

\* The two kinds of a task's programs: one holds its lock throughout.
FencedStep(step, fence) ==
  \/ step \in ReservingSteps \cup GivingUpSteps /\ fence \in Provisions
  \/ step \in CleaningSteps /\ fence \in Cleanups

\* A task that has finished, or was stopped, holds nothing.
LEMMA IdleTask ==
  ASSUME NEW t \in Tasks, task'[t] = Idle, \A q \in Slots : lock'[q] # t
  PROVE  TaskInv(t)'
<1>1. task'[t].at = "idle"
  BY DEF Idle
<1> QED BY <1>1 DEF TaskInv, HoldsInv, StageInv, At, LockedSteps, ReservingSteps,
     GivingUpSteps, CleaningSteps

\* A task at work has a fence for the program it is in, and its slot.
LEMMA TaskAtWork ==
  ASSUME LifecycleInv, NEW t \in Tasks, task[t].at # "idle"
  PROVE  /\ task[t] \in FencedTasks \cup RaisingTasks
         /\ task[t].slot \in Slots
         /\ task[t].fence.slot = task[t].slot
         /\ task[t].at \in LockedSteps => lock[task[t].slot] = t
         /\ task[t].at \in RaisingSteps => task[t] \in RaisingTasks
         /\ task[t].at \notin RaisingSteps =>
              task[t] \in FencedTasks /\ FencedStep(task[t].at, task[t].fence)
         /\ SlotInv(task[t].slot) /\ StageInv(t) /\ TaskInv(t)
<1>1. task[t] \in FencedTasks \cup RaisingTasks
  BY DEF LifecycleInv, LifecycleTypes, Idle
<1>2. task[t].slot \in Slots
  BY <1>1 DEF FencedTasks, RaisingTasks
<1>3. /\ task[t].at \in RaisingSteps => task[t] \in RaisingTasks
      /\ task[t].at \notin RaisingSteps =>
           task[t] \in FencedTasks /\ FencedStep(task[t].at, task[t].fence)
  BY <1>1 DEF FencedTasks, RaisingTasks, RaisingSteps, FencedStep, ReservingSteps,
     GivingUpSteps, CleaningSteps
<1> QED BY <1>1, <1>2, <1>3 DEF LifecycleInv, TaskInv, HoldsInv

\* The next step of a program: the record is the old one.
LEMMA GoneTo ==
  ASSUME LifecycleInv, NEW t \in Tasks, NEW step,
         task[t].at \notin RaisingSteps \cup {"idle"}, FencedStep(step, task[t].fence),
         Goto(t, step)
  PROVE  /\ task' \in [Tasks -> FencedTasks \cup RaisingTasks \cup {Idle}]
         /\ \A u \in Tasks \ {t} : task'[u] = task[u]
         /\ task'[t].at = step /\ task'[t].slot = task[t].slot
         /\ task'[t].fence = task[t].fence /\ task'[t].saw = task[t].saw
<1>1. task[t] \in FencedTasks /\ FencedStep(task[t].at, task[t].fence)
  BY TaskAtWork
<1>2. [task[t] EXCEPT !.at = step] \in FencedTasks
  BY <1>1 DEF FencedTasks, FencedStep, ReservingSteps, GivingUpSteps, CleaningSteps
<1>3. task' = [task EXCEPT ![t] = [task[t] EXCEPT !.at = step]]
  BY DEF Goto
<1>4. task \in [Tasks -> FencedTasks \cup RaisingTasks \cup {Idle}]
  BY DEF LifecycleInv, LifecycleTypes
<1>5. task'[t] = [task[t] EXCEPT !.at = step]
  BY <1>3, <1>4
<1>6. /\ task'[t].at = step /\ task'[t].slot = task[t].slot
      /\ task'[t].fence = task[t].fence /\ task'[t].saw = task[t].saw
  BY <1>1, <1>5 DEF FencedTasks
<1> QED BY <1>2, <1>3, <1>4, <1>6

\* What is left to show of such a step, with the lock that is kept,
LEMMA GoesOn ==
  ASSUME LifecycleInv, NEW t \in Tasks, NEW step,
         task[t].at \notin RaisingSteps \cup {"idle"}, FencedStep(step, task[t].fence),
         Goto(t, step), UNCHANGED <<sessions, lock>>,
         NEW s, s = task[t].slot, RecordTypes', Touches(s), SlotMove(s), SlotInv(s)',
         StageInv(t)'
  PROVE  Kept
<1>1. /\ task' \in [Tasks -> FencedTasks \cup RaisingTasks \cup {Idle}]
      /\ \A u \in Tasks \ {t} : task'[u] = task[u]
      /\ task'[t].at = step /\ task'[t].slot = task[t].slot
      /\ task'[t].fence = task[t].fence
  BY GoneTo
<1>2. /\ task[t].slot \in Slots /\ task[t].fence.slot = task[t].slot
      /\ TaskInv(t) /\ FencedStep(task[t].at, task[t].fence)
  BY TaskAtWork
<1>3. step \in LockedSteps /\ task[t].at \in LockedSteps
  BY <1>2 DEF FencedStep, LockedSteps
<1>4. TaskInv(t)'
  BY <1>1, <1>2, <1>3 DEF TaskInv, HoldsInv
<1>5. lock[task[t].slot] = t /\ LifecycleTypes'
  BY <1>1, <1>2, <1>3, TaskAtWork DEF LifecycleInv, LifecycleTypes
<1> QED BY <1>1, <1>2, <1>4, <1>5, TaskMoves

\* and of a step that ends a task and frees its lock,
LEMMA Ends ==
  ASSUME LifecycleInv, NEW t \in Tasks, task[t].at \in LockedSteps,
         Finish(t), UNCHANGED sessions,
         NEW s, s = task[t].slot, RecordTypes', Touches(s), SlotMove(s), SlotInv(s)'
  PROVE  Kept
<1>1. task[t].at # "idle"
  BY DEF LockedSteps, ReservingSteps, GivingUpSteps, CleaningSteps
<1>2. s \in Slots /\ lock[s] = t /\ TaskInv(t)
  BY <1>1, TaskAtWork
<1>3. /\ lock \in [Slots -> Tasks \cup {Absent}]
      /\ task \in [Tasks -> FencedTasks \cup RaisingTasks \cup {Idle}]
  BY DEF LifecycleInv, LifecycleTypes
<1>4. task' = [task EXCEPT ![t] = Idle] /\ lock' = [lock EXCEPT ![s] = Absent]
  BY DEF Finish, Unlock
<1>5. /\ task'[t] = Idle /\ lock'[s] = Absent
      /\ \A u \in Tasks \ {t} : task'[u] = task[u]
      /\ \A q \in Slots \ {s} : lock'[q] = lock[q]
      /\ LifecycleTypes'
  BY <1>2, <1>3, <1>4 DEF LifecycleInv, LifecycleTypes
<1>6. TaskInv(t)'
  <2>1. \A q \in Slots : lock'[q] # t
    BY <1>2, <1>5, TenantAssumption DEF TaskInv, HoldsInv
  <2> QED BY <1>5, <2>1, IdleTask
<1> QED BY <1>2, <1>5, <1>6, TaskMoves

\* and of the step that begins a program.
LEMMA Entered ==
  ASSUME LifecycleInv, NEW t \in Tasks, NEW fence \in Provisions \cup Cleanups,
         NEW step, FencedStep(step, fence), NEW saw \in BOOLEAN,
         Enter(t, fence, step, saw)
  PROVE  /\ fence.slot \in Slots
         /\ task' \in [Tasks -> FencedTasks \cup RaisingTasks \cup {Idle}]
         /\ lock' \in [Slots -> Tasks \cup {Absent}]
         /\ \A u \in Tasks \ {t} : task'[u] = task[u]
         /\ task'[t].at = step /\ task'[t].slot = fence.slot
         /\ task'[t].fence = fence /\ task'[t].saw = saw
         /\ lock[fence.slot] = Absent /\ lock'[fence.slot] = t
         /\ \A q \in Slots \ {fence.slot} : lock'[q] = lock[q]
         /\ HoldsInv(t)'
<1> DEFINE new == [at |-> step, slot |-> fence.slot, fence |-> fence, saw |-> saw]
<1>1. fence.slot \in Slots
  BY TenantAssumption
<1>2. /\ lock \in [Slots -> Tasks \cup {Absent}]
      /\ task \in [Tasks -> FencedTasks \cup RaisingTasks \cup {Idle}]
  BY DEF LifecycleInv, LifecycleTypes
<1>3. /\ task' = [task EXCEPT ![t] = new]
      /\ lock' = [lock EXCEPT ![fence.slot] = t] /\ lock[fence.slot] = Absent
      /\ task[t].at = "idle"
  BY DEF Enter, Lock, At
<1>4. new \in FencedTasks
  BY <1>1 DEF FencedTasks, FencedStep
<1>5. \A q \in Slots : lock[q] # t
  BY <1>3 DEF LifecycleInv, TaskInv, HoldsInv, LockedSteps, ReservingSteps, GivingUpSteps,
     CleaningSteps
<1>6. task'[t] = new
  BY <1>2, <1>3
<1>7. HoldsInv(t)'
  <2>1. step \in LockedSteps
    BY DEF LockedSteps, FencedStep
  <2> QED BY <1>1, <1>2, <1>3, <1>5, <1>6, <2>1 DEF HoldsInv
<1> QED BY <1>1, <1>2, <1>3, <1>4, <1>6, <1>7

\* The first step of a task that takes its lock.
LEMMA TaskBegins ==
  ASSUME LifecycleInv, NEW t \in Tasks, NEW fence \in Provisions \cup Cleanups,
         NEW step, FencedStep(step, fence), NEW saw \in BOOLEAN,
         Enter(t, fence, step, saw), UNCHANGED sessions,
         RecordTypes', Touches(fence.slot), SlotMove(fence.slot), SlotInv(fence.slot)',
         StageInv(t)'
  PROVE  Kept
<1>1. /\ fence.slot \in Slots
      /\ task' \in [Tasks -> FencedTasks \cup RaisingTasks \cup {Idle}]
      /\ lock' \in [Slots -> Tasks \cup {Absent}]
      /\ \A u \in Tasks \ {t} : task'[u] = task[u]
      /\ task'[t].slot = fence.slot /\ task'[t].fence = fence
      /\ lock[fence.slot] = Absent /\ lock'[fence.slot] = t
      /\ \A q \in Slots \ {fence.slot} : lock'[q] = lock[q]
      /\ HoldsInv(t)'
  BY Entered
<1>2. TaskInv(t)' /\ LifecycleTypes'
  BY <1>1 DEF TaskInv, LifecycleInv, LifecycleTypes
<1>3. task[t].at = "idle"
  BY DEF Enter, At
<1> QED BY <1>1, <1>2, <1>3, TaskMoves

\* A step that changes no row.
LEMMA RowsStay ==
  ASSUME LifecycleInv, UNCHANGED <<journals, catalog, late>>, NEW s \in Slots
  PROVE  RecordTypes' /\ Touches(s) /\ SlotMove(s) /\ SlotInv(s)'
<1>1. RecordTypes /\ SlotInv(s)
  BY DEF LifecycleInv, LifecycleTypes
<1>2. RecordTypes' /\ Touches(s)
  BY <1>1 DEF RecordTypes, journals, catalog, Touches
<1>3. SlotInv(s)'
  BY <1>1 DEF journals, catalog, SlotInv, ActiveInv, JournalInv, LateInv, Phase, Released,
     MyRole, MyDatabase
<1>4. SlotMove(s)
  BY DEF journals, catalog, SlotMove, StageOf, LevelOf, OpenOf, MyRole
<1> QED BY <1>2, <1>3, <1>4

\* A slot whose preparation is not finished has nothing on its way.
LEMMA NothingLateYet ==
  ASSUME LifecycleInv, NEW s \in Slots, ~Phase(s, "prepared")
  PROVE  /\ \A x \in late : x.slot # s
         /\ cleanup[s] = Absent
BY DEF LifecycleInv, SlotInv, LateInv, JournalInv

\* The journal row of a slot goes to another phase.
LEMMA PhaseSet ==
  ASSUME LifecycleInv, NEW s \in Slots, prepare[s] # Absent,
         NEW phase \in Unfinished \cup {"prepared", "compensated"}, SetPhase(s, phase)
  PROVE  /\ prepare' \in [Slots -> PrepareRows \cup {Absent}]
         /\ \A q \in Slots \ {s} : prepare'[q] = prepare[q]
         /\ prepare'[s] # Absent /\ prepare'[s].phase = phase
         /\ prepare'[s].epoch = prepare[s].epoch /\ prepare'[s].dropped = prepare[s].dropped
<1>1. prepare \in [Slots -> PrepareRows \cup {Absent}] /\ prepare[s] \in PrepareRows
  BY DEF LifecycleInv, LifecycleTypes, RecordTypes
<1>2. [prepare[s] EXCEPT !.phase = phase] \in PrepareRows
  BY <1>1 DEF PrepareRows, Unfinished
<1>3. prepare' = [prepare EXCEPT ![s] = [prepare[s] EXCEPT !.phase = phase]]
  BY DEF SetPhase
<1>4. Absent \notin PrepareRows
  BY AbsentAssumption
<1>5. prepare'[s] = [prepare[s] EXCEPT !.phase = phase]
  BY <1>1, <1>3
<1> QED BY <1>1, <1>2, <1>3, <1>4, <1>5 DEF PrepareRows

-----------------------------------------------------------------------------
(* Preparing and giving up                                                 *)

\* Beginning or resuming a preparation only reads.
LEMMA PreparesBegin ==
  ASSUME LifecycleInv, NEW t \in Tasks, NEW p \in Provisions,
         PrepareFirst(t, p) \/ PrepareResume(t, p)
  PROVE  Kept
<1>1. p.slot \in Slots /\ UNCHANGED <<journals, catalog, sessions, late>>
  BY TenantAssumption DEF PrepareFirst, PrepareResume
<1>2. /\ RecordTypes' /\ Touches(p.slot) /\ SlotMove(p.slot)
      /\ SlotInv(p.slot)' /\ SlotInv(p.slot)
  BY <1>1, RowsStay DEF LifecycleInv
<1>3. UNCHANGED <<prepare, cleanup, role, database, guards>>
  BY <1>1 DEF journals, catalog
<1>4. CASE PrepareFirst(t, p)
  <2> DEFINE saw == FALSE
  <2>1. Enter(t, p, "reserve", saw) /\ prepare[p.slot] = Absent /\ saw \in BOOLEAN
    BY <1>4 DEF PrepareFirst
  <2> HIDE DEF saw
  <2>2. FencedStep("reserve", p)
    BY DEF FencedStep, ReservingSteps
  <2>3. task'[t].at = "reserve" /\ task'[t].slot = p.slot
    BY <2>1, <2>2, Entered
  <2>4. StageInv(t)'
    BY <1>3, <2>1, <2>3 DEF StageInv, At, GivingUpSteps, CleaningSteps
  <2> QED BY <1>1, <1>2, <2>1, <2>2, <2>4, TaskBegins
<1>5. CASE PrepareResume(t, p)
  <2> DEFINE saw == database # Absent
             step == ResumeStep(prepare[p.slot].phase)
  <2>1. Enter(t, p, step, saw) /\ CanResumePreparing(p)
    BY <1>5 DEF PrepareResume
  <2>2. /\ step \in {"submit", "create", "bind", "promote"}
        /\ step = "submit" => prepare[p.slot].phase = "reserved"
        /\ step = "promote" => prepare[p.slot].phase = "catalog_bound"
        /\ step = "create" => prepare[p.slot].phase = "create_submitted" /\ database = Absent
        /\ step = "bind" => prepare[p.slot].phase = "create_submitted" /\ database # Absent
    BY <2>1 DEF ResumeStep, CanResumePreparing
  <2>3. FencedStep(step, p) /\ saw \in BOOLEAN
    BY <2>2 DEF FencedStep, ReservingSteps
  <2> HIDE DEF saw, step
  <2>4. task'[t].at = step /\ task'[t].slot = p.slot
    BY <2>1, <2>3, Entered
  <2>5. StageInv(t)'
    BY <1>3, <2>1, <2>2, <2>4
       DEF StageInv, At, GivingUpSteps, CleaningSteps, Phase, MyDatabase,
           CanResumePreparing, Quarantined
  <2> QED BY <1>1, <1>2, <2>1, <2>3, <2>5, TaskBegins
<1> QED BY <1>4, <1>5

\* Role, guard and journal row appear together.
LEMMA ReserveHolds ==
  ASSUME LifecycleInv, NEW t \in Tasks, Reserve(t) PROVE Kept
<1> DEFINE row == [epoch |-> task[t].fence.epoch, phase |-> "reserved", dropped |-> FALSE]
<1>1. PICK s : s = task[t].slot
  OBVIOUS
<1>2. At(t, "reserve") /\ task[t].at \notin RaisingSteps \cup {"idle"}
  BY DEF Reserve, At, RaisingSteps
<1>3. /\ s \in Slots /\ StageInv(t) /\ SlotInv(s) /\ task[t].fence \in Provisions
      /\ FencedStep("submit", task[t].fence)
  BY <1>1, <1>2, TaskAtWork DEF At, FencedStep, ReservingSteps, GivingUpSteps, CleaningSteps
<1>4. /\ role = Absent
      /\ prepare' = [prepare EXCEPT ![s] = row]
      /\ role' = [by |-> s, level |-> "empty", login |-> FALSE]
      /\ guards' = guards \cup {s}
      /\ Goto(t, "submit")
      /\ UNCHANGED <<cleanup, database, sessions, lock, late>>
  BY <1>1 DEF Reserve
<1>5. RecordTypes
  BY DEF LifecycleInv, LifecycleTypes
<1>6. row \in PrepareRows /\ row # Absent
  <2>1. row \in PrepareRows
    BY <1>3 DEF PrepareRows, Unfinished
  <2>2. Absent \notin PrepareRows
    BY AbsentAssumption
  <2> QED BY <2>1, <2>2
<1>7. role' \in RoleRows /\ role' # Absent
  <2>1. role' \in RoleRows
    BY <1>3, <1>4 DEF RoleRows, Levels, Slot!Levels
  <2>2. Absent \notin RoleRows
    BY AbsentAssumption
  <2> QED BY <2>1, <2>2
<1>8. prepare'[s] = row
  BY <1>3, <1>4, <1>5 DEF RecordTypes
<1>9. RecordTypes'
  BY <1>3, <1>4, <1>5, <1>6, <1>7 DEF RecordTypes
<1>10. Touches(s)
  BY <1>3, <1>4, <1>5 DEF Touches, RecordTypes, MyRole
<1>11. prepare[s] = Absent
  BY <1>1, <1>2, <1>3 DEF StageInv
<1>12. cleanup[s] = Absent /\ ~MyDatabase(s) /\ \A x \in late : x.slot # s
  BY <1>3, <1>11, NothingLateYet DEF SlotInv, ActiveInv, Phase
<1>13. SlotInv(s)'
  <2>1. /\ MyRole(s)' /\ role'.level = "empty" /\ ~role'.login
        /\ ~MyDatabase(s)' /\ s \in guards'
        /\ prepare'[s] # Absent /\ prepare'[s].phase = "reserved"
        /\ ~prepare'[s].dropped
        /\ cleanup'[s] = Absent /\ \A x \in late' : x.slot # s
    BY <1>4, <1>6, <1>7, <1>8, <1>12 DEF MyRole, MyDatabase
  <2> QED BY <2>1 DEF SlotInv, ActiveInv, JournalInv, LateInv, Phase, Released, Unfinished
<1>14. StageInv(t)'
  <2>1. task'[t].at = "submit" /\ task'[t].slot = s
    BY <1>1, <1>2, <1>3, <1>4, GoneTo
  <2> QED BY <1>6, <1>8, <2>1 DEF StageInv, At, Phase, GivingUpSteps, CleaningSteps
<1>15. SlotMove(s)
  BY <1>4, <1>6, <1>7, <1>8, <1>11 DEF SlotMove, StageOf, LevelOf, OpenOf, MyRole
<1> QED BY <1>1, <1>2, <1>3, <1>4, <1>9, <1>10, <1>13, <1>14, <1>15, GoesOn

\* The steps of a preparation that only set the phase: the catalog is as it was.
LEMMA SubmitHolds ==
  ASSUME LifecycleInv, NEW t \in Tasks, Submit(t) \/ Bind(t) PROVE Kept
<1>1. PICK s : s = task[t].slot
  OBVIOUS
<1>2. PICK step, phase :
        /\ \/ step = "create" /\ phase = "create_submitted" /\ At(t, "submit")
           \/ step = "promote" /\ phase = "catalog_bound" /\ At(t, "bind")
        /\ SetPhase(s, phase) /\ Goto(t, step)
        /\ Quarantined(s)
        /\ step = "create" => database = Absent
        /\ step = "promote" => database # Absent
  BY <1>1 DEF Submit, Bind
<1>3. UNCHANGED <<cleanup, role, database, guards, sessions, lock, late>>
  BY DEF Submit, Bind, catalog
<1>4. task[t].at \in {"submit", "bind"}
  BY <1>2 DEF At
<1>5. /\ s \in Slots /\ StageInv(t) /\ SlotInv(s) /\ FencedStep(step, task[t].fence)
      /\ task[t].at \notin RaisingSteps \cup {"idle"}
  BY <1>1, <1>2, <1>4, TaskAtWork
     DEF FencedStep, ReservingSteps, GivingUpSteps, CleaningSteps, RaisingSteps
<1>6. prepare[s] # Absent /\ prepare[s].phase \in {"reserved", "create_submitted"}
  BY <1>1, <1>4, <1>5 DEF StageInv, At, Phase
<1>7. phase \in Unfinished
  BY <1>2 DEF Unfinished
<1>8. /\ prepare' \in [Slots -> PrepareRows \cup {Absent}]
      /\ \A q \in Slots \ {s} : prepare'[q] = prepare[q]
      /\ prepare'[s] # Absent /\ prepare'[s].phase = phase
      /\ prepare'[s].epoch = prepare[s].epoch /\ prepare'[s].dropped = prepare[s].dropped
  BY <1>2, <1>5, <1>6, <1>7, PhaseSet
<1>9. RecordTypes /\ RecordTypes'
  BY <1>3, <1>8 DEF LifecycleInv, LifecycleTypes, RecordTypes
<1>10. Touches(s)
  BY <1>3, <1>8, <1>9 DEF Touches, RecordTypes
<1>11. cleanup[s] = Absent /\ \A x \in late : x.slot # s
  BY <1>5, <1>6, NothingLateYet DEF Phase
<1>12. MyRole(s) /\ MyRole(s)' /\ ~prepare[s].dropped
       /\ (MyDatabase(s)' <=> database # Absent) /\ MyDatabase(s) = MyDatabase(s)'
  BY <1>2, <1>3, <1>5, <1>6 DEF Quarantined, MyRole, MyDatabase, SlotInv, JournalInv
<1>13. SlotInv(s)'
  BY <1>2, <1>3, <1>5, <1>6, <1>8, <1>11, <1>12
     DEF SlotInv, ActiveInv, JournalInv, LateInv, Phase, Released, Unfinished
<1>14. StageInv(t)'
  <2>1. task'[t].at = step /\ task'[t].slot = s
    BY <1>1, <1>2, <1>5, GoneTo
  <2> QED BY <1>2, <1>8, <1>12, <2>1 DEF StageInv, At, Phase, GivingUpSteps, CleaningSteps
<1>15. SlotMove(s)
  BY <1>3, <1>6, <1>7, <1>8 DEF SlotMove, StageOf, LevelOf, OpenOf, MyRole, Unfinished
<1> QED BY <1>1, <1>2, <1>3, <1>5, <1>9, <1>10, <1>13, <1>14, <1>15, GoesOn

\* CREATE DATABASE, where there was none.
LEMMA CreateHolds ==
  ASSUME LifecycleInv, NEW t \in Tasks, Create(t) PROVE Kept
<1>1. PICK s : s = task[t].slot
  OBVIOUS
<1>2. /\ task[t].at = "create" /\ database = Absent
      /\ database' = [by |-> s, owner |-> "guard", allow |-> FALSE]
      /\ Goto(t, "bind")
      /\ UNCHANGED <<prepare, cleanup, role, guards, sessions, lock, late>>
  BY <1>1 DEF Create, At, journals
<1>3. /\ s \in Slots /\ StageInv(t) /\ SlotInv(s) /\ FencedStep("bind", task[t].fence)
      /\ task[t].at \notin RaisingSteps \cup {"idle"}
  BY <1>1, <1>2, TaskAtWork
     DEF FencedStep, ReservingSteps, GivingUpSteps, CleaningSteps, RaisingSteps
<1>4. Phase(s, "create_submitted")
  BY <1>1, <1>2, <1>3 DEF StageInv, At
<1>5. RecordTypes
  BY DEF LifecycleInv, LifecycleTypes
<1>6. database' \in DatabaseRows /\ database' # Absent
  <2>1. database' \in DatabaseRows
    BY <1>2, <1>3 DEF DatabaseRows
  <2> QED BY <2>1, AbsentAssumption
<1>7. RecordTypes'
  BY <1>2, <1>5, <1>6 DEF RecordTypes
<1>8. MyDatabase(s)' /\ Touches(s)
  BY <1>2, <1>5, <1>6 DEF Touches, RecordTypes, MyDatabase
<1>9. cleanup[s] = Absent /\ \A x \in late : x.slot # s
  BY <1>3, <1>4, NothingLateYet DEF Phase
<1>10. MyRole(s) /\ MyRole(s)' /\ ~prepare[s].dropped
  BY <1>2, <1>3, <1>4 DEF SlotInv, ActiveInv, JournalInv, Released, Phase, MyRole
<1>11. SlotInv(s)'
  BY <1>2, <1>3, <1>4, <1>8, <1>9, <1>10
     DEF SlotInv, ActiveInv, JournalInv, LateInv, Phase, Released, Unfinished
<1>12. StageInv(t)'
  <2>1. task'[t].at = "bind" /\ task'[t].slot = s
    BY <1>1, <1>2, <1>3, GoneTo
  <2> QED BY <1>2, <1>4, <1>8, <2>1 DEF StageInv, At, Phase, GivingUpSteps, CleaningSteps
<1>13. SlotMove(s)
  BY <1>2 DEF SlotMove, StageOf, LevelOf, OpenOf, MyRole
<1> QED BY <1>1, <1>2, <1>3, <1>7, <1>8, <1>11, <1>12, <1>13, GoesOn

\* The database is opened to connections as the guard goes.
LEMMA PromoteHolds ==
  ASSUME LifecycleInv, NEW t \in Tasks, Promote(t) PROVE Kept
<1>1. PICK s : s = task[t].slot
  OBVIOUS
<1>2. /\ task[t].at = "promote" /\ database # Absent
      /\ database' = [database EXCEPT !.owner = "management", !.allow = TRUE]
      /\ guards' = guards \ {s}
      /\ SetPhase(s, "prepared") /\ Finish(t)
      /\ UNCHANGED <<cleanup, role, sessions, late>>
  BY <1>1 DEF Promote, At
<1>3. /\ s \in Slots /\ StageInv(t) /\ SlotInv(s) /\ task[t].at \in LockedSteps
  BY <1>1, <1>2, TaskAtWork DEF LockedSteps, ReservingSteps
<1>4. Phase(s, "catalog_bound")
  BY <1>1, <1>2, <1>3 DEF StageInv, At
<1>5. RecordTypes
  BY DEF LifecycleInv, LifecycleTypes
<1>6. /\ prepare' \in [Slots -> PrepareRows \cup {Absent}]
      /\ \A q \in Slots \ {s} : prepare'[q] = prepare[q]
      /\ prepare'[s] # Absent /\ prepare'[s].phase = "prepared"
      /\ prepare'[s].epoch = prepare[s].epoch /\ prepare'[s].dropped = prepare[s].dropped
  BY <1>2, <1>3, <1>4, PhaseSet DEF Phase
<1>7. MyDatabase(s) /\ MyRole(s) /\ ~prepare[s].dropped /\ ~role.login
  BY <1>3, <1>4 DEF SlotInv, ActiveInv, JournalInv, Released, Phase
<1>8. /\ database' \in DatabaseRows /\ database'.by = s
      /\ database'.owner = "management" /\ database'.allow
  BY <1>2, <1>5, <1>7 DEF RecordTypes, DatabaseRows, MyDatabase
<1>9. database' # Absent /\ RecordTypes'
  BY <1>2, <1>5, <1>6, <1>8, AbsentAssumption DEF RecordTypes
<1>10. MyDatabase(s)' /\ MyRole(s)' /\ Touches(s)
  BY <1>2, <1>5, <1>6, <1>7, <1>8, <1>9 DEF Touches, RecordTypes, MyDatabase, MyRole
<1>11. cleanup[s] = Absent /\ \A x \in late : x.slot # s
  BY <1>3, <1>4, NothingLateYet DEF Phase
<1>12. SlotInv(s)'
  BY <1>2, <1>6, <1>7, <1>8, <1>10, <1>11
     DEF SlotInv, ActiveInv, JournalInv, LateInv, Phase, Released, Unfinished
<1>13. SlotMove(s)
  BY <1>2, <1>4, <1>6, <1>11 DEF SlotMove, StageOf, LevelOf, OpenOf, MyRole, Phase
<1> QED BY <1>1, <1>2, <1>3, <1>9, <1>10, <1>12, <1>13, Ends

\* Giving up begins with the claim of the row, or goes on with it.
LEMMA CompensatesBegin ==
  ASSUME LifecycleInv, NEW t \in Tasks, NEW p \in Provisions,
         CompensateFirst(t, p) \/ CompensateResume(t, p)
  PROVE  Kept
<1> DEFINE s == p.slot
           saw == database # Absent
<1>1. /\ s \in Slots /\ Enter(t, p, "dropQuarantine", saw) /\ saw \in BOOLEAN
      /\ UNCHANGED <<cleanup, role, database, guards, sessions, late>>
  BY TenantAssumption DEF CompensateFirst, CompensateResume, catalog, journals
<1>2. /\ prepare[s] # Absent /\ prepare[s].phase \in Unfinished
      /\ saw <=> MyDatabase(s)
  BY DEF CompensateFirst, CompensateResume, CanResumeCompensating, Quarantined, MyDatabase,
     Unfinished
<1>3. /\ RecordTypes' /\ Touches(s)
      /\ prepare'[s] # Absent /\ prepare'[s].phase = "compensating"
      /\ prepare'[s].epoch = prepare[s].epoch /\ prepare'[s].dropped = prepare[s].dropped
  <2>0. RecordTypes
    BY DEF LifecycleInv, LifecycleTypes
  <2>1. CASE CompensateFirst(t, p)
    <3>1. SetPhase(s, "compensating")
      BY <2>1 DEF CompensateFirst
    <3>2. /\ prepare' \in [Slots -> PrepareRows \cup {Absent}]
          /\ \A q \in Slots \ {s} : prepare'[q] = prepare[q]
          /\ prepare'[s] # Absent /\ prepare'[s].phase = "compensating"
          /\ prepare'[s].epoch = prepare[s].epoch /\ prepare'[s].dropped = prepare[s].dropped
      BY <1>1, <1>2, <3>1, PhaseSet DEF Unfinished
    <3> QED BY <1>1, <2>0, <3>2 DEF RecordTypes, Touches
  <2>2. CASE CompensateResume(t, p)
    BY <1>1, <1>2, <2>0, <2>2
       DEF CompensateResume, CanResumeCompensating, journals, RecordTypes, Touches
  <2> QED BY <2>1, <2>2
<1> HIDE DEF saw, s
<1>4. SlotInv(s) /\ ~Phase(s, "prepared")
  BY <1>1, <1>2 DEF LifecycleInv, Phase, Unfinished
<1>5. cleanup[s] = Absent /\ \A x \in late : x.slot # s
  BY <1>1, <1>4, NothingLateYet
<1>6. /\ MyRole(s) /\ MyRole(s)' /\ (MyDatabase(s)' <=> MyDatabase(s))
  BY <1>1, <1>2, <1>4 DEF SlotInv, ActiveInv, Released, Phase, Unfinished, MyRole, MyDatabase
<1>7. SlotInv(s)'
  BY <1>1, <1>2, <1>3, <1>4, <1>5, <1>6
     DEF SlotInv, ActiveInv, JournalInv, LateInv, Phase, Released, Unfinished
<1>8. FencedStep("dropQuarantine", p)
  BY DEF FencedStep, GivingUpSteps
<1>9. StageInv(t)'
  <2>1. task'[t].at = "dropQuarantine" /\ task'[t].slot = s /\ task'[t].saw = saw
    BY <1>1, <1>8, Entered DEF s
  <2> QED BY <1>2, <1>3, <1>6, <2>1 DEF StageInv, At, Phase, GivingUpSteps, CleaningSteps
<1>10. SlotMove(s)
  BY <1>1, <1>2, <1>3 DEF SlotMove, StageOf, LevelOf, OpenOf, MyRole, Unfinished
<1> QED BY <1>1, <1>3, <1>7, <1>8, <1>9, <1>10, TaskBegins DEF s

\* The database of a slot that is given up is dropped if the run saw it.
LEMMA DropQuarantineHolds ==
  ASSUME LifecycleInv, NEW t \in Tasks, DropQuarantine(t) PROVE Kept
<1>1. PICK s : s = task[t].slot
  OBVIOUS
<1>2. /\ task[t].at = "dropQuarantine"
      /\ database' = IF task[t].saw THEN Absent ELSE database
      /\ Goto(t, "markDropped")
      /\ UNCHANGED <<prepare, cleanup, role, guards, sessions, lock, late>>
  BY DEF DropQuarantine, At, journals
<1>3. /\ s \in Slots /\ StageInv(t) /\ SlotInv(s) /\ FencedStep("markDropped", task[t].fence)
      /\ task[t].at \notin RaisingSteps \cup {"idle"}
  BY <1>1, <1>2, TaskAtWork
     DEF FencedStep, ReservingSteps, GivingUpSteps, CleaningSteps, RaisingSteps
<1>4. Phase(s, "compensating") /\ (task[t].saw <=> MyDatabase(s))
  BY <1>1, <1>2, <1>3 DEF StageInv, At, GivingUpSteps
<1>5. RecordTypes /\ RecordTypes'
  BY <1>2 DEF LifecycleInv, LifecycleTypes, RecordTypes
<1>6. ~MyDatabase(s)' /\ Touches(s)
  BY <1>2, <1>4, <1>5 DEF Touches, RecordTypes, MyDatabase
<1>7. \A x \in late : x.slot # s
  BY <1>3, <1>4, NothingLateYet DEF Phase
<1>8. MyRole(s)' <=> MyRole(s)
  BY <1>2 DEF MyRole
<1>9. SlotInv(s)'
  BY <1>2, <1>3, <1>4, <1>6, <1>7, <1>8
     DEF SlotInv, ActiveInv, JournalInv, LateInv, Phase, Released
<1>10. StageInv(t)'
  <2>1. task'[t].at = "markDropped" /\ task'[t].slot = s
    BY <1>1, <1>2, <1>3, GoneTo
  <2> QED BY <1>2, <1>4, <1>6, <2>1 DEF StageInv, At, Phase, GivingUpSteps, CleaningSteps
<1>11. SlotMove(s)
  BY <1>2 DEF SlotMove, StageOf, LevelOf, OpenOf, MyRole
<1> QED BY <1>1, <1>2, <1>3, <1>5, <1>6, <1>9, <1>10, <1>11, GoesOn

\* The tombstone of the database,
LEMMA MarkDroppedHolds ==
  ASSUME LifecycleInv, NEW t \in Tasks, MarkDropped(t) PROVE Kept
<1>1. PICK s : s = task[t].slot
  OBVIOUS
<1>2. /\ task[t].at = "markDropped"
      /\ prepare' = [prepare EXCEPT ![s] = [prepare[s] EXCEPT !.dropped = TRUE]]
      /\ Goto(t, "dropRoles")
      /\ UNCHANGED <<cleanup, role, database, guards, sessions, lock, late>>
  BY <1>1 DEF MarkDropped, At, catalog
<1>3. /\ s \in Slots /\ StageInv(t) /\ SlotInv(s) /\ FencedStep("dropRoles", task[t].fence)
      /\ task[t].at \notin RaisingSteps \cup {"idle"}
  BY <1>1, <1>2, TaskAtWork
     DEF FencedStep, ReservingSteps, GivingUpSteps, CleaningSteps, RaisingSteps
<1>4. Phase(s, "compensating") /\ ~MyDatabase(s)
  BY <1>1, <1>2, <1>3 DEF StageInv, At, GivingUpSteps
<1>5. RecordTypes
  BY DEF LifecycleInv, LifecycleTypes
<1>6. /\ prepare'[s] \in PrepareRows /\ prepare'[s].phase = "compensating"
      /\ prepare'[s].epoch = prepare[s].epoch
  BY <1>2, <1>3, <1>4, <1>5 DEF RecordTypes, PrepareRows, Phase
<1>7. prepare'[s] # Absent /\ RecordTypes' /\ Touches(s)
  BY <1>2, <1>3, <1>5, <1>6, AbsentAssumption DEF RecordTypes, Touches
<1>8. \A x \in late : x.slot # s
  BY <1>3, <1>4, NothingLateYet DEF Phase
<1>9. (MyRole(s)' <=> MyRole(s)) /\ ~MyDatabase(s)'
  BY <1>2, <1>4 DEF MyRole, MyDatabase
<1>10. SlotInv(s)'
  BY <1>2, <1>3, <1>4, <1>6, <1>7, <1>8, <1>9
     DEF SlotInv, ActiveInv, JournalInv, LateInv, Phase, Released
<1>11. StageInv(t)'
  <2>1. task'[t].at = "dropRoles" /\ task'[t].slot = s
    BY <1>1, <1>2, <1>3, GoneTo
  <2> QED BY <1>2, <1>6, <1>7, <1>9, <2>1
       DEF StageInv, At, Phase, GivingUpSteps, CleaningSteps
<1>12. SlotMove(s)
  BY <1>2, <1>4, <1>6, <1>7 DEF SlotMove, StageOf, LevelOf, OpenOf, MyRole, Phase
<1> QED BY <1>1, <1>2, <1>3, <1>7, <1>10, <1>11, <1>12, GoesOn

\* and the end of the slot.
LEMMA DropRolesHolds ==
  ASSUME LifecycleInv, NEW t \in Tasks, DropRoles(t) PROVE Kept
<1>1. PICK s : s = task[t].slot
  OBVIOUS
<1>2. /\ task[t].at = "dropRoles" /\ role' = Absent
      /\ guards' = guards \ {s}
      /\ SetPhase(s, "compensated") /\ Finish(t)
      /\ UNCHANGED <<cleanup, database, sessions, late>>
  BY <1>1 DEF DropRoles, At
<1>3. /\ s \in Slots /\ StageInv(t) /\ SlotInv(s) /\ task[t].at \in LockedSteps
  BY <1>1, <1>2, TaskAtWork DEF LockedSteps, GivingUpSteps
<1>4. Phase(s, "compensating") /\ ~MyDatabase(s)
  BY <1>1, <1>2, <1>3 DEF StageInv, At, GivingUpSteps
<1>5. RecordTypes
  BY DEF LifecycleInv, LifecycleTypes
<1>6. /\ prepare' \in [Slots -> PrepareRows \cup {Absent}]
      /\ \A q \in Slots \ {s} : prepare'[q] = prepare[q]
      /\ prepare'[s] # Absent /\ prepare'[s].phase = "compensated"
      /\ prepare'[s].epoch = prepare[s].epoch /\ prepare'[s].dropped = prepare[s].dropped
  BY <1>2, <1>3, <1>4, PhaseSet DEF Phase
<1>7. MyRole(s) /\ ~MyRole(s)' /\ ~MyDatabase(s)'
  BY <1>2, <1>3, <1>4 DEF SlotInv, ActiveInv, Released, Phase, MyRole, MyDatabase
<1>8. RecordTypes' /\ Touches(s)
  BY <1>2, <1>3, <1>5, <1>6, <1>7 DEF RecordTypes, Touches
<1>9. cleanup[s] = Absent /\ \A x \in late : x.slot # s
  BY <1>3, <1>4, NothingLateYet DEF Phase
<1>10. SlotInv(s)'
  BY <1>2, <1>6, <1>7, <1>9
     DEF SlotInv, ActiveInv, JournalInv, LateInv, Phase, Released, Unfinished
<1>11. SlotMove(s)
  BY <1>2, <1>3, <1>4, <1>6, <1>7
     DEF SlotMove, StageOf, LevelOf, OpenOf, SlotInv, ActiveInv, Phase
<1> QED BY <1>1, <1>2, <1>3, <1>8, <1>10, <1>11, Ends

-----------------------------------------------------------------------------
(* Raising the level, letting the application in                           *)

\* A raising task's next state, whatever lock it takes or leaves.
LEMMA RaisingMoves ==
  ASSUME LifecycleInv, NEW t \in Tasks, NEW s \in Slots, Touches(s),
         RecordTypes', SlotInv(s)', UNCHANGED sessions,
         NEW new \in RaisingTasks \cup {Idle}, task' = [task EXCEPT ![t] = new],
         new # Idle => new.slot = s /\ new.fence.slot = s,
         lock' = lock \/ Lock(t, s) \/ Unlock(s),
         lock[s] \in {t, Absent},
         \A q \in Slots \ {s} : lock[q] # t,
         lock'[s] = t <=> new.at \in {"commit", "grant"},
         StageInv(t)', SlotMove(s), task[t].at = "idle" \/ task[t].slot = s
  PROVE  Kept
<1>1. /\ lock \in [Slots -> Tasks \cup {Absent}]
      /\ task \in [Tasks -> FencedTasks \cup RaisingTasks \cup {Idle}]
  BY DEF LifecycleInv, LifecycleTypes
<1>2. /\ lock' \in [Slots -> Tasks \cup {Absent}] /\ lock'[s] \in {t, Absent}
      /\ \A q \in Slots \ {s} : lock'[q] = lock[q]
      /\ task' \in [Tasks -> FencedTasks \cup RaisingTasks \cup {Idle}]
      /\ task'[t] = new /\ \A u \in Tasks \ {t} : task'[u] = task[u]
  BY <1>1 DEF Lock, Unlock
<1>3. LifecycleTypes'
  BY <1>2 DEF LifecycleInv, LifecycleTypes
<1>4. TaskInv(t)'
  <2>1. CASE new = Idle
    <3>1. \A q \in Slots : lock'[q] # t
      BY <1>2, <2>1 DEF Idle
    <3> QED BY <1>2, <2>1, <3>1, IdleTask
  <2>2. CASE new # Idle
    <3>1. new \in RaisingTasks /\ new.slot = s /\ new.fence.slot = s
      BY <2>2
    <3>2. new.at \in LockedSteps <=> new.at \in {"commit", "grant"}
      BY <3>1 DEF RaisingTasks, RaisingSteps, LockedSteps, ReservingSteps, GivingUpSteps,
         CleaningSteps
    <3>3. HoldsInv(t)'
      BY <1>2, <3>1, <3>2 DEF HoldsInv
    <3> QED BY <1>2, <3>1, <3>3 DEF TaskInv
  <2> QED BY <2>1, <2>2
<1> QED BY <1>2, <1>3, <1>4, TaskMoves

\* A task outside the locked steps holds no lock.
LEMMA HoldsNothing ==
  ASSUME LifecycleInv, NEW t \in Tasks, task[t].at \notin LockedSteps
  PROVE  \A q \in Slots : lock[q] # t
BY DEF LifecycleInv, TaskInv, HoldsInv

\* The levels are those that follow another and the first.
LEMMA LevelsFollow ==
  /\ \A l \in DOMAIN Before : l \in Levels /\ Before[l] \in Levels
  /\ "verified" \in DOMAIN Before
BY DEF Before, Levels, Slot!Before, Slot!Levels

\* An inspection reads.
LEMMA InspectHolds ==
  ASSUME LifecycleInv, NEW t \in Tasks, NEW p \in Provisions, NEW l \in DOMAIN Before,
         Inspect(t, p, l)
  PROVE  Kept
<1> DEFINE s == p.slot
           step == IF l = "verified" /\ role.level = l THEN "activate" ELSE "apply"
           new == [at |-> step, slot |-> s, fence |-> p, saw |-> role.level, to |-> l]
<1>1. /\ task[t].at = "idle" /\ lock[s] = Absent
      /\ role.level \in {Before[l], l}
      /\ task' = [task EXCEPT ![t] = new]
      /\ UNCHANGED <<journals, catalog, sessions, lock, late>>
  BY DEF Inspect, At
<1>2. s \in Slots /\ role.level \in Levels
  BY <1>1, TenantAssumption, LevelsFollow
<1>3. step \in {"activate", "apply"}
  OBVIOUS
<1>4. new \in RaisingTasks /\ new.slot = s /\ new.fence.slot = s
      /\ new.at \notin {"commit", "grant"}
  BY <1>2, <1>3 DEF RaisingTasks, RaisingSteps
<1>5. RecordTypes' /\ Touches(s) /\ SlotMove(s) /\ SlotInv(s)'
  BY <1>1, <1>2, RowsStay
<1>6. \A q \in Slots : lock[q] # t
  BY <1>1, HoldsNothing DEF LockedSteps, ReservingSteps, GivingUpSteps, CleaningSteps
<1>7. task'[t].at \in {"activate", "apply"}
  BY <1>1, <1>3 DEF LifecycleInv, LifecycleTypes
<1>8. StageInv(t)'
  BY <1>7 DEF StageInv, At, GivingUpSteps, CleaningSteps
<1> HIDE DEF s, step, new
<1> QED BY <1>1, <1>2, <1>4, <1>5, <1>6, <1>8, RaisingMoves

\* A transaction that finds its level applied goes on; the other begins.
LEMMA ApplyHolds ==
  ASSUME LifecycleInv, NEW t \in Tasks, Apply(t) PROVE Kept
<1>1. PICK s : s = task[t].slot
  OBVIOUS
<1>2. /\ task[t].at = "apply" /\ Prepared(task[t].fence) /\ ~role.login /\ NothingLate(s)
      /\ UNCHANGED <<journals, catalog, sessions, late>>
  BY <1>1 DEF Apply, At
<1>3. /\ s \in Slots /\ task[t].fence.slot = s /\ task[t] \in RaisingTasks
  BY <1>1, <1>2, TaskAtWork DEF RaisingSteps
<1>4. RecordTypes' /\ Touches(s) /\ SlotMove(s) /\ SlotInv(s)'
  BY <1>2, <1>3, RowsStay
<1>5. \A q \in Slots : lock[q] # t
  BY <1>2, HoldsNothing DEF LockedSteps, ReservingSteps, GivingUpSteps, CleaningSteps
<1>6. task \in [Tasks -> FencedTasks \cup RaisingTasks \cup {Idle}]
  BY DEF LifecycleInv, LifecycleTypes
<1>7. CASE lock[s] = Absent /\ AfterApply(t) /\ UNCHANGED lock
  <2> DEFINE new == IF task[t].to = "verified" THEN [task[t] EXCEPT !.at = "activate"] ELSE Idle
  <2>1. task' = [task EXCEPT ![t] = new]
    BY <1>7 DEF AfterApply
  <2>2. /\ new \in RaisingTasks \cup {Idle} /\ (new # Idle => new.slot = s /\ new.fence.slot = s)
        /\ new.at \in {"activate", "idle"}
    BY <1>1, <1>3 DEF RaisingTasks, RaisingSteps, Idle
  <2>3. task'[t].at \in {"activate", "idle"}
    BY <1>6, <2>1, <2>2
  <2>4. StageInv(t)'
    BY <2>3 DEF StageInv, At, GivingUpSteps, CleaningSteps
  <2> HIDE DEF new
  <2> QED BY <1>1, <1>2, <1>3, <1>4, <1>5, <1>7, <2>1, <2>2, <2>4, TenantAssumption,
       RaisingMoves
<1>8. CASE role.level = Before[task[t].to] /\ Lock(t, s) /\ Goto(t, "commit")
  <2> DEFINE new == [task[t] EXCEPT !.at = "commit"]
  <2>1. task' = [task EXCEPT ![t] = new]
    BY <1>8 DEF Goto
  <2>2. /\ new \in RaisingTasks /\ new.slot = s /\ new.fence.slot = s
        /\ new.at = "commit" /\ new.to = task[t].to
    BY <1>1, <1>3 DEF RaisingTasks, RaisingSteps
  <2>3. task'[t].at = "commit" /\ task'[t].slot = s /\ task'[t].to = task[t].to
    BY <1>6, <2>1, <2>2
  <2>4. lock[s] = Absent /\ lock'[s] = t
    BY <1>3, <1>8 DEF Lock, LifecycleInv, LifecycleTypes
  <2>5. StageInv(t)'
    <3>1. Phase(s, "prepared") /\ cleanup[s] = Absent
      BY <1>2, <1>3 DEF Prepared, NotCleaning, Phase
    <3>2. UNCHANGED <<prepare, cleanup, role, late>>
      BY <1>2 DEF journals, catalog
    <3> QED BY <1>2, <1>8, <2>3, <3>1, <3>2
         DEF StageInv, At, Phase, NothingLate, GivingUpSteps, CleaningSteps
  <2> HIDE DEF new
  <2> QED BY <1>1, <1>2, <1>3, <1>4, <1>5, <1>8, <2>1, <2>2, <2>4, <2>5, RaisingMoves
<1> QED BY <1>1, <1>7, <1>8 DEF Apply

\* The commit of a level.
LEMMA CommitHolds ==
  ASSUME LifecycleInv, NEW t \in Tasks, Commit(t) PROVE Kept
<1>1. PICK s : s = task[t].slot
  OBVIOUS
<1>2. /\ task[t].at = "commit" /\ role' = [role EXCEPT !.level = task[t].to]
      /\ AfterApply(t) /\ Unlock(s)
      /\ UNCHANGED <<prepare, cleanup, database, guards, sessions, late>>
  BY <1>1 DEF Commit, At, journals
<1>3. /\ s \in Slots /\ task[t].fence.slot = s /\ task[t] \in RaisingTasks
      /\ StageInv(t) /\ SlotInv(s) /\ lock[s] = t /\ TaskInv(t)
  BY <1>1, <1>2, TaskAtWork DEF RaisingSteps, LockedSteps
<1>4. Phase(s, "prepared") /\ cleanup[s] = Absent /\ NothingLate(s) /\ ~role.login
  BY <1>1, <1>2, <1>3 DEF StageInv, At
<1>5. MyRole(s)
  BY <1>3, <1>4 DEF SlotInv, ActiveInv, Released, Phase
<1>6. RecordTypes /\ task[t].to \in Levels
  BY <1>3, LevelsFollow DEF LifecycleInv, LifecycleTypes, RaisingTasks
<1>7. role' \in RoleRows /\ role'.by = s /\ ~role'.login /\ role'.level = task[t].to
  BY <1>2, <1>4, <1>5, <1>6 DEF RecordTypes, RoleRows, MyRole
<1>8. role' # Absent /\ MyRole(s)' /\ RecordTypes'
  BY <1>2, <1>6, <1>7, AbsentAssumption DEF RecordTypes, MyRole
<1>9. Touches(s)
  BY <1>2, <1>5, <1>6, <1>8 DEF Touches, RecordTypes
<1>10. MyDatabase(s)' <=> MyDatabase(s)
  BY <1>2 DEF MyDatabase
<1>11. SlotInv(s)'
  BY <1>2, <1>3, <1>4, <1>5, <1>7, <1>8, <1>10
     DEF SlotInv, ActiveInv, JournalInv, LateInv, Phase, Released, NothingLate
<1> DEFINE new == IF task[t].to = "verified" THEN [task[t] EXCEPT !.at = "activate"] ELSE Idle
<1>12. task' = [task EXCEPT ![t] = new]
  BY <1>2 DEF AfterApply
<1>13. /\ new \in RaisingTasks \cup {Idle} /\ (new # Idle => new.slot = s /\ new.fence.slot = s)
       /\ new.at \in {"activate", "idle"}
  BY <1>1, <1>3 DEF RaisingTasks, RaisingSteps, Idle
<1>14. task'[t].at \in {"activate", "idle"}
  BY <1>12, <1>13 DEF LifecycleInv, LifecycleTypes
<1>15. StageInv(t)'
  BY <1>14 DEF StageInv, At, GivingUpSteps, CleaningSteps
<1>16. lock'[s] = Absent /\ \A q \in Slots \ {s} : lock[q] # t
  BY <1>1, <1>2, <1>3 DEF Unlock, TaskInv, HoldsInv, LifecycleInv, LifecycleTypes
<1> HIDE DEF new
<1>17. SlotMove(s)
  <2>1. task[t].to \in DOMAIN Before /\ role.level = Before[task[t].to]
    BY <1>1, <1>2, <1>3 DEF StageInv, At, RaisingTasks
  <2>2. StageOf(s) = "ready" /\ StageOf(s)' = "ready"
    BY <1>2, <1>4 DEF StageOf, Phase
  <2>3. LevelOf(s) = Before[task[t].to] /\ LevelOf(s)' = task[t].to
    BY <1>5, <1>7, <1>8, <2>1 DEF LevelOf
  <2>4. ~OpenOf(s) /\ ~OpenOf(s)'
    BY <1>4, <1>7 DEF OpenOf
  <2> QED BY <2>1, <2>2, <2>3, <2>4 DEF SlotMove
<1> QED BY <1>1, <1>2, <1>3, <1>8, <1>9, <1>11, <1>12, <1>13, <1>15, <1>16, <1>17,
     TenantAssumption, RaisingMoves

\* The activation of a verified database begins, unless it is done.
LEMMA ActivateHolds ==
  ASSUME LifecycleInv, NEW t \in Tasks, Activate(t) PROVE Kept
<1>1. PICK s : s = task[t].slot
  OBVIOUS
<1>2. /\ task[t].at = "activate" /\ Prepared(task[t].fence) /\ role.level = "verified"
      /\ lock[s] = Absent
      /\ UNCHANGED <<journals, catalog, sessions, late>>
  BY <1>1 DEF Activate, At
<1>3. /\ s \in Slots /\ task[t].fence.slot = s /\ task[t] \in RaisingTasks
  BY <1>1, <1>2, TaskAtWork DEF RaisingSteps
<1>4. RecordTypes' /\ Touches(s) /\ SlotMove(s) /\ SlotInv(s)'
  BY <1>2, <1>3, RowsStay
<1>5. \A q \in Slots : lock[q] # t
  BY <1>2, HoldsNothing DEF LockedSteps, ReservingSteps, GivingUpSteps, CleaningSteps
<1>6. task \in [Tasks -> FencedTasks \cup RaisingTasks \cup {Idle}]
  BY DEF LifecycleInv, LifecycleTypes
<1>7. CASE role.login
  <2>1. task' = [task EXCEPT ![t] = Idle] /\ UNCHANGED lock /\ Idle.at = "idle"
    BY <1>2, <1>7 DEF Activate, Idle
  <2>2. task'[t].at = "idle"
    BY <1>6, <2>1
  <2>3. StageInv(t)'
    BY <2>2 DEF StageInv, At, GivingUpSteps, CleaningSteps
  <2> QED BY <1>1, <1>2, <1>3, <1>4, <1>5, <2>1, <2>3, TenantAssumption, RaisingMoves
<1>8. CASE ~role.login
  <2> DEFINE new == [task[t] EXCEPT !.at = "grant"]
  <2>1. task' = [task EXCEPT ![t] = new] /\ NothingLate(s) /\ Lock(t, s)
    BY <1>1, <1>8 DEF Activate, Goto
  <2>2. /\ new \in RaisingTasks /\ new.slot = s /\ new.fence.slot = s /\ new.at = "grant"
    BY <1>1, <1>3 DEF RaisingTasks, RaisingSteps
  <2>3. task'[t].at = "grant" /\ task'[t].slot = s
    BY <1>6, <2>1, <2>2
  <2>4. lock[s] = Absent /\ lock'[s] = t
    BY <1>3, <2>1 DEF Lock, LifecycleInv, LifecycleTypes
  <2>5. StageInv(t)'
    <3>1. Phase(s, "prepared") /\ cleanup[s] = Absent
      BY <1>2, <1>3 DEF Prepared, NotCleaning, Phase
    <3>2. UNCHANGED <<prepare, cleanup, role, late>>
      BY <1>2 DEF journals, catalog
    <3> QED BY <1>2, <1>8, <2>1, <2>3, <3>1, <3>2
         DEF StageInv, At, Phase, NothingLate, GivingUpSteps, CleaningSteps
  <2> HIDE DEF new
  <2> QED BY <1>1, <1>2, <1>3, <1>4, <1>5, <2>1, <2>2, <2>4, <2>5, RaisingMoves
<1> QED BY <1>7, <1>8

\* The application is let in.
LEMMA GrantHolds ==
  ASSUME LifecycleInv, NEW t \in Tasks, Grant(t) PROVE Kept
<1>1. PICK s : s = task[t].slot
  OBVIOUS
<1>2. /\ task[t].at = "grant" /\ role' = [role EXCEPT !.login = TRUE] /\ Finish(t)
      /\ UNCHANGED <<prepare, cleanup, database, guards, sessions, late>>
  BY DEF Grant, At, journals
<1>3. s \in Slots /\ StageInv(t) /\ SlotInv(s) /\ task[t].at \in LockedSteps
  BY <1>1, <1>2, TaskAtWork DEF LockedSteps
<1>4. /\ Phase(s, "prepared") /\ cleanup[s] = Absent /\ NothingLate(s)
      /\ role.level = "verified"
  BY <1>1, <1>2, <1>3 DEF StageInv, At
<1>5. MyRole(s) /\ MyDatabase(s) /\ database.allow
  BY <1>3, <1>4 DEF SlotInv, ActiveInv, JournalInv, Released, Phase
<1>6. RecordTypes
  BY DEF LifecycleInv, LifecycleTypes
<1>7. role' \in RoleRows /\ role'.by = s /\ role'.level = "verified"
  BY <1>2, <1>4, <1>5, <1>6 DEF RecordTypes, RoleRows, MyRole
<1>8. role' # Absent /\ MyRole(s)' /\ RecordTypes'
  BY <1>2, <1>6, <1>7, AbsentAssumption DEF RecordTypes, MyRole
<1>9. Touches(s) /\ MyDatabase(s)'
  BY <1>2, <1>5, <1>6, <1>8 DEF Touches, RecordTypes, MyDatabase
<1>10. SlotInv(s)'
  BY <1>2, <1>3, <1>4, <1>5, <1>7, <1>8, <1>9
     DEF SlotInv, ActiveInv, JournalInv, LateInv, Phase, Released, NothingLate
<1>11. SlotMove(s)
  BY <1>2, <1>4, <1>5, <1>7, <1>8 DEF SlotMove, StageOf, LevelOf, OpenOf, Phase
<1> QED BY <1>1, <1>2, <1>3, <1>8, <1>9, <1>10, <1>11, Ends

-----------------------------------------------------------------------------
(* Destroying                                                              *)

\* A cleanup begins or is resumed by reading.
LEMMA DestroysBegin ==
  ASSUME LifecycleInv, NEW t \in Tasks, NEW c \in Cleanups,
         DestroyFirst(t, c) \/ DestroyResume(t, c)
  PROVE  Kept
<1> DEFINE s == c.slot
           saw == IF DestroyFirst(t, c) THEN TRUE ELSE database # Absent
           step == IF DestroyFirst(t, c) THEN "claim"
                   ELSE IF database # Absent THEN "retire"
                   ELSE IF cleanup[s].dropped THEN "dropRole" ELSE "markDatabase"
<1>1. /\ s \in Slots /\ Enter(t, c, step, saw) /\ saw \in BOOLEAN /\ CleanupOwns(c)
      /\ UNCHANGED <<journals, catalog, sessions, late>>
  BY TenantAssumption DEF DestroyFirst, DestroyResume, CanResumeCleanup
<1>2. /\ step \in {"claim", "retire", "dropRole", "markDatabase"}
      /\ step = "claim" => cleanup[s] = Absent
      /\ step # "claim" => cleanup[s] # Absent /\ cleanup[s].phase = "destroying"
      /\ step = "retire" <=> step # "claim" /\ database # Absent
  BY DEF DestroyFirst, DestroyResume, CanResumeCleanup
<1>3. FencedStep(step, c)
  BY <1>2 DEF FencedStep, CleaningSteps
<1>4. RecordTypes' /\ Touches(s) /\ SlotMove(s) /\ SlotInv(s)'
  BY <1>1, RowsStay
<1> HIDE DEF s, step, saw
<1>5. task'[t].at = step /\ task'[t].slot = s /\ task'[t].fence = c
  BY <1>1, <1>3, Entered DEF s
<1>6. StageInv(t)'
  <2>1. /\ Phase(s, "prepared") /\ prepare[s].epoch = c.pred
        /\ database # Absent <=> MyDatabase(s)
    BY <1>1 DEF CleanupOwns, Phase, MyDatabase, s
  <2>2. UNCHANGED <<prepare, cleanup, role, database, late>>
    BY <1>1 DEF journals, catalog
  <2> QED BY <1>2, <1>5, <2>1, <2>2
       DEF StageInv, At, Phase, Destroying, MyDatabase, GivingUpSteps, CleaningSteps
<1> QED BY <1>1, <1>3, <1>4, <1>6, TaskBegins DEF s

\* The claim of the slot,
LEMMA ClaimHolds ==
  ASSUME LifecycleInv, NEW t \in Tasks, Claim(t) PROVE Kept
<1>1. PICK s : s = task[t].slot
  OBVIOUS
<1> DEFINE row == [fence |-> task[t].fence, phase |-> "destroying", dropped |-> FALSE]
<1>2. /\ task[t].at = "claim" /\ cleanup' = [cleanup EXCEPT ![s] = row]
      /\ Goto(t, "retire")
      /\ UNCHANGED <<prepare, role, database, guards, sessions, lock, late>>
  BY <1>1 DEF Claim, At, catalog
<1>3. /\ s \in Slots /\ StageInv(t) /\ SlotInv(s) /\ FencedStep("retire", task[t].fence)
      /\ task[t].at \notin RaisingSteps \cup {"idle"} /\ task[t].fence.slot = s
      /\ task[t].fence \in Cleanups
  BY <1>1, <1>2, TaskAtWork
     DEF FencedStep, ReservingSteps, GivingUpSteps, CleaningSteps, RaisingSteps
<1>4. Phase(s, "prepared") /\ cleanup[s] = Absent /\ prepare[s].epoch = task[t].fence.pred
  BY <1>1, <1>2, <1>3 DEF StageInv, At
<1>5. RecordTypes
  BY DEF LifecycleInv, LifecycleTypes
<1>6. row \in CleanupRows /\ row # Absent
  <2>1. row \in CleanupRows
    BY <1>3 DEF CleanupRows
  <2> QED BY <2>1, AbsentAssumption
<1>7. cleanup'[s] = row /\ RecordTypes' /\ Touches(s)
  BY <1>2, <1>3, <1>5, <1>6 DEF RecordTypes, Touches
<1>8. MyDatabase(s) /\ MyDatabase(s)' /\ (MyRole(s)' <=> MyRole(s))
  BY <1>2, <1>3, <1>4 DEF SlotInv, JournalInv, MyDatabase, MyRole
<1>9. SlotInv(s)'
  BY <1>2, <1>3, <1>4, <1>6, <1>7, <1>8
     DEF SlotInv, ActiveInv, JournalInv, LateInv, Phase, Released
<1>10. StageInv(t)'
  <2>1. task'[t].at = "retire" /\ task'[t].slot = s
    BY <1>1, <1>2, <1>3, GoneTo
  <2> QED BY <1>6, <1>7, <1>8, <2>1
       DEF StageInv, At, Destroying, GivingUpSteps, CleaningSteps
<1>11. SlotMove(s)
  BY <1>2, <1>4, <1>6, <1>7 DEF SlotMove, StageOf, LevelOf, OpenOf, MyRole, Phase
<1> QED BY <1>1, <1>2, <1>3, <1>7, <1>9, <1>10, <1>11, GoesOn

\* the application put out,
LEMMA RetireHolds ==
  ASSUME LifecycleInv, NEW t \in Tasks, Retire(t) PROVE Kept
<1>1. PICK s : s = task[t].slot
  OBVIOUS
<1>2. /\ task[t].at = "retire" /\ \A x \in late : x.slot = s => x.what # "grant"
      /\ role' = [role EXCEPT !.login = FALSE]
      /\ database' = [database EXCEPT !.allow = FALSE]
      /\ Goto(t, "dropDatabase")
      /\ UNCHANGED <<prepare, cleanup, guards, sessions, lock, late>>
  BY <1>1 DEF Retire, At, journals
<1>3. /\ s \in Slots /\ StageInv(t) /\ SlotInv(s) /\ FencedStep("dropDatabase", task[t].fence)
      /\ task[t].at \notin RaisingSteps \cup {"idle"}
  BY <1>1, <1>2, TaskAtWork
     DEF FencedStep, ReservingSteps, GivingUpSteps, CleaningSteps, RaisingSteps
<1>4. Destroying(s) /\ MyDatabase(s)
  BY <1>1, <1>2, <1>3 DEF StageInv, At, CleaningSteps
<1>5. MyRole(s) /\ Phase(s, "prepared")
  BY <1>3, <1>4 DEF SlotInv, ActiveInv, JournalInv, Destroying
<1>6. RecordTypes
  BY DEF LifecycleInv, LifecycleTypes
<1>7. /\ role' \in RoleRows /\ role'.by = s /\ ~role'.login /\ role'.level = role.level
      /\ database' \in DatabaseRows /\ database'.by = s /\ database'.owner = database.owner
  BY <1>2, <1>4, <1>5, <1>6 DEF RecordTypes, RoleRows, DatabaseRows, MyRole, MyDatabase
<1>8. /\ role' # Absent /\ MyRole(s)' /\ database' # Absent /\ MyDatabase(s)'
      /\ RecordTypes'
  BY <1>2, <1>6, <1>7, AbsentAssumption DEF RecordTypes, MyRole, MyDatabase
<1>9. Touches(s)
  BY <1>2, <1>4, <1>5, <1>6, <1>8 DEF Touches, RecordTypes
<1>10. SlotInv(s)'
  BY <1>2, <1>3, <1>4, <1>5, <1>7, <1>8
     DEF SlotInv, ActiveInv, JournalInv, LateInv, Phase, Released, Destroying
<1>11. StageInv(t)'
  <2>1. task'[t].at = "dropDatabase" /\ task'[t].slot = s
    BY <1>1, <1>2, <1>3, GoneTo
  <2> QED BY <1>2, <1>4, <1>7, <1>8, <2>1
       DEF StageInv, At, Destroying, GivingUpSteps, CleaningSteps
<1>12. SlotMove(s)
  BY <1>2, <1>4, <1>5, <1>7, <1>8
     DEF SlotMove, StageOf, LevelOf, OpenOf, Phase, Destroying
<1> QED BY <1>1, <1>2, <1>3, <1>8, <1>9, <1>10, <1>11, <1>12, GoesOn

\* the database dropped when nobody is connected,
LEMMA DropDatabaseHolds ==
  ASSUME LifecycleInv, NEW t \in Tasks, DropDatabase(t) PROVE Kept
<1>1. PICK s : s = task[t].slot
  OBVIOUS
<1>2. /\ task[t].at = "dropDatabase" /\ NothingLate(s) /\ database' = Absent
      /\ Goto(t, "markDatabase")
      /\ UNCHANGED <<prepare, cleanup, role, guards, sessions, lock, late>>
  BY <1>1 DEF DropDatabase, At, journals
<1>3. /\ s \in Slots /\ StageInv(t) /\ SlotInv(s) /\ FencedStep("markDatabase", task[t].fence)
      /\ task[t].at \notin RaisingSteps \cup {"idle"}
  BY <1>1, <1>2, TaskAtWork
     DEF FencedStep, ReservingSteps, GivingUpSteps, CleaningSteps, RaisingSteps
<1>4. Destroying(s) /\ MyDatabase(s) /\ ~role.login
  BY <1>1, <1>2, <1>3 DEF StageInv, At, CleaningSteps
<1>5. MyRole(s) /\ MyRole(s)' /\ ~MyDatabase(s)'
  BY <1>2, <1>3, <1>4 DEF SlotInv, ActiveInv, MyRole, MyDatabase
<1>6. RecordTypes /\ RecordTypes'
  BY <1>2 DEF LifecycleInv, LifecycleTypes, RecordTypes
<1>7. Touches(s)
  BY <1>2, <1>4, <1>6 DEF Touches, RecordTypes
<1>8. SlotInv(s)'
  BY <1>2, <1>3, <1>4, <1>5
     DEF SlotInv, ActiveInv, JournalInv, LateInv, Phase, Released, Destroying, NothingLate
<1>9. StageInv(t)'
  <2>1. task'[t].at = "markDatabase" /\ task'[t].slot = s
    BY <1>1, <1>2, <1>3, GoneTo
  <2> QED BY <1>2, <1>4, <1>5, <2>1
       DEF StageInv, At, Destroying, GivingUpSteps, CleaningSteps
<1>10. SlotMove(s)
  BY <1>2 DEF SlotMove, StageOf, LevelOf, OpenOf, MyRole
<1> QED BY <1>1, <1>2, <1>3, <1>6, <1>7, <1>8, <1>9, <1>10, GoesOn

\* its tombstone,
LEMMA MarkDatabaseHolds ==
  ASSUME LifecycleInv, NEW t \in Tasks, MarkDatabase(t) PROVE Kept
<1>1. PICK s : s = task[t].slot
  OBVIOUS
<1>2. /\ task[t].at = "markDatabase"
      /\ cleanup' = [cleanup EXCEPT ![s] = [cleanup[s] EXCEPT !.dropped = TRUE]]
      /\ Goto(t, "dropRole")
      /\ UNCHANGED <<prepare, role, database, guards, sessions, lock, late>>
  BY <1>1 DEF MarkDatabase, At, catalog
<1>3. /\ s \in Slots /\ StageInv(t) /\ SlotInv(s) /\ FencedStep("dropRole", task[t].fence)
      /\ task[t].at \notin RaisingSteps \cup {"idle"}
  BY <1>1, <1>2, TaskAtWork
     DEF FencedStep, ReservingSteps, GivingUpSteps, CleaningSteps, RaisingSteps
<1>4. Destroying(s) /\ ~MyDatabase(s)
  BY <1>1, <1>2, <1>3 DEF StageInv, At, CleaningSteps
<1>5. RecordTypes
  BY DEF LifecycleInv, LifecycleTypes
<1>6. /\ cleanup'[s] \in CleanupRows /\ cleanup'[s].phase = "destroying"
      /\ cleanup'[s].fence = cleanup[s].fence
  BY <1>2, <1>3, <1>4, <1>5 DEF RecordTypes, CleanupRows, Destroying
<1>7. cleanup'[s] # Absent /\ RecordTypes' /\ Touches(s)
  BY <1>2, <1>3, <1>5, <1>6, AbsentAssumption DEF RecordTypes, Touches
<1>8. ~MyDatabase(s)' /\ (MyRole(s)' <=> MyRole(s))
  BY <1>2, <1>4 DEF MyDatabase, MyRole
<1>9. SlotInv(s)'
  BY <1>2, <1>3, <1>4, <1>6, <1>7, <1>8
     DEF SlotInv, ActiveInv, JournalInv, LateInv, Phase, Released, Destroying
<1>10. StageInv(t)'
  <2>1. task'[t].at = "dropRole" /\ task'[t].slot = s
    BY <1>1, <1>2, <1>3, GoneTo
  <2> QED BY <1>6, <1>7, <1>8, <2>1
       DEF StageInv, At, Destroying, GivingUpSteps, CleaningSteps
<1>11. SlotMove(s)
  BY <1>2, <1>4, <1>6, <1>7
     DEF SlotMove, StageOf, LevelOf, OpenOf, MyRole, Destroying
<1> QED BY <1>1, <1>2, <1>3, <1>7, <1>9, <1>10, <1>11, GoesOn

\* and the role, with which the slot is released.
LEMMA DropRoleHolds ==
  ASSUME LifecycleInv, NEW t \in Tasks, DropRole(t) PROVE Kept
<1>1. PICK s : s = task[t].slot
  OBVIOUS
<1>2. /\ task[t].at = "dropRole" /\ MyRole(s) /\ ~role.login /\ role' = Absent
      /\ cleanup' = [cleanup EXCEPT ![s] = [cleanup[s] EXCEPT !.phase = "destroyed"]]
      /\ Finish(t)
      /\ UNCHANGED <<prepare, database, guards, sessions, late>>
  BY <1>1 DEF DropRole, At
<1>3. s \in Slots /\ StageInv(t) /\ SlotInv(s) /\ task[t].at \in LockedSteps
  BY <1>1, <1>2, TaskAtWork DEF LockedSteps, CleaningSteps
<1>4. Destroying(s) /\ ~MyDatabase(s)
  BY <1>1, <1>2, <1>3 DEF StageInv, At, CleaningSteps
<1>5. RecordTypes
  BY DEF LifecycleInv, LifecycleTypes
<1>6. /\ cleanup'[s] \in CleanupRows /\ cleanup'[s].phase = "destroyed"
      /\ cleanup'[s].fence = cleanup[s].fence /\ cleanup'[s].dropped = cleanup[s].dropped
  BY <1>2, <1>3, <1>4, <1>5 DEF RecordTypes, CleanupRows, Destroying
<1>7. /\ cleanup'[s] # Absent /\ RecordTypes' /\ Touches(s)
      /\ ~MyRole(s)' /\ ~MyDatabase(s)'
  BY <1>2, <1>3, <1>4, <1>5, <1>6, AbsentAssumption
     DEF RecordTypes, Touches, MyRole, MyDatabase
<1>8. SlotInv(s)'
  BY <1>2, <1>3, <1>4, <1>6, <1>7
     DEF SlotInv, ActiveInv, JournalInv, LateInv, Phase, Released, Destroying, Unfinished
<1>9. SlotMove(s)
  BY <1>2, <1>3, <1>4, <1>6, <1>7
     DEF SlotMove, StageOf, LevelOf, OpenOf, SlotInv, JournalInv, Phase, Destroying
<1> QED BY <1>1, <1>2, <1>3, <1>7, <1>8, <1>9, Ends

-----------------------------------------------------------------------------
(* Failures and the world outside                                          *)

\* A step that no task takes, of at most one slot.
LEMMA WorldMoves ==
  ASSUME LifecycleInv, NEW s, Touches(s), RecordTypes', sessions' \in BOOLEAN,
         UNCHANGED <<lock, task>>,
         s \in Slots => SlotMove(s) /\ SlotInv(s)', s \in Slots \/ StrangerInv',
         \A u \in Tasks : task[u].at \in LockedSteps /\ task[u].slot = s => StageInv(u)'
  PROVE  Kept
<1>1. LifecycleTypes'
  BY DEF LifecycleInv, LifecycleTypes
<1>2. \A q \in Slots : SlotInv(q)'
  BY OtherSlots
<1>3. ASSUME NEW u \in Tasks PROVE TaskInv(u)'
  <2>1. CASE task[u].at \in LockedSteps /\ task[u].slot = s
    BY <2>1 DEF LifecycleInv, TaskInv, HoldsInv
  <2>2. CASE task[u].at \in LockedSteps => task[u].slot # s
    BY <2>2, OtherTasks
  <2> QED BY <2>1, <2>2
<1>4. StrangerInv'
  BY TenantAssumption DEF LifecycleInv, StrangerInv, Touches, MyRole
<1>5. Implements /\ OthersKept
  BY SlotMoves DEF OthersKept
<1> QED BY <1>1, <1>2, <1>3, <1>4, <1>5 DEF Kept, LifecycleInv

\* A task that stops frees its lock; its COMMIT may still be on the way.
LEMMA StopHolds ==
  ASSUME LifecycleInv, NEW t \in Tasks, Stop(t) PROVE Kept
<1>1. PICK s : s = task[t].slot
  OBVIOUS
<1>2. /\ task[t].at # "idle" /\ task' = [task EXCEPT ![t] = Idle]
      /\ lock' = [q \in Slots |-> IF lock[q] = t THEN Absent ELSE lock[q]]
      /\ UNCHANGED <<prepare, cleanup, role, database, guards, sessions>>
  BY DEF Stop, At, journals, catalog
<1>3. s \in Slots /\ StageInv(t) /\ SlotInv(s) /\ TaskInv(t)
  BY <1>1, <1>2, TaskAtWork
<1>4. LifecycleTypes
  BY DEF LifecycleInv
<1>5. /\ task'[t] = Idle /\ \A u \in Tasks \ {t} : task'[u] = task[u]
      /\ task' \in [Tasks -> FencedTasks \cup RaisingTasks \cup {Idle}]
      /\ lock' \in [Slots -> Tasks \cup {Absent}]
      /\ \A q \in Slots : lock'[q] # t /\ (lock[q] # t => lock'[q] = lock[q])
  BY <1>2, <1>4, TenantAssumption DEF LifecycleTypes
<1>6. TaskInv(t)'
  BY <1>5, IdleTask
<1>7. CASE task[t].at \notin LockedSteps
  <2>1. UNCHANGED late
    BY <1>7 DEF Stop, At, LockedSteps
  <2>2. \A q \in Slots : lock'[q] = lock[q]
    BY <1>5, <1>7, HoldsNothing
  <2>3. Touches(Outsider)
    BY <1>2, <1>4, <2>1 DEF Touches, LifecycleTypes, RecordTypes
  <2>4. LifecycleTypes'
    BY <1>2, <1>4, <1>5, <2>1 DEF LifecycleTypes, RecordTypes
  <2>5. ASSUME NEW u \in Tasks \ {t} PROVE TaskInv(u)'
    <3>1. task[u].at \in LockedSteps => task[u].slot \in Slots
      BY TaskAtWork DEF LockedSteps, ReservingSteps, GivingUpSteps, CleaningSteps
    <3> QED BY <1>5, <2>2, <2>3, <3>1, TenantAssumption, OtherTasks
  <2>6. ASSUME NEW q \in Slots PROVE SlotInv(q)'
    BY <2>3, TenantAssumption, OtherSlots
  <2>7. Implements
    BY <2>3, TenantAssumption, SlotMoves
  <2>8. OthersKept
    BY <1>2 DEF OthersKept
  <2> QED BY <1>2, <1>6, <2>4, <2>5, <2>6, <2>7, <2>8 DEF Kept, LifecycleInv, StrangerInv
<1>8. CASE task[t].at \in LockedSteps
  <2>1. lock[s] = t /\ \A q \in Slots \ {s} : lock[q] # t
    BY <1>1, <1>3, <1>8 DEF TaskInv, HoldsInv
  <2>2. PICK new \in SUBSET LateCommits :
          /\ late' = late \cup new
          /\ \/ new = {}
             \/ At(t, "commit") /\ new = {[slot |-> s, what |-> task[t].to]}
             \/ At(t, "grant") /\ new = {[slot |-> s, what |-> "grant"]}
    <3>1. late' = late \/ \E x \in LateCommits :
            /\ late' = late \cup {x} /\ x.slot = s
            /\ \/ At(t, "commit") /\ x = [slot |-> s, what |-> task[t].to]
               \/ At(t, "grant") /\ x = [slot |-> s, what |-> "grant"]
      <4>1. CASE At(t, "commit") /\ late' = late \cup {[slot |-> s, what |-> task[t].to]}
        <5>1. task[t].to \in DOMAIN Before
          BY <4>1, TaskAtWork DEF At, RaisingSteps, RaisingTasks
        <5> QED BY <1>3, <4>1, <5>1 DEF LateCommits
      <4>2. CASE At(t, "grant") /\ late' = late \cup {[slot |-> s, what |-> "grant"]}
        BY <1>3, <4>2 DEF LateCommits
      <4> QED BY <1>1, <4>1, <4>2 DEF Stop
    <3> QED BY <3>1
  <2>3. RecordTypes' /\ LifecycleTypes'
    BY <1>2, <1>4, <1>5, <2>2 DEF LifecycleTypes, RecordTypes
  <2>4. Touches(s)
    BY <1>2, <1>4, <2>2 DEF Touches, LifecycleTypes, RecordTypes
  <2>5. (MyRole(s)' <=> MyRole(s)) /\ (MyDatabase(s)' <=> MyDatabase(s))
    BY <1>2 DEF MyRole, MyDatabase
  <2>6. LateInv(s)'
    <3>1. CASE new = {}
      BY <1>2, <1>3, <2>2, <2>5, <3>1 DEF SlotInv, LateInv, Phase
    <3>2. CASE At(t, "commit") \/ At(t, "grant")
      <4>1. /\ Phase(s, "prepared") /\ cleanup[s] = Absent /\ NothingLate(s) /\ ~role.login
            /\ At(t, "commit") => role.level = Before[task[t].to]
            /\ At(t, "grant") => role.level = "verified"
        BY <1>1, <1>3, <3>2 DEF StageInv, At
      <4>2. MyRole(s) /\ MyDatabase(s) /\ database.allow
        BY <1>3, <4>1 DEF SlotInv, ActiveInv, JournalInv, Released, Phase
      <4>3. At(t, "commit") => task[t].to # "grant"
        <5>1. At(t, "commit") => task[t].to \in DOMAIN Before
          BY TaskAtWork DEF At, RaisingSteps, RaisingTasks
        <5> QED BY <5>1 DEF Before, Slot!Before
      <4>4. \A x \in late' : x.slot = s =>
              x \in new /\ (At(t, "commit") \/ At(t, "grant"))
        BY <2>2, <4>1 DEF NothingLate
      <4>5. ~(At(t, "commit") /\ At(t, "grant"))
        BY DEF At
      <4> QED BY <1>2, <2>2, <2>5, <4>1, <4>2, <4>3, <4>4, <4>5 DEF LateInv, Phase
    <3> QED BY <2>2, <3>1, <3>2
  <2>7. SlotInv(s)'
    BY <1>2, <1>3, <2>5, <2>6 DEF SlotInv, ActiveInv, JournalInv, Phase, Released
  <2>8. lock'[s] = Absent /\ \A q \in Slots \ {s} : lock'[q] = lock[q]
    BY <1>2, <1>3, <1>5, <2>1
  <2>9. SlotMove(s)
    BY <1>2 DEF SlotMove, StageOf, LevelOf, OpenOf, MyRole
  <2> QED BY <1>1, <1>3, <1>5, <1>6, <2>1, <2>3, <2>4, <2>7, <2>8, <2>9, TaskMoves
<1> QED BY <1>7, <1>8

\* A late COMMIT lands, or is rolled back.
LEMMA LateHolds ==
  ASSUME LifecycleInv, NEW x \in late, LateCommit(x) \/ LateRollback(x)
  PROVE  Kept
<1> DEFINE s == x.slot
<1>1. RecordTypes /\ x \in LateCommits /\ s \in Slots /\ SlotInv(s)
  BY DEF LifecycleInv, LifecycleTypes, RecordTypes, LateCommits
<1>2. /\ late' = late \ {x}
      /\ UNCHANGED <<prepare, cleanup, database, guards, sessions, lock, task>>
  BY DEF LateCommit, LateRollback, journals, catalog
<1>3. /\ Phase(s, "prepared") /\ MyRole(s) /\ MyDatabase(s)
      /\ x.what = "grant" => role.level = "verified" /\ database.allow
      /\ x.what # "grant" => role.level = Before[x.what] /\ ~role.login
      /\ \A y \in late : y.slot = s => y = x
  BY <1>1 DEF SlotInv, LateInv
<1>4. /\ role' \in RoleRows /\ role'.by = s
      /\ x.what = "grant" => role'.level = role.level
      /\ x.what # "grant" => role'.login = role.login
      /\ role'.login = role.login \/ x.what = "grant"
  <2>1. role \in RoleRows /\ role.by = s
    BY <1>1, <1>3 DEF RecordTypes, MyRole
  <2>2. x.what = "grant" \/ x.what \in Levels
    BY <1>1, LevelsFollow DEF LateCommits
  <2>3. role' \in {role, [role EXCEPT !.login = TRUE], [role EXCEPT !.level = x.what]}
        /\ (x.what = "grant" => role' \in {role, [role EXCEPT !.login = TRUE]})
        /\ (x.what # "grant" => role' \in {role, [role EXCEPT !.level = x.what]})
    BY DEF LateCommit, LateRollback, catalog
  <2> QED BY <2>1, <2>2, <2>3 DEF RoleRows
<1>5. role' # Absent /\ MyRole(s)' /\ MyDatabase(s)' /\ RecordTypes' /\ Touches(s)
  BY <1>1, <1>2, <1>3, <1>4, AbsentAssumption
     DEF RecordTypes, MyRole, MyDatabase, Touches
<1> HIDE DEF s
<1>6. SlotInv(s)'
  <2>1. ActiveInv(s)'
    BY <1>1, <1>2, <1>3, <1>4, <1>5 DEF SlotInv, ActiveInv, Phase, Released
  <2>2. JournalInv(s)'
    BY <1>1, <1>2, <1>3, <1>5 DEF SlotInv, JournalInv, Phase
  <2>3. LateInv(s)'
    BY <1>2, <1>3 DEF LateInv
  <2> QED BY <2>1, <2>2, <2>3 DEF SlotInv
<1>7. ASSUME NEW u \in Tasks, task[u].at \in LockedSteps, task[u].slot = s
      PROVE  StageInv(u)'
  <2>1. StageInv(u)
    BY DEF LifecycleInv, TaskInv
  <2>2. task[u].at \notin {"commit", "grant"}
    BY <1>7, <2>1 DEF StageInv, NothingLate, s
  <2>3. task[u].at = "dropDatabase" => x.what # "grant"
    BY <1>7, <2>1 DEF StageInv, At, s
  <2> QED BY <1>2, <1>3, <1>4, <1>5, <1>7, <2>1, <2>2, <2>3
       DEF StageInv, At, Phase, Destroying, GivingUpSteps, CleaningSteps
<1>8. SlotMove(s)
  <2>1. StageOf(s) \in {"ready", "retiring"}
    BY <1>1, <1>3, <1>5
       DEF RecordTypes, CleanupRows, SlotInv, ActiveInv, StageOf, Released, Phase
  <2>2. StageOf(s)' = StageOf(s)
    BY <1>2 DEF StageOf
  <2>3. CASE role' = role
    BY <1>3, <1>5, <2>2, <2>3 DEF SlotMove, LevelOf, OpenOf
  <2>4. CASE x.what = "grant" /\ role' = [role EXCEPT !.login = TRUE]
    <3>1. role'.login /\ role'.level = role.level
      BY <1>1, <1>3, <2>4 DEF RecordTypes, RoleRows, MyRole
    <3> QED BY <1>3, <1>5, <2>1, <2>2, <2>4, <3>1 DEF SlotMove, LevelOf, OpenOf
  <2>5. CASE x.what # "grant" /\ role' = [role EXCEPT !.level = x.what]
    <3>1. ~role'.login /\ role'.level = x.what /\ x.what \in DOMAIN Before
      BY <1>1, <1>3, <2>5 DEF RecordTypes, RoleRows, MyRole, LateCommits
    <3> QED BY <1>3, <1>5, <2>1, <2>2, <2>5, <3>1 DEF SlotMove, LevelOf, OpenOf
  <2> QED BY <2>3, <2>4, <2>5 DEF LateCommit, LateRollback, catalog
<1> QED BY <1>1, <1>2, <1>5, <1>6, <1>7, <1>8, WorldMoves DEF LifecycleInv, LifecycleTypes

\* Sessions come and go, and so do the resources of others.
LEMMA OutsideHolds ==
  ASSUME LifecycleInv, Connect \/ Disconnect \/ OutsiderCreates \/ OutsiderDrops
  PROVE  Kept
<1>1. LifecycleTypes
  BY DEF LifecycleInv
<1>2. /\ UNCHANGED <<prepare, cleanup, guards, lock, task, late>>
      /\ sessions' \in BOOLEAN
  BY <1>1 DEF Connect, Disconnect, OutsiderCreates, OutsiderDrops, journals, catalog,
     LifecycleTypes
<1>3. /\ \/ role' = role
         \/ role = Absent /\ role' = [by |-> Outsider, level |-> "none", login |-> FALSE]
         \/ role # Absent /\ role.by = Outsider /\ role' = Absent
      /\ \/ database' = database
         \/ database = Absent
            /\ database' = [by |-> Outsider, owner |-> "outsider", allow |-> FALSE]
         \/ database # Absent /\ database.by = Outsider /\ database' = Absent
  BY DEF Connect, Disconnect, OutsiderCreates, OutsiderDrops, catalog
<1>4. /\ [by |-> Outsider, level |-> "none", login |-> FALSE] \in RoleRows
      /\ [by |-> Outsider, owner |-> "outsider", allow |-> FALSE] \in DatabaseRows
  BY DEF RoleRows, DatabaseRows
<1>5. RecordTypes'
  BY <1>1, <1>2, <1>3, <1>4 DEF LifecycleTypes, RecordTypes
<1>6. Touches(Outsider)
  <2>1. role' # role =>
          (role # Absent => MyRole(Outsider)) /\ (role' # Absent => MyRole(Outsider)')
    BY <1>3 DEF MyRole
  <2>2. database' # database =>
          /\ database # Absent => MyDatabase(Outsider)
          /\ database' # Absent => MyDatabase(Outsider)'
    BY <1>3 DEF MyDatabase
  <2> QED BY <1>1, <1>2, <2>1, <2>2 DEF Touches, LifecycleTypes, RecordTypes
<1>7. \A u \in Tasks : task[u].at \in LockedSteps => task[u].slot # Outsider
  BY TaskAtWork, TenantAssumption
     DEF LockedSteps, ReservingSteps, GivingUpSteps, CleaningSteps
<1>8. StrangerInv'
  BY <1>3 DEF LifecycleInv, StrangerInv
<1> QED BY <1>2, <1>5, <1>6, <1>7, <1>8, TenantAssumption, WorldMoves

\* Every step keeps the invariant.
LEMMA LifecycleStep ==
  LifecycleInv /\ [LifecycleNext]_lifecycleVars => Kept
<1> SUFFICES ASSUME LifecycleInv, [LifecycleNext]_lifecycleVars PROVE Kept
  OBVIOUS
<1>1. ASSUME NEW t \in Tasks, TaskStep(t) PROVE Kept
  BY <1>1, PreparesBegin, CompensatesBegin, InspectHolds, ReserveHolds, SubmitHolds,
     CreateHolds, PromoteHolds, DropQuarantineHolds, MarkDroppedHolds, DropRolesHolds,
     ApplyHolds, CommitHolds, ActivateHolds, GrantHolds, DestroysBegin, ClaimHolds,
     RetireHolds, DropDatabaseHolds, MarkDatabaseHolds, DropRoleHolds, StopHolds
     DEF TaskStep
<1>2. ASSUME Environment PROVE Kept
  BY <1>2, LateHolds, OutsideHolds DEF Environment
<1>3. ASSUME UNCHANGED lifecycleVars PROVE Kept
  <2>1. UNCHANGED <<journals, catalog, sessions, lock, task, late>>
    BY <1>3 DEF lifecycleVars
  <2>2. ASSUME NEW s \in Slots PROVE RecordTypes' /\ SlotInv(s)'
    BY <2>1, RowsStay
  <2>3. RecordTypes'
    BY <2>1 DEF LifecycleInv, LifecycleTypes, RecordTypes, journals, catalog
  <2>4. ASSUME NEW u \in Tasks PROVE TaskInv(u)'
    BY <2>1 DEF journals, catalog, LifecycleInv, TaskInv, HoldsInv, StageInv, At, Phase,
       Destroying, NothingLate, MyDatabase
  <2>5. Implements /\ OthersKept
    BY <2>1, SlotVars DEF Implements, OthersKept, journals, catalog, StageOf, LevelOf, OpenOf,
       MyRole
  <2> QED BY <2>1, <2>2, <2>3, <2>4, <2>5
       DEF Kept, LifecycleInv, LifecycleTypes, StrangerInv, catalog
<1> QED BY <1>1, <1>2, <1>3 DEF LifecycleNext

\* What the journals, the catalog and the tasks keep of each other.
THEOREM LifecycleKeepsInv == LifecycleSpec => []LifecycleInv
<1>1. LifecycleInv /\ [LifecycleNext]_lifecycleVars => LifecycleInv'
  BY LifecycleStep DEF Kept
<1> QED BY <1>1, LifecycleStart, PTL DEF LifecycleSpec

\* The types of journals, catalog, locks, tasks and late commits.
THEOREM LifecycleTypesHold == LifecycleSpec => []LifecycleTypeOK
<1>1. LifecycleInv => LifecycleTypeOK
  <2> SUFFICES ASSUME LifecycleInv PROVE LifecycleTypeOK
    OBVIOUS
  <2>1. ASSUME NEW t \in Tasks PROVE task[t].at \in TaskSteps
    <3>1. task[t] \in FencedTasks \cup RaisingTasks \cup {Idle}
      BY DEF LifecycleInv, LifecycleTypes
    <3> QED BY <3>1 DEF FencedTasks, RaisingTasks, Idle, TaskSteps, ReservingSteps,
         GivingUpSteps, CleaningSteps, RaisingSteps
  <2> QED BY <2>1 DEF LifecycleInv, LifecycleTypes, RecordTypes, LifecycleTypeOK
<1> QED BY <1>1, LifecycleKeepsInv, PTL

\* Wherever tasks stop, the journals and the catalog agree on what exists, the
\* application can log in to nothing but its own database, and whatever was
\* interrupted can be resumed.
THEOREM JournalsTrue == LifecycleSpec => []JournalsTellTruth
<1>1. LifecycleInv => JournalsTellTruth
  <2> SUFFICES ASSUME LifecycleInv PROVE JournalsTellTruth
    OBVIOUS
  <2>0. /\ \A s \in Slots : ActiveInv(s) /\ JournalInv(s)
        /\ role # Absent => role \in RoleRows /\ (role.by = Outsider => ~role.login)
        /\ database # Absent => database \in DatabaseRows
    BY DEF LifecycleInv, SlotInv, LifecycleTypes, RecordTypes, StrangerInv
  <2>1. TombstonesTellTruth
    BY <2>0 DEF TombstonesTellTruth, ActiveInv, JournalInv, Released, Phase, Unfinished
  <2>2. LoginOnlyToItsDatabase
    <3> SUFFICES ASSUME role # Absent, role.login
                 PROVE  /\ MyDatabase(role.by) /\ database.owner = "management"
                        /\ database.allow /\ role.by \notin guards
      BY DEF LoginOnlyToItsDatabase
    <3>1. role.by \in Slots
      BY <2>0 DEF RoleRows
    <3> QED BY <2>0, <3>1 DEF ActiveInv, MyRole, Phase, Unfinished
  <2>3. CleanupCanResume
    <3> SUFFICES ASSUME NEW c \in Cleanups, cleanup[c.slot] # Absent,
                        cleanup[c.slot].fence = c, cleanup[c.slot].phase = "destroying",
                        NoOutsider
                 PROVE  CanResumeCleanup(c)
      BY DEF CleanupCanResume
    <3>1. c.slot \in Slots
      BY TenantAssumption
    <3>2. /\ Phase(c.slot, "prepared") /\ c.pred = prepare[c.slot].epoch
          /\ cleanup[c.slot].dropped => ~MyDatabase(c.slot)
      BY <2>0, <3>1 DEF JournalInv
    <3>3. MyRole(c.slot)
      BY <2>0, <3>1, <3>2 DEF ActiveInv, Released, Phase
    <3>4. database # Absent => MyDatabase(c.slot)
      <4>1. database # Absent => database.by \in Slots /\ MyDatabase(database.by)
        BY <2>0 DEF NoOutsider, DatabaseRows, MyDatabase
      <4>2. database # Absent => MyRole(database.by)
        BY <2>0, <4>1 DEF ActiveInv
      <4> QED BY <3>3, <4>1, <4>2 DEF MyRole
    <3> QED BY <3>2, <3>3, <3>4 DEF CanResumeCleanup, CleanupOwns, Phase
  <2>4. PrepareCanResume
    <3> SUFFICES ASSUME NEW p \in Provisions, prepare[p.slot] # Absent,
                        prepare[p.slot].epoch = p.epoch,
                        prepare[p.slot].phase \notin {"prepared", "compensated"},
                        NoOutsider
                 PROVE  CanResumePreparing(p) \/ CanResumeCompensating(p)
      BY DEF PrepareCanResume
    <3> DEFINE s == p.slot
    <3>1. s \in Slots
      BY TenantAssumption
    <3>2. prepare[s].phase \in Unfinished
      BY <3>1 DEF LifecycleInv, LifecycleTypes, RecordTypes, PrepareRows, Unfinished
    <3>3. /\ MyRole(s) /\ s \in guards /\ ~role.login /\ cleanup[s] = Absent
      BY <2>0, <3>1, <3>2 DEF ActiveInv, JournalInv, Released, Phase, Unfinished
    <3>4. database # Absent =>
            MyDatabase(s) /\ database.owner = "guard" /\ ~prepare[s].dropped
            /\ prepare[s].phase # "reserved"
      <4>1. database # Absent => database.by \in Slots /\ MyDatabase(database.by)
        BY <2>0 DEF NoOutsider, DatabaseRows, MyDatabase
      <4>2. database # Absent => MyRole(database.by)
        BY <2>0, <4>1 DEF ActiveInv
      <4> QED BY <2>0, <3>1, <3>2, <3>3, <4>1, <4>2 DEF MyRole, ActiveInv, Phase, Unfinished
    <3>5. prepare[s].phase = "catalog_bound" => database # Absent
      BY <2>0, <3>1 DEF JournalInv, Phase, MyDatabase
    <3> HIDE DEF s
    <3> QED BY <3>2, <3>3, <3>4, <3>5
         DEF s, CanResumePreparing, CanResumeCompensating, Quarantined, NotCleaning,
             MyDatabase, Unfinished
  <2> QED BY <2>1, <2>2, <2>3, <2>4 DEF JournalsTellTruth
<1> QED BY <1>1, LifecycleKeepsInv, PTL

\* The tasks never change or drop what was not made for their slot.
THEOREM OthersSurvive == LifecycleSpec => OthersResourcesSurvive
<1>1. LifecycleInv /\ [LifecycleNext]_lifecycleVars =>
        [\A t \in Tasks : ~At(t, "idle") /\ task'[t] # task[t] =>
           /\ database # Absent /\ ~MyDatabase(task[t].slot) => database' = database
           /\ role # Absent /\ ~MyRole(task[t].slot) => role' = role]_lifecycleVars
  BY LifecycleStep DEF Kept, OthersKept
<1> QED BY <1>1, LifecycleKeepsInv, PTL DEF LifecycleSpec, OthersResourcesSurvive

\* The lifecycle implements the slots: each of its steps is one of theirs, or
\* none, whichever task stops where.
THEOREM LifecycleImplementsSlots == LifecycleSpec => SlotsSpec
<1>1. LifecycleInit => Slot!SlotsInit
  BY DEF LifecycleInit, Slot!SlotsInit
<1>2. LifecycleInv /\ [LifecycleNext]_lifecycleVars => [Slot!SlotsNext]_(Slot!slotVars)
  BY LifecycleStep DEF Kept, Implements
<1> QED BY <1>1, <1>2, LifecycleKeepsInv, PTL DEF LifecycleSpec, SlotsSpec, Slot!SlotsSpec

\* Two generations never hold the names together, and the application is let
\* in only to a database that went through every level.
THEOREM LifecyclePromises == LifecycleSpec => [](Slot!OneHolder /\ Slot!OpenIsVerified)
<1>1. LifecycleInv => Slot!OneHolder /\ Slot!OpenIsVerified
  <2> SUFFICES ASSUME LifecycleInv PROVE Slot!OneHolder /\ Slot!OpenIsVerified
    OBVIOUS
  <2>1. \A s \in Slots : ActiveInv(s)
    BY DEF LifecycleInv, SlotInv
  <2>2. Slot!OneHolder
    <3>1. \A s \in Slots : Slot!Holding(s) => MyRole(s)
      BY <2>1 DEF Slot!Holding, ActiveInv, Released
    <3> QED BY <3>1 DEF Slot!OneHolder, MyRole
  <2>3. Slot!OpenIsVerified
    <3> SUFFICES ASSUME NEW s \in Slots, MyRole(s), role.login
                 PROVE  role.level = "verified" /\ Slot!Holding(s) /\ Phase(s, "prepared")
      BY DEF Slot!OpenIsVerified, MyRole, Phase, Slot!Holding
    <3>1. cleanup[s] # Absent => cleanup[s].phase \in {"destroying", "destroyed"}
      BY DEF LifecycleInv, LifecycleTypes, RecordTypes, CleanupRows
    <3> QED BY <2>1, <3>1 DEF ActiveInv, Released, Phase, Slot!Holding
  <2> QED BY <2>2, <2>3
<1> QED BY <1>1, LifecycleKeepsInv, PTL

Stages == [s \in Slots |-> StageOf(s)]

\* The journals are permanent: what a generation has released it never holds
\* again, whatever is retried, crashes or arrives late.
THEOREM LifecycleReleasesForGood == LifecycleSpec => Slot!ReleasedForGood
<1>1. LifecycleInv /\ [LifecycleNext]_lifecycleVars =>
        [\A s \in Slots : Stages[s] = "released" => Stages'[s] = "released"]_(Slot!slotVars)
  <2> SUFFICES ASSUME Slot!SlotsNext, NEW s \in Slots, Stages[s] = "released"
               PROVE  Stages'[s] = "released"
    BY LifecycleStep DEF Kept, Implements
  <2>1. PICK q \in Slots :
          \/ Slot!ReserveSlot(q) \/ Slot!FinishPreparing(q) \/ Slot!GiveUp(q)
          \/ Slot!Advance(q) \/ Slot!Open(q)
          \/ Slot!ClaimSlot(q) \/ Slot!Close(q) \/ Slot!Release(q)
    BY DEF Slot!SlotsNext
  <2>2. \/ Stages' = Stages
        \/ \E to : Stages[q] # "released" /\ Stages' = [Stages EXCEPT ![q] = to]
    BY <2>1 DEF Slot!ReserveSlot, Slot!FinishPreparing, Slot!GiveUp, Slot!Advance,
       Slot!Open, Slot!ClaimSlot, Slot!Close, Slot!Release, Slot!Enter, Stages, StageOf
  <2> QED BY <2>2 DEF Stages
<1> QED BY <1>1, LifecycleKeepsInv, PTL
     DEF LifecycleSpec, Slot!ReleasedForGood, Stages, StageOf

-----------------------------------------------------------------------------
(* The slots, whatever implements them                                     *)

VARIABLES stage, level, open
Any == INSTANCE TenantSlots

SlotsInv == Any!SlotsTypeOK /\ Any!OneHolder /\ Any!OpenIsVerified

\* Every step keeps SlotsInv.
LEMMA SlotsStep ==
  ASSUME SlotsInv, [Any!SlotsNext]_(Any!slotVars)
  PROVE  SlotsInv'
<1> USE DEF SlotsInv, Any!SlotsTypeOK, Any!Enter
<1>1. ASSUME NEW s \in Slots,
             \/ Any!ReserveSlot(s) \/ Any!FinishPreparing(s) \/ Any!GiveUp(s)
             \/ Any!ClaimSlot(s) \/ Any!Release(s)
      PROVE  SlotsInv'
  <2>1. Any!SlotsTypeOK'
    BY <1>1 DEF Any!ReserveSlot, Any!FinishPreparing, Any!GiveUp, Any!ClaimSlot,
       Any!Release, Any!Levels
  <2>2. Any!OneHolder'
    BY <1>1
    DEF Any!ReserveSlot, Any!FinishPreparing, Any!GiveUp, Any!ClaimSlot,
        Any!Release, Any!OneHolder, Any!Holding
  <2>3. Any!OpenIsVerified'
    BY <1>1
    DEF Any!ReserveSlot, Any!FinishPreparing, Any!GiveUp, Any!ClaimSlot,
        Any!Release, Any!OpenIsVerified
  <2> QED BY <2>1, <2>2, <2>3
<1>2. ASSUME NEW s \in Slots, Any!Advance(s) PROVE SlotsInv'
  BY <1>2 DEF Any!Advance, Any!Before, Any!Levels, Any!OneHolder, Any!Holding,
     Any!OpenIsVerified
<1>3. ASSUME NEW s \in Slots, Any!Open(s) \/ Any!Close(s) PROVE SlotsInv'
  BY <1>3 DEF Any!Open, Any!Close, Any!OneHolder, Any!Holding, Any!OpenIsVerified
<1>4. CASE UNCHANGED Any!slotVars
  BY <1>4 DEF Any!slotVars, Any!OneHolder, Any!Holding, Any!OpenIsVerified
<1> QED BY <1>1, <1>2, <1>3, <1>4 DEF Any!SlotsNext

\* SlotsInv is an invariant of the slots.
THEOREM SlotsKeepInv == Any!SlotsSpec => []SlotsInv
<1>1. Any!SlotsInit => SlotsInv
  BY DEF Any!SlotsInit, SlotsInv, Any!SlotsTypeOK, Any!OneHolder, Any!Holding,
     Any!OpenIsVerified
<1> QED BY <1>1, SlotsStep, PTL DEF Any!SlotsSpec

\* Whatever implements TenantSlots, as TenantLifecycle does, has at most one
\* holder of a tenant's names, and opens verified databases only.
THEOREM SlotsKeepTheirPromises == Any!SlotsSpec => [](Any!OneHolder /\ Any!OpenIsVerified)
<1>1. SlotsInv => Any!OneHolder /\ Any!OpenIsVerified
  BY DEF SlotsInv
<1> QED BY <1>1, SlotsKeepInv, PTL

\* What is released never comes back: names are taken again by another
\* generation.
THEOREM ReleaseIsForGood == Any!SlotsSpec => Any!ReleasedForGood
<1>1. SlotsInv /\ [Any!SlotsNext]_(Any!slotVars) =>
        [\A s \in Slots : stage[s] = "released" => stage'[s] = "released"]_(Any!slotVars)
  BY DEF Any!SlotsNext, Any!ReserveSlot, Any!FinishPreparing, Any!GiveUp,
     Any!ClaimSlot, Any!Release, Any!Advance, Any!Open, Any!Close, Any!Enter,
     SlotsInv, Any!SlotsTypeOK
<1> QED BY <1>1, SlotsKeepInv, PTL DEF Any!SlotsSpec, Any!ReleasedForGood

(***************************************************************************)
(*                           All of the platform's                         *)
(***************************************************************************)

\* Provisioning, the lifecycle and the destruction share no state: together
\* they do what each of them does alone.
THEOREM PlatformParts == PlatformSpec => SaasSpec /\ LifecycleSpec /\ DestroySpec
<1>1. PlatformInit => SaasInit /\ LifecycleInit /\ DestroyInit
  BY DEF PlatformInit
<1>2. [PlatformNext]_platformVars =>
        [SaasNext]_saasVars /\ [LifecycleNext]_lifecycleVars /\ [DestroyNext]_destroyVars
  BY DEF PlatformNext, platformVars
<1> QED
  BY <1>1, <1>2, PTL DEF PlatformSpec, SaasSpec, LifecycleSpec, DestroySpec

\* The rows of the control plane, the journals and catalogs of the tenants and
\* the registry of the destroy keep their types, for any numbers of them.
THEOREM PlatformTypes == PlatformSpec => []PlatformTypeOK
<1>1. SaasTypeOK /\ LifecycleTypeOK /\ DestroyTypeOK => PlatformTypeOK
  BY DEF PlatformTypeOK
<1> QED
  BY <1>1, PlatformParts, SaasTypes, LifecycleTypesHold, DestroyTypesHold, PTL
=============================================================================
