---------------------------- MODULE TenantSlots -----------------------------
(***************************************************************************)
(* What the lifecycle of tenant databases promises, without journals,      *)
(* locks, crashes or SQL.  A slot is one generation of one tenant; all the *)
(* slots of this specification want the same database name and the same   *)
(* role name.  TenantLifecycle implements it.                              *)
(***************************************************************************)
EXTENDS Naturals

CONSTANT Slots

VARIABLES
  stage,  \* "free", "reserved", "ready", "retiring" or "released"
  level,  \* what the ownership markers of the slot say of its database
  open    \* may the application log in?

slotVars == <<stage, level, open>>

\* The lifecycle states of a prepared database, and the one each follows.
Levels == {"empty", "baseline_restored", "saas_migrated", "verified"}
Before == [baseline_restored |-> "empty",
           saas_migrated     |-> "baseline_restored",
           verified          |-> "saas_migrated"]

Holding(s) == stage[s] \in {"reserved", "ready", "retiring"}

SlotsInit ==
  /\ stage = [s \in Slots |-> "free"]
  /\ level = [s \in Slots |-> "none"]
  /\ open = [s \in Slots |-> FALSE]

Enter(s, from, to) == stage[s] = from /\ stage' = [stage EXCEPT ![s] = to]

ReserveSlot(s) ==
  /\ \A q \in Slots : ~Holding(q)
  /\ Enter(s, "free", "reserved")
  /\ level' = [level EXCEPT ![s] = "empty"]
  /\ UNCHANGED open

FinishPreparing(s) == Enter(s, "reserved", "ready") /\ UNCHANGED <<level, open>>

GiveUp(s) ==
  /\ Enter(s, "reserved", "released")
  /\ level' = [level EXCEPT ![s] = "none"]
  /\ UNCHANGED open

\* A transaction that was committing when its slot was claimed may still land.
Advance(s) ==
  /\ stage[s] \in {"ready", "retiring"}
  /\ ~open[s]
  /\ \E l \in DOMAIN Before :
       level[s] = Before[l] /\ level' = [level EXCEPT ![s] = l]
  /\ UNCHANGED <<stage, open>>

Open(s) ==
  /\ stage[s] \in {"ready", "retiring"}
  /\ level[s] = "verified"
  /\ open' = [open EXCEPT ![s] = TRUE]
  /\ UNCHANGED <<stage, level>>

ClaimSlot(s) == Enter(s, "ready", "retiring") /\ UNCHANGED <<level, open>>

Close(s) ==
  /\ stage[s] = "retiring"
  /\ open' = [open EXCEPT ![s] = FALSE]
  /\ UNCHANGED <<stage, level>>

Release(s) ==
  /\ ~open[s]
  /\ Enter(s, "retiring", "released")
  /\ level' = [level EXCEPT ![s] = "none"]
  /\ UNCHANGED open

SlotsNext ==
  \E s \in Slots :
    \/ ReserveSlot(s) \/ FinishPreparing(s) \/ GiveUp(s)
    \/ Advance(s) \/ Open(s)
    \/ ClaimSlot(s) \/ Close(s) \/ Release(s)

SlotsSpec == SlotsInit /\ [][SlotsNext]_slotVars

-----------------------------------------------------------------------------
SlotsTypeOK ==
  /\ stage \in [Slots -> {"free", "reserved", "ready", "retiring", "released"}]
  /\ level \in [Slots -> Levels \cup {"none"}]
  /\ open \in [Slots -> BOOLEAN]

(* Two slots never hold the names of a tenant database together            *)
(* (assertNamespaceReleased, the release gate and the reservation).        *)
OneHolder == \A s, q \in Slots : Holding(s) /\ Holding(q) => s = q

(* The application can log in only to a database that went through every   *)
(* level and has not been released (assertApplicationGlobal).              *)
OpenIsVerified ==
  \A s \in Slots :
    open[s] => level[s] = "verified" /\ stage[s] \in {"ready", "retiring"}

(* A released slot stays released: names come back only with another       *)
(* generation (the journals are permanent).                                *)
ReleasedForGood ==
  [][\A s \in Slots : stage[s] = "released" => stage'[s] = "released"]_slotVars
=============================================================================
