---------------------------- MODULE RequestCaches ----------------------------
(***************************************************************************)
(* What a server process remembers between requests: the entitlements      *)
(* (services/saas/entitlement_service.js) and the active stores            *)
(* (services/store_context.js).  Each process has its own copy, trusts it  *)
(* for a time, and drops it when it itself changes the rows; nobody tells  *)
(* the other processes.  Quotas are decided without the cache; it answers  *)
(* whether a request without a device id is let in (no limit is set on     *)
(* concurrent access) and whether the store of a request is active.        *)
(*                                                                         *)
(* So what a cache holds is one bit here: the permission.  A read awaits   *)
(* its SELECT, and a COMMIT can come between the SELECT and the store.     *)
(* The two caches share nothing: a behaviour is about one of them.         *)
(***************************************************************************)
EXTENDS Integers

CONSTANTS
  Servers,     \* server processes
  Readers,     \* bound: requests whose SELECT is under way
  CacheTtl,    \* CACHE_TTL_MS and STORE_CACHE_TTL_MS
  ReadTime,    \* bound: from a SELECT to its answer
  MaxInstant,  \* bound: the last instant
  Nothing

Caches == {"entitlements", "stores"}

ASSUME CachesAssumption ==
  /\ CacheTtl \in [Caches -> Nat \ {0}]
  /\ ReadTime \in Nat /\ MaxInstant \in Nat
  /\ \A c \in Caches : ReadTime < CacheTtl[c]
  /\ Nothing \notin Servers
  /\ Nothing \notin [server : Servers, permits : BOOLEAN, at : Nat]
  /\ Nothing \notin [permits : BOOLEAN, until : Nat]
  /\ Nothing \notin [server : Servers, to : BOOLEAN, committed : BOOLEAN]

VARIABLES
  which,        \* the cache this behaviour is about
  instant,      \* Date.now()
  permitted,    \* the rows: whether they permit the request
  withdrawnAt,  \* history: when they last ceased to
  kept,         \* per server: the copy and its expiry
  reading,      \* per reader: the rows it has read, and when
  changing,     \* the change under way
  changedBy,    \* history: the server of the last change
  straddled,    \* history: it left a read of the old rows under way there
  overdue       \* history: how long after a withdrawal a request was still let in

changeVars == <<changing, changedBy, straddled>>
rowVars == <<permitted, withdrawnAt>>
cacheVars == <<which, instant, rowVars, kept, reading, changeVars, overdue>>

CachesInit ==
  /\ which \in Caches
  /\ instant = 0 /\ withdrawnAt = 0 /\ overdue = 0
  /\ permitted = TRUE
  /\ kept = [s \in Servers |-> Nothing]
  /\ reading = [r \in Readers |-> Nothing]
  /\ changing = Nothing /\ changedBy = Nothing /\ straddled = FALSE

\* Seeded fault: a copy is used up to and including its expiry.
FaultFreshToTheEnd(s) == kept[s] # Nothing /\ kept[s].until >= instant
Fresh(s) == kept[s] # Nothing /\ kept[s].until > instant

\* A request is decided by `permits`.
Decide(permits) ==
  LET late == IF permits /\ ~permitted THEN instant - withdrawnAt ELSE 0
  IN overdue' = IF late > overdue THEN late ELSE overdue

AnswerFromCache(s) ==
  /\ Fresh(s)
  /\ Decide(kept[s].permits)
  /\ UNCHANGED <<which, instant, rowVars, kept, reading, changeVars>>

StartRead(r, s) ==
  /\ reading[r] = Nothing
  /\ ~Fresh(s)
  /\ reading' = [reading EXCEPT ![r] = [server |-> s, permits |-> permitted, at |-> instant]]
  /\ UNCHANGED <<which, instant, rowVars, kept, changeVars, overdue>>

\* The entitlements expire a time after their answer came, the stores a time
\* after they were asked for.
Expiry(read) == (IF which = "stores" THEN read.at ELSE instant) + CacheTtl[which]

EndRead(r) ==
  /\ reading[r] # Nothing
  /\ kept' = [kept EXCEPT ![reading[r].server] =
       [permits |-> reading[r].permits, until |-> Expiry(reading[r])]]
  /\ Decide(reading[r].permits)
  /\ reading' = [reading EXCEPT ![r] = Nothing]
  /\ UNCHANGED <<which, instant, rowVars, changeVars>>

\* A change locks the rows.  upsertEntitlements clears the cache of its
\* process before the COMMIT, and every change does so after it.
StartChange(s) ==
  /\ changing = Nothing
  /\ \E to \in BOOLEAN : changing' = [server |-> s, to |-> to, committed |-> FALSE]
  /\ kept' = IF which = "entitlements" THEN [kept EXCEPT ![s] = Nothing] ELSE kept
  /\ UNCHANGED <<which, instant, rowVars, reading, changedBy, straddled, overdue>>

CommitChange ==
  /\ changing # Nothing /\ ~changing.committed
  /\ permitted' = changing.to
  /\ withdrawnAt' = IF permitted /\ ~changing.to THEN instant ELSE withdrawnAt
  /\ changing' = [changing EXCEPT !.committed = TRUE]
  /\ UNCHANGED <<which, instant, kept, reading, changedBy, straddled, overdue>>

\* Seeded fault: the cache is cleared before the COMMIT only.
FaultClearsEarlyOnly(s) == kept
ClearedAfterCommit(s) == [kept EXCEPT ![s] = Nothing]

FinishChange ==
  /\ changing # Nothing /\ changing.committed
  /\ kept' = ClearedAfterCommit(changing.server)
  /\ changedBy' = changing.server
  /\ straddled' =
       \E r \in Readers : /\ reading[r] # Nothing
                         /\ reading[r].server = changing.server
                         /\ reading[r].permits # permitted
  /\ changing' = Nothing
  /\ UNCHANGED <<which, instant, rowVars, reading, overdue>>

Pass ==
  /\ instant < MaxInstant
  /\ \A r \in Readers : reading[r] # Nothing => instant - reading[r].at < ReadTime
  /\ instant' = instant + 1
  /\ UNCHANGED <<which, rowVars, kept, reading, changeVars, overdue>>

CachesNext ==
  \/ \E s \in Servers :
       AnswerFromCache(s) \/ StartChange(s) \/ \E r \in Readers : StartRead(r, s)
  \/ \E r \in Readers : EndRead(r)
  \/ CommitChange \/ FinishChange \/ Pass

CachesSpec == CachesInit /\ [][CachesNext]_cacheVars
-----------------------------------------------------------------------------
(* Properties                                                              *)

\* How long after the rows changed a request may still be let in.
Grace == CacheTtl[which] + (IF which = "stores" THEN 0 ELSE ReadTime)

\* A permission that is withdrawn - a first limit on concurrent access, a
\* store that closes - is obeyed by every process within the time its cache
\* lives, whatever reads raced with the COMMIT, and for entitlements the time
\* one read may take on top.
ObeyedInTime == overdue < Grace

\* The process that made the last change does not itself keep what that change
\* replaced, unless a request of its own had read the old rows by then and was
\* still to store them.
ChangersForget ==
  changing = Nothing /\ changedBy # Nothing /\ ~straddled /\ kept[changedBy] # Nothing
    => kept[changedBy].permits = permitted

\* Both: a withdrawal is obeyed everywhere in time, and at once where it was
\* made.
WithdrawalsAreObeyedInTime == ObeyedInTime /\ ChangersForget
=============================================================================
