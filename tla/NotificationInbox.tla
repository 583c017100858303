------------------------- MODULE NotificationInbox --------------------------
(***************************************************************************)
(* The list of notifications in the apps of buyers and merchants           *)
(* (routes/buyer_notifications.js, routes/merchant_notifications.js).      *)
(* What is read or deleted is a row per notification and person, so a      *)
(* notification for the whole merchant is each account's own.  Handlers    *)
(* record notifications at any time, also between a person's read-all and  *)
(* delete-read.                                                            *)
(***************************************************************************)
CONSTANTS Notes, People, Addressed  \* who finds a note: its recipient_key

ASSUME InboxAssumption == Addressed \in [Notes -> SUBSET People]

VARIABLES
  posted,     \* the notes that are recorded
  readBy,     \* notification_reads
  dismissed,  \* notification_dismissals
  chosen      \* history: the notes somebody deleted one by one

inboxVars == <<posted, readBy, dismissed, chosen>>

InboxInit == posted = {} /\ readBy = {} /\ dismissed = {} /\ chosen = {}

Post(n) ==
  /\ n \notin posted
  /\ posted' = posted \cup {n}
  /\ UNCHANGED <<readBy, dismissed, chosen>>

Mine(n, p) == n \in posted /\ p \in Addressed[n]

\* A deleted note can be marked as read: only read-all leaves it out.
MarkRead(n, p) ==
  /\ Mine(n, p)
  /\ readBy' = readBy \cup {<<n, p>>}
  /\ UNCHANGED <<posted, dismissed, chosen>>

\* Seeded faults: read-all writes for every addressee; delete-read joins the
\* reads from the left.
FaultReadsForAll(p) ==
  {r \in posted \X People : Mine(r[1], p) /\ Mine(r[1], r[2]) /\ r \notin dismissed}
FaultSweepsUnread(p) == {<<n, p>> : n \in {m \in Notes : Mine(m, p)}} \ dismissed

Unswept(p) == {<<n, p>> : n \in {m \in Notes : Mine(m, p)}} \ dismissed

ReadAll(p) ==
  /\ readBy' = readBy \cup Unswept(p)
  /\ UNCHANGED <<posted, dismissed, chosen>>

Swept(p) == {<<n, p>> : n \in {m \in Notes : Mine(m, p) /\ <<m, p>> \in readBy}} \ dismissed

DeleteRead(p) ==
  /\ dismissed' = dismissed \cup Swept(p)
  /\ UNCHANGED <<posted, readBy, chosen>>

Delete(n, p) ==
  /\ Mine(n, p)
  /\ dismissed' = dismissed \cup {<<n, p>>}
  /\ chosen' = chosen \cup {<<n, p>>}
  /\ UNCHANGED <<posted, readBy>>

InboxNext ==
  \/ \E n \in Notes : Post(n)
  \/ \E p \in People : ReadAll(p) \/ DeleteRead(p)
  \/ \E n \in Notes, p \in People : MarkRead(n, p) \/ Delete(n, p)

InboxSpec == InboxInit /\ [][InboxNext]_inboxVars

-----------------------------------------------------------------------------
\* A notification disappears only when its reader deleted it or had read it
\* before: one that arrives between read-all and delete-read stays.
NothingUnseenIsSwept == dismissed \subseteq readBy \cup chosen

\* What one account reads or deletes stays new for the others, also when it is
\* one notification for all of them.
InboxesAreOnesOwn ==
  \A r, q \in Notes \X People :
    r \in readBy' \cup dismissed' /\ r \notin readBy \cup dismissed
    /\ q \in readBy' \cup dismissed' /\ q \notin readBy \cup dismissed
      => r[2] = q[2]

\* Both: a notification leaves a list only by what its reader did.
ListsAreTheirReaders == [][NothingUnseenIsSwept' /\ InboxesAreOnesOwn]_inboxVars
=============================================================================
