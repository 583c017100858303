------------------------ MODULE NotificationDelivery ------------------------
(***************************************************************************)
(* Notifications between the COMMIT that records them and the devices      *)
(* (services/notifications/): each recorded notification is sent once, by  *)
(* a callback of the process that recorded it, in several statements that  *)
(* share no transaction.  Meanwhile people sign in and out of the apps,    *)
(* accounts change, registrations and sign-offs arrive late, FCM answers   *)
(* in any order or not at all well, and the process may die.               *)
(*                                                                         *)
(* A device is its FCM token.  One store: a row's store_id is the          *)
(* notification's.                                                         *)
(***************************************************************************)
EXTENDS Integers, FiniteSets

CONSTANTS
  Notices,      \* the keys (recipient, event, dedupe_key) of notifications
  Devices,
  Buyers, Staff,
  MerchantAll,  \* the recipient type merchant_all
  Nobody,
  To,           \* the recipient of each notice: a buyer or MerchantAll
  Users         \* who may sign in on a device

ASSUME DeliveryAssumption ==
  /\ To \in [Notices -> Buyers \cup {MerchantAll}]
  /\ MerchantAll \notin Buyers /\ Nobody \notin Buyers \cup Staff
  /\ Buyers \cap Staff = {}
  /\ Users \in [Devices -> SUBSET (Buyers \cup Staff)]

VARIABLES
  outbox,       \* notification_outbox.status ("none": no row)
  row,          \* notification_device_tokens: owner and active, per token
  mayView,      \* the staff whose account is active and may see orders
  sender,       \* the callback that sends a notice: its phase and its findings
  app,          \* who is signed in on a device
  registering,  \* registrations that are authorised and not yet inserted
  signingOff,   \* sign-offs that have not arrived yet
  gone,         \* the tokens FCM does not know any more
  pushes,       \* history: how often a device was reached for an owner
  owned,        \* history: rows a notice could use since it was recorded
  cleared       \* history: staff who could see orders since then

noticeVars == <<outbox, sender, pushes>>
deviceVars == <<row, mayView, app, registering, signingOff, gone>>
deliveryVars == <<noticeVars, deviceVars, owned, cleared>>

Owners == Buyers \cup Staff
Addressees(n) == IF To[n] = MerchantAll THEN Staff ELSE {To[n]}
Idle == [phase |-> "none", tokens |-> {}, answers |-> {}]

DeliveryInit ==
  /\ outbox = [n \in Notices |-> "none"]
  /\ row = [d \in Devices |-> [owner |-> Nobody, active |-> FALSE]]
  /\ mayView = Staff
  /\ sender = [n \in Notices |-> Idle]
  /\ app = [d \in Devices |-> Nobody]
  /\ registering = {} /\ signingOff = {} /\ gone = {}
  /\ pushes = [n \in Notices |-> [p \in Devices \X Owners |-> 0]]
  /\ owned = [n \in Notices |-> {}]
  /\ cleared = [n \in Notices |-> {}]

-----------------------------------------------------------------------------
(* Recording and sending                                                   *)

\* Seeded fault: a notice that failed is sent again by the next handler.
FaultRetriesFailed(n) == outbox[n] \in {"none", "failed"}

\* ON CONFLICT DO NOTHING: only the handler that inserts the row schedules it.
Queued(n) == outbox[n] = "none"

Record(n) ==
  /\ outbox' = [outbox EXCEPT ![n] = IF @ = "none" THEN "pending" ELSE @]
  /\ IF Queued(n)
     THEN sender' = [sender EXCEPT ![n] = [Idle EXCEPT !.phase = "due"]]
     ELSE UNCHANGED sender
  /\ UNCHANGED <<pushes, deviceVars>>

Goes(n, phase) == sender' = [sender EXCEPT ![n].phase = phase]
Ends(n, phase) == sender' = [sender EXCEPT ![n] = [Idle EXCEPT !.phase = phase]]

MarkNotification(n, status) ==
  /\ outbox' = [outbox EXCEPT ![n] = status]
  /\ Ends(n, "over")
  /\ UNCHANGED pushes

ActiveTokens(n) == {d \in Devices : row[d].active /\ row[d].owner \in Addressees(n)}

FetchTokens(n) ==
  LET found == {<<d, row[d].owner>> : d \in ActiveTokens(n)} IN
  /\ sender[n].phase = "due" /\ outbox[n] # "sent"
  /\ sender' = [sender EXCEPT ![n] = [phase |-> "fetched", tokens |-> found,
                                      answers |-> {}]]
  /\ UNCHANGED <<outbox, pushes, deviceVars>>

\* FCM's credentials are read with every message and may be missing.
NotConfigured(n) ==
  /\ sender[n].phase = "due" /\ outbox[n] # "sent"
  /\ MarkNotification(n, "skipped")
  /\ UNCHANGED deviceVars

\* Seeded fault: the permission is not asked for.
FaultTrustsRows(n) == sender[n].tokens

Permitted(n) == {p \in sender[n].tokens : p[2] \in Staff => p[2] \in mayView}

FilterTokens(n) ==
  /\ sender[n].phase = "fetched"
  /\ IF Permitted(n) = {}
     THEN MarkNotification(n, "skipped")
     ELSE /\ sender' = [sender EXCEPT ![n].phase = "sending",
                                      ![n].tokens = Permitted(n)]
          /\ UNCHANGED <<outbox, pushes>>
  /\ UNCHANGED deviceVars

\* One message per token, all at once: FCM delivers it, does not know the
\* token, or the request fails, perhaps after FCM has accepted the message.
SendMessage(n, p) ==
  /\ sender[n].phase = "sending" /\ p \in sender[n].tokens
  /\ \A a \in sender[n].answers : a[1] # p
  /\ \E answer \in IF p[1] \in gone THEN {"unregistered", "error"} ELSE {"sent", "error"} :
       /\ sender' = [sender EXCEPT ![n].answers = @ \cup {<<p, answer>>}]
       /\ pushes' \in (IF answer = "sent" THEN {} ELSE {pushes})
                      \cup (IF p[1] \in gone THEN {} ELSE {[pushes EXCEPT ![n][p] = @ + 1]})
  /\ UNCHANGED <<outbox, deviceVars>>

AnswersOf(n, answers) == {a \in sender[n].answers : a[2] \in answers}

\* Seeded faults: one failed message is taken for a failure of all; every
\* failure counts as an unknown token; every answer counts as a success.
FaultNeedsEveryToken(n) ==
  {a[1] : a \in AnswersOf(n, {"sent"})} = sender[n].tokens
FaultDropsFailing(n) == {a[1][1] : a \in AnswersOf(n, {"unregistered", "error"})}
FaultCountsAnswers(n) == IF sender[n].answers # {} THEN "sent" ELSE "failed"

\* Promise.allSettled
AllSettled(n) == {a[1] : a \in sender[n].answers} = sender[n].tokens

InvalidTokens(n) == {a[1][1] : a \in AnswersOf(n, {"unregistered"})}

\* By id, whoever the row belongs to by now.
DeactivateInvalid(n) ==
  /\ sender[n].phase = "sending" /\ AllSettled(n)
  /\ row' = [d \in Devices |-> IF d \in InvalidTokens(n)
                               THEN [row[d] EXCEPT !.active = FALSE] ELSE row[d]]
  /\ Goes(n, "settled")
  /\ UNCHANGED <<outbox, pushes, mayView, app, registering, signingOff, gone>>

Verdict(n) == IF AnswersOf(n, {"sent"}) # {} THEN "sent" ELSE "failed"

MarkResult(n) ==
  /\ sender[n].phase = "settled"
  /\ MarkNotification(n, Verdict(n))
  /\ UNCHANGED deviceVars

\* A statement fails (it is only logged) or the process dies.
SenderDies(n) ==
  /\ sender[n].phase \in {"due", "fetched", "sending", "settled"}
  /\ Ends(n, "dead")
  /\ UNCHANGED <<outbox, pushes, deviceVars>>

-----------------------------------------------------------------------------
(* Devices and accounts                                                    *)

\* An app lets somebody sign in when its own requests for that account and its
\* last registration have been answered.
SignIn(d, o) ==
  /\ app[d] = Nobody /\ d \notin gone /\ o \in Users[d]
  /\ o \in Staff => o \in mayView
  /\ <<d, o>> \notin signingOff /\ \A q \in Owners : <<d, q>> \notin registering
  /\ app' = [app EXCEPT ![d] = o]
  /\ registering' = registering \cup {<<d, o>>}
  /\ UNCHANGED <<noticeVars, row, mayView, signingOff, gone>>

RegisterDeviceToken(d, o) ==
  /\ <<d, o>> \in registering
  /\ row' = [row EXCEPT ![d] = [owner |-> o, active |-> TRUE]]
  /\ registering' = registering \ {<<d, o>>}
  /\ UNCHANGED <<noticeVars, mayView, app, signingOff, gone>>

SignOff(d) ==
  /\ app[d] # Nobody /\ <<d, app[d]>> \notin registering
  /\ signingOff' = signingOff \cup {<<d, app[d]>>}
  /\ app' = [app EXCEPT ![d] = Nobody]
  /\ UNCHANGED <<noticeVars, row, mayView, registering, gone>>

DeactivateDeviceToken(d, o) ==
  /\ <<d, o>> \in signingOff
  /\ row' = IF row[d].owner = o THEN [row EXCEPT ![d].active = FALSE] ELSE row
  /\ signingOff' = signingOff \ {<<d, o>>}
  /\ UNCHANGED <<noticeVars, mayView, app, registering, gone>>

\* A change of role, activity, permissions or password: the account's tokens
\* are deactivated and its sessions end.  A registration that was authorised
\* before is not held back.
ChangeAccount(s) ==
  /\ mayView' \in {mayView \cup {s}, mayView \ {s}}
  /\ row' = [d \in Devices |-> IF row[d].owner = s
                               THEN [row[d] EXCEPT !.active = FALSE] ELSE row[d]]
  /\ app' = [d \in Devices |-> IF app[d] = s THEN Nobody ELSE app[d]]
  /\ UNCHANGED <<noticeVars, registering, signingOff, gone>>

\* The app is removed; FCM never gives out its token again.
Uninstall(d) ==
  /\ d \notin gone
  /\ gone' = gone \cup {d}
  /\ app' = [app EXCEPT ![d] = Nobody]
  /\ UNCHANGED <<noticeVars, row, mayView, registering, signingOff>>

-----------------------------------------------------------------------------
\* The histories follow a notice until its sender has read the rows and the
\* permissions.
Witness ==
  /\ owned' = [n \in Notices |->
       IF sender'[n].phase = "due"
       THEN owned[n] \cup {<<d, row'[d].owner>> : d \in {e \in Devices : row'[e].active}}
       ELSE IF sender'[n].phase \in {"none", "over", "dead"} THEN {} ELSE owned[n]]
  /\ cleared' = [n \in Notices |->
       IF sender'[n].phase \in {"due", "fetched"} THEN cleared[n] \cup mayView'
       ELSE IF sender'[n].phase \in {"none", "over", "dead"} THEN {} ELSE cleared[n]]

SenderSteps(n) ==
  \/ FetchTokens(n) \/ NotConfigured(n) \/ FilterTokens(n)
  \/ \E p \in Devices \X Owners : SendMessage(n, p)
  \/ DeactivateInvalid(n) \/ MarkResult(n)

DeliveryNext ==
  /\ \/ \E n \in Notices : Record(n) \/ SenderSteps(n) \/ SenderDies(n)
     \/ \E d \in Devices : SignOff(d) \/ Uninstall(d)
     \/ \E d \in Devices, o \in Owners :
          SignIn(d, o) \/ RegisterDeviceToken(d, o) \/ DeactivateDeviceToken(d, o)
     \/ \E s \in Staff : ChangeAccount(s)
  /\ Witness

DeliverySpec == DeliveryInit /\ [][DeliveryNext]_deliveryVars

\* The event loop runs the callback, and FCM answers or the connection breaks.
DeliveryFairness ==
  \A n \in Notices : WF_deliveryVars(SenderSteps(n) /\ Witness)

-----------------------------------------------------------------------------
(* Properties                                                              *)

Phases == {"none", "due", "fetched", "sending", "settled", "over", "dead"}

DeliveryTypeOK ==
  /\ outbox \in [Notices -> {"none", "pending", "sent", "failed", "skipped"}]
  /\ row \in [Devices -> [owner : Owners \cup {Nobody}, active : BOOLEAN]]
  /\ mayView \subseteq Staff
  /\ \A n \in Notices : /\ sender[n].phase \in Phases
                        /\ sender[n].tokens \subseteq Devices \X Owners
  /\ app \in [Devices -> Owners \cup {Nobody}]
  /\ registering \subseteq Devices \X Owners
  /\ signingOff \subseteq Devices \X Owners
  /\ gone \subseteq Devices

\* Whatever handlers record a notice again (redelivered events, repeated
\* syncs), it reaches a device once.
NobodyIsPushedTwice ==
  \A n \in Notices, p \in Devices \X Owners : pushes[n][p] <= 1

\* A notice reaches a device only for an addressee who had it registered after
\* the notice was recorded, and of the staff only those who could see orders
\* since then: not through a row signed off before, and not through one that a
\* late registration made active again for somebody who was dismissed.
PushesReachTheEntitled ==
  \A n \in Notices, p \in Devices \X Owners :
    pushes[n][p] > 0 /\ sender[n].phase = "sending" =>
      /\ p \in owned[n] /\ p[2] \in Addressees(n)
      /\ p[2] \in Staff => p[2] \in cleared[n]

\* Whoever is signed in stays reachable: neither a failed message, nor the
\* late sign-off of the person before, nor a change of another account turns
\* the device's row off.
SignedInDevicesStayReachable ==
  \A d \in Devices :
    app[d] # Nobody /\ <<d, app[d]>> \notin registering =>
      row[d] = [owner |-> app[d], active |-> TRUE]

\* 'sent' says that a device was reached; a notice that reached nobody is never
\* taken for delivered, whichever of its messages fail.
StatusTellsTruth ==
  \A n \in Notices :
    outbox[n] = "sent" => \E p \in Devices \X Owners : pushes[n][p] > 0

\* Both: what is sent is sent once, and what is said to be sent was.
PushesAreAccountedFor == NobodyIsPushedTwice /\ StatusTellsTruth

\* A recorded notice does not stay pending, however many of its devices fail,
\* unless the process that had to send it died or lost its database.
RecordedIsSettled ==
  \A n \in Notices :
    outbox[n] = "pending" ~> outbox[n] # "pending" \/ sender[n].phase = "dead"
=============================================================================
