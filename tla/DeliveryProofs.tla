--------------------------- MODULE DeliveryProofs ---------------------------
(***************************************************************************)
(* What reaches the devices.  Notifications, for any number of notices,    *)
(* devices and accounts: SenderInv ties the history of pushes to how far a *)
(* sender has come and to the answers it has collected; EntitlementInv     *)
(* says what a sender may still find while rows and permissions change     *)
(* around it; ReachInv, what may be under way for a device somebody is     *)
(* signed in on.  Receipts, for any number of orders and any               *)
(* MAX_PRINT_ATTEMPTS, are at the end.                                     *)
(***************************************************************************)
EXTENDS MCDevices, TLAPS

Registrations == Devices \X Owners
Statuses == {"none", "pending", "sent", "failed", "skipped"}
Senders == [phase : Phases, tokens : SUBSET Registrations,
            answers : SUBSET (Registrations \X {"sent", "error", "unregistered"})]

NoticeTypes ==
  /\ outbox \in [Notices -> Statuses]
  /\ sender \in [Notices -> Senders]
  /\ pushes \in [Notices -> [Registrations -> Nat]]

\* A row that is active has an owner.
DeviceTypes ==
  /\ row \in [Devices -> [owner : Owners \cup {Nobody}, active : BOOLEAN]]
  /\ \A d \in Devices : row[d].active => row[d].owner \in Owners
  /\ mayView \subseteq Staff
  /\ app \in [Devices -> Owners \cup {Nobody}]
  /\ registering \subseteq Registrations
  /\ signingOff \subseteq Registrations
  /\ gone \subseteq Devices

SenderInv(n) ==
  /\ outbox[n] = "none" <=> sender[n].phase = "none"
  /\ sender[n].phase \in {"none", "due", "fetched"} =>
       \A p \in Registrations : pushes[n][p] = 0
  /\ sender[n].phase = "sending" =>
       \A p \in Registrations :
         (\A a \in sender[n].answers : a[1] # p) => pushes[n][p] = 0
  /\ \A p \in Registrations : pushes[n][p] <= 1
  /\ \A a \in sender[n].answers : a[2] = "sent" => pushes[n][a[1]] > 0
  /\ outbox[n] = "sent" => \E p \in Registrations : pushes[n][p] > 0

EntitlementInv(n) ==
  /\ sender[n].phase = "due" =>
       \A d \in Devices : row[d].active => <<d, row[d].owner>> \in owned[n]
  /\ sender[n].phase \in {"due", "fetched"} => mayView \subseteq cleared[n]
  /\ sender[n].phase \in {"fetched", "sending"} =>
       \A p \in sender[n].tokens : p \in owned[n] /\ p[2] \in Addressees(n)
  /\ sender[n].phase = "sending" =>
       /\ \A p \in sender[n].tokens : p[2] \in Staff => p[2] \in cleared[n]
       /\ \A p \in Registrations : pushes[n][p] > 0 => p \in sender[n].tokens

DeliveryInv ==
  /\ NoticeTypes /\ DeviceTypes
  /\ \A n \in Notices : SenderInv(n) /\ EntitlementInv(n)

DeviceStep ==
  \/ \E d \in Devices : SignOff(d) \/ Uninstall(d)
  \/ \E d \in Devices, o \in Owners :
       SignIn(d, o) \/ RegisterDeviceToken(d, o) \/ DeactivateDeviceToken(d, o)
  \/ \E s \in Staff : ChangeAccount(s)

NoticeStep(n) == Record(n) \/ SenderSteps(n) \/ SenderDies(n)

\* DeliveryInv holds of the initial states.
LEMMA DeliveryStart == DeliveryInit => DeliveryInv
<1> SUFFICES ASSUME DeliveryInit PROVE DeliveryInv
  OBVIOUS
<1> USE DEF DeliveryInit, Idle
<1>1. NoticeTypes
  BY DEF NoticeTypes, Statuses, Senders, Phases, Registrations
<1>2. DeviceTypes
  BY DEF DeviceTypes
<1>3. ASSUME NEW n \in Notices PROVE SenderInv(n) /\ EntitlementInv(n)
  BY DEF SenderInv, EntitlementInv, Registrations
<1> QED BY <1>1, <1>2, <1>3 DEF DeliveryInv

-----------------------------------------------------------------------------
(* Types                                                                   *)

\* A sender that ends.
LEMMA EndedTypes ==
  ASSUME NEW n \in Notices, NEW phase \in Phases, NoticeTypes, Ends(n, phase)
  PROVE  sender' \in [Notices -> Senders]
BY DEF Ends, Idle, NoticeTypes, Senders

\* The types of the outbox, the senders and the pushes.
LEMMA NoticeTypesHold ==
  ASSUME NEW n \in Notices, NoticeTypes, DeviceTypes, NoticeStep(n)
  PROVE  NoticeTypes'
<1> USE DEF NoticeTypes
<1>1. CASE Record(n)
  <2>1. outbox' \in [Notices -> Statuses] /\ pushes' = pushes
    BY <1>1 DEF Record, Statuses
  <2>2. CASE Queued(n)
    <3>1. [Idle EXCEPT !.phase = "due"] \in Senders
      BY DEF Idle, Senders, Phases
    <3> QED BY <1>1, <2>1, <2>2, <3>1 DEF Record
  <2>3. CASE ~Queued(n)
    BY <1>1, <2>1, <2>3 DEF Record
  <2> QED BY <2>2, <2>3
<1>2. CASE FetchTokens(n)
  <2>1. {<<d, row[d].owner>> : d \in ActiveTokens(n)} \subseteq Registrations
    BY DEF ActiveTokens, DeviceTypes, Registrations
  <2> QED BY <1>2, <2>1 DEF FetchTokens, Senders, Phases
<1>3. CASE NotConfigured(n)
  BY <1>3, EndedTypes DEF NotConfigured, MarkNotification, Statuses, Phases
<1>4. CASE FilterTokens(n)
  <2>1. CASE Permitted(n) = {}
    BY <1>4, <2>1, EndedTypes DEF FilterTokens, MarkNotification, Statuses, Phases
  <2>2. CASE Permitted(n) # {}
    <3>1. Permitted(n) \subseteq Registrations
      BY DEF Permitted, Senders
    <3>2. [sender[n] EXCEPT !.phase = "sending", !.tokens = Permitted(n)] \in Senders
      BY <3>1 DEF Senders, Phases
    <3> QED BY <1>4, <2>2, <3>2 DEF FilterTokens
  <2> QED BY <2>1, <2>2
<1>5. ASSUME NEW p \in Registrations, SendMessage(n, p) PROVE NoticeTypes'
  <2> PICK answer \in {"sent", "error", "unregistered"} :
        sender' = [sender EXCEPT ![n].answers = @ \cup {<<p, answer>>}]
    BY <1>5 DEF SendMessage
  <2>1. sender' \in [Notices -> Senders]
    BY DEF Senders
  <2>2. pushes' = pushes \/ pushes' = [pushes EXCEPT ![n][p] = @ + 1]
    BY <1>5 DEF SendMessage
  <2>3. pushes' \in [Notices -> [Registrations -> Nat]]
    BY <2>2
  <2> QED BY <2>1, <2>3, <1>5 DEF SendMessage
<1>6. CASE DeactivateInvalid(n)
  BY <1>6 DEF DeactivateInvalid, Goes, Senders, Phases
<1>7. CASE MarkResult(n)
  BY <1>7, EndedTypes DEF MarkResult, Verdict, MarkNotification, Statuses, Phases
<1>8. CASE SenderDies(n)
  BY <1>8, EndedTypes DEF SenderDies, Phases
<1> QED
  BY <1>1, <1>2, <1>3, <1>4, <1>5, <1>6, <1>7, <1>8
  DEF NoticeStep, SenderSteps, Registrations

\* The types of the rows, the apps and what is under way.
LEMMA DeviceTypesHold ==
  ASSUME DeviceTypes, DeviceStep \/ \E n \in Notices : NoticeStep(n)
  PROVE  DeviceTypes'
<1> USE DeliveryAssumption DEF DeviceTypes, Registrations
<1>1. ASSUME NEW d \in Devices, SignOff(d) \/ Uninstall(d) PROVE DeviceTypes'
  <2>1. CASE SignOff(d)
    BY <2>1 DEF SignOff
  <2>2. CASE Uninstall(d)
    BY <2>2 DEF Uninstall
  <2> QED BY <1>1, <2>1, <2>2
<1>2. ASSUME NEW d \in Devices, NEW o \in Owners,
             SignIn(d, o) \/ RegisterDeviceToken(d, o) \/ DeactivateDeviceToken(d, o)
      PROVE  DeviceTypes'
  <2>1. CASE SignIn(d, o)
    BY <2>1 DEF SignIn
  <2>2. CASE RegisterDeviceToken(d, o)
    BY <2>2 DEF RegisterDeviceToken
  <2>3. CASE DeactivateDeviceToken(d, o)
    <3>1. row' = row \/ row' = [row EXCEPT ![d].active = FALSE]
      BY <2>3 DEF DeactivateDeviceToken
    <3>2. row' \in [Devices -> [owner : Owners \cup {Nobody}, active : BOOLEAN]]
      <4>1. [row[d] EXCEPT !.active = FALSE] \in [owner : Owners \cup {Nobody}, active : BOOLEAN]
        OBVIOUS
      <4>2. row' = row \/ row' = [row EXCEPT ![d] = [row[d] EXCEPT !.active = FALSE]]
        BY <3>1
      <4> QED BY <4>1, <4>2
    <3>3. \A e \in Devices : row'[e].active => row'[e].owner \in Owners
      BY <3>1
    <3> QED BY <2>3, <3>2, <3>3 DEF DeactivateDeviceToken
  <2> QED BY <1>2, <2>1, <2>2, <2>3
<1>3. ASSUME NEW s \in Staff, ChangeAccount(s) PROVE DeviceTypes'
  <2>1. \A d \in Devices : row'[d] = row[d] \/ row'[d] = [row[d] EXCEPT !.active = FALSE]
    BY <1>3 DEF ChangeAccount
  <2>2. row' \in [Devices -> [owner : Owners \cup {Nobody}, active : BOOLEAN]]
    BY <1>3 DEF ChangeAccount
  <2> QED BY <1>3, <2>1, <2>2 DEF ChangeAccount
<1>4. ASSUME NEW n \in Notices, NoticeStep(n) PROVE DeviceTypes'
  <2>1. CASE DeactivateInvalid(n)
    <3>1. \A d \in Devices : row'[d] = row[d] \/ row'[d] = [row[d] EXCEPT !.active = FALSE]
      BY <2>1 DEF DeactivateInvalid
    <3>2. row' \in [Devices -> [owner : Owners \cup {Nobody}, active : BOOLEAN]]
      BY <2>1 DEF DeactivateInvalid
    <3> QED BY <2>1, <3>1, <3>2 DEF DeactivateInvalid
  <2>2. CASE ~DeactivateInvalid(n)
    <3>1. UNCHANGED deviceVars
      BY <1>4, <2>2 DEF NoticeStep, SenderSteps, Record, FetchTokens, NotConfigured,
         FilterTokens, SendMessage, MarkResult, SenderDies
    <3> QED BY <3>1 DEF deviceVars
  <2> QED BY <2>1, <2>2
<1> QED BY <1>1, <1>2, <1>3, <1>4 DEF DeviceStep
-----------------------------------------------------------------------------
(* The senders                                                             *)

\* Every kind of step leaves the other notices alone.
LEMMA OneNoticeMoves ==
  ASSUME NEW n \in Notices, NEW m \in Notices \ {n}, NoticeTypes, NoticeStep(n)
  PROVE  /\ outbox'[m] = outbox[m] /\ sender'[m] = sender[m]
         /\ pushes'[m] = pushes[m]
BY DEF NoticeTypes, NoticeStep, SenderSteps, Record, FetchTokens, NotConfigured,
   FilterTokens, SendMessage, DeactivateInvalid, MarkResult, SenderDies,
   MarkNotification, Ends, Goes

\* What happens to devices and accounts is no business of the senders.
LEMMA DevicesLeaveNotices ==
  ASSUME DeviceStep
  PROVE  UNCHANGED noticeVars
BY DEF DeviceStep, SignOff, Uninstall, SignIn, RegisterDeviceToken,
   DeactivateDeviceToken, ChangeAccount, noticeVars

\* What a sender's own steps keep of it.
LEMMA SenderHolds ==
  ASSUME NEW n \in Notices, NoticeTypes, NoticeTypes', SenderInv(n), NoticeStep(n)
  PROVE  SenderInv(n)'
<1> USE DEF SenderInv, NoticeTypes
<1>1. CASE Record(n)
  <2>1. CASE Queued(n)
    <3>1. sender'[n] = [Idle EXCEPT !.phase = "due"]
      BY <1>1, <2>1 DEF Record
    <3>2. outbox'[n] = "pending" /\ pushes' = pushes
      BY <1>1, <2>1 DEF Record, Queued
    <3>3. sender[n].phase = "none"
      BY <2>1 DEF Queued
    <3> QED BY <3>1, <3>2, <3>3 DEF Idle
  <2>2. CASE ~Queued(n)
    BY <1>1, <2>2 DEF Record, Queued
  <2> QED BY <2>1, <2>2
<1>2. CASE FetchTokens(n)
  BY <1>2 DEF FetchTokens, Senders
<1>3. CASE NotConfigured(n)
  BY <1>3 DEF NotConfigured, MarkNotification, Ends, Idle, Senders
<1>4. CASE FilterTokens(n)
  BY <1>4 DEF FilterTokens, MarkNotification, Ends, Idle, Senders
<1>5. ASSUME NEW p \in Registrations, SendMessage(n, p) PROVE SenderInv(n)'
  <2> PICK answer \in {"sent", "error", "unregistered"} :
        /\ sender' = [sender EXCEPT ![n].answers = @ \cup {<<p, answer>>}]
        /\ answer = "sent" => pushes' = [pushes EXCEPT ![n][p] = @ + 1]
        /\ pushes' = pushes \/ pushes' = [pushes EXCEPT ![n][p] = @ + 1]
    BY <1>5 DEF SendMessage
  <2>1. sender[n].phase = "sending" /\ pushes[n][p] = 0 /\ outbox' = outbox
    BY <1>5 DEF SendMessage
  <2>2. /\ sender'[n].phase = "sending"
        /\ sender'[n].answers = sender[n].answers \cup {<<p, answer>>}
    BY <2>1 DEF Senders
  <2>3. \A q \in Registrations \ {p} : pushes'[n][q] = pushes[n][q]
    OBVIOUS
  <2>4. pushes'[n][p] \in {0, 1} /\ (answer = "sent" => pushes'[n][p] = 1)
    BY <2>1
  <2>5. \A q \in Registrations : pushes'[n][q] >= pushes[n][q]
    BY <2>1, <2>3, <2>4
  <2>6. \A a \in sender[n].answers : a[1] \in Registrations
    BY DEF Senders
  <2>7. \A q \in Registrations :
          (\A a \in sender'[n].answers : a[1] # q) => pushes'[n][q] = 0
    <3>1. <<p, answer>>[1] = p
      OBVIOUS
    <3> QED BY <2>1, <2>2, <2>3, <3>1
  <2>8. \A a \in sender'[n].answers : a[2] = "sent" => pushes'[n][a[1]] > 0
    BY <2>2, <2>4, <2>5, <2>6
  <2>9. \A q \in Registrations : pushes'[n][q] <= 1
    BY <2>3, <2>4
  <2>10. outbox'[n] = "sent" => \E q \in Registrations : pushes'[n][q] > 0
    BY <2>1, <2>5
  <2> QED BY <2>1, <2>2, <2>7, <2>8, <2>9, <2>10
<1>6. CASE DeactivateInvalid(n)
  BY <1>6 DEF DeactivateInvalid, Goes, Senders
<1>7. CASE MarkResult(n)
  <2>1. Verdict(n) = "sent" => \E p \in Registrations : pushes[n][p] > 0
    BY DEF Verdict, AnswersOf, Senders
  <2> QED BY <1>7, <2>1 DEF MarkResult, MarkNotification, Ends, Idle, Senders, Verdict
<1>8. CASE SenderDies(n)
  BY <1>8 DEF SenderDies, Ends, Idle, Senders
<1> QED
  BY <1>1, <1>2, <1>3, <1>4, <1>5, <1>6, <1>7, <1>8
  DEF NoticeStep, SenderSteps, Registrations

-----------------------------------------------------------------------------
(* Who is entitled                                                         *)

\* Rows and permissions may change under a sender: the histories follow them.
LEMMA EntitlementStays ==
  ASSUME NEW n \in Notices, EntitlementInv(n), Witness,
         sender'[n] = sender[n], pushes'[n] = pushes[n]
  PROVE  EntitlementInv(n)'
<1> USE DEF EntitlementInv, Witness
<1>1. sender[n].phase = "due" =>
        \A d \in Devices : row'[d].active => <<d, row'[d].owner>> \in owned'[n]
  OBVIOUS
<1>2. sender[n].phase \in {"due", "fetched"} => mayView' \subseteq cleared'[n]
  OBVIOUS
<1>3. sender[n].phase \in {"fetched", "sending"} =>
        owned'[n] = owned[n] /\ cleared[n] \subseteq cleared'[n]
  OBVIOUS
<1> QED BY <1>1, <1>2, <1>3 DEF Addressees

\* FetchTokens reads rows that are active, FilterTokens the permissions of now.
LEMMA EntitlementHolds ==
  ASSUME NEW n \in Notices, NoticeTypes, NoticeTypes', SenderInv(n),
         EntitlementInv(n), NoticeStep(n), Witness
  PROVE  EntitlementInv(n)'
<1> USE DEF EntitlementInv, NoticeTypes
<1> DEFINE Late == sender'[n].phase \in {"none", "settled", "over", "dead"}
<1>1. Late => EntitlementInv(n)'
  OBVIOUS
<1>2. CASE Record(n)
  <2>1. CASE Queued(n)
    <3>1. sender'[n].phase = "due"
      BY <1>2, <2>1 DEF Record, Idle
    <3> QED BY <3>1 DEF Witness
  <2>2. CASE ~Queued(n)
    BY <1>2, <2>2, EntitlementStays DEF Record
  <2> QED BY <2>1, <2>2
<1>3. CASE FetchTokens(n)
  <2>1. /\ sender[n].phase = "due" /\ sender'[n].phase = "fetched"
        /\ sender'[n].tokens = {<<d, row[d].owner>> : d \in ActiveTokens(n)}
    BY <1>3 DEF FetchTokens
  <2>2. owned'[n] = owned[n] /\ mayView' \subseteq cleared'[n]
    BY <2>1 DEF Witness
  <2>3. \A p \in sender'[n].tokens : p \in owned[n] /\ p[2] \in Addressees(n)
    BY <2>1 DEF ActiveTokens
  <2> QED BY <2>1, <2>2, <2>3 DEF Addressees
<1>4. CASE FilterTokens(n)
  <2>1. CASE Permitted(n) = {}
    BY <1>1, <1>4, <2>1 DEF FilterTokens, MarkNotification, Ends, Idle
  <2>2. CASE Permitted(n) # {}
    <3>1. /\ sender[n].phase = "fetched" /\ sender'[n].phase = "sending"
          /\ sender'[n].tokens = Permitted(n) /\ pushes' = pushes
      BY <1>4, <2>2 DEF FilterTokens, Senders
    <3>2. owned'[n] = owned[n] /\ cleared'[n] = cleared[n]
      BY <3>1 DEF Witness
    <3>3. \A p \in Registrations : pushes'[n][p] = 0
      BY <3>1 DEF SenderInv
    <3> QED BY <3>1, <3>2, <3>3 DEF Permitted, Addressees
  <2> QED BY <2>1, <2>2
<1>5. ASSUME NEW p \in Registrations, SendMessage(n, p) PROVE EntitlementInv(n)'
  <2>1. /\ sender[n].phase = "sending" /\ sender'[n].phase = "sending"
        /\ sender'[n].tokens = sender[n].tokens /\ p \in sender[n].tokens
    BY <1>5 DEF SendMessage, Senders
  <2>2. \A q \in Registrations \ {p} : pushes'[n][q] = pushes[n][q]
    BY <1>5 DEF SendMessage
  <2>3. owned'[n] = owned[n] /\ cleared'[n] = cleared[n]
    BY <2>1 DEF Witness
  <2> QED BY <2>1, <2>2, <2>3 DEF Addressees
<1>6. CASE DeactivateInvalid(n)
  BY <1>1, <1>6 DEF DeactivateInvalid, Goes, Senders
<1>7. CASE NotConfigured(n) \/ MarkResult(n) \/ SenderDies(n)
  BY <1>1, <1>7
  DEF NotConfigured, MarkResult, SenderDies, MarkNotification, Ends, Idle
<1> QED
  BY <1>2, <1>3, <1>4, <1>5, <1>6, <1>7 DEF NoticeStep, SenderSteps, Registrations

-----------------------------------------------------------------------------
\* Every step keeps DeliveryInv.
LEMMA DeliveryStep ==
  ASSUME DeliveryInv, [DeliveryNext]_deliveryVars
  PROVE  DeliveryInv'
<1> USE DEF DeliveryInv
<1>1. ASSUME NEW n \in Notices, NoticeStep(n), Witness PROVE DeliveryInv'
  <2>1. NoticeTypes' /\ DeviceTypes'
    BY <1>1, NoticeTypesHold, DeviceTypesHold
  <2>2. ASSUME NEW m \in Notices PROVE SenderInv(m)' /\ EntitlementInv(m)'
    <3>1. CASE m = n
      BY <1>1, <2>1, <3>1, SenderHolds, EntitlementHolds
    <3>2. CASE m # n
      <4>1. /\ outbox'[m] = outbox[m] /\ sender'[m] = sender[m]
            /\ pushes'[m] = pushes[m]
        BY <1>1, <3>2, OneNoticeMoves
      <4> QED BY <1>1, <4>1, EntitlementStays DEF SenderInv
    <3> QED BY <3>1, <3>2
  <2> QED BY <2>1, <2>2
<1>2. ASSUME DeviceStep, Witness PROVE DeliveryInv'
  <2>1. outbox' = outbox /\ sender' = sender /\ pushes' = pushes
    BY <1>2, DevicesLeaveNotices DEF noticeVars
  <2>2. NoticeTypes' /\ DeviceTypes'
    BY <1>2, <2>1, DeviceTypesHold DEF NoticeTypes
  <2>3. \A n \in Notices : SenderInv(n)' /\ EntitlementInv(n)'
    BY <1>2, <2>1, EntitlementStays DEF SenderInv
  <2> QED BY <2>2, <2>3
<1>3. CASE UNCHANGED deliveryVars
  BY <1>3 DEF deliveryVars, noticeVars, deviceVars, NoticeTypes, DeviceTypes,
     SenderInv, EntitlementInv, Addressees
<1>4. DeliveryNext =>
        (DeviceStep \/ \E n \in Notices : NoticeStep(n)) /\ Witness
  BY DEF DeliveryNext, DeviceStep, NoticeStep
<1> QED BY <1>1, <1>2, <1>3, <1>4

\* What senders and devices keep, whoever moves.
THEOREM DeliveryKeepsInv == DeliverySpec => []DeliveryInv
BY DeliveryStart, DeliveryStep, PTL DEF DeliverySpec

\* Types: what the handlers, the senders and FCM's answers leave in the tables.
THEOREM DeliveryTypes == DeliverySpec => []DeliveryTypeOK
<1>1. DeliveryInv => DeliveryTypeOK
  BY DEF DeliveryInv, NoticeTypes, DeviceTypes, DeliveryTypeOK, Statuses, Senders,
     Registrations
<1> QED BY <1>1, DeliveryKeepsInv, PTL

\* A notice is pushed to a device once at most, and is said to be sent only if
\* it was pushed to one (sendNotification in notification_service.js).
THEOREM PushesAccounted == DeliverySpec => []PushesAreAccountedFor
<1>1. DeliveryInv => PushesAreAccountedFor
  BY DEF DeliveryInv, SenderInv, PushesAreAccountedFor, NobodyIsPushedTwice,
     StatusTellsTruth, Registrations
<1> QED BY <1>1, DeliveryKeepsInv, PTL

\* While it sends, a notice reaches only addressees whose registrations and
\* permissions it could rely on since it was recorded.
THEOREM PushesEntitled == DeliverySpec => []PushesReachTheEntitled
<1>1. DeliveryInv => PushesReachTheEntitled
  BY DEF DeliveryInv, EntitlementInv, PushesReachTheEntitled, Registrations
<1> QED BY <1>1, DeliveryKeepsInv, PTL

-----------------------------------------------------------------------------
(* Who is signed in                                                        *)

\* What is under way for a device somebody is signed in on: no registration
\* but theirs, none of their own sign-offs, and FCM still knows the device.
SignedIn(d) ==
  app[d] # Nobody =>
    /\ \A q \in Owners : <<d, q>> \in registering => q = app[d]
    /\ <<d, app[d]>> \notin signingOff
    /\ d \notin gone
    /\ <<d, app[d]>> \notin registering => row[d] = [owner |-> app[d], active |-> TRUE]

\* Only devices that FCM does not know are answered so.
AnswersTrue(n) ==
  \A a \in sender[n].answers : a[2] = "unregistered" => a[1][1] \in gone

ReachInv == (\A d \in Devices : SignedIn(d)) /\ (\A n \in Notices : AnswersTrue(n))

\* ReachInv holds of the initial states.
LEMMA ReachStart == DeliveryInit => ReachInv
BY DEF DeliveryInit, ReachInv, SignedIn, AnswersTrue, Idle

\* A sender turns off only rows of devices that are gone.
LEMMA SendersReach ==
  ASSUME NEW n \in Notices, NoticeTypes, DeviceTypes, ReachInv, NoticeStep(n)
  PROVE  ReachInv'
<1>1. UNCHANGED <<app, registering, signingOff, gone>>
  BY DEF NoticeStep, SenderSteps, Record, FetchTokens, NotConfigured, FilterTokens,
         SendMessage, DeactivateInvalid, MarkResult, SenderDies, deviceVars
<1>2. ASSUME NEW m \in Notices PROVE AnswersTrue(m)'
  <2>1. CASE sender'[m].answers = sender[m].answers \/ sender'[m].answers = {}
    BY <1>1, <2>1 DEF ReachInv, AnswersTrue
  <2>2. ASSUME NEW p \in Registrations, SendMessage(n, p), m = n
        PROVE  AnswersTrue(m)'
    <3>1. PICK answer : /\ sender'[n].answers = sender[n].answers \cup {<<p, answer>>}
                        /\ answer = "unregistered" => p[1] \in gone
      <4> PICK answer \in {"sent", "error", "unregistered"} :
            /\ sender' = [sender EXCEPT ![n].answers = @ \cup {<<p, answer>>}]
            /\ answer = "unregistered" => p[1] \in gone
        BY <2>2 DEF SendMessage
      <4> QED BY DEF NoticeTypes, Senders
    <3>2. \A a \in sender'[n].answers : a \in sender[n].answers \/ a = <<p, answer>>
      BY <3>1
    <3> QED BY <1>1, <2>2, <3>1, <3>2 DEF ReachInv, AnswersTrue
  <2>3. \/ m = n /\ \E p \in Registrations : SendMessage(n, p)
        \/ sender'[m].answers = sender[m].answers \/ sender'[m].answers = {}
    <3>1. CASE m # n
      BY <3>1, OneNoticeMoves
    <3>2. CASE m = n
      BY <3>2 DEF NoticeStep, SenderSteps, Record, FetchTokens, NotConfigured,
         FilterTokens,
         DeactivateInvalid, MarkResult, SenderDies, MarkNotification, Ends, Goes,
         Idle,
         NoticeTypes, Senders, Registrations
    <3> QED BY <3>1, <3>2
  <2> QED BY <2>1, <2>2, <2>3
<1>3. ASSUME NEW d \in Devices, d \notin gone PROVE row'[d] = row[d]
  <2>1. CASE DeactivateInvalid(n)
    <3>1. d \notin InvalidTokens(n)
      BY <1>3 DEF ReachInv, AnswersTrue, InvalidTokens, AnswersOf
    <3> QED BY <2>1, <3>1 DEF DeactivateInvalid
  <2>2. CASE ~DeactivateInvalid(n)
    BY <2>2 DEF NoticeStep, SenderSteps, Record, FetchTokens, NotConfigured,
       FilterTokens,
       SendMessage, MarkResult, SenderDies, deviceVars
  <2> QED BY <2>1, <2>2
<1>4. ASSUME NEW d \in Devices PROVE SignedIn(d)'
  BY <1>1, <1>3 DEF ReachInv, SignedIn
<1> QED BY <1>2, <1>4 DEF ReachInv

\* A sign-in, a registration, a sign-off and a change of an account leave
\* whoever is signed in reachable.
LEMMA DevicesReach ==
  ASSUME DeviceTypes, ReachInv, DeviceStep
  PROVE  ReachInv'
<1>1. sender' = sender /\ gone \subseteq gone'
  BY DevicesLeaveNotices DEF noticeVars, DeviceStep, SignOff, Uninstall, SignIn,
     RegisterDeviceToken, DeactivateDeviceToken, ChangeAccount
<1>2. ASSUME NEW m \in Notices PROVE AnswersTrue(m)'
  BY <1>1 DEF ReachInv, AnswersTrue
<1>3. ASSUME NEW e \in Devices PROVE SignedIn(e)'
  <2>0. /\ app \in [Devices -> Owners \cup {Nobody}]
        /\ row \in [Devices -> [owner : Owners \cup {Nobody}, active : BOOLEAN]]
        /\ SignedIn(e)
    BY DEF DeviceTypes, ReachInv
  <2>1. ASSUME NEW d \in Devices, SignOff(d) PROVE SignedIn(e)'
    BY <2>0, <2>1 DEF SignedIn, SignOff
  <2>2. ASSUME NEW d \in Devices, Uninstall(d) PROVE SignedIn(e)'
    BY <2>0, <2>2 DEF SignedIn, Uninstall
  <2>3. ASSUME NEW d \in Devices, NEW o \in Owners, SignIn(d, o) PROVE SignedIn(e)'
    BY <2>0, <2>3 DEF SignedIn, SignIn
  <2>4. ASSUME NEW d \in Devices, NEW o \in Owners, RegisterDeviceToken(d, o)
        PROVE  SignedIn(e)'
    BY <2>0, <2>4 DEF SignedIn, RegisterDeviceToken
  <2>5. ASSUME NEW d \in Devices, NEW o \in Owners, DeactivateDeviceToken(d, o)
        PROVE  SignedIn(e)'
    <3>1. /\ <<d, o>> \in signingOff /\ signingOff' \subseteq signingOff
          /\ UNCHANGED <<app, registering, gone>>
      BY <2>5 DEF DeactivateDeviceToken
    <3>2. row'[e] = row[e] \/ (d = e /\ row[e].owner = o)
      <4>1. CASE row[d].owner = o
        BY <2>0, <2>5, <4>1 DEF DeactivateDeviceToken
      <4>2. CASE row[d].owner # o
        BY <2>5, <4>2 DEF DeactivateDeviceToken
      <4> QED BY <4>1, <4>2
    <3>3. CASE /\ d = e /\ row[e].owner = o
               /\ app[e] # Nobody /\ <<e, app[e]>> \notin registering
      <4>1. row[e].owner = app[e] /\ <<e, app[e]>> \notin signingOff
        BY <2>0, <3>3 DEF SignedIn
      <4> QED BY <3>1, <3>3, <4>1
    <3> QED BY <2>0, <3>1, <3>2, <3>3 DEF SignedIn
  <2>6. ASSUME NEW s \in Staff, ChangeAccount(s) PROVE SignedIn(e)'
    <3>1. /\ app'[e] = (IF app[e] = s THEN Nobody ELSE app[e])
          /\ row[e].owner # s => row'[e] = row[e]
          /\ UNCHANGED <<registering, signingOff, gone>>
      BY <2>0, <2>6 DEF ChangeAccount
    <3>2. CASE app[e] # Nobody /\ <<e, app[e]>> \notin registering /\ app[e] # s
      <4>1. row[e].owner = app[e]
        BY <2>0, <3>2 DEF SignedIn
      <4> QED BY <2>0, <3>1, <3>2, <4>1 DEF SignedIn
    <3> QED BY <2>0, <3>1, <3>2 DEF SignedIn
  <2> QED BY <2>1, <2>2, <2>3, <2>4, <2>5, <2>6 DEF DeviceStep
<1> QED BY <1>2, <1>3 DEF ReachInv

\* Whoever is signed in stays reachable, however their own and others' late
\* registrations and sign-offs, and FCM's answers, interleave.
THEOREM SignedInStayReachable == DeliverySpec => []SignedInDevicesStayReachable
<1>1. DeliveryInv /\ ReachInv /\ [DeliveryNext]_deliveryVars => ReachInv'
  <2> SUFFICES ASSUME DeliveryInv, ReachInv, [DeliveryNext]_deliveryVars PROVE ReachInv'
    OBVIOUS
  <2>1. CASE UNCHANGED deliveryVars
    BY <2>1 DEF deliveryVars, noticeVars, deviceVars, ReachInv, SignedIn, AnswersTrue
  <2>2. CASE DeliveryNext
    BY <2>2, SendersReach, DevicesReach DEF DeliveryNext, DeviceStep, NoticeStep,
       DeliveryInv
  <2> QED BY <2>1, <2>2
<1>2. ReachInv => SignedInDevicesStayReachable
  BY DEF ReachInv, SignedIn, SignedInDevicesStayReachable
<1> QED BY <1>1, <1>2, ReachStart, DeliveryKeepsInv, PTL DEF DeliverySpec

-----------------------------------------------------------------------------
(* The lists in the apps                                                   *)

\* A step of somebody else leaves a list as it was.
LEMMA ListsStay ==
  ASSUME NothingUnseenIsSwept, [InboxNext]_inboxVars
  PROVE  NothingUnseenIsSwept'
<1> USE DEF NothingUnseenIsSwept
<1>1. ASSUME NEW n \in Notes, Post(n) PROVE NothingUnseenIsSwept'
  BY <1>1 DEF Post
<1>2. ASSUME NEW p \in People, ReadAll(p) PROVE NothingUnseenIsSwept'
  BY <1>2 DEF ReadAll
<1>3. ASSUME NEW p \in People, DeleteRead(p) PROVE NothingUnseenIsSwept'
  <2>1. Swept(p) \subseteq readBy
    BY DEF Swept
  <2> QED BY <1>3, <2>1 DEF DeleteRead
<1>4. ASSUME NEW n \in Notes, NEW p \in People, MarkRead(n, p) \/ Delete(n, p)
      PROVE  NothingUnseenIsSwept'
  BY <1>4 DEF MarkRead, Delete
<1>5. CASE UNCHANGED inboxVars
  BY <1>5 DEF inboxVars
<1> QED BY <1>1, <1>2, <1>3, <1>4, <1>5 DEF InboxNext

\* Whatever a step adds is of one person.
LEMMA StepsAreOnesOwn ==
  ASSUME [InboxNext]_inboxVars,
         NEW r \in Notes \X People, NEW q \in Notes \X People,
         r \in readBy' \cup dismissed', r \notin readBy \cup dismissed,
         q \in readBy' \cup dismissed', q \notin readBy \cup dismissed
  PROVE  r[2] = q[2]
<1>1. ASSUME NEW n \in Notes, Post(n) PROVE FALSE
  BY <1>1 DEF Post
<1>2. ASSUME NEW p \in People, ReadAll(p) PROVE r[2] = q[2]
  <2>1. \A s \in Unswept(p) : s[2] = p
    BY DEF Unswept
  <2> QED BY <1>2, <2>1 DEF ReadAll
<1>3. ASSUME NEW p \in People, DeleteRead(p) PROVE r[2] = q[2]
  <2>1. \A s \in Swept(p) : \E n \in Notes : s = <<n, p>>
    BY DEF Swept
  <2> QED BY <1>3, <2>1 DEF DeleteRead
<1>4. ASSUME NEW n \in Notes, NEW p \in People, MarkRead(n, p) \/ Delete(n, p)
      PROVE  r[2] = q[2]
  BY <1>4 DEF MarkRead, Delete
<1>5. CASE UNCHANGED inboxVars
  BY <1>5 DEF inboxVars
<1> QED BY <1>1, <1>2, <1>3, <1>4, <1>5 DEF InboxNext

\* A note leaves an account's list only by what that account did (read,
\* read-all, delete and delete-read in both apps).
THEOREM ListsAreOnesOwn == InboxSpec => ListsAreTheirReaders
<1>1. InboxInit => NothingUnseenIsSwept
  BY DEF InboxInit, NothingUnseenIsSwept
<1>2. [InboxNext]_inboxVars => InboxesAreOnesOwn
  BY StepsAreOnesOwn DEF InboxesAreOnesOwn
<1>3. NothingUnseenIsSwept /\ [InboxNext]_inboxVars =>
        [NothingUnseenIsSwept' /\ InboxesAreOnesOwn]_inboxVars
  BY <1>2, ListsStay
<1> QED
  BY <1>1, <1>3, ListsStay, PTL DEF InboxSpec, ListsAreTheirReaders

(***************************************************************************)
(*                           The receipt queue                             *)
(***************************************************************************)

(* PrintInv adds to the properties how a job's status, its token, its      *)
(* lease and its attempts belong together: without it a late result could  *)
(* carry the token of a job another device has.                            *)

JobShape(o) ==
  /\ lease[o] # "none" <=> jobStatus[o] = "processing"
  /\ jobStatus[o] \in {"none", "pending"} => attempts[o] = 0
  /\ jobStatus[o] = "processing" =>
       attempts[o] \in 1 .. MAX_PRINT_ATTEMPTS /\ claimToken[o] = attempts[o]
  /\ jobStatus[o] = "failed" => <<o, attempts[o]>> \in failed
  /\ lease[o] = "lapsed" => <<o, attempts[o]>> \in lapsed

PrintInv ==
  /\ PrintTypeOK
  /\ \A o \in Orders : JobShape(o)
  /\ CompletedJobsWerePrinted
  /\ ReceiptsAreRepeatedOnlyAfterALapse

LEMMA PrintStart == PrintInit => PrintInv
BY PrintAssumption
DEF PrintInit, PrintInv, PrintTypeOK, JobStatuses, Claims, JobShape,
    CompletedJobsWerePrinted, ReceiptsAreRepeatedOnlyAfterALapse

\* A claim raises attempts; the claim before was failed or had lapsed.
LEMMA ClaimKeepsInv ==
  ASSUME NEW o \in Orders, PrintInv, Claim(o)
  PROVE  PrintInv'
<1> USE PrintAssumption DEF PrintInv, Claim, Claimable, Waiting, LeaseIsOver
<1>1. attempts[o] \in 0 .. MAX_PRINT_ATTEMPTS - 1
  BY DEF PrintTypeOK
<1>2. PrintTypeOK'
  BY <1>1 DEF PrintTypeOK, JobStatuses, Claims
<1>3. ASSUME NEW q \in Orders PROVE JobShape(q)'
  BY <1>1 DEF PrintTypeOK, JobShape
<1>4. CompletedJobsWerePrinted'
  BY DEF PrintTypeOK, CompletedJobsWerePrinted
<1>5. attempts[o] # 0 => <<o, attempts[o]>> \in lapsed \cup failed
  BY DEF JobShape, PrintTypeOK
<1>6. ReceiptsAreRepeatedOnlyAfterALapse'
  BY <1>1, <1>5 DEF PrintTypeOK, ReceiptsAreRepeatedOnlyAfterALapse
<1> QED BY <1>2, <1>3, <1>4, <1>6

\* The result of a claim counts only while its token is the job's.
LEMMA ResultKeepsInv ==
  ASSUME NEW o \in Orders, NEW t \in 1 .. attempts[o], PrintInv,
         CompletePrintJob(o, t) \/ FailPrintJob(o, t)
  PROVE  PrintInv'
<1> USE DEF PrintInv, Answered, ClaimIsActive
<1>1. CASE CompletePrintJob(o, t)
  <2> USE <1>1 DEF CompletePrintJob
  <2>1. PrintTypeOK'
    BY DEF PrintTypeOK, JobStatuses
  <2>2. ASSUME NEW q \in Orders PROVE JobShape(q)'
    BY DEF PrintTypeOK, JobShape
  <2>3. CompletedJobsWerePrinted'
    BY DEF PrintTypeOK, JobShape, CompletedJobsWerePrinted
  <2>4. ReceiptsAreRepeatedOnlyAfterALapse'
    BY DEF ReceiptsAreRepeatedOnlyAfterALapse
  <2> QED BY <2>1, <2>2, <2>3, <2>4
<1>2. CASE FailPrintJob(o, t)
  <2> USE <1>2, PrintAssumption DEF FailPrintJob
  <2>1. PrintTypeOK'
    BY DEF PrintTypeOK, JobStatuses, Claims
  <2>2. ASSUME NEW q \in Orders PROVE JobShape(q)'
    BY DEF PrintTypeOK, JobShape
  <2>3. CompletedJobsWerePrinted'
    BY DEF PrintTypeOK, CompletedJobsWerePrinted
  <2>4. ReceiptsAreRepeatedOnlyAfterALapse'
    BY DEF ReceiptsAreRepeatedOnlyAfterALapse
  <2> QED BY <2>1, <2>2, <2>3, <2>4
<1> QED BY <1>1, <1>2

\* The devices, the clock and the order handlers leave attempts and completed
\* jobs alone.
LEMMA OthersKeepInv ==
  ASSUME NEW o \in Orders, PrintInv,
         \/ Enqueue(o) \/ LeaseExpires(o) \/ BecomesAvailable(o)
         \/ OrderCloses(o) \/ OrderReopens(o)
         \/ \E t \in 1 .. attempts[o] : PrintReceipt(o, t) \/ DeviceCrash(o, t)
  PROVE  PrintInv'
<1> USE DEF PrintInv, claimVars, jobVars
<1>1. CASE Enqueue(o)
  BY <1>1, PrintAssumption
  DEF Enqueue, PrintTypeOK, JobStatuses, JobShape, CompletedJobsWerePrinted,
      ReceiptsAreRepeatedOnlyAfterALapse
<1>2. CASE LeaseExpires(o)
  <2> USE <1>2, PrintAssumption DEF LeaseExpires
  <2>1. claimToken[o] = attempts[o] /\ attempts[o] \in 1 .. MAX_PRINT_ATTEMPTS
    BY DEF JobShape
  <2>2. PrintTypeOK'
    BY <2>1 DEF PrintTypeOK, Claims
  <2>3. ASSUME NEW q \in Orders PROVE JobShape(q)'
    BY <2>1 DEF PrintTypeOK, JobShape
  <2>4. CompletedJobsWerePrinted' /\ ReceiptsAreRepeatedOnlyAfterALapse'
    BY DEF CompletedJobsWerePrinted, ReceiptsAreRepeatedOnlyAfterALapse
  <2> QED BY <2>2, <2>3, <2>4
<1>3. CASE BecomesAvailable(o) \/ OrderCloses(o) \/ OrderReopens(o)
  BY <1>3
  DEF BecomesAvailable, OrderCloses, OrderReopens, PrintTypeOK, JobShape,
      CompletedJobsWerePrinted, ReceiptsAreRepeatedOnlyAfterALapse
<1>4. CASE \E t \in 1 .. attempts[o] : PrintReceipt(o, t) \/ DeviceCrash(o, t)
  BY <1>4
  DEF PrintReceipt, DeviceCrash, PrintTypeOK, JobShape,
      CompletedJobsWerePrinted, ReceiptsAreRepeatedOnlyAfterALapse
<1> QED BY <1>1, <1>2, <1>3, <1>4

LEMMA PrintStutter ==
  ASSUME PrintInv, UNCHANGED printVars
  PROVE  PrintInv'
BY DEF PrintInv, printVars, jobVars, claimVars, PrintTypeOK, JobShape,
       CompletedJobsWerePrinted, ReceiptsAreRepeatedOnlyAfterALapse

\* PrintInv is inductive: it holds in every reachable state of the queue.
THEOREM PrintInvariant == PrintSpec => []PrintInv
<1>1. PrintInv /\ [PrintNext]_printVars => PrintInv'
  BY ClaimKeepsInv, ResultKeepsInv, OthersKeepInv, PrintStutter DEF PrintNext
<1> QED BY PrintStart, <1>1, PTL DEF PrintSpec

\* The queue keeps its types, and no job is ever claimed more often than
\* MAX_PRINT_ATTEMPTS allows.
THEOREM PrintTypes == PrintSpec => []PrintTypeOK
<1>1. PrintInv => PrintTypeOK
  BY DEF PrintInv
<1> QED BY PrintInvariant, <1>1, PTL

\* A job is completed only by the device that printed it under the job's last
\* claim, whatever late and repeated results come in.
THEOREM PrintedJobs == PrintSpec => []CompletedJobsWerePrinted
<1>1. PrintInv => CompletedJobsWerePrinted
  BY DEF PrintInv
<1> QED BY PrintInvariant, <1>1, PTL

\* A claim is superseded only after it was reported failed or its lease ran
\* out.
THEOREM PrintRepeats == PrintSpec => []ReceiptsAreRepeatedOnlyAfterALapse
<1>1. PrintInv => ReceiptsAreRepeatedOnlyAfterALapse
  BY DEF PrintInv
<1> QED BY PrintInvariant, <1>1, PTL

\* Both at once: good claims are honoured.
THEOREM HonouredClaims == PrintSpec => []ClaimsAreHonoured
<1>1. PrintInv => ClaimsAreHonoured
  BY DEF PrintInv, ClaimsAreHonoured
<1> QED BY PrintInvariant, <1>1, PTL

(***************************************************************************)
(*                        All that reaches the devices                     *)
(***************************************************************************)

\* Receipts, pushes and the lists in the apps share no state: together they do
\* what each of them does alone.
THEOREM DevicesParts == DevicesSpec => PrintSpec /\ DeliverySpec /\ InboxSpec
<1>1. DevicesInit => PrintInit /\ DeliveryInit /\ InboxInit
  BY DEF DevicesInit
<1>2. [DevicesNext]_deviceRunVars =>
        [PrintNext]_printVars /\ [DeliveryNext]_deliveryVars /\ [InboxNext]_inboxVars
  BY DEF DevicesNext, deviceRunVars
<1> QED
  BY <1>1, <1>2, PTL DEF DevicesSpec, PrintSpec, DeliverySpec, InboxSpec
=============================================================================
