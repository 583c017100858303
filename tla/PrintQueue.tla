----------------------------- MODULE PrintQueue -----------------------------
(***************************************************************************)
(* The receipt queue of the merchant's devices                             *)
(* (services/merchant_print_jobs.js): one job per order, handed out under  *)
(* a lease, reported as printed or failed, and handed out again when the   *)
(* device that had it stays silent.                                        *)
(*                                                                         *)
(* Every statement of the service is one UPDATE of one row and so one      *)
(* step.  A claim gets a fresh uuid as its token; as attempts grows with   *)
(* every claim, the claim's attempt number stands for it.  Which device    *)
(* made a claim decides nothing in the code, so the devices are the set of *)
(* claims some device knows about.                                         *)
(***************************************************************************)
EXTENDS Integers, OrderIds

CONSTANT MAX_PRINT_ATTEMPTS

ASSUME PrintAssumption == MAX_PRINT_ATTEMPTS \in Nat

VARIABLES
  jobStatus,   \* merchant_order_print_jobs.status ("none": no row)
  attempts,    \* its attempts
  claimToken,  \* its claim_token (NULL: 0)
  lease,       \* lease_expires_at: NULL, in the future, or passed
  due,         \* the jobs whose available_at has passed
  closed,      \* the orders that are cancelled or refunded
  held,        \* the claims a device has received and still works on
  printed,     \* history: the claims under which a receipt came out
  lapsed,      \* history: the claims whose lease passed
  failed       \* history: the claims recorded as failed

jobVars == <<jobStatus, attempts, claimToken, lease, due>>
claimVars == <<held, printed, lapsed, failed>>
printVars == <<jobVars, closed, claimVars>>

JobStatuses == {"none", "pending", "processing", "completed", "failed"}
Claims == Orders \X (1 .. MAX_PRINT_ATTEMPTS)

PrintInit ==
  /\ jobStatus = [o \in Orders |-> "none"]
  /\ attempts = [o \in Orders |-> 0]
  /\ claimToken = [o \in Orders |-> 0]
  /\ lease = [o \in Orders |-> "none"]
  /\ due = {}
  /\ closed = {}
  /\ held = {} /\ printed = {} /\ lapsed = {} /\ failed = {}

-----------------------------------------------------------------------------
(* The service                                                             *)

\* ON CONFLICT DO NOTHING: the job of an order is made once.
Enqueue(o) ==
  /\ jobStatus[o] = "none"
  /\ o \notin closed
  /\ jobStatus' = [jobStatus EXCEPT ![o] = "pending"]
  /\ due' = due \cup {o}
  /\ UNCHANGED <<attempts, claimToken, lease, closed, claimVars>>

LeaseIsOver(o) == jobStatus[o] = "processing" /\ lease[o] = "lapsed"

Waiting(o) == jobStatus[o] \in {"pending", "failed"} /\ o \in due

\* Seeded faults: a running lease is taken over; a job whose device went
\* silent is given up.
FaultIgnoresLease(o) ==
  /\ attempts[o] < MAX_PRINT_ATTEMPTS
  /\ o \notin closed
  /\ Waiting(o) \/ jobStatus[o] = "processing"
FaultForgetsSilentDevices(o) ==
  attempts[o] < MAX_PRINT_ATTEMPTS /\ o \notin closed /\ Waiting(o)

Claimable(o) ==
  /\ attempts[o] < MAX_PRINT_ATTEMPTS
  /\ o \notin closed
  /\ Waiting(o) \/ LeaseIsOver(o)

\* FOR UPDATE SKIP LOCKED: a claim takes whichever job is not being taken by
\* another one.  The answer may not reach the device.
Claim(o) ==
  LET t == attempts[o] + 1 IN
  /\ Claimable(o)
  /\ jobStatus' = [jobStatus EXCEPT ![o] = "processing"]
  /\ attempts' = [attempts EXCEPT ![o] = t]
  /\ claimToken' = [claimToken EXCEPT ![o] = t]
  /\ lease' = [lease EXCEPT ![o] = "running"]
  /\ held' \in {held, held \cup {<<o, t>>}}
  /\ UNCHANGED <<due, closed, printed, lapsed, failed>>

\* Seeded fault: the token is not compared.
FaultAcceptsAnyToken(o, t) == jobStatus[o] = "processing"

ClaimIsActive(o, t) == claimToken[o] = t /\ jobStatus[o] = "processing"

\* After the answer (200, or 409 for a claim that is not active any more) the
\* device is done with the claim; without it the device reports again.
Answered(o, t) == held' \in {held, held \ {<<o, t>>}}

CompletePrintJob(o, t) ==
  /\ <<o, t>> \in held \cap printed
  /\ Answered(o, t)
  /\ IF ClaimIsActive(o, t)
     THEN /\ jobStatus' = [jobStatus EXCEPT ![o] = "completed"]
          /\ lease' = [lease EXCEPT ![o] = "none"]
     ELSE UNCHANGED <<jobStatus, lease>>
  /\ UNCHANGED <<attempts, claimToken, due, closed, printed, lapsed, failed>>

\* A device may report a failure although the receipt came out.
FailPrintJob(o, t) ==
  /\ <<o, t>> \in held
  /\ Answered(o, t)
  /\ IF ClaimIsActive(o, t)
     THEN /\ jobStatus' = [jobStatus EXCEPT ![o] = "failed"]
          /\ claimToken' = [claimToken EXCEPT ![o] = 0]
          /\ lease' = [lease EXCEPT ![o] = "none"]
          /\ due' = due \ {o}
          /\ failed' = failed \cup {<<o, t>>}
     ELSE UNCHANGED <<jobStatus, claimToken, lease, due, failed>>
  /\ UNCHANGED <<attempts, closed, printed, lapsed>>

-----------------------------------------------------------------------------
(* The devices, the clock and the order handlers                           *)

PrintReceipt(o, t) ==
  /\ <<o, t>> \in held
  /\ printed' = printed \cup {<<o, t>>}
  /\ UNCHANGED <<jobVars, closed, held, lapsed, failed>>

\* A device is switched off and forgets what it was printing.
DeviceCrash(o, t) ==
  /\ <<o, t>> \in held
  /\ held' = held \ {<<o, t>>}
  /\ UNCHANGED <<jobVars, closed, printed, lapsed, failed>>

LeaseExpires(o) ==
  /\ lease[o] = "running"
  /\ lease' = [lease EXCEPT ![o] = "lapsed"]
  /\ lapsed' = lapsed \cup {<<o, claimToken[o]>>}
  /\ UNCHANGED <<jobStatus, attempts, claimToken, due, closed, held, printed, failed>>

BecomesAvailable(o) ==
  /\ jobStatus[o] = "failed"
  /\ o \notin due
  /\ due' = due \cup {o}
  /\ UNCHANGED <<jobStatus, attempts, claimToken, lease, closed, claimVars>>

\* An order is cancelled or refunded; a payment sync may turn 'refunded' into
\* 'partially_refunded', which is not excluded from printing.
OrderCloses(o) ==
  /\ o \notin closed
  /\ closed' = closed \cup {o}
  /\ UNCHANGED <<jobVars, claimVars>>
OrderReopens(o) ==
  /\ o \in closed
  /\ closed' = closed \ {o}
  /\ UNCHANGED <<jobVars, claimVars>>

PrintNext ==
  \/ \E o \in Orders : \/ Enqueue(o)
                       \/ Claim(o)
                       \/ LeaseExpires(o)
                       \/ BecomesAvailable(o)
                       \/ OrderCloses(o)
                       \/ OrderReopens(o)
  \/ \E o \in Orders : \E t \in 1 .. attempts[o] :
       \/ CompletePrintJob(o, t)
       \/ FailPrintJob(o, t)
       \/ PrintReceipt(o, t)
       \/ DeviceCrash(o, t)

PrintSpec == PrintInit /\ [][PrintNext]_printVars

\* Time passes, and at least one device of the store keeps asking for work.
\* Nothing is assumed about how long a device takes or whether it answers.
PrintFairness ==
  /\ \A o \in Orders : WF_printVars(LeaseExpires(o)) /\ WF_printVars(BecomesAvailable(o))
  /\ WF_printVars(\E o \in Orders : Claim(o))

FairPrintSpec == PrintSpec /\ PrintFairness

-----------------------------------------------------------------------------
(* Properties                                                              *)

\* The queue keeps its types; in particular no job is claimed more often than
\* MAX_PRINT_ATTEMPTS, however devices fail.
PrintTypeOK ==
  /\ jobStatus \in [Orders -> JobStatuses]
  /\ attempts \in [Orders -> 0 .. MAX_PRINT_ATTEMPTS]
  /\ claimToken \in [Orders -> 0 .. MAX_PRINT_ATTEMPTS]
  /\ lease \in [Orders -> {"none", "running", "lapsed"}]
  /\ due \subseteq Orders
  /\ closed \subseteq Orders
  /\ held \subseteq Claims
  /\ printed \subseteq Claims
  /\ lapsed \subseteq Claims
  /\ failed \subseteq Claims

\* A completed job was printed under its last claim: the late result of a
\* device that lost its lease never finishes a job another device has.
CompletedJobsWerePrinted ==
  \A o \in Orders : jobStatus[o] = "completed" => <<o, attempts[o]>> \in printed

\* A job is handed out again only if the claim before was reported failed or
\* its lease ran out, so that a second receipt comes out only then.
ReceiptsAreRepeatedOnlyAfterALapse ==
  \A o \in Orders : \A t \in 1 .. attempts[o] :
    t < attempts[o] => <<o, t>> \in lapsed \cup failed

\* Both: a claim is good until it is answered or lapses, and only a good claim
\* ends its job.
ClaimsAreHonoured == CompletedJobsWerePrinted /\ ReceiptsAreRepeatedOnlyAfterALapse

\* A job does not wait for ever: it is completed, or its order is closed, or
\* its attempts are used up, even if every device that claims it goes silent.
JobsAreSettled ==
  \A o \in Orders :
    jobStatus[o] # "none" ~>
      \/ jobStatus[o] = "completed"
      \/ o \in closed
      \/ attempts[o] = MAX_PRINT_ATTEMPTS
=============================================================================
