-------------------------- MODULE DeliveryAddresses --------------------------
(***************************************************************************)
(* The delivery addresses of one buyer and the default among them          *)
(* (routes/users.js, and routes/orders.js for an address given with an     *)
(* order).                                                                 *)
(*                                                                         *)
(* Unlike payment methods, a request is a series of statements that each   *)
(* commit by themselves: requests interleave between them, and a request   *)
(* that dies leaves the ones it got to.  Nothing in the database limits    *)
(* the number of defaults.                                                 *)
(***************************************************************************)
EXTENDS Integers

CONSTANTS
  Addresses,  \* address_id values
  Calls,      \* bound: requests under way at a time
  Unset       \* no request; no row

Row == [active : BOOLEAN, default : BOOLEAN]
Kinds == {"create", "update", "delete", "default"}
Stages == {"clear", "write", "pick", "promote"}

ASSUME AddressAssumption == Unset \notin Row \cup Addresses \cup Kinds \cup Stages

VARIABLES
  address,     \* the rows
  call,        \* per request: what it does, to which address, what comes next
  overlapped,  \* history: the requests that another one overlapped
  outcome      \* history: the request that finished last, until the next statement

addressVars == <<address, call, overlapped, outcome>>

NoCall == [kind |-> Unset, to |-> Unset, default |-> FALSE, stage |-> Unset]

AddressInit ==
  /\ address = [m \in Addresses |-> Unset]
  /\ call = [c \in Calls |-> NoCall]
  /\ overlapped = {}
  /\ outcome = NoCall

Current == {m \in Addresses : address[m] # Unset /\ address[m].active}
Addable(m) == address[m] = Unset /\ \A c \in Calls : call[c].to # m

Proceed(c, stage) ==
  /\ call' = [call EXCEPT ![c].stage = stage]
  /\ outcome' = NoCall
  /\ UNCHANGED overlapped

Return(c) ==
  /\ call' = [call EXCEPT ![c] = NoCall]
  /\ overlapped' = overlapped \ {c}
  /\ outcome' = IF c \in overlapped THEN NoCall ELSE call[c]

\* Not found, or the process or its connection died, or a statement failed.
GiveUp(c) ==
  /\ call' = [call EXCEPT ![c] = NoCall]
  /\ overlapped' = overlapped \ {c}
  /\ outcome' = NoCall
  /\ UNCHANGED address

\* Seeded fault: a default does not displace the one before.
FaultKeepsOthers(default) == "write"
FirstStage(default) == IF default THEN "clear" ELSE "write"

\* A request and, for address/default, its SELECT.
Begin(c, kind, m, default) ==
  /\ call[c] = NoCall
  /\ CASE kind = "create" -> Addable(m)
       [] kind = "default" -> default /\ m \in Current
       [] kind = "delete" -> ~default /\ address[m] # Unset
       [] OTHER -> address[m] # Unset
  /\ call' = [call EXCEPT ![c] =
       [kind |-> kind, to |-> m, default |-> default, stage |-> FirstStage(default)]]
  /\ LET others == {d \in Calls : call[d] # NoCall}
     IN overlapped' = IF others = {} THEN overlapped ELSE overlapped \cup others \cup {c}
  /\ outcome' = NoCall
  /\ UNCHANGED address

\* UPDATE ... SET is_default = FALSE for all rows of the buyer.
ClearDefaults(c) ==
  /\ call[c].stage = "clear"
  /\ address' = [m \in Addresses |->
       IF address[m] = Unset THEN Unset ELSE [address[m] EXCEPT !.default = FALSE]]
  /\ Proceed(c, "write")

CreateAddress(c) ==
  /\ call[c].stage = "write" /\ call[c].kind = "create"
  /\ address' = [address EXCEPT ![call[c].to] = [active |-> TRUE, default |-> call[c].default]]
  /\ Return(c)

\* A deleted address is not updated: 404, though the defaults are cleared.
UpdateAddress(c) ==
  LET m == call[c].to
  IN /\ call[c].stage = "write" /\ call[c].kind = "update"
     /\ IF m \in Current
        THEN /\ address' = [address EXCEPT ![m].default = call[c].default]
             /\ Return(c)
        ELSE GiveUp(c)

DeleteAddress(c) ==
  LET m == call[c].to
  IN /\ call[c].stage = "write" /\ call[c].kind = "delete"
     /\ IF m \in Current
        THEN /\ address' = [address EXCEPT ![m] = [active |-> FALSE, default |-> FALSE]]
             /\ Proceed(c, "pick")
        ELSE GiveUp(c)

\* Seeded fault: only an address that is the default already is promoted.
FaultKeepsTheDefault == {m \in Current : address[m].default}
Successors == Current

\* The subquery of the promotion finds an active address, or none, and the
\* UPDATE writes it by its id.
PickSuccessor(c) ==
  /\ call[c].stage = "pick"
  /\ IF Successors = {}
     THEN Return(c)
     ELSE \E m \in Successors :
            /\ call' = [call EXCEPT ![c].stage = "promote", ![c].to = m]
            /\ outcome' = NoCall
            /\ UNCHANGED overlapped
  /\ UNCHANGED address

\* By address_id alone, for the promotion and for address/default.
MakeDefault(c) ==
  /\ \/ call[c].stage = "promote"
     \/ call[c].stage = "write" /\ call[c].kind = "default"
  /\ address' = [address EXCEPT ![call[c].to].default = TRUE]
  /\ Return(c)

\* resolveDeliveryAddress: an order with an address of its own adds it.
AddWithOrder(m) ==
  /\ Addable(m)
  /\ address' = [address EXCEPT ![m] = [active |-> TRUE, default |-> FALSE]]
  /\ outcome' = NoCall
  /\ UNCHANGED <<call, overlapped>>

CallDies(c) == call[c] # NoCall /\ GiveUp(c)

AddressNext ==
  \/ \E c \in Calls :
       \/ \E kind \in Kinds, m \in Addresses, default \in BOOLEAN : Begin(c, kind, m, default)
       \/ ClearDefaults(c) \/ CreateAddress(c) \/ UpdateAddress(c) \/ DeleteAddress(c)
       \/ PickSuccessor(c) \/ MakeDefault(c) \/ CallDies(c)
  \/ \E m \in Addresses : AddWithOrder(m)

AddressSpec == AddressInit /\ [][AddressNext]_addressVars
-----------------------------------------------------------------------------
(* Properties                                                              *)

\* The shapes of rows and requests.
AddressTypeOK ==
  /\ address \in [Addresses -> Row \cup {Unset}]
  /\ call \in [Calls -> [kind : Kinds \cup {Unset}, to : Addresses \cup {Unset},
                         default : BOOLEAN, stage : Stages \cup {Unset}]]
  /\ overlapped \subseteq Calls

Defaults == {m \in Current : address[m].default}

\* What overlapping or dying requests have left behind is repaired by the next
\* explicit choice: an address made the default is the only one then.
AnExplicitDefaultStands == outcome.default => Defaults = {outcome.to}

\* Whoever deletes an address still has a default if any address is left.
ADefaultSurvivesDeletion == outcome.kind = "delete" /\ Current # {} => Defaults # {}

\* Both: the statements of a request share no transaction, but what its own
\* buyer asked for last holds when nothing else was under way.
AddressesKeepADefault == AnExplicitDefaultStands /\ ADefaultSurvivesDeletion
=============================================================================
