--------------------------- MODULE PaymentMethods ---------------------------
(***************************************************************************)
(* The saved payment methods of one buyer and the default among them       *)
(* (routes/payment_methods.js, db/payment_methods.sql).                    *)
(*                                                                         *)
(* A request is a READ COMMITTED transaction of several statements: each   *)
(* sees what is committed when it starts and what its own transaction has  *)
(* written; an UPDATE waits for rows another transaction has written and   *)
(* then looks again.  Nothing locks the buyer, so two requests interleave; *)
(* a partial unique index forbids two active defaults.  Cards and PayPal   *)
(* accounts differ in their data only; most recently updated is anyone.    *)
(***************************************************************************)
EXTENDS Integers, FiniteSets

CONSTANTS
  Methods,    \* payment_method_id values
  Requests,   \* bound: requests under way at a time
  Free        \* no request; no write

Absent == [active |-> FALSE, default |-> FALSE]
MethodRows == [active : BOOLEAN, default : BOOLEAN]
Ops == {"add", "save", "delete", "default"}
Steps == {"clear", "clearing", "write", "ensure", "promote", "commit"}

ASSUME WalletAssumption ==
  Free \notin MethodRows \cup Methods \cup Requests \cup Ops \cup Steps

VARIABLES
  saved,     \* user_payment_methods: the committed rows
  tx,        \* per request: its operation, method and next statement
  written,   \* per request: the rows its transaction has written
  crossed,   \* history: requests during which another one committed
  lastAlone  \* history: the last COMMIT was of a request that none crossed

walletVars == <<saved, tx, written, crossed, lastAlone>>

NoTx == [op |-> Free, method |-> Free, default |-> FALSE, step |-> Free, rows |-> {}]
NoWrites == [m \in Methods |-> Free]

WalletInit ==
  /\ saved = [m \in Methods |-> Absent]
  /\ tx = [r \in Requests |-> NoTx]
  /\ written = [r \in Requests |-> NoWrites]
  /\ crossed = {}
  /\ lastAlone = TRUE

Seen(r, m) == IF written[r][m] = Free THEN saved[m] ELSE written[r][m]
ActiveIn(r) == {m \in Methods : Seen(r, m).active}
LockedFrom(r, m) == \E q \in Requests \ {r} : written[q][m] # Free

At(r, ops, step) == tx[r].step = step /\ tx[r].op \in ops
Then(r, step) == tx' = [tx EXCEPT ![r].step = step]

\* ROLLBACK, or nothing was written.
End(r) ==
  /\ tx' = [tx EXCEPT ![r] = NoTx]
  /\ written' = [written EXCEPT ![r] = NoWrites]
  /\ crossed' = crossed \ {r}

-----------------------------------------------------------------------------
(* The unique index: one active default                                    *)

\* The other transactions whose end an entry for m has to await.
Holds(row) == row.active /\ row.default
AwaitsIndex(r, m) ==
  \E q \in Requests \ {r}, o \in Methods \ {m} :
    /\ written[q][o] # Free
    /\ Holds(saved[o]) \/ Holds(written[q][o])

FaultNoIndex(r, m) == FALSE
ViolatesIndex(r, m) == \E o \in Methods \ {m} : Holds(Seen(r, o))

\* Writes row m, waiting for its lock and the index; 23505 rolls back.
Write(r, m, row, step) ==
  /\ ~LockedFrom(r, m)
  /\ Holds(row) => ~AwaitsIndex(r, m)
  /\ IF Holds(row) /\ ViolatesIndex(r, m)
     THEN End(r)
     ELSE /\ written' = [written EXCEPT ![r][m] = row]
          /\ Then(r, step)
          /\ UNCHANGED crossed
  /\ UNCHANGED <<saved, lastAlone>>

-----------------------------------------------------------------------------
(* The statements                                                          *)

Unused(m) ==
  /\ saved[m] = Absent
  /\ \A q \in Requests : m \notin tx[q].rows \cup {tx[q].method}

\* BEGIN, the row of a given id, and the number of methods: the first method
\* becomes the default.  A request that is refused changes nothing.
BeginSave(r, m) ==
  /\ tx[r] = NoTx
  /\ saved[m].active \/ Unused(m)
  /\ \E wanted \in BOOLEAN :
       LET default == wanted \/ ActiveIn(r) = {}
       IN tx' = [tx EXCEPT ![r] =
            [op |-> IF saved[m].active THEN "save" ELSE "add", method |-> m,
             default |-> default, step |-> IF default THEN "clear" ELSE "write",
             rows |-> {}]]
  /\ UNCHANGED <<saved, written, crossed, lastAlone>>

BeginDelete(r, m) ==
  /\ tx[r] = NoTx /\ saved[m].active
  /\ tx' = [tx EXCEPT ![r] = [NoTx EXCEPT !.op = "delete", !.method = m, !.step = "write"]]
  /\ UNCHANGED <<saved, written, crossed, lastAlone>>

BeginDefault(r, m) ==
  /\ tx[r] = NoTx /\ saved[m].active
  /\ tx' = [tx EXCEPT ![r] =
       [NoTx EXCEPT !.op = "default", !.method = m, !.default = TRUE, !.step = "clear"]]
  /\ UNCHANGED <<saved, written, crossed, lastAlone>>

\* clearDefaultPaymentMethods: its rows are those active when it starts; each
\* is awaited, and left alone if it is active no more.
ClearSelects(r) ==
  /\ At(r, Ops, "clear")
  /\ tx' = [tx EXCEPT ![r].step = "clearing", ![r].rows = ActiveIn(r)]
  /\ UNCHANGED <<saved, written, crossed, lastAlone>>

Clear(r) ==
  /\ At(r, Ops, "clearing")
  /\ \A m \in tx[r].rows : ~LockedFrom(r, m)
  /\ written' = [written EXCEPT ![r] = [m \in Methods |->
       IF m \in tx[r].rows /\ Seen(r, m).active
       THEN [active |-> TRUE, default |-> FALSE] ELSE @[m]]]
  /\ Then(r, "write")
  /\ UNCHANGED <<saved, crossed, lastAlone>>

\* INSERT, or UPDATE ... WHERE active = TRUE: no row if it was deleted meanwhile.
Save(r) ==
  LET m == tx[r].method
      row == [active |-> TRUE, default |-> tx[r].default \/ Seen(r, m).default]
  IN /\ At(r, {"add", "save"}, "write")
     /\ IF tx[r].op = "add" \/ Seen(r, m).active
        THEN Write(r, m, row, "ensure")
        ELSE /\ ~LockedFrom(r, m)
             /\ Then(r, "ensure")
             /\ UNCHANGED <<saved, written, crossed, lastAlone>>

\* The soft delete; a method deleted meanwhile is not found: ROLLBACK.
Delete(r) ==
  LET m == tx[r].method
  IN /\ At(r, {"delete"}, "write")
     /\ ~LockedFrom(r, m)
     /\ IF Seen(r, m).active
        THEN Write(r, m, [active |-> FALSE, default |-> FALSE], "ensure")
        ELSE End(r) /\ UNCHANGED <<saved, lastAlone>>

SetDefault(r) ==
  LET m == tx[r].method
  IN /\ At(r, {"default"}, "write")
     /\ ~LockedFrom(r, m)
     /\ IF Seen(r, m).active
        THEN Write(r, m, [active |-> TRUE, default |-> TRUE], "commit")
        ELSE Then(r, "commit") /\ UNCHANGED <<saved, written, crossed, lastAlone>>

\* ensureOneDefaultPaymentMethod: if it sees no default, it picks an active
\* method, and makes it the default by its id alone.
FaultSeesADefault(r) == TRUE
SeesADefault(r) == \E m \in Methods : Holds(Seen(r, m))

Ensure(r) ==
  /\ At(r, Ops, "ensure")
  /\ IF SeesADefault(r) \/ ActiveIn(r) = {}
     THEN Then(r, "commit")
     ELSE \E m \in ActiveIn(r) :
            tx' = [tx EXCEPT ![r].step = "promote", ![r].rows = {m}]
  /\ UNCHANGED <<saved, written, crossed, lastAlone>>

Promote(r) ==
  /\ At(r, Ops, "promote")
  /\ \E m \in tx[r].rows :
       Write(r, m, [Seen(r, m) EXCEPT !.default = TRUE], "commit")

Commit(r) ==
  /\ At(r, Ops, "commit")
  /\ saved' = [m \in Methods |-> Seen(r, m)]
  /\ tx' = [tx EXCEPT ![r] = NoTx]
  /\ written' = [written EXCEPT ![r] = NoWrites]
  /\ crossed' = (crossed \cup {q \in Requests : tx[q] # NoTx}) \ {r}
  /\ lastAlone' = (r \notin crossed)

\* A deadlock's victim, a lost connection, a crash.
Abort(r) ==
  /\ tx[r] # NoTx
  /\ End(r)
  /\ UNCHANGED <<saved, lastAlone>>

WalletNext ==
  \E r \in Requests :
    \/ \E m \in Methods : BeginSave(r, m) \/ BeginDelete(r, m) \/ BeginDefault(r, m)
    \/ ClearSelects(r) \/ Clear(r)
    \/ Save(r) \/ Delete(r) \/ SetDefault(r)
    \/ Ensure(r) \/ Promote(r)
    \/ Commit(r) \/ Abort(r)

WalletSpec == WalletInit /\ [][WalletNext]_walletVars

-----------------------------------------------------------------------------
(* Properties                                                              *)

\* Rows, transactions and their writes have their shapes.
WalletTypeOK ==
  /\ saved \in [Methods -> MethodRows]
  /\ tx \in [Requests -> [op : Ops \cup {Free}, method : Methods \cup {Free},
                          default : BOOLEAN, step : Steps \cup {Free},
                          rows : SUBSET Methods]]
  /\ written \in [Requests -> [Methods -> MethodRows \cup {Free}]]
  /\ crossed \subseteq Requests
  /\ lastAlone \in BOOLEAN

\* However requests overlap, a buyer never has two default payment methods:
\* clearDefaultPaymentMethods misses one set after its snapshot, the index not.
AtMostOneDefault ==
  \A m, o \in Methods : Holds(saved[m]) /\ Holds(saved[o]) => m = o

\* A request that no other overlaps leaves a default if there is any active
\* method, whatever overlapping requests had left before it.
SoloRequestsLeaveOneDefault ==
  lastAlone /\ (\E m \in Methods : saved[m].active)
    => \E m \in Methods : Holds(saved[m])

\* Whatever overlaps, there is one default at most, and a request that nothing
\* overlaps leaves one.
WalletKeepsItsDefault == AtMostOneDefault /\ SoloRequestsLeaveOneDefault
=============================================================================
