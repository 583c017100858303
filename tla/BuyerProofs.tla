----------------------------- MODULE BuyerProofs ----------------------------
(***************************************************************************)
(* What a buyer can rely on, for any number of payment methods, addresses, *)
(* accounts and requests under way, and for any menu: the default payment  *)
(* method, the default address, the password, and what an order is asked   *)
(* and charged.                                                            *)
(***************************************************************************)
EXTENDS MCBuyer, RewardsProofs, FiniteSums

(***************************************************************************)
(*                        What belongs to an account                       *)
(***************************************************************************)

(* The wallet.  A transaction's view (Seen) never has two defaults, and no *)
(* two transactions have written one: that is what the unique index and    *)
(* the row locks give, and COMMIT makes the view of one the state of all.  *)

ViewInv(r) ==
  \A m, o \in Methods : Holds(Seen(r, m)) /\ Holds(Seen(r, o)) => m = o

LockInv ==
  \A r, q \in Requests, m, o \in Methods :
    r # q /\ written[r][m] # Free /\ written[q][o] # Free =>
      m # o /\ ~(Holds(written[r][m]) /\ Holds(written[q][o]))

\* What a request that nobody has crossed knows about its own view.
SoloInv(r) ==
  r \notin crossed =>
    /\ tx[r].op = "default" /\ tx[r].step \in {"clear", "clearing", "write"} =>
         Seen(r, tx[r].method).active
    /\ tx[r].step = "promote" => \A m \in tx[r].rows : Seen(r, m).active
    /\ tx[r].step = "commit" /\ ActiveIn(r) # {} =>
         \E m \in Methods : Holds(Seen(r, m))

\* A request under way has a method; one that is not has written nothing.
TxShape(r) ==
  /\ tx[r].step = Free => tx[r] = NoTx /\ written[r] = NoWrites
  /\ tx[r].step # Free => tx[r].method \in Methods

WalletInv ==
  /\ WalletTypeOK
  /\ \A r \in Requests : TxShape(r) /\ ViewInv(r) /\ SoloInv(r)
  /\ LockInv
  /\ WalletKeepsItsDefault

TxRecords ==
  [op : Ops \cup {Free}, method : Methods \cup {Free}, default : BOOLEAN,
   step : Steps \cup {Free}, rows : SUBSET Methods]

\* A request goes on with another record.
LEMMA TxMoves ==
  ASSUME WalletTypeOK, NEW r \in Requests, NEW rec \in TxRecords,
         tx' = [tx EXCEPT ![r] = rec], UNCHANGED <<saved, written, crossed, lastAlone>>
  PROVE  /\ WalletTypeOK' /\ tx'[r] = rec
         /\ \A q \in Requests \ {r} : tx'[q] = tx[q]
BY DEF WalletTypeOK, TxRecords

LEMMA WalletStart == WalletInit => WalletInv
<1> SUFFICES ASSUME WalletInit PROVE WalletInv
  OBVIOUS
<1> USE WalletAssumption DEF WalletInit
<1>1. WalletTypeOK
  BY DEF WalletTypeOK, MethodRows, Absent, NoTx, NoWrites
<1>2. ASSUME NEW r \in Requests PROVE TxShape(r) /\ ViewInv(r) /\ SoloInv(r)
  BY DEF TxShape, ViewInv, SoloInv, Seen, Holds, Absent, NoTx, NoWrites, Steps
<1>3. LockInv
  BY DEF LockInv, NoWrites
<1>4. WalletKeepsItsDefault
  BY DEF WalletKeepsItsDefault, AtMostOneDefault, SoloRequestsLeaveOneDefault, Holds, Absent
<1> QED BY <1>1, <1>2, <1>3, <1>4 DEF WalletInv

\* The view of another request depends on saved and on what it has written.
LEMMA OthersSee ==
  ASSUME WalletInv, NEW q \in Requests, saved' = saved,
         tx'[q] = tx[q], written'[q] = written[q],
         q \in crossed <=> q \in crossed'
  PROVE  TxShape(q)' /\ ViewInv(q)' /\ SoloInv(q)'
BY DEF WalletInv, TxShape, ViewInv, SoloInv, Seen, ActiveIn, Holds

\* ROLLBACK.
LEMMA EndHolds ==
  ASSUME WalletInv, NEW r \in Requests, End(r), UNCHANGED <<saved, lastAlone>>
  PROVE  WalletInv'
<1> USE WalletAssumption DEF WalletInv, End
<1>1. WalletTypeOK'
  BY DEF WalletTypeOK, NoTx, NoWrites
<1>2. \A q \in Requests \ {r} : TxShape(q)' /\ ViewInv(q)' /\ SoloInv(q)'
  BY OthersSee DEF WalletTypeOK
<1>3. \A m \in Methods : Seen(r, m)' = saved[m]
  BY DEF Seen, NoWrites, WalletTypeOK
<1>4. TxShape(r)' /\ SoloInv(r)'
  BY DEF TxShape, SoloInv, NoTx, Steps, WalletTypeOK
<1>5. ViewInv(r)'
  BY <1>3 DEF ViewInv, WalletKeepsItsDefault, AtMostOneDefault, Holds
<1>6. LockInv'
  BY DEF LockInv, WalletTypeOK, NoWrites
<1> QED
  BY <1>1, <1>2, <1>4, <1>5, <1>6
  DEF WalletKeepsItsDefault, AtMostOneDefault, SoloRequestsLeaveOneDefault

\* A statement that writes nothing.
LEMMA ReadHolds ==
  ASSUME WalletInv, NEW r \in Requests,
         UNCHANGED <<saved, written, crossed, lastAlone>>,
         WalletTypeOK', TxShape(r)', SoloInv(r)',
         \A q \in Requests \ {r} : tx'[q] = tx[q]
  PROVE  WalletInv'
<1>1. \A q \in Requests \ {r} : TxShape(q)' /\ ViewInv(q)' /\ SoloInv(q)'
  BY OthersSee
<1> QED
  BY <1>1 DEF WalletInv, ViewInv, Seen, LockInv, WalletKeepsItsDefault, AtMostOneDefault,
     SoloRequestsLeaveOneDefault

\* An INSERT or UPDATE of one row: the locks and the index let it through, or
\* it is rolled back.
LEMMA WriteHolds ==
  ASSUME WalletInv, NEW r \in Requests, NEW m \in Methods, NEW row \in MethodRows,
         NEW step \in {"ensure", "commit"}, tx[r].step # Free, Write(r, m, row, step),
         step = "commit" /\ r \notin crossed => Holds(row)
  PROVE  WalletInv'
<1> USE WalletAssumption DEF WalletInv
<1>1. CASE Holds(row) /\ ViolatesIndex(r, m)
  BY <1>1, EndHolds DEF Write
<1>2. CASE ~(Holds(row) /\ ViolatesIndex(r, m))
  <2>1. /\ written' = [written EXCEPT ![r][m] = row]
        /\ tx' = [tx EXCEPT ![r].step = step]
        /\ UNCHANGED <<saved, crossed, lastAlone>>
    BY <1>2 DEF Write, Then
  <2>2. /\ written' \in [Requests -> [Methods -> MethodRows \cup {Free}]]
        /\ tx' \in [Requests -> [op : Ops \cup {Free}, method : Methods \cup {Free},
                                 default : BOOLEAN, step : Steps \cup {Free},
                                 rows : SUBSET Methods]]
    BY <2>1 DEF WalletTypeOK, Steps
  <2>3. /\ tx'[r].step = step /\ tx'[r].method = tx[r].method
        /\ written'[r][m] = row
        /\ \A o \in Methods \ {m} : written'[r][o] = written[r][o]
        /\ \A q \in Requests \ {r} : tx'[q] = tx[q] /\ written'[q] = written[q]
    BY <2>1 DEF WalletTypeOK
  <2>4. \A q \in Requests \ {r} : TxShape(q)' /\ ViewInv(q)' /\ SoloInv(q)'
    BY <2>1, <2>3, OthersSee
  <2>5. Seen(r, m)' = row /\ \A o \in Methods \ {m} : Seen(r, o)' = Seen(r, o)
    BY <2>1, <2>3 DEF Seen
  <2>6. ViewInv(r)'
    BY <1>2, <2>5 DEF ViewInv, ViolatesIndex, Holds
  <2>7. TxShape(r)' /\ SoloInv(r)'
    <3>1. step # Free
      BY DEF Steps
    <3>2. step = "commit" /\ r \notin crossed => Holds(Seen(r, m)')
      BY <2>5
    <3> QED BY <2>1, <2>3, <3>1, <3>2 DEF TxShape, SoloInv, Holds
  <2>8. LockInv'
    <3>1. ASSUME NEW q \in Requests \ {r}, NEW o \in Methods, written[q][o] # Free
          PROVE  m # o /\ ~(Holds(row) /\ Holds(written[q][o]))
      <4>1. m # o
        BY <3>1 DEF Write, LockedFrom
      <4>2. Holds(row) => ~Holds(written[q][o])
        BY <3>1, <4>1 DEF Write, AwaitsIndex
      <4> QED BY <4>1, <4>2
    <3> QED BY <2>3, <3>1 DEF LockInv
  <2>9. WalletKeepsItsDefault'
    BY <2>1 DEF WalletKeepsItsDefault, AtMostOneDefault, SoloRequestsLeaveOneDefault
  <2> QED BY <2>1, <2>2, <2>4, <2>6, <2>7, <2>8, <2>9 DEF WalletTypeOK
<1> QED BY <1>1, <1>2

LEMMA SeenIsARow ==
  ASSUME WalletTypeOK, NEW r \in Requests, NEW m \in Methods
  PROVE  Seen(r, m) \in MethodRows
BY DEF WalletTypeOK, Seen

LEMMA BeginHoldsW ==
  ASSUME WalletInv, NEW r \in Requests, NEW m \in Methods,
         BeginSave(r, m) \/ BeginDelete(r, m) \/ BeginDefault(r, m)
  PROVE  WalletInv'
<1> USE WalletAssumption DEF WalletInv
<1>1. /\ UNCHANGED <<saved, written, crossed, lastAlone>>
      /\ \A q \in Requests \ {r} : tx'[q] = tx[q]
  BY DEF BeginSave, BeginDelete, BeginDefault, WalletTypeOK
<1>2. written[r] = NoWrites
  BY DEF BeginSave, BeginDelete, BeginDefault, TxShape, NoTx
<1>3. Seen(r, m) = saved[m]
  BY <1>2 DEF Seen, NoWrites
<1> DEFINE Begun(rec) ==
      /\ rec \in TxRecords /\ rec.method = m /\ rec.step \in {"clear", "write"}
      /\ rec.op = "default" => saved[m].active
<1>4. \E rec \in TxRecords : tx' = [tx EXCEPT ![r] = rec] /\ Begun(rec)
  <2>1. ASSUME NEW wanted \in BOOLEAN, NEW op \in {"add", "save"},
               NEW step \in {"clear", "write"},
               tx' = [tx EXCEPT ![r] = [op |-> op, method |-> m, default |-> wanted,
                                        step |-> step, rows |-> {}]]
        PROVE  \E rec \in TxRecords : tx' = [tx EXCEPT ![r] = rec] /\ Begun(rec)
    <3> DEFINE new == [op |-> op, method |-> m, default |-> wanted, step |-> step, rows |-> {}]
    <3>1. new \in TxRecords /\ Begun(new)
      BY DEF TxRecords, Ops, Steps
    <3> QED BY <2>1, <3>1
  <2>2. CASE BeginSave(r, m)
    <3>1. PICK wanted \in BOOLEAN : tx' = [tx EXCEPT ![r] =
            [op |-> IF saved[m].active THEN "save" ELSE "add", method |-> m,
             default |-> wanted \/ ActiveIn(r) = {},
             step |-> IF wanted \/ ActiveIn(r) = {} THEN "clear" ELSE "write",
             rows |-> {}]]
      BY <2>2 DEF BeginSave
    <3>2. (wanted \/ ActiveIn(r) = {}) \in BOOLEAN
      OBVIOUS
    <3> QED BY <2>1, <3>1, <3>2
  <2>3. CASE BeginDelete(r, m)
    <3> DEFINE new == [NoTx EXCEPT !.op = "delete", !.method = m, !.step = "write"]
    <3>1. new \in TxRecords /\ Begun(new)
      BY DEF TxRecords, Ops, Steps, NoTx
    <3> QED BY <2>3, <3>1 DEF BeginDelete
  <2>4. CASE BeginDefault(r, m)
    <3> DEFINE new == [NoTx EXCEPT !.op = "default", !.method = m, !.default = TRUE,
                                   !.step = "clear"]
    <3>1. new \in TxRecords /\ Begun(new)
      BY <2>4 DEF BeginDefault, TxRecords, Ops, Steps, NoTx
    <3> QED BY <2>4, <3>1 DEF BeginDefault
  <2> QED BY <2>2, <2>3, <2>4
<1>5. PICK rec \in TxRecords : tx' = [tx EXCEPT ![r] = rec] /\ Begun(rec)
  BY <1>4
<1>6. tx'[r] = rec /\ WalletTypeOK'
  BY <1>1, <1>5, TxMoves
<1>7. TxShape(r)' /\ SoloInv(r)'
  BY <1>1, <1>3, <1>5, <1>6 DEF TxShape, SoloInv, Steps, Seen
<1> QED BY <1>1, <1>6, <1>7, ReadHolds

\* The SELECTs of clearDefaultPaymentMethods and ensureOneDefaultPaymentMethod.
LEMMA SelectHolds ==
  ASSUME WalletInv, NEW r \in Requests, ClearSelects(r) \/ Ensure(r)
  PROVE  WalletInv'
<1> USE WalletAssumption DEF WalletInv
<1>1. /\ UNCHANGED <<saved, written, crossed, lastAlone>>
      /\ \A q \in Requests \ {r} : tx'[q] = tx[q]
  BY DEF ClearSelects, Ensure, Then, WalletTypeOK
<1>2. \A m \in Methods : Seen(r, m)' = Seen(r, m)
  BY <1>1 DEF Seen
<1>3. tx[r] \in TxRecords
  BY DEF WalletTypeOK, TxRecords
<1>4. CASE ClearSelects(r)
  <2> DEFINE rec == [tx[r] EXCEPT !.step = "clearing", !.rows = ActiveIn(r)]
  <2>1. rec \in TxRecords /\ rec.step = "clearing" /\ rec.op = tx[r].op
        /\ rec.method = tx[r].method /\ tx' = [tx EXCEPT ![r] = rec]
    BY <1>3, <1>4 DEF ClearSelects, ActiveIn, TxRecords, Steps
  <2>2. tx'[r] = rec /\ WalletTypeOK'
    BY <1>1, <2>1, TxMoves
  <2>3. TxShape(r)' /\ SoloInv(r)'
    <3>1. PICK k \in Methods : k = tx[r].method
      BY <1>4 DEF ClearSelects, At, TxShape, Steps
    <3>2. r \notin crossed /\ tx[r].op = "default" => Seen(r, k).active
      BY <1>4, <3>1 DEF ClearSelects, At, SoloInv
    <3>3. tx'[r].method = k /\ tx'[r].op = tx[r].op /\ tx'[r].step = "clearing"
      BY <2>1, <2>2, <3>1
    <3>4. SoloInv(r)'
      BY <1>1, <3>2, <3>3 DEF SoloInv, Seen
    <3> QED BY <3>3, <3>4 DEF TxShape, Steps
  <2> QED BY <1>1, <2>2, <2>3, ReadHolds
<1>5. CASE Ensure(r) /\ (SeesADefault(r) \/ ActiveIn(r) = {})
  <2> DEFINE rec == [tx[r] EXCEPT !.step = "commit"]
  <2>1. rec \in TxRecords /\ rec.step = "commit"
        /\ rec.method = tx[r].method /\ tx' = [tx EXCEPT ![r] = rec]
    BY <1>3, <1>5 DEF Ensure, Then, TxRecords, Steps
  <2>2. tx'[r] = rec /\ WalletTypeOK'
    BY <1>1, <2>1, TxMoves
  <2>3. ActiveIn(r)' = ActiveIn(r)
    BY <1>2 DEF ActiveIn
  <2>4. TxShape(r)' /\ SoloInv(r)'
    BY <1>1, <1>2, <1>5, <2>1, <2>2, <2>3
    DEF Ensure, At, TxShape, SoloInv, SeesADefault, Holds, Steps
  <2> QED BY <1>1, <2>2, <2>4, ReadHolds
<1>6. CASE Ensure(r) /\ ~(SeesADefault(r) \/ ActiveIn(r) = {})
  <2>1. PICK m \in ActiveIn(r) :
          tx' = [tx EXCEPT ![r].step = "promote", ![r].rows = {m}]
    BY <1>6 DEF Ensure
  <2>2. m \in Methods /\ Seen(r, m).active
    BY <2>1 DEF ActiveIn
  <2> DEFINE rec == [tx[r] EXCEPT !.step = "promote", !.rows = {m}]
  <2>3. rec \in TxRecords /\ rec.step = "promote" /\ rec.rows = {m}
        /\ rec.method = tx[r].method /\ tx' = [tx EXCEPT ![r] = rec]
    <3>1. {m} \in SUBSET Methods
      BY <2>2
    <3>2. rec \in TxRecords /\ rec.step = "promote" /\ rec.rows = {m}
          /\ rec.method = tx[r].method
      BY <1>3, <3>1 DEF TxRecords, Steps
    <3> QED BY <2>1, <3>2
  <2>4. tx'[r] = rec /\ WalletTypeOK'
    BY <1>1, <2>3, TxMoves
  <2>5. TxShape(r)' /\ SoloInv(r)'
    BY <1>1, <1>2, <1>6, <2>2, <2>3, <2>4 DEF Ensure, At, TxShape, SoloInv, Steps
  <2> QED BY <1>1, <2>4, <2>5, ReadHolds
<1> QED BY <1>4, <1>5, <1>6

\* clearDefaultPaymentMethods writes rows that are not the default.
LEMMA ClearHolds ==
  ASSUME WalletInv, NEW r \in Requests, Clear(r)
  PROVE  WalletInv'
<1> USE WalletAssumption DEF WalletInv
<1>1. /\ UNCHANGED <<saved, crossed, lastAlone>> /\ tx[r].step = "clearing"
      /\ tx' = [tx EXCEPT ![r] = [tx[r] EXCEPT !.step = "write"]]
  BY DEF Clear, At, Then
<1>2. written' = [written EXCEPT ![r] = [m \in Methods |->
        IF m \in tx[r].rows /\ Seen(r, m).active
        THEN [active |-> TRUE, default |-> FALSE] ELSE written[r][m]]]
  BY DEF Clear
<1>3. \A m \in Methods :
        \/ written'[r][m] = written[r][m]
        \/ /\ written'[r][m] = [active |-> TRUE, default |-> FALSE]
           /\ Seen(r, m).active /\ ~LockedFrom(r, m)
  BY <1>2 DEF WalletTypeOK, Clear
<1>4. /\ written' \in [Requests -> [Methods -> MethodRows \cup {Free}]]
      /\ \A q \in Requests \ {r} : written'[q] = written[q]
  BY <1>2 DEF WalletTypeOK, MethodRows
<1>5. /\ tx' \in [Requests -> TxRecords] /\ tx'[r].step = "write"
      /\ tx'[r].op = tx[r].op /\ tx'[r].method = tx[r].method
      /\ \A q \in Requests \ {r} : tx'[q] = tx[q]
  <2>1. tx[r] \in TxRecords
    BY DEF WalletTypeOK, TxRecords
  <2>2. [tx[r] EXCEPT !.step = "write"] \in TxRecords
    BY <2>1 DEF TxRecords, Steps
  <2> QED BY <1>1, <2>1, <2>2 DEF WalletTypeOK, TxRecords
<1>6. \A q \in Requests \ {r} : TxShape(q)' /\ ViewInv(q)' /\ SoloInv(q)'
  BY <1>1, <1>4, <1>5, OthersSee
<1>7. ASSUME NEW m \in Methods
      PROVE  /\ Holds(Seen(r, m)') => Holds(Seen(r, m))
             /\ Seen(r, m).active => Seen(r, m)'.active
  <2>1. CASE written'[r][m] = written[r][m]
    BY <1>1, <2>1 DEF Seen
  <2>2. CASE written'[r][m] = [active |-> TRUE, default |-> FALSE]
    <3>1. Seen(r, m)' = [active |-> TRUE, default |-> FALSE]
      <4>1. [active |-> TRUE, default |-> FALSE] \in MethodRows
        BY DEF MethodRows
      <4> QED BY <2>2, <4>1 DEF Seen
    <3> QED BY <3>1 DEF Holds
  <2> QED BY <1>3, <2>1, <2>2
<1>8. ViewInv(r)'
  BY <1>7 DEF ViewInv, Holds
<1>9. TxShape(r)' /\ SoloInv(r)'
  <2>1. PICK k \in Methods : k = tx[r].method
    BY <1>1 DEF TxShape, Steps
  <2>2. r \notin crossed /\ tx[r].op = "default" => Seen(r, k)'.active
    BY <1>1, <1>7, <2>1 DEF SoloInv
  <2> QED BY <1>1, <1>5, <2>1, <2>2 DEF TxShape, SoloInv, Steps
<1>10. LockInv'
  <2>1. \A m \in Methods : written'[r][m] # Free =>
          \/ written'[r][m] = written[r][m]
          \/ ~Holds(written'[r][m]) /\ ~LockedFrom(r, m)
    BY <1>3 DEF Holds
  <2> QED BY <1>4, <2>1 DEF LockInv, LockedFrom
<1>11. WalletTypeOK' /\ WalletKeepsItsDefault'
  BY <1>1, <1>4, <1>5 DEF WalletTypeOK, TxRecords, WalletKeepsItsDefault, AtMostOneDefault,
     SoloRequestsLeaveOneDefault
<1> QED BY <1>6, <1>8, <1>9, <1>10, <1>11

\* A statement that finds its row deleted writes nothing.
LEMMA MissHolds ==
  ASSUME WalletInv, NEW r \in Requests, NEW step \in {"ensure", "commit"},
         Then(r, step), tx[r].step = "write",
         UNCHANGED <<saved, written, crossed, lastAlone>>,
         step = "commit" => r \in crossed
  PROVE  WalletInv'
<1> USE WalletAssumption DEF WalletInv
<1> DEFINE rec == [tx[r] EXCEPT !.step = step]
<1>1. rec \in TxRecords /\ rec.step = step /\ rec.method = tx[r].method
      /\ tx' = [tx EXCEPT ![r] = rec]
  BY DEF Then, WalletTypeOK, TxRecords, Steps
<1>2. /\ tx'[r] = rec /\ WalletTypeOK'
      /\ \A q \in Requests \ {r} : tx'[q] = tx[q]
  BY <1>1, TxMoves
<1>3. TxShape(r)' /\ SoloInv(r)'
  BY <1>1, <1>2 DEF TxShape, SoloInv, Steps
<1> QED BY <1>2, <1>3, ReadHolds

LEMMA StatementHolds ==
  ASSUME WalletInv, NEW r \in Requests, Save(r) \/ Delete(r) \/ SetDefault(r) \/ Promote(r)
  PROVE  WalletInv'
<1> USE WalletAssumption DEF WalletInv
<1> DEFINE m == tx[r].method
<1>1. tx[r].step \in {"write", "promote"}
  BY DEF Save, Delete, SetDefault, Promote, At
<1>2. tx[r].step # Free /\ m \in Methods /\ Seen(r, m) \in MethodRows
  BY <1>1, SeenIsARow DEF TxShape, Steps
<1>3. CASE Save(r)
  <2> DEFINE row == [active |-> TRUE, default |-> tx[r].default \/ Seen(r, m).default]
  <2>1. row \in MethodRows
    BY DEF MethodRows
  <2>2. CASE tx[r].op = "add" \/ Seen(r, m).active
    BY <1>2, <1>3, <2>1, <2>2, WriteHolds DEF Save
  <2>3. CASE ~(tx[r].op = "add" \/ Seen(r, m).active)
    BY <1>3, <2>3, MissHolds DEF Save, At
  <2> QED BY <2>2, <2>3
<1>4. CASE Delete(r)
  <2>1. [active |-> FALSE, default |-> FALSE] \in MethodRows
    BY DEF MethodRows
  <2>2. CASE Seen(r, m).active
    BY <1>2, <1>4, <2>1, <2>2, WriteHolds DEF Delete
  <2>3. CASE ~Seen(r, m).active
    BY <1>4, <2>3, EndHolds DEF Delete
  <2> QED BY <2>2, <2>3
<1>5. CASE SetDefault(r)
  <2> DEFINE row == [active |-> TRUE, default |-> TRUE]
  <2>1. row \in MethodRows /\ Holds(row)
    BY DEF MethodRows, Holds
  <2>2. CASE Seen(r, m).active
    BY <1>2, <1>5, <2>1, <2>2, WriteHolds DEF SetDefault
  <2>3. CASE ~Seen(r, m).active
    <3>1. r \in crossed
      BY <1>5, <2>3 DEF SetDefault, At, SoloInv
    <3> QED BY <1>5, <2>3, <3>1, MissHolds DEF SetDefault, At
  <2> QED BY <2>2, <2>3
<1>6. CASE Promote(r)
  <2>1. PICK o \in tx[r].rows :
          Write(r, o, [Seen(r, o) EXCEPT !.default = TRUE], "commit")
    BY <1>6 DEF Promote
  <2> DEFINE row == [Seen(r, o) EXCEPT !.default = TRUE]
  <2>2. o \in Methods
    BY <2>1 DEF WalletTypeOK
  <2>3. row \in MethodRows /\ row.active = Seen(r, o).active /\ row.default
    BY <2>2, SeenIsARow DEF MethodRows
  <2>4. r \notin crossed => Holds(row)
    BY <1>6, <2>1, <2>3 DEF Promote, At, SoloInv, Holds
  <2> QED BY <1>2, <2>1, <2>2, <2>3, <2>4, WriteHolds
<1> QED BY <1>3, <1>4, <1>5, <1>6

\* COMMIT: the view of one request becomes what everybody sees.
LEMMA CommitHolds ==
  ASSUME WalletInv, NEW r \in Requests, Commit(r)
  PROVE  WalletInv'
<1> USE WalletAssumption DEF WalletInv
<1>1. /\ saved' = [m \in Methods |-> Seen(r, m)]
      /\ tx' = [tx EXCEPT ![r] = NoTx]
      /\ written' = [written EXCEPT ![r] = NoWrites]
      /\ crossed' = (crossed \cup {q \in Requests : tx[q] # NoTx}) \ {r}
      /\ lastAlone' = (r \notin crossed)
      /\ tx[r].step = "commit"
  BY DEF Commit, At
<1>2. WalletTypeOK'
  <2>1. saved' \in [Methods -> MethodRows]
    BY <1>1, SeenIsARow
  <2> QED BY <1>1, <2>1 DEF WalletTypeOK, NoTx, NoWrites
<1>3. \A q \in Requests \ {r} : tx'[q] = tx[q] /\ written'[q] = written[q]
  BY <1>1 DEF WalletTypeOK
<1>4. tx'[r] = NoTx /\ written'[r] = NoWrites
  BY <1>1 DEF WalletTypeOK
<1>5. \A m, o \in Methods : Holds(saved'[m]) /\ Holds(saved'[o]) => m = o
  BY <1>1 DEF ViewInv
<1>6. \A m \in Methods : Seen(r, m)' = saved'[m]
  BY <1>4 DEF Seen, NoWrites
<1>7. ViewInv(r)' /\ TxShape(r)' /\ SoloInv(r)'
  <2>1. ViewInv(r)'
    BY <1>5, <1>6 DEF ViewInv
  <2>2. TxShape(r)' /\ SoloInv(r)'
    BY <1>4 DEF TxShape, SoloInv, NoTx, Steps
  <2> QED BY <2>1, <2>2
<1>8. ASSUME NEW q \in Requests \ {r} PROVE ViewInv(q)' /\ TxShape(q)' /\ SoloInv(q)'
  <2>1. \A m \in Methods :
          Seen(q, m)' = IF written[q][m] = Free THEN Seen(r, m) ELSE written[q][m]
    BY <1>1, <1>3 DEF Seen
  <2>2. ASSUME NEW m \in Methods, NEW o \in Methods, m # o,
               Holds(Seen(q, m)'), Holds(Seen(q, o)')
        PROVE  FALSE
    <3>1. CASE written[q][m] = Free /\ written[q][o] = Free
      BY <2>1, <2>2, <3>1 DEF ViewInv
    <3>2. CASE written[q][m] # Free /\ written[q][o] # Free
      BY <2>1, <2>2, <3>2 DEF ViewInv, Seen
    <3>3. ASSUME NEW k \in Methods, NEW l \in Methods, k # l,
                 written[q][k] # Free, written[q][l] = Free,
                 Holds(written[q][k]), Holds(Seen(r, l))
          PROVE  FALSE
      <4>1. CASE written[r][l] # Free
        BY <3>3, <4>1 DEF LockInv, Seen
      <4>2. CASE written[r][l] = Free
        <5>1. Holds(Seen(q, k)) /\ Holds(Seen(q, l))
          BY <3>3, <4>2 DEF Seen
        <5> QED BY <3>3, <5>1 DEF ViewInv
      <4> QED BY <4>1, <4>2
    <3> QED BY <2>1, <2>2, <3>1, <3>2, <3>3
  <2>3. ViewInv(q)'
    BY <2>2 DEF ViewInv
  <2>4. TxShape(q)'
    BY <1>3 DEF TxShape
  <2>5. SoloInv(q)'
    <3>1. CASE tx[q] = NoTx
      BY <1>3, <3>1 DEF SoloInv, NoTx, Steps
    <3>2. CASE tx[q] # NoTx
      BY <1>1, <3>2 DEF SoloInv
    <3> QED BY <3>1, <3>2
  <2> QED BY <2>3, <2>4, <2>5
<1>9. LockInv'
  BY <1>3, <1>4 DEF LockInv, NoWrites
<1>10. AtMostOneDefault'
  BY <1>5 DEF AtMostOneDefault
<1>11. SoloRequestsLeaveOneDefault'
  <2>1. ActiveIn(r) = {m \in Methods : saved'[m].active}
    BY <1>1 DEF ActiveIn
  <2> QED BY <1>1, <2>1 DEF SoloRequestsLeaveOneDefault, SoloInv
<1> QED BY <1>2, <1>7, <1>8, <1>9, <1>10, <1>11 DEF WalletKeepsItsDefault

LEMMA WalletStep ==
  ASSUME WalletInv, [WalletNext]_walletVars
  PROVE  WalletInv'
<1>1. ASSUME NEW r \in Requests, Abort(r) PROVE WalletInv'
  BY <1>1, EndHolds DEF Abort
<1>2. CASE UNCHANGED walletVars
  BY <1>2 DEF walletVars, WalletInv, WalletTypeOK, TxShape, ViewInv, SoloInv, LockInv,
     Seen, ActiveIn, WalletKeepsItsDefault, AtMostOneDefault, SoloRequestsLeaveOneDefault
<1> QED
  BY <1>1, <1>2, BeginHoldsW, SelectHolds, ClearHolds, StatementHolds, CommitHolds
  DEF WalletNext

\* A request on the wallet keeps what it read true of the rows.
LEMMA WalletKeepsInv == WalletSpec => []WalletInv
BY WalletStart, WalletStep, PTL DEF WalletSpec

\* However many requests of a buyer overlap (routes/payment_methods.js), two
\* payment methods are never the default, and a request that none crosses
\* leaves one.
THEOREM WalletKeepsDefault == WalletSpec => []WalletKeepsItsDefault
<1>1. WalletInv => WalletKeepsItsDefault
  BY DEF WalletInv
<1> QED BY <1>1, WalletKeepsInv, PTL

-----------------------------------------------------------------------------
(* Addresses.  A request that nothing has overlapped is the only one, so   *)
(* what its statements have read and written is still there.               *)

Alone(c) == call[c] # NoCall /\ c \notin overlapped

CallInv(c) ==
  /\ call[c] = NoCall => c \notin overlapped
  /\ call[c] # NoCall =>
       /\ call[c].kind \in Kinds /\ call[c].stage \in Stages /\ call[c].to \in Addresses
       /\ call[c].kind = "delete" => ~call[c].default
       /\ call[c].stage = "clear" => call[c].default
       /\ call[c].stage \in {"pick", "promote"} => call[c].kind = "delete"
       /\ call[c].kind = "default" => call[c].default
       /\ call[c].stage = "promote" \/ call[c].kind = "default" =>
            address[call[c].to] # Unset
  /\ Alone(c) =>
       /\ \A d \in Calls \ {c} : call[d] = NoCall
       /\ call[c].kind = "default" => call[c].to \in Current
       /\ call[c].stage = "write" /\ call[c].default => Defaults = {}
       /\ call[c].stage = "promote" => call[c].to \in Current

\* No statement removes a row.
RowsStay == \A m \in Addresses : address[m] # Unset => address'[m] # Unset

AddressInv ==
  /\ AddressTypeOK
  /\ \A c \in Calls : CallInv(c)
  /\ AddressesKeepADefault

LEMMA AddressStart == AddressInit => AddressInv
<1> SUFFICES ASSUME AddressInit PROVE AddressInv
  OBVIOUS
<1> USE AddressAssumption DEF AddressInit
<1>1. AddressTypeOK
  BY DEF AddressTypeOK, NoCall
<1>2. \A c \in Calls : CallInv(c)
  BY DEF CallInv, Alone
<1>3. AddressesKeepADefault
  BY DEF AddressesKeepADefault, AnExplicitDefaultStands, ADefaultSurvivesDeletion, NoCall, Kinds
<1> QED BY <1>1, <1>2, <1>3 DEF AddressInv

LEMMA RowEdits ==
  ASSUME NEW row \in Row, NEW default \in BOOLEAN
  PROVE  LET new == [row EXCEPT !.default = default]
         IN new \in Row /\ new # Unset /\ new.active = row.active /\ new.default = default
<1>1. [row EXCEPT !.default = default] \in Row
  BY DEF Row
<1> QED BY <1>1, AddressAssumption DEF Row

\* The two ways in which a statement changes one row.
LEMMA OneRow ==
  ASSUME AddressTypeOK, NEW m \in Addresses, NEW row \in Row,
         address' = [address EXCEPT ![m] = row]
  PROVE  /\ address' \in [Addresses -> Row \cup {Unset}]
         /\ Current' = IF row.active THEN Current \cup {m} ELSE Current \ {m}
         /\ Defaults' = IF row.active /\ row.default THEN Defaults \cup {m} ELSE Defaults \ {m}
<1>1. address' \in [Addresses -> Row \cup {Unset}]
  BY DEF AddressTypeOK
<1>2. address'[m] = row /\ \A k \in Addresses \ {m} : address'[k] = address[k]
  BY DEF AddressTypeOK
<1>3. row # Unset
  BY AddressAssumption
<1> QED BY <1>1, <1>2, <1>3 DEF Current, Defaults

\* While a request moves, no other one is alone.
LEMMA OthersAreNotAlone ==
  ASSUME AddressInv, NEW c \in Calls, NEW d \in Calls \ {c}, call[c] # NoCall,
         call'[d] = call[d], overlapped' \in {overlapped, overlapped \ {c}}, RowsStay
  PROVE  CallInv(d)'
<1>1. ~Alone(d) /\ ~Alone(d)'
  BY DEF AddressInv, CallInv, Alone
<1> QED BY <1>1 DEF AddressInv, CallInv, RowsStay

LEMMA StageIsOfACall ==
  ASSUME NEW c \in Calls, call[c].stage \in Stages
  PROVE  call[c] # NoCall
BY AddressAssumption DEF NoCall

LEMMA AddressBegins ==
  ASSUME AddressInv, NEW c \in Calls, NEW kind \in Kinds, NEW m \in Addresses,
         NEW default \in BOOLEAN, Begin(c, kind, m, default)
  PROVE  AddressInv'
<1> USE AddressAssumption DEF AddressInv
<1> DEFINE new == [kind |-> kind, to |-> m, default |-> default, stage |-> FirstStage(default)]
           others == {d \in Calls : call[d] # NoCall}
<1>1. /\ call' = [call EXCEPT ![c] = new] /\ address' = address /\ outcome' = NoCall
      /\ overlapped' = IF others = {} THEN overlapped ELSE overlapped \cup others \cup {c}
      /\ call[c] = NoCall
  BY DEF Begin
<1>2. /\ kind = "default" => default /\ m \in Current /\ address[m] # Unset
      /\ kind = "delete" => ~default
  BY DEF Begin, Kinds, Current
<1>3. AddressTypeOK'
  BY <1>1 DEF AddressTypeOK, FirstStage, Stages
<1>4. call'[c] = new /\ \A d \in Calls \ {c} : call'[d] = call[d]
  BY <1>1 DEF AddressTypeOK
<1>5. CallInv(c)'
  <2>1. new # NoCall
    BY DEF NoCall, Kinds
  <2>2. Alone(c)' => \A d \in Calls \ {c} : call'[d] = NoCall
    BY <1>1, <1>4 DEF Alone
  <2> QED
    BY <1>1, <1>2, <1>4, <2>1, <2>2 DEF CallInv, FirstStage, Stages, Current, Defaults
<1>6. ASSUME NEW d \in Calls \ {c} PROVE CallInv(d)'
  <2>1. CASE call[d] = NoCall
    BY <1>1, <1>4, <2>1 DEF CallInv, Alone
  <2>2. CASE call[d] # NoCall
    BY <1>1, <1>4, <2>2 DEF CallInv, Alone
  <2> QED BY <2>1, <2>2
<1>7. AddressesKeepADefault'
  BY <1>1
  DEF AddressesKeepADefault, AnExplicitDefaultStands, ADefaultSurvivesDeletion, NoCall, Kinds
<1> QED BY <1>3, <1>5, <1>6, <1>7

\* A request that goes on to another statement.
LEMMA AddressProceeds ==
  ASSUME AddressInv, NEW c \in Calls,
         ClearDefaults(c) \/ (DeleteAddress(c) /\ call[c].to \in Current)
  PROVE  AddressInv'
<1> USE AddressAssumption DEF AddressInv
<1>1. call[c] # NoCall
  BY StageIsOfACall DEF ClearDefaults, DeleteAddress, Stages
<1>2. PICK stage \in {"write", "pick"} :
        /\ call' = [call EXCEPT ![c].stage = stage]
        /\ outcome' = NoCall /\ overlapped' = overlapped
        /\ stage = "write" => ClearDefaults(c)
        /\ stage = "pick" => call[c].kind = "delete"
  BY DEF ClearDefaults, DeleteAddress, Proceed
<1>3. /\ call'[c] = [call[c] EXCEPT !.stage = stage]
      /\ \A d \in Calls \ {c} : call'[d] = call[d]
  BY <1>2 DEF AddressTypeOK
<1>4. AddressTypeOK'
  <2>1. CASE ClearDefaults(c)
    <3>1. address' \in [Addresses -> Row \cup {Unset}]
      BY <2>1, RowEdits DEF ClearDefaults, AddressTypeOK
    <3> QED BY <1>2, <3>1 DEF AddressTypeOK, Stages
  <2>2. CASE DeleteAddress(c) /\ call[c].to \in Current
    <3>1. [active |-> FALSE, default |-> FALSE] \in Row
      BY DEF Row
    <3>2. address' \in [Addresses -> Row \cup {Unset}]
      BY <2>2, <3>1 DEF DeleteAddress, Current, AddressTypeOK
    <3> QED BY <1>2, <3>2 DEF AddressTypeOK, Stages
  <2> QED BY <2>1, <2>2
<1>5. RowsStay /\ \A d \in Calls \ {c} : CallInv(d)'
  <2>1. CASE ClearDefaults(c)
    <3>1. RowsStay
      BY <2>1, RowEdits DEF ClearDefaults, RowsStay, AddressTypeOK
    <3> QED BY <1>1, <1>2, <1>3, <3>1, OthersAreNotAlone
  <2>2. CASE DeleteAddress(c) /\ call[c].to \in Current
    <3>1. [active |-> FALSE, default |-> FALSE] \in Row
      BY DEF Row
    <3>2. RowsStay
      BY <2>2, <3>1 DEF DeleteAddress, Current, RowsStay, AddressTypeOK
    <3> QED BY <1>1, <1>2, <1>3, <3>2, OthersAreNotAlone
  <2> QED BY <2>1, <2>2
<1>6. PICK k \in Addresses : call[c].to = k /\ call'[c].to = k
  BY <1>1, <1>3 DEF CallInv, AddressTypeOK
<1>7. ClearDefaults(c) => Defaults' = {} /\ Current' = Current
  <2>1. ASSUME ClearDefaults(c), NEW m \in Addresses
        PROVE  IF address[m] = Unset THEN address'[m] = Unset
               ELSE /\ address'[m] # Unset /\ ~address'[m].default
                    /\ address'[m].active = address[m].active
    BY <2>1, RowEdits DEF ClearDefaults, AddressTypeOK
  <2> QED BY <2>1 DEF Defaults, Current
<1>8. CallInv(c)'
  <2>1. /\ call'[c].stage = stage /\ call'[c].kind = call[c].kind
        /\ call'[c].default = call[c].default
    BY <1>3 DEF AddressTypeOK
  <2>2. /\ call'[c].kind \in Kinds /\ call'[c] # NoCall
        /\ call'[c].kind = "delete" => ~call'[c].default
        /\ call'[c].kind = "default" => call'[c].default
        /\ call'[c].stage = "pick" => call'[c].kind = "delete"
    <3>1. /\ call[c].kind \in Kinds
          /\ call[c].kind = "delete" => ~call[c].default
          /\ call[c].kind = "default" => call[c].default
      BY <1>1 DEF CallInv
    <3>2. call'[c] # NoCall
      BY <2>1, <3>1 DEF NoCall
    <3> QED BY <1>2, <2>1, <3>1, <3>2
  <2>3. Alone(c)' => Alone(c)
    BY <1>1, <1>2 DEF Alone
  <2>4. Alone(c) => \A d \in Calls \ {c} : call'[d] = NoCall
    BY <1>3 DEF CallInv
  <2>5. Alone(c) /\ call[c].kind = "default" => k \in Current'
    BY <1>2, <1>6, <1>7 DEF CallInv
  <2>6. stage = "write" => Defaults' = {}
    BY <1>2, <1>7
  <2> QED
    BY <1>1, <1>5, <1>6, <2>1, <2>2, <2>3, <2>4, <2>5, <2>6 DEF CallInv, Stages, RowsStay
<1>9. AddressesKeepADefault'
  BY <1>2
  DEF AddressesKeepADefault, AnExplicitDefaultStands, ADefaultSurvivesDeletion, NoCall, Kinds
<1> QED BY <1>4, <1>5, <1>8, <1>9

\* A request that ends, with or without an answer.
LEMMA AddressEnds ==
  ASSUME AddressInv, NEW c \in Calls, call[c] # NoCall,
         call' = [call EXCEPT ![c] = NoCall], overlapped' = overlapped \ {c},
         address' \in [Addresses -> Row \cup {Unset}], RowsStay,
         outcome' = NoCall \/ AddressesKeepADefault'
  PROVE  AddressInv'
<1> USE AddressAssumption DEF AddressInv
<1>1. call'[c] = NoCall /\ \A d \in Calls \ {c} : call'[d] = call[d]
  BY DEF AddressTypeOK
<1>2. \A d \in Calls \ {c} : CallInv(d)'
  BY <1>1, OthersAreNotAlone
<1>3. CallInv(c)'
  BY <1>1 DEF CallInv, Alone
<1>4. AddressTypeOK'
  BY DEF AddressTypeOK, NoCall
<1>5. outcome' = NoCall => AddressesKeepADefault'
  BY DEF AddressesKeepADefault, AnExplicitDefaultStands, ADefaultSurvivesDeletion, NoCall, Kinds
<1> QED BY <1>2, <1>3, <1>4, <1>5

LEMMA AddressGivesUp ==
  ASSUME AddressInv, NEW c \in Calls, call[c] # NoCall, GiveUp(c)
  PROVE  AddressInv'
BY AddressEnds DEF GiveUp, AddressInv, AddressTypeOK, RowsStay

LEMMA AddressReturns ==
  ASSUME AddressInv, NEW c \in Calls,
         \/ CreateAddress(c) \/ MakeDefault(c)
         \/ UpdateAddress(c) /\ call[c].to \in Current
         \/ PickSuccessor(c) /\ Successors = {}
  PROVE  AddressInv'
<1> USE AddressAssumption DEF AddressInv
<1>1. call[c] # NoCall /\ Return(c)
  BY StageIsOfACall DEF CreateAddress, MakeDefault, UpdateAddress, PickSuccessor, Stages
<1>2. PICK k \in Addresses : k = call[c].to
  BY <1>1 DEF CallInv
<1>3. CASE CreateAddress(c) \/ (UpdateAddress(c) /\ k \in Current) \/ MakeDefault(c)
  <2>1. PICK row \in Row :
          /\ address' = [address EXCEPT ![k] = row]
          /\ call[c].default => row.default
          /\ CreateAddress(c) => row.active
          /\ ~CreateAddress(c) => address[k] \in Row /\ row.active = address[k].active
          /\ MakeDefault(c) => row.default
    <3>1. CASE CreateAddress(c)
      <4> DEFINE row == [active |-> TRUE, default |-> call[c].default]
      <4>1. row \in Row /\ row.active /\ row.default = call[c].default
        BY DEF AddressTypeOK, Row
      <4>2. ~MakeDefault(c)
        BY <3>1 DEF CreateAddress, MakeDefault
      <4> QED BY <1>2, <3>1, <4>1, <4>2 DEF CreateAddress
    <3>2. CASE UpdateAddress(c) /\ k \in Current
      <4>1. address[k] \in Row /\ call[c].default \in BOOLEAN
        BY <3>2 DEF Current, AddressTypeOK
      <4>2. address' = [address EXCEPT ![k] = [address[k] EXCEPT !.default = call[c].default]]
        BY <1>2, <3>2 DEF UpdateAddress
      <4>3. ~CreateAddress(c) /\ ~MakeDefault(c)
        BY <3>2 DEF UpdateAddress, CreateAddress, MakeDefault
      <4> QED BY <4>1, <4>2, <4>3, RowEdits
    <3>3. CASE MakeDefault(c)
      <4>1. address[k] \in Row /\ ~CreateAddress(c)
        BY <1>1, <1>2, <3>3 DEF MakeDefault, CreateAddress, CallInv, AddressTypeOK
      <4>2. address' = [address EXCEPT ![k] = [address[k] EXCEPT !.default = TRUE]]
        BY <1>2, <3>3 DEF MakeDefault
      <4> QED BY <3>3, <4>1, <4>2, RowEdits
    <3> QED BY <1>3, <3>1, <3>2, <3>3
  <2>2. /\ address' \in [Addresses -> Row \cup {Unset}]
        /\ Current' = IF row.active THEN Current \cup {k} ELSE Current \ {k}
        /\ Defaults' = IF row.active /\ row.default THEN Defaults \cup {k} ELSE Defaults \ {k}
    BY <2>1, OneRow
  <2>3. RowsStay
    BY <2>1 DEF RowsStay, AddressTypeOK
  <2>4. ASSUME c \notin overlapped PROVE AddressesKeepADefault'
    <3>1. outcome' = call[c] /\ Alone(c)
      BY <1>1, <2>4 DEF Return, Alone
    <3>2. call[c].kind # "delete" => (call[c].default => Defaults = {}) /\ call[c].stage = "write"
      BY <1>1, <1>3, <3>1 DEF CallInv, CreateAddress, UpdateAddress, MakeDefault
    <3>3. ~CreateAddress(c) => k \in Current
      BY <1>1, <1>2, <1>3, <3>1 DEF CallInv, MakeDefault
    <3>4. row.active
      BY <2>1, <3>3 DEF Current
    <3>5. call[c].kind = "delete" => MakeDefault(c) /\ ~call[c].default
      BY <1>1, <1>3 DEF CreateAddress, UpdateAddress, CallInv
    <3>6. call[c].default => Defaults' = {k}
      BY <2>1, <2>2, <3>2, <3>4, <3>5
    <3>7. call[c].kind = "delete" => Defaults' # {}
      BY <2>1, <2>2, <3>4, <3>5
    <3> QED
      BY <1>2, <3>1, <3>6, <3>7
      DEF AddressesKeepADefault, AnExplicitDefaultStands, ADefaultSurvivesDeletion
  <2> QED BY <1>1, <2>2, <2>3, <2>4, AddressEnds DEF Return
<1>4. CASE PickSuccessor(c) /\ Successors = {}
  <2>1. address' = address
    BY <1>4 DEF PickSuccessor
  <2>2. ASSUME c \notin overlapped PROVE AddressesKeepADefault'
    <3>1. outcome' = call[c] /\ ~call[c].default
      BY <1>1, <1>4, <2>2 DEF Return, PickSuccessor, CallInv
    <3> QED
      BY <1>4, <2>1, <3>1
      DEF Successors, Current, AddressesKeepADefault, AnExplicitDefaultStands,
          ADefaultSurvivesDeletion
  <2> QED BY <1>1, <2>1, <2>2, AddressEnds DEF Return, AddressTypeOK, RowsStay
<1>5. \/ CreateAddress(c) \/ (UpdateAddress(c) /\ k \in Current) \/ MakeDefault(c)
      \/ PickSuccessor(c) /\ Successors = {}
  BY <1>2
<1> HIDE DEF AddressInv
<1> QED BY <1>3, <1>4, <1>5

LEMMA AddressPicks ==
  ASSUME AddressInv, NEW c \in Calls, PickSuccessor(c), Successors # {}
  PROVE  AddressInv'
<1> USE AddressAssumption DEF AddressInv
<1>1. PICK m \in Current :
        /\ call' = [call EXCEPT ![c].stage = "promote", ![c].to = m]
        /\ outcome' = NoCall /\ overlapped' = overlapped /\ address' = address
  BY DEF PickSuccessor, Successors
<1>2. call[c] # NoCall /\ call[c].kind = "delete" /\ ~call[c].default
  <2>1. call[c] # NoCall /\ call[c].stage = "pick"
    BY StageIsOfACall DEF PickSuccessor, Stages
  <2> QED BY <2>1 DEF CallInv
<1>3. m \in Addresses /\ address[m] # Unset
  BY DEF Current
<1>4. /\ call'[c].stage = "promote" /\ call'[c].to = m /\ call'[c].kind = "delete"
      /\ ~call'[c].default
      /\ \A d \in Calls \ {c} : call'[d] = call[d]
  BY <1>1, <1>2 DEF AddressTypeOK
<1>5. AddressTypeOK'
  BY <1>1, <1>3 DEF AddressTypeOK, Stages
<1>6. \A d \in Calls \ {c} : CallInv(d)'
  BY <1>1, <1>2, <1>4, OthersAreNotAlone DEF RowsStay
<1>7. call'[c] # NoCall
  BY <1>4 DEF NoCall, Kinds
<1>8. Alone(c)' => \A d \in Calls \ {c} : call'[d] = NoCall
  BY <1>1, <1>2, <1>4 DEF CallInv, Alone
<1>9. m \in Current'
  BY <1>1 DEF Current
<1>10. CallInv(c)'
  BY <1>1, <1>3, <1>4, <1>7, <1>8, <1>9 DEF CallInv, Kinds, Stages
<1>11. AddressesKeepADefault'
  BY <1>1
  DEF AddressesKeepADefault, AnExplicitDefaultStands, ADefaultSurvivesDeletion, NoCall, Kinds
<1> QED BY <1>5, <1>6, <1>10, <1>11

\* An order adds its address and no default.
LEMMA AddressAdded ==
  ASSUME AddressInv, NEW m \in Addresses, AddWithOrder(m)
  PROVE  AddressInv'
<1> USE AddressAssumption DEF AddressInv
<1> DEFINE row == [active |-> TRUE, default |-> FALSE]
<1>1. /\ address' = [address EXCEPT ![m] = row] /\ address[m] = Unset
      /\ outcome' = NoCall /\ call' = call /\ overlapped' = overlapped
  BY DEF AddWithOrder, Addable
<1>2. row \in Row /\ row.active /\ ~row.default
  BY DEF Row
<1>3. /\ address' \in [Addresses -> Row \cup {Unset}]
      /\ Current' = Current \cup {m} /\ Defaults' = Defaults
  <2>1. m \notin Defaults
    BY <1>1 DEF Defaults, Current
  <2>2. /\ address' \in [Addresses -> Row \cup {Unset}]
        /\ Current' = IF row.active THEN Current \cup {m} ELSE Current \ {m}
        /\ Defaults' = IF row.active /\ row.default THEN Defaults \cup {m} ELSE Defaults \ {m}
    <3> HIDE DEF row
    <3> QED BY <1>1, <1>2, OneRow
  <2> QED BY <1>2, <2>1, <2>2
<1>4. RowsStay
  BY <1>1, <1>2 DEF RowsStay, AddressTypeOK
<1>5. \A c \in Calls : CallInv(c)'
  BY <1>1, <1>3, <1>4 DEF CallInv, Alone, RowsStay
<1>6. AddressesKeepADefault'
  BY <1>1
  DEF AddressesKeepADefault, AnExplicitDefaultStands, ADefaultSurvivesDeletion, NoCall, Kinds
<1> QED BY <1>1, <1>3, <1>5, <1>6 DEF AddressTypeOK

LEMMA AddressStep ==
  ASSUME AddressInv, [AddressNext]_addressVars
  PROVE  AddressInv'
<1>1. ASSUME NEW c \in Calls, CreateAddress(c) \/ MakeDefault(c) PROVE AddressInv'
  BY <1>1, AddressReturns
<1>2. ASSUME NEW c \in Calls, UpdateAddress(c) \/ DeleteAddress(c) PROVE AddressInv'
  <2>1. CASE call[c].to \in Current
    BY <1>2, <2>1, AddressReturns, AddressProceeds
  <2>2. CASE call[c].to \notin Current
    <3>1. call[c] # NoCall
      BY <1>2, StageIsOfACall DEF UpdateAddress, DeleteAddress, Stages
    <3>2. GiveUp(c)
      BY <1>2, <2>2 DEF UpdateAddress, DeleteAddress
    <3> QED BY <3>1, <3>2, AddressGivesUp
  <2> QED BY <2>1, <2>2
<1>3. ASSUME NEW c \in Calls, PickSuccessor(c) PROVE AddressInv'
  BY <1>3, AddressReturns, AddressPicks
<1>4. ASSUME NEW c \in Calls, CallDies(c) PROVE AddressInv'
  BY <1>4, AddressGivesUp DEF CallDies
<1>5. CASE UNCHANGED addressVars
  BY <1>5
  DEF addressVars, AddressInv, AddressTypeOK, CallInv, Alone, Current, Defaults,
      AddressesKeepADefault, AnExplicitDefaultStands, ADefaultSurvivesDeletion
<1> QED
  BY <1>1, <1>2, <1>3, <1>4, <1>5, AddressBegins, AddressProceeds, AddressAdded
  DEF AddressNext

\* A call on the addresses that nothing overlaps finds what it left.
LEMMA AddressKeepsInv == AddressSpec => []AddressInv
BY AddressStart, AddressStep, PTL DEF AddressSpec

\* Although the statements of a request commit one by one (routes/users.js),
\* an address that was made the default without interference is the only one,
\* and deleting one leaves a default.
THEOREM AddressesKeepDefault == AddressSpec => []AddressesKeepADefault
<1>1. AddressInv => AddressesKeepADefault
  BY DEF AddressInv
<1> QED BY <1>1, AddressKeepsInv, PTL

-----------------------------------------------------------------------------
(* Passwords.  Of a buyer whose changes have not raced, nothing was        *)
(* written since a change under way read the row.                          *)

ChangeRecords ==
  [of : Accounts, phone : Phones, original : Secrets, new : Secrets \cup {Blank},
   read : Secrets]

ChangeInv(j) ==
  change[j].of \in Accounts =>
    LET u == change[j].of
    IN /\ profile[u] # Blank
       /\ u \notin raced =>
            /\ change[j].read = profile[u].secret
            /\ change[j].new # Blank => change[j].original = profile[u].secret

ProfilesInv ==
  /\ profile \in [Accounts -> Profiles \cup {Blank}]
  /\ change \in [Changes -> ChangeRecords \cup {NoChange}]
  /\ chosen \in [Accounts -> Secrets \cup {Blank}]
  /\ \A j \in Changes : ChangeInv(j)
  /\ PasswordChangesStick

LEMMA ProfilesStart == ProfilesInit => ProfilesInv
BY ProfilesAssumption
DEF ProfilesInit, ProfilesInv, ChangeInv, NoChange, PasswordChangesStick, Registered

LEMMA RegisterHolds ==
  ASSUME ProfilesInv, NEW u \in Accounts, NEW phone \in Phones, NEW secret \in Secrets,
         Register(u, phone, secret)
  PROVE  ProfilesInv'
<1> USE ProfilesAssumption DEF ProfilesInv
<1> DEFINE row == [phone |-> phone, secret |-> secret]
<1>1. row \in Profiles /\ row # Blank /\ row.secret = secret
  BY DEF Profiles
<1>2. /\ profile' = [profile EXCEPT ![u] = row] /\ profile[u] = Blank
      /\ chosen' = [chosen EXCEPT ![u] = secret] /\ change' = change /\ raced' = raced
  BY DEF Register, Registered
<1>3. \A j \in Changes : ChangeInv(j)'
  BY <1>1, <1>2 DEF ChangeInv
<1>4. PasswordChangesStick'
  BY <1>1, <1>2 DEF PasswordChangesStick, Registered
<1> QED BY <1>1, <1>2, <1>3, <1>4

LEMMA ReadProfileHolds ==
  ASSUME ProfilesInv, NEW j \in Changes, NEW u \in Accounts, NEW phone \in Phones,
         NEW original \in Secrets, NEW new \in Secrets \cup {Blank},
         ReadProfile(j, u, phone, original, new)
  PROVE  ProfilesInv'
<1> USE ProfilesAssumption DEF ProfilesInv
<1> DEFINE rec == [of |-> u, phone |-> phone, original |-> original, new |-> new,
                   read |-> profile[u].secret]
<1>1. profile[u] \in Profiles /\ (new # Blank => original = profile[u].secret)
  BY DEF ReadProfile, Registered, Knows
<1>2. rec \in ChangeRecords
  BY <1>1 DEF ChangeRecords, Profiles
<1>3. change' = [change EXCEPT ![j] = rec] /\ UNCHANGED <<profile, chosen, raced>>
  BY DEF ReadProfile
<1>4. change'[j] = rec /\ \A k \in Changes \ {j} : change'[k] = change[k]
  BY <1>3
<1>5. \A k \in Changes : ChangeInv(k)'
  BY <1>1, <1>3, <1>4 DEF ChangeInv
<1> QED BY <1>2, <1>3, <1>5 DEF PasswordChangesStick, Registered

\* A change that finds another one of the same buyer marks him as raced.
LEMMA WriteProfileHolds ==
  ASSUME ProfilesInv, NEW j \in Changes, WriteProfile(j)
  PROVE  /\ ProfilesInv'
         /\ \A u \in Registered \ raced :
              profile'[u].secret # profile[u].secret =>
                change[j].of = u /\ change[j].original = profile[u].secret
<1> USE ProfilesAssumption DEF ProfilesInv
<1> DEFINE w == change[j]
           others == {k \in Changes \ {j} : change[k].of = w.of}
<1>1. w \in ChangeRecords /\ w.of \in Accounts
  BY DEF WriteProfile, ChangeRecords
<1>2. /\ change' = [change EXCEPT ![j] = NoChange]
      /\ change'[j] = NoChange /\ \A k \in Changes \ {j} : change'[k] = change[k]
  BY DEF WriteProfile
<1>3. CASE Taken(w.phone, w.of)
  <2>1. UNCHANGED <<profile, chosen, raced>>
    BY <1>3 DEF WriteProfile
  <2>2. \A k \in Changes : ChangeInv(k)'
    BY <1>2, <2>1 DEF ChangeInv, NoChange
  <2> QED BY <1>2, <2>1, <2>2 DEF PasswordChangesStick, Registered
<1>4. CASE ~Taken(w.phone, w.of)
  <2> DEFINE row == [phone |-> w.phone, secret |-> SecretToWrite(w)]
  <2>1. row \in Profiles /\ row # Blank /\ row.secret = SecretToWrite(w)
        /\ row.secret \in Secrets
    BY <1>1 DEF Profiles, SecretToWrite, ChangeRecords
  <2>2. /\ profile' = [profile EXCEPT ![w.of] = row]
        /\ chosen' = [chosen EXCEPT ![w.of] = IF w.new = Blank THEN chosen[w.of] ELSE w.new]
        /\ raced' = IF others = {} THEN raced ELSE raced \cup {w.of}
    BY <1>4 DEF WriteProfile
  <2>3. \A k \in Changes : ChangeInv(k)'
    <3>1. ASSUME NEW k \in Changes \ {j} PROVE ChangeInv(k)'
      <4>1. CASE change[k].of = w.of
        BY <1>1, <1>2, <2>1, <2>2, <4>1 DEF ChangeInv
      <4>2. CASE change[k].of # w.of
        BY <1>1, <1>2, <2>1, <2>2, <4>2 DEF ChangeInv
      <4> QED BY <4>1, <4>2
    <3> QED BY <1>2, <3>1 DEF ChangeInv, NoChange
  <2>4. profile[w.of] # Blank
    BY <1>1 DEF ChangeInv
  <2>5. w.of \notin raced =>
          IF w.new = Blank THEN row.secret = profile[w.of].secret
          ELSE w.original = profile[w.of].secret /\ row.secret = w.new
    BY <1>1, <2>1 DEF ChangeInv, SecretToWrite
  <2>6. PasswordChangesStick'
    BY <1>1, <2>1, <2>2, <2>4, <2>5 DEF PasswordChangesStick, Registered
  <2>7. chosen' \in [Accounts -> Secrets \cup {Blank}]
    BY <1>1, <2>2 DEF ChangeRecords
  <2>8. \A u \in Registered \ raced :
          profile'[u].secret # profile[u].secret =>
            w.of = u /\ w.original = profile[u].secret
    BY <1>1, <2>1, <2>2, <2>5 DEF Registered
  <2> QED BY <1>1, <1>2, <2>1, <2>2, <2>3, <2>6, <2>7, <2>8
<1> QED BY <1>3, <1>4

LEMMA ProfilesStep ==
  ASSUME ProfilesInv, [ProfilesNext]_profileVars
  PROVE  ProfilesInv'
<1>1. CASE UNCHANGED profileVars
  BY <1>1 DEF profileVars, ProfilesInv, ChangeInv, PasswordChangesStick, Registered
<1> QED BY <1>1, RegisterHolds, ReadProfileHolds, WriteProfileHolds DEF ProfilesNext

LEMMA SecretsChange ==
  ASSUME ProfilesInv, [ProfilesNext]_profileVars, NEW u \in Registered \ raced,
         profile'[u].secret # profile[u].secret
  PROVE  \E j \in Changes :
           change[j].of = u /\ change[j].original = profile[u].secret
<1>1. ASSUME NEW v \in Accounts, NEW phone \in Phones, NEW secret \in Secrets,
             Register(v, phone, secret)
      PROVE  FALSE
  BY <1>1 DEF Register, Registered, ProfilesInv
<1>2. ASSUME NEW j \in Changes, WriteProfile(j)
      PROVE  change[j].of = u /\ change[j].original = profile[u].secret
  BY <1>2, WriteProfileHolds
<1> QED BY <1>1, <1>2 DEF ProfilesNext, ReadProfile, profileVars

\* The password in force is the one its owner chose last, and only a request
\* that knew the one before replaces it (users/profile/update).
THEOREM PasswordsAreOnesOwn == ProfilesSpec => PasswordsStayTheirOwners
<1>1. ProfilesInv /\ [ProfilesNext]_profileVars => PasswordChangesStick'
  BY ProfilesStep DEF ProfilesInv
<1>2. ProfilesInv /\ [ProfilesNext]_profileVars => OwnersChangePasswords
  BY SecretsChange DEF OwnersChangePasswords
<1>3. ProfilesInv /\ [ProfilesNext]_profileVars =>
        [PasswordChangesStick' /\ OwnersChangePasswords]_profileVars
  BY <1>1, <1>2
<1> QED
  BY <1>3, ProfilesStart, ProfilesStep, PTL DEF ProfilesSpec, PasswordsStayTheirOwners

(***************************************************************************)
(*              The menu: recursion over the products visited              *)
(***************************************************************************)

(* The buyer's menu and the check of an order are recursive functions of   *)
(* the products visited.  WalkExists says that such functions exist, and   *)
(* what they return is shown by the largest set of visited products for    *)
(* which it would be wrong (LargestSet): one more visited product, and it  *)
(* is right.                                                               *)

\* A set of subsets of a finite set that is not empty has a largest member.
LEMMA LargestSet ==
  ASSUME NEW S, IsFiniteSet(S), NEW C, C \subseteq SUBSET S, C # {}
  PROVE  \E v \in C : \A u \in C : v \subseteq u => u = v
<1> DEFINE D == {S \ u : u \in C}
<1>1. D \subseteq SUBSET S /\ D # {}
  <2>1. PICK u \in C : TRUE
    OBVIOUS
  <2>2. S \ u \in D /\ D \subseteq SUBSET S
    OBVIOUS
  <2> HIDE DEF D
  <2> QED BY <2>2
<1>2. PICK T \in D : \A U \in D : U \subseteq T => U = T
  <2> HIDE DEF D
  <2> QED BY <1>1, LeastSet
<1>3. PICK v \in C : T = S \ v
  BY <1>2
<1>4. ASSUME NEW u \in C, v \subseteq u PROVE u = v
  <2>1. S \ u \in D /\ S \ u \subseteq T
    BY <1>3, <1>4
  <2>2. S \ u = S \ v
    BY <1>2, <1>3, <2>1
  <2>3. u \subseteq S /\ v \subseteq S
    OBVIOUS
  <2> QED BY <2>2, <2>3
<1> QED BY <1>4

\* A walk that is called with the products visited before, ends with base where
\* it meets one of them, and combines with G what it found below the others.
IsWalk(f, S, R, base, G) ==
  /\ f \in [SUBSET S -> [S -> R]]
  /\ \A v \in SUBSET S, p \in S :
       f[v][p] = IF p \in v THEN base ELSE G[p][f[v \cup {p}]]

LEMMA WalkExists ==
  ASSUME NEW S, IsFiniteSet(S), NEW R, NEW base \in R, NEW G \in [S -> [[S -> R] -> R]]
  PROVE  \E f : IsWalk(f, S, R, base, G)
<1> DEFINE Step(f, v) == [p \in S |-> IF p \in v THEN base ELSE G[p][f[v \cup {p}]]]
           Walks == [SUBSET S -> [S -> R]]
           Closed(X) == \A v \in X : \A u \in SUBSET v : u \in X
           C == {X \in SUBSET SUBSET S :
                   Closed(X) /\ \E f \in Walks : \A v \in (SUBSET S) \ X : f[v] = Step(f, v)}
<1>1. IsFiniteSet(SUBSET S) /\ C \subseteq SUBSET SUBSET S
  BY FS_SUBSET
<1>2. C # {}
  <2>1. [v \in SUBSET S |-> [p \in S |-> base]] \in Walks
    OBVIOUS
  <2>2. SUBSET S \in C
    BY <2>1
  <2> QED BY <2>2
<1>3. PICK X \in C : \A U \in C : U \subseteq X => U = X
  <2> HIDE DEF C
  <2> QED BY <1>1, <1>2, LeastSet
<1>4. PICK f \in Walks : \A v \in (SUBSET S) \ X : f[v] = Step(f, v)
  BY <1>3
<1>5. ASSUME NEW v \in SUBSET S PROVE Step(f, v) \in [S -> R]
  <2>1. \A p \in S : f[v \cup {p}] \in [S -> R]
    OBVIOUS
  <2>2. \A p \in S : G[p][f[v \cup {p}]] \in R
    BY <2>1
  <2> QED BY <2>2
<1>6. ASSUME X # {} PROVE FALSE
  <2>1. PICK v \in X : \A u \in X : v \subseteq u => u = v
    <3>1. X \subseteq SUBSET S
      BY <1>1, <1>3
    <3> QED BY <1>6, <3>1, LargestSet
  <2>2. v \in SUBSET S
    BY <1>1, <1>3
  <2> DEFINE g == [f EXCEPT ![v] = Step(f, v)]
             Y == X \ {v}
  <2>3. g \in Walks
    BY <1>5, <2>2
  <2>4. Closed(X)
    BY <1>3
  <2>5. Closed(Y) /\ Y \in SUBSET SUBSET S
    BY <1>1, <1>3, <2>1, <2>4
  <2>6. ASSUME NEW u \in (SUBSET S) \ Y PROVE g[u] = Step(g, u)
    <3>1. ASSUME NEW p \in S \ u PROVE g[u \cup {p}] = f[u \cup {p}]
      <4>1. u \cup {p} \in SUBSET S
        OBVIOUS
      <4>2. ASSUME u \cup {p} = v PROVE FALSE
        <5>1. u \in SUBSET v /\ u # v
          BY <4>2
        <5>2. u \in X
          BY <2>4, <5>1
        <5>3. u \in Y
          BY <5>1, <5>2
        <5> HIDE DEF Y
        <5> QED BY <5>3
      <4> QED BY <4>1, <4>2
    <3>2. Step(g, u) = Step(f, u)
      <4>1. \A p \in S : p \in u \/ g[u \cup {p}] = f[u \cup {p}]
        BY <3>1
      <4> HIDE DEF g
      <4> QED BY <4>1
    <3>3. g[u] = Step(f, u)
      BY <1>4, <2>2, <2>6
    <3> QED BY <3>2, <3>3
  <2>7. Y \in C
    BY <2>3, <2>5, <2>6
  <2>8. Y \subseteq X /\ Y # X
    BY <2>1
  <2> HIDE DEF C, Y
  <2> QED BY <1>3, <2>7, <2>8
<1>7. \A v \in SUBSET S : f[v] = Step(f, v)
  BY <1>4, <1>6
<1>8. ASSUME NEW v \in SUBSET S, NEW p \in S
      PROVE  f[v][p] = IF p \in v THEN base ELSE G[p][f[v \cup {p}]]
  <2>1. f[v] = Step(f, v)
    BY <1>7
  <2>2. Step(f, v)[p] = IF p \in v THEN base ELSE G[p][f[v \cup {p}]]
    OBVIOUS
  <2> HIDE DEF Step
  <2> QED BY <2>1, <2>2
<1> HIDE DEF Step, C, Closed
<1>9. IsWalk(f, S, R, base, G)
  BY <1>8 DEF IsWalk
<1> QED BY <1>9

(***************************************************************************)
(*                 The menu: what the walks are made of                    *)
(***************************************************************************)

Edges == Products \X Groups \X Products
MenuEntries == [via : SUBSET Edges, edge : Edges]
Results == [valid : BOOLEAN, delta : Nat, consumed : SUBSET Groups]

\* What is offered, and what is picked of it.
LEMMA PickedTypes ==
  ASSUME MenuTypeOK, NEW p \in Products, NEW sel \in Selections
  PROVE  /\ GroupsOf(p) \subseteq Groups
         /\ \A g \in Groups : Offered(g) \subseteq Products
         /\ IsFiniteSet(PickedAt(p, sel))
         /\ \A c \in PickedAt(p, sel) :
              /\ c \in Groups \X Products /\ c[1] \in GroupsOf(p)
              /\ c[2] \in sel[c[1]] \cap Offered(c[1])
         /\ \A g \in GroupsOf(p) : \A o \in sel[g] \cap Offered(g) :
              <<g, o>> \in PickedAt(p, sel)
<1>1. GroupsOf(p) \subseteq Groups
  BY DEF MenuTypeOK, GroupsOf
<1>2. \A g \in Groups : Offered(g) \subseteq Products
  BY DEF MenuTypeOK, Offered
<1>3. ASSUME NEW c \in PickedAt(p, sel)
      PROVE  /\ c \in Groups \X Products /\ c[1] \in GroupsOf(p)
             /\ c[2] \in sel[c[1]] \cap Offered(c[1])
  BY <1>1, <1>2 DEF PickedAt, Selections
<1>4. \A g \in GroupsOf(p) : \A o \in sel[g] \cap Offered(g) :
        <<g, o>> \in PickedAt(p, sel)
  BY DEF PickedAt
<1>5. IsFiniteSet(PickedAt(p, sel))
  <2>1. IsFiniteSet(Groups \X Products)
    BY MenuAssumption, FS_Product
  <2> QED BY <1>3, <2>1, FS_Subset
<1> QED BY <1>1, <1>2, <1>3, <1>4, <1>5

\* A product that has an option has a price rule for it.
LEMMA PricesAreNat ==
  ASSUME MenuTypeOK, NEW p \in Products, GroupsOf(p) # {}, NEW o \in Products
  PROVE  ExtraPrice(p, o) \in Nat
BY MenuAssumption DEF MenuTypeOK, GroupsOf, ExtraPrice

\* What CheckGroups adds up, and what the entries of the menu show.
Charges(p, S, below) == MapThenSumSet(LAMBDA c : Charge(p, c[2], below[c[2]]), S)
Prices(S) == MapThenSumSet(LAMBDA e : ExtraPrice(e.edge[1], e.edge[3]), S)

\* Both are a Sum.
LEMMA ChargesAreSum ==
  ASSUME NEW S, IsFiniteSet(S), NEW p, NEW below, NEW w,
         \A c \in S : w[c] = Charge(p, c[2], below[c[2]])
  PROVE  Charges(p, S, below) = Sum(w, S)
<1> DEFINE Step(f) == [s \in SUBSET S |->
                         IF s = {} THEN 0
                         ELSE Charge(p, Pick(s)[2], below[Pick(s)[2]]) + f[s \ {Pick(s)}]]
           WStep(f) == [s \in SUBSET S |->
                          IF s = {} THEN 0 ELSE w[Pick(s)] + f[s \ {Pick(s)}]]
<1>1. Charges(p, S, below) = (CHOOSE f : f = Step(f))[S]
  BY DEF Charges, MapThenSumSet, MapThenFoldSet, Pick
<1>2. \A f : Step(f) = WStep(f)
  BY PickIn
<1>3. \A f : f = Step(f) <=> IsSum(f, w, S)
  BY <1>2 DEF IsSum
<1> HIDE DEF Step
<1>4. PICK g : IsSum(g, w, S)
  BY SumExists
<1>5. IsSum(CHOOSE f : f = Step(f), w, S)
  <2>1. g = Step(g)
    BY <1>3, <1>4
  <2> QED BY <1>3, <2>1
<1> QED BY <1>1, <1>5, SumIs

LEMMA PricesAreSum ==
  ASSUME NEW S, IsFiniteSet(S), NEW w,
         \A e \in S : w[e] = ExtraPrice(e.edge[1], e.edge[3])
  PROVE  Prices(S) = Sum(w, S)
<1> DEFINE Step(f) == [s \in SUBSET S |->
                         IF s = {} THEN 0
                         ELSE ExtraPrice(Pick(s).edge[1], Pick(s).edge[3]) + f[s \ {Pick(s)}]]
           WStep(f) == [s \in SUBSET S |->
                          IF s = {} THEN 0 ELSE w[Pick(s)] + f[s \ {Pick(s)}]]
<1>1. Prices(S) = (CHOOSE f : f = Step(f))[S]
  BY DEF Prices, MapThenSumSet, MapThenFoldSet, Pick
<1>2. \A f : Step(f) = WStep(f)
  BY PickIn
<1>3. \A f : f = Step(f) <=> IsSum(f, w, S)
  BY <1>2 DEF IsSum
<1> HIDE DEF Step
<1>4. PICK g : IsSum(g, w, S)
  BY SumExists
<1>5. IsSum(CHOOSE f : f = Step(f), w, S)
  <2>1. g = Step(g)
    BY <1>3, <1>4
  <2> QED BY <1>3, <2>1
<1> QED BY <1>1, <1>5, SumIs

(***************************************************************************)
(*                    The menu: the check of an order                      *)
(***************************************************************************)

\* What is found for a product, from what was found for its options.
LEMMA CheckGroupsTypes ==
  ASSUME MenuTypeOK, NEW p \in Products, NEW sel \in Selections,
         NEW below \in [Products -> Results]
  PROVE  CheckGroups(p, sel, below) \in Results
<1> DEFINE picked == PickedAt(p, sel)
           w == [c \in picked |-> Charge(p, c[2], below[c[2]])]
<1>1. \A c \in picked : below[c[2]] \in Results
  BY PickedTypes
<1>2. Charges(p, picked, below) \in Nat
  <2>1. IsFiniteSet(picked)
    BY PickedTypes
  <2>2. ASSUME NEW c \in picked PROVE w[c] \in Nat
    <3>1. ExtraPrice(p, c[2]) \in Nat
      BY PickedTypes, PricesAreNat
    <3>2. below[c[2]].delta \in Nat
      BY <1>1 DEF Results
    <3> QED BY <3>1, <3>2 DEF Charge
  <2>3. \A c \in picked : w[c] = Charge(p, c[2], below[c[2]])
    OBVIOUS
  <2> HIDE DEF picked, w
  <2>4. Charges(p, picked, below) = Sum(w, picked)
    BY <2>1, <2>3, ChargesAreSum
  <2>5. Sum(w, picked) \in Nat
    BY <2>1, <2>2, SumNat
  <2> QED BY <2>4, <2>5
<1>3. {g \in GroupsOf(p) : sel[g] # {}} \cup UNION {below[c[2]].consumed : c \in picked}
        \in SUBSET Groups
  BY <1>1, PickedTypes DEF Results
<1> HIDE DEF w
<1> QED BY <1>2, <1>3 DEF CheckGroups, Charges, Results

\* Checked is the walk it is written as.
LEMMA CheckedWalks ==
  ASSUME MenuTypeOK, NEW sel \in Selections
  PROVE  /\ Checked(sel) \in [SUBSET Products -> [Products -> Results]]
         /\ \A v \in SUBSET Products, p \in Products :
              Checked(sel)[v][p] =
                IF p \in v THEN CameBack
                ELSE CheckGroups(p, sel, Checked(sel)[v \cup {p}])
<1> DEFINE Step(f) == [v \in SUBSET Products |-> [p \in Products |->
                         IF p \in v THEN CameBack
                         ELSE CheckGroups(p, sel, f[v \cup {p}])]]
           G == [p \in Products |-> [below \in [Products -> Results] |->
                   CheckGroups(p, sel, below)]]
           check == Checked(sel)
<1>1. CameBack \in Results
  BY DEF CameBack, Results
<1>2. G \in [Products -> [[Products -> Results] -> Results]]
  BY CheckGroupsTypes
<1>3. PICK f : IsWalk(f, Products, Results, CameBack, G)
  <2> HIDE DEF G
  <2> QED BY <1>1, <1>2, MenuAssumption, WalkExists
<1>4. f = Step(f)
  <2>1. f \in [SUBSET Products -> [Products -> Results]]
    BY <1>3 DEF IsWalk
  <2>2. ASSUME NEW v \in SUBSET Products, NEW p \in Products
        PROVE  f[v][p] = IF p \in v THEN CameBack ELSE CheckGroups(p, sel, f[v \cup {p}])
    <3>1. f[v \cup {p}] \in [Products -> Results]
      BY <2>1
    <3>2. f[v][p] = IF p \in v THEN CameBack ELSE G[p][f[v \cup {p}]]
      BY <1>3 DEF IsWalk
    <3> QED BY <3>1, <3>2
  <2>3. \A v \in SUBSET Products : f[v] = Step(f)[v]
    BY <2>1, <2>2
  <2> HIDE DEF G
  <2> QED BY <2>1, <2>3
<1>5. check = Step(check)
  <2>1. check = CHOOSE h : h = Step(h)
    BY DEF Checked
  <2> HIDE DEF Step, check
  <2> QED BY <1>4, <2>1
<1> HIDE DEF check
<1>6. ASSUME NEW v \in SUBSET Products, NEW p \in Products
      PROVE  check[v][p] = IF p \in v THEN CameBack
                           ELSE CheckGroups(p, sel, check[v \cup {p}])
  <2>1. check[v] = Step(check)[v]
    BY <1>5
  <2> QED BY <2>1
<1> DEFINE C == {v \in SUBSET Products : check[v] \notin [Products -> Results]}
<1>7. ASSUME C # {} PROVE FALSE
  <2>1. PICK v \in C : \A u \in C : v \subseteq u => u = v
    <3>1. C \subseteq SUBSET Products
      OBVIOUS
    <3> HIDE DEF C
    <3> QED BY <1>7, <3>1, MenuAssumption, LargestSet
  <2>2. ASSUME NEW p \in Products PROVE check[v][p] \in Results
    <3>1. CASE p \in v
      BY <1>1, <1>6, <3>1
    <3>2. CASE p \notin v
      <4>1. v \cup {p} \in SUBSET Products /\ v \cup {p} \notin C
        BY <2>1, <3>2
      <4>2. check[v \cup {p}] \in [Products -> Results]
        BY <4>1
      <4>3. CheckGroups(p, sel, check[v \cup {p}]) \in Results
        BY <4>2, CheckGroupsTypes
      <4> QED BY <1>6, <2>1, <3>2, <4>3
    <3> QED BY <3>1, <3>2
  <2>3. check[v] = Step(check)[v]
    BY <1>5
  <2> QED BY <2>2, <2>3
<1>8. check \in [SUBSET Products -> [Products -> Results]]
  BY <1>5, <1>7
<1> QED BY <1>6, <1>8 DEF check

\* What a call finds, from what the calls below it find.
FoundFromBelow(p, v, sel) ==
  LET found == Checked(sel)[v][p]
      below == Checked(sel)[v \cup {p}]
      picked == PickedAt(p, sel)
  IN /\ found.valid <=> /\ \A g \in GroupsOf(p) : Satisfies(g, sel)
                        /\ \A c \in picked : below[c[2]].valid
     /\ found.delta = Charges(p, picked, below)
     /\ found.consumed = {g \in GroupsOf(p) : sel[g] # {}} \cup
                         UNION {below[c[2]].consumed : c \in picked}
     /\ \A c \in picked : below[c[2]] \in Results

LEMMA CheckOfProduct ==
  ASSUME MenuTypeOK, NEW sel \in Selections,
         NEW v \in SUBSET Products, NEW p \in Products, p \notin v
  PROVE  FoundFromBelow(p, v, sel)
<1> DEFINE below == Checked(sel)[v \cup {p}]
<1>1. Checked(sel)[v][p] = CheckGroups(p, sel, below)
  BY CheckedWalks
<1>2. below \in [Products -> Results]
  BY CheckedWalks
<1>3. \A c \in PickedAt(p, sel) : below[c[2]] \in Results
  BY <1>2, PickedTypes
<1> DEFINE found == CheckGroups(p, sel, below)
<1>4. /\ found.valid <=> /\ \A g \in GroupsOf(p) : Satisfies(g, sel)
                         /\ \A c \in PickedAt(p, sel) : below[c[2]].valid
      /\ found.delta = Charges(p, PickedAt(p, sel), below)
      /\ found.consumed = {g \in GroupsOf(p) : sel[g] # {}} \cup
                          UNION {below[c[2]].consumed : c \in PickedAt(p, sel)}
  BY DEF CheckGroups, Charges
<1> HIDE DEF found
<1> QED BY <1>1, <1>3, <1>4 DEF found, FoundFromBelow

\* The largest set of visited products for which P fails, for a P that a set
\* Bad stands for.
LEMMA LargestVisited ==
  ASSUME NEW Bad, Bad \subseteq SUBSET Products, Bad # {}
  PROVE  \E v \in Bad : \A p \in Products \ v : v \cup {p} \in (SUBSET Products) \ Bad
<1>1. PICK v \in Bad : \A u \in Bad : v \subseteq u => u = v
  BY MenuAssumption, LargestSet
<1>2. ASSUME NEW p \in Products \ v
      PROVE  v \cup {p} \in (SUBSET Products) \ Bad
  BY <1>1
<1> QED BY <1>2

\* In a set that follows the choices a walk meets only products of the set:
\* it finds no error if they have none, and consumes only their groups.
LEMMA CheckStaysInside ==
  ASSUME MenuTypeOK, NEW sel \in Selections,
         NEW S \in SUBSET Products, Follows(S, sel),
         NEW v \in SUBSET Products, NEW p \in S
  PROVE  LET found == Checked(sel)[v][p]
         IN /\ (\A q \in S : \A g \in GroupsOf(q) : Satisfies(g, sel)) => found.valid
            /\ \A g \in found.consumed :
                 sel[g] # {} /\ g \in UNION {GroupsOf(q) : q \in S}
<1> DEFINE fine == \A q \in S : \A g \in GroupsOf(q) : Satisfies(g, sel)
           groups == UNION {GroupsOf(q) : q \in S}
           Good(u, q) == LET found == Checked(sel)[u][q]
                         IN /\ fine => found.valid
                            /\ \A g \in found.consumed : sel[g] # {} /\ g \in groups
           Bad == {u \in SUBSET Products : \E q \in S : ~Good(u, q)}
<1>1. ASSUME Bad # {} PROVE FALSE
  <2>1. PICK u \in Bad : \A q \in Products \ u : u \cup {q} \in (SUBSET Products) \ Bad
    <3>1. Bad \subseteq SUBSET Products
      OBVIOUS
    <3> HIDE DEF Bad
    <3> QED BY <1>1, <3>1, LargestVisited
  <2>2. ASSUME NEW q \in S PROVE Good(u, q)
    <3>1. CASE q \in u
      <4>1. Checked(sel)[u][q] = CameBack
        BY <2>1, <3>1, CheckedWalks
      <4> QED BY <4>1 DEF CameBack
    <3>2. CASE q \notin u
      <4> DEFINE below == Checked(sel)[u \cup {q}]
                 found == Checked(sel)[u][q]
      <4>1. \A c \in PickedAt(q, sel) : Good(u \cup {q}, c[2])
        BY <2>1, <3>2 DEF Follows
      <4>0. u \in SUBSET Products
        BY <2>1
      <4>2. /\ found.valid <=> /\ \A g \in GroupsOf(q) : Satisfies(g, sel)
                               /\ \A c \in PickedAt(q, sel) : below[c[2]].valid
            /\ found.consumed = {g \in GroupsOf(q) : sel[g] # {}} \cup
                                UNION {below[c[2]].consumed : c \in PickedAt(q, sel)}
        <5> HIDE DEF Good, Bad, fine, groups
        <5>1. q \in Products
          OBVIOUS
        <5>2. FoundFromBelow(q, u, sel)
          BY <3>2, <4>0, <5>1, CheckOfProduct
        <5> QED BY <5>2 DEF FoundFromBelow
      <4>3. fine => found.valid
        BY <4>1, <4>2
      <4>4. \A g \in found.consumed : sel[g] # {} /\ g \in groups
        BY <4>1, <4>2
      <4> QED BY <4>3, <4>4
    <3> QED BY <3>1, <3>2
  <2> QED BY <2>1, <2>2
<1>2. v \notin Bad
  BY <1>1
<1> QED BY <1>2

\* The products met from p on ways that avoid v.
MetAvoiding(p, v, sel) ==
  {q \in Products :
    \A S \in SUBSET Products :
      p \in S /\ (\A s \in S : \A c \in PickedAt(s, sel) : c[2] \in S \cup v) => q \in S}

\* They are p and those met from the options of p, avoiding p too.
LEMMA MetInSteps ==
  ASSUME MenuTypeOK, NEW sel \in Selections,
         NEW v \in SUBSET Products, NEW p \in Products, NEW q \in MetAvoiding(p, v, sel)
  PROVE  \/ q = p
         \/ \E c \in PickedAt(p, sel) :
              c[2] \notin v \cup {p} /\ q \in MetAvoiding(c[2], v \cup {p}, sel)
<1> DEFINE next == {c \in PickedAt(p, sel) : c[2] \notin v \cup {p}}
           S == {p} \cup UNION {MetAvoiding(c[2], v \cup {p}, sel) : c \in next}
<1>1. S \in SUBSET Products /\ p \in S
  BY DEF MetAvoiding
<1>2. \A c \in next : c[2] \in MetAvoiding(c[2], v \cup {p}, sel)
  BY PickedTypes DEF MetAvoiding
<1>3. ASSUME NEW s \in S, NEW c \in PickedAt(s, sel), c[2] \notin v
      PROVE  c[2] \in S
  <2>1. CASE s = p
    BY <1>2, <1>3, <2>1
  <2>2. ASSUME NEW d \in next, s \in MetAvoiding(d[2], v \cup {p}, sel), c[2] # p
        PROVE  c[2] \in MetAvoiding(d[2], v \cup {p}, sel)
    <3>1. c[2] \in Products
      BY <1>1, PickedTypes
    <3>2. ASSUME NEW T \in SUBSET Products, d[2] \in T,
                 \A t \in T : \A e \in PickedAt(t, sel) : e[2] \in T \cup (v \cup {p})
          PROVE  c[2] \in T
      <4>1. s \in T
        BY <2>2, <3>2 DEF MetAvoiding
      <4> QED BY <1>3, <2>2, <3>2, <4>1
    <3> QED BY <3>1, <3>2 DEF MetAvoiding
  <2> QED BY <1>3, <2>1, <2>2
<1>4. \A s \in S : \A c \in PickedAt(s, sel) : c[2] \in S \cup v
  BY <1>3
<1>5. q \in S
  <2> HIDE DEF S
  <2> QED BY <1>1, <1>4 DEF MetAvoiding
<1> QED BY <1>5

\* A walk gets to every product met on ways that avoid those visited before:
\* it is valid only if their groups are satisfied, and consumes their groups.
LEMMA CheckGoesEverywhere ==
  ASSUME MenuTypeOK, NEW sel \in Selections,
         NEW v \in SUBSET Products, NEW p \in Products \ v,
         NEW q \in MetAvoiding(p, v, sel), NEW g \in GroupsOf(q)
  PROVE  LET found == Checked(sel)[v][p]
         IN /\ found.valid => Satisfies(g, sel)
            /\ sel[g] # {} => g \in found.consumed
<1> DEFINE Good(u, s) ==
             LET found == Checked(sel)[u][s]
             IN \A t \in MetAvoiding(s, u, sel) : \A h \in GroupsOf(t) :
                  /\ found.valid => Satisfies(h, sel)
                  /\ sel[h] # {} => h \in found.consumed
           Bad == {u \in SUBSET Products : \E s \in Products \ u : ~Good(u, s)}
<1>1. ASSUME Bad # {} PROVE FALSE
  <2>1. PICK u \in Bad : \A s \in Products \ u : u \cup {s} \in (SUBSET Products) \ Bad
    <3>1. Bad \subseteq SUBSET Products
      OBVIOUS
    <3> HIDE DEF Bad
    <3> QED BY <1>1, <3>1, LargestVisited
  <2>2. ASSUME NEW s \in Products \ u PROVE Good(u, s)
    <3> DEFINE below == Checked(sel)[u \cup {s}]
               found == Checked(sel)[u][s]
    <3>0. u \in SUBSET Products /\ s \notin u
      BY <2>1
    <3>1. /\ found.valid <=> /\ \A h \in GroupsOf(s) : Satisfies(h, sel)
                             /\ \A c \in PickedAt(s, sel) : below[c[2]].valid
          /\ found.consumed = {h \in GroupsOf(s) : sel[h] # {}} \cup
                              UNION {below[c[2]].consumed : c \in PickedAt(s, sel)}
      <4> HIDE DEF Good, Bad
      <4>1. FoundFromBelow(s, u, sel)
        BY <3>0, CheckOfProduct
      <4> QED BY <4>1 DEF FoundFromBelow
    <3>2. ASSUME NEW t \in MetAvoiding(s, u, sel), NEW h \in GroupsOf(t)
          PROVE  /\ found.valid => Satisfies(h, sel)
                 /\ sel[h] # {} => h \in found.consumed
      <4>1. CASE t = s
        BY <3>1, <4>1
      <4>2. ASSUME NEW c \in PickedAt(s, sel), c[2] \notin u \cup {s},
                   t \in MetAvoiding(c[2], u \cup {s}, sel)
            PROVE  /\ found.valid => Satisfies(h, sel)
                   /\ sel[h] # {} => h \in found.consumed
        <5>1. c[2] \in Products
          BY PickedTypes
        <5>2. Good(u \cup {s}, c[2])
          BY <2>1, <4>2, <5>1
        <5>3. /\ below[c[2]].valid => Satisfies(h, sel)
              /\ sel[h] # {} => h \in below[c[2]].consumed
          BY <4>2, <5>2
        <5> QED BY <3>1, <5>3
      <4> QED BY <2>1, <4>1, <4>2, MetInSteps
    <3> QED BY <3>2
  <2> QED BY <2>1, <2>2
<1>2. v \notin Bad
  BY <1>1
<1> QED BY <1>2

\* The products met follow the choices, and no others do.
LEMMA MetIsLeast ==
  ASSUME MenuTypeOK, NEW sel \in Selections, NEW p \in Products
  PROVE  /\ Met(p, sel) \in SUBSET Products /\ p \in Met(p, sel)
         /\ Follows(Met(p, sel), sel)
         /\ Met(p, sel) = MetAvoiding(p, {}, sel)
<1>1. Met(p, sel) \in SUBSET Products /\ p \in Met(p, sel)
  BY DEF Met
<1>2. ASSUME NEW q \in Met(p, sel), NEW c \in PickedAt(q, sel)
      PROVE  c[2] \in Met(p, sel)
  <2>1. c[2] \in Products
    BY <1>1, PickedTypes
  <2>2. ASSUME NEW S \in SUBSET Products, p \in S, Follows(S, sel)
        PROVE  c[2] \in S
    BY <2>2 DEF Met, Follows
  <2> QED BY <2>1, <2>2 DEF Met
<1>3. Follows(Met(p, sel), sel)
  BY <1>2 DEF Follows
<1>4. Met(p, sel) = MetAvoiding(p, {}, sel)
  BY DEF Met, MetAvoiding, Follows
<1> QED BY <1>1, <1>3, <1>4

\* The recursion over paths finds what the closure finds.
LEMMA AcceptedFollowTheMenu == MenuTypeOK => AcceptedOrdersFollowTheMenu
<1> SUFFICES ASSUME MenuTypeOK, NEW p \in Dishes, NEW sel \in Selections
    PROVE  LET met == UNION {GroupsOf(q) : q \in Met(p, sel)}
           IN Accepted(p, sel) <=>
                \A g \in Groups :
                  IF g \in met THEN Satisfies(g, sel) ELSE sel[g] = {}
  BY DEF AcceptedOrdersFollowTheMenu
<1> DEFINE S == Met(p, sel)
           met == UNION {GroupsOf(q) : q \in S}
           found == Checked(sel)[{}][p]
<1>1. p \in Products
  BY MenuAssumption DEF Dishes
<1>2. S \in SUBSET Products /\ p \in S /\ Follows(S, sel) /\ S = MetAvoiding(p, {}, sel)
  BY <1>1, MetIsLeast
<1>3. {} \in SUBSET Products /\ p \in Products \ {}
  BY <1>1
<1>4. /\ (\A q \in S : \A g \in GroupsOf(q) : Satisfies(g, sel)) => found.valid
      /\ \A g \in found.consumed : sel[g] # {} /\ g \in met
  <2> HIDE DEF S
  <2> QED BY <1>2, <1>3, CheckStaysInside
<1>5. ASSUME NEW q \in S, NEW g \in GroupsOf(q)
      PROVE  /\ found.valid => Satisfies(g, sel)
             /\ sel[g] # {} => g \in found.consumed
  <2> HIDE DEF S
  <2> QED BY <1>2, <1>3, CheckGoesEverywhere
<1>6. met \subseteq Groups
  BY <1>2, PickedTypes
<1>7. Accepted(p, sel) <=>
        found.valid /\ \A g \in Groups : sel[g] # {} => g \in found.consumed
  BY DEF Accepted, Check
<1>8. (\A g \in met : Satisfies(g, sel)) <=> found.valid
  BY <1>4, <1>5
<1>9. \A g \in Groups : sel[g] # {} => (g \in found.consumed <=> g \in met)
  BY <1>4, <1>5
<1> HIDE DEF met, S, found
<1> QED BY <1>6, <1>7, <1>8, <1>9 DEF met, S

(***************************************************************************)
(*                        The menu: what it shows                          *)
(***************************************************************************)

\* There are finitely many entries to show.
LEMMA EntriesAreFinite == IsFiniteSet(MenuEntries)
<1> DEFINE T == (SUBSET Edges) \X Edges
           f == [e \in MenuEntries |-> <<e.via, e.edge>>]
<1>1. IsFiniteSet(Edges)
  <2>1. IsFiniteSet(Products \X (Groups \X Products))
    BY MenuAssumption, FS_Product
  <2> DEFINE h == [e \in Edges |-> <<e[1], <<e[2], e[3]>>>>]
  <2>2. h \in Injection(Edges, Products \X (Groups \X Products))
    <3>1. h \in [Edges -> Products \X (Groups \X Products)]
      BY DEF Edges
    <3>2. ASSUME NEW e \in Edges, NEW d \in Edges, h[e] = h[d] PROVE e = d
      BY <3>2 DEF Edges
    <3> QED BY <3>1, <3>2 DEF Injection, IsInjective
  <2> QED BY <2>1, <2>2, FS_Injection
<1>2. IsFiniteSet(T)
  BY <1>1, FS_SUBSET, FS_Product
<1>3. f \in Injection(MenuEntries, T)
  <2>1. f \in [MenuEntries -> T]
    BY DEF MenuEntries
  <2>2. ASSUME NEW e \in MenuEntries, NEW d \in MenuEntries, f[e] = f[d]
        PROVE  e = d
    BY <2>2 DEF MenuEntries
  <2> QED BY <2>1, <2>2 DEF Injection, IsInjective
<1> QED BY <1>2, <1>3, FS_Injection

\* The entries an option c of p gives: its own, and those below it.
EdgeOf(p, c) == <<p, c[1], c[2]>>
Top(p, c) == [via |-> {}, edge |-> EdgeOf(p, c)]
Under(p, c, e) == [via |-> e.via \cup {EdgeOf(p, c)}, edge |-> e.edge]
OptionsAt(p) == UNION {{g} \X Offered(g) : g \in GroupsOf(p)}

LEMMA OptionTypes ==
  ASSUME MenuTypeOK, NEW p \in Products
  PROVE  /\ \A c \in OptionsAt(p) :
              /\ c \in Groups \X Products /\ EdgeOf(p, c) \in Edges
              /\ GroupsOf(p) # {} /\ c[1] \in GroupsOf(p) /\ c[2] \in Offered(c[1])
         /\ \A c, d \in OptionsAt(p) : EdgeOf(p, c) = EdgeOf(p, d) => c = d
<1>1. ASSUME NEW c \in OptionsAt(p)
      PROVE  /\ c \in Groups \X Products /\ EdgeOf(p, c) \in Edges
             /\ GroupsOf(p) # {} /\ c[1] \in GroupsOf(p) /\ c[2] \in Offered(c[1])
  BY DEF OptionsAt, MenuTypeOK, GroupsOf, Offered, EdgeOf, Edges
<1>2. ASSUME NEW c \in OptionsAt(p), NEW d \in OptionsAt(p), EdgeOf(p, c) = EdgeOf(p, d)
      PROVE  c = d
  <2>1. c \in Groups \X Products /\ d \in Groups \X Products
    BY <1>1
  <2>2. c[1] = d[1] /\ c[2] = d[2]
    BY <1>2 DEF EdgeOf
  <2> QED BY <2>1, <2>2
<1> QED BY <1>1, <1>2

\* What BuildGroups puts together.
LEMMA BuildGroupsIs ==
  ASSUME MenuTypeOK, NEW p \in Products, NEW below \in [Products -> SUBSET MenuEntries]
  PROVE  /\ BuildGroups(p, below) \in SUBSET MenuEntries
         /\ \A e \in BuildGroups(p, below) : \E c \in OptionsAt(p) :
              \/ e = Top(p, c)
              \/ \E d \in below[c[2]] : e = Under(p, c, d)
         /\ \A c \in OptionsAt(p) :
              /\ Top(p, c) \in BuildGroups(p, below)
              /\ \A d \in below[c[2]] : Under(p, c, d) \in BuildGroups(p, below)
<1> DEFINE part(c) == {Top(p, c)} \cup {Under(p, c, d) : d \in below[c[2]]}
<1>1. ASSUME NEW c \in OptionsAt(p)
      PROVE  /\ below[c[2]] \in SUBSET MenuEntries
             /\ part(c) = {[via |-> {}, edge |-> <<p, c[1], c[2]>>]} \cup
                    {[d EXCEPT !.via = @ \cup {<<p, c[1], c[2]>>}] : d \in below[c[2]]}
  <2>1. below[c[2]] \in SUBSET MenuEntries
    BY OptionTypes
  <2>2. ASSUME NEW d \in below[c[2]]
        PROVE  Under(p, c, d) = [d EXCEPT !.via = @ \cup {<<p, c[1], c[2]>>}]
    <3>1. d \in MenuEntries /\ EdgeOf(p, c) \in Edges
      BY <2>1, OptionTypes
    <3>2. d.via \cup {EdgeOf(p, c)} \in SUBSET Edges
      BY <3>1 DEF MenuEntries
    <3>3. ASSUME NEW x \in SUBSET Edges
          PROVE  [d EXCEPT !.via = x] = [via |-> x, edge |-> d.edge]
      BY <3>1 DEF MenuEntries
    <3> QED BY <3>2, <3>3 DEF Under, EdgeOf
  <2> QED BY <2>1, <2>2 DEF Top, EdgeOf
<1>2. BuildGroups(p, below) = UNION {part(c) : c \in OptionsAt(p)}
  <2>1. BuildGroups(p, below) =
          UNION {{[via |-> {}, edge |-> <<p, c[1], c[2]>>]} \cup
                   {[d EXCEPT !.via = @ \cup {<<p, c[1], c[2]>>}] : d \in below[c[2]]}
                 : c \in OptionsAt(p)}
    BY DEF BuildGroups, OptionsAt
  <2> HIDE DEF part
  <2> QED BY <1>1, <2>1
<1>3. ASSUME NEW c \in OptionsAt(p) PROVE part(c) \subseteq MenuEntries
  <2>1. EdgeOf(p, c) \in Edges /\ below[c[2]] \in SUBSET MenuEntries
    BY <1>1, OptionTypes
  <2> QED BY <2>1 DEF Top, Under, MenuEntries
<1>4. BuildGroups(p, below) \in SUBSET MenuEntries
  <2> HIDE DEF part
  <2> QED BY <1>2, <1>3
<1> QED BY <1>2, <1>4

\* Shown is the walk it is written as.
LEMMA ShownWalks ==
  ASSUME MenuTypeOK
  PROVE  /\ Shown \in [SUBSET Products -> [Products -> SUBSET MenuEntries]]
         /\ \A v \in SUBSET Products, p \in Products :
              Shown[v][p] =
                IF p \in v THEN {} ELSE BuildGroups(p, Shown[v \cup {p}])
<1> DEFINE R == SUBSET MenuEntries
           Step(f) == [v \in SUBSET Products |-> [p \in Products |->
                         IF p \in v THEN {} ELSE BuildGroups(p, f[v \cup {p}])]]
           G == [p \in Products |-> [below \in [Products -> R] |-> BuildGroups(p, below)]]
<1>1. {} \in R
  OBVIOUS
<1>2. G \in [Products -> [[Products -> R] -> R]]
  BY BuildGroupsIs
<1>3. PICK f : IsWalk(f, Products, R, {}, G)
  <2> HIDE DEF G, R
  <2> QED BY <1>1, <1>2, MenuAssumption, WalkExists
<1> HIDE DEF R
<1>4. f = Step(f)
  <2>1. f \in [SUBSET Products -> [Products -> R]]
    BY <1>3 DEF IsWalk
  <2>2. ASSUME NEW v \in SUBSET Products, NEW p \in Products
        PROVE  f[v][p] = IF p \in v THEN {} ELSE BuildGroups(p, f[v \cup {p}])
    <3>1. f[v \cup {p}] \in [Products -> R]
      BY <2>1
    <3>2. f[v][p] = IF p \in v THEN {} ELSE G[p][f[v \cup {p}]]
      BY <1>3 DEF IsWalk
    <3> QED BY <3>1, <3>2
  <2>3. \A v \in SUBSET Products : f[v] = Step(f)[v]
    BY <2>1, <2>2
  <2> HIDE DEF G
  <2> QED BY <2>1, <2>3
<1>5. Shown = Step(Shown)
  <2>1. Shown = CHOOSE h : h = Step(h)
    BY DEF Shown
  <2> HIDE DEF Step
  <2> QED BY <1>4, <2>1
<1>6. ASSUME NEW v \in SUBSET Products, NEW p \in Products
      PROVE  Shown[v][p] = IF p \in v THEN {} ELSE BuildGroups(p, Shown[v \cup {p}])
  <2>1. Shown[v] = Step(Shown)[v]
    BY <1>5
  <2> QED BY <2>1
<1> DEFINE C == {v \in SUBSET Products : Shown[v] \notin [Products -> R]}
<1>7. ASSUME C # {} PROVE FALSE
  <2>1. PICK v \in C : \A p \in Products \ v : v \cup {p} \in (SUBSET Products) \ C
    <3>1. C \subseteq SUBSET Products
      OBVIOUS
    <3> HIDE DEF C
    <3> QED BY <1>7, <3>1, LargestVisited
  <2>2. ASSUME NEW p \in Products PROVE Shown[v][p] \in R
    <3>1. CASE p \in v
      BY <1>1, <1>6, <2>1, <3>1
    <3>2. CASE p \notin v
      <4>1. Shown[v \cup {p}] \in [Products -> R]
        BY <2>1, <3>2
      <4>2. BuildGroups(p, Shown[v \cup {p}]) \in R
        BY <4>1, BuildGroupsIs DEF R
      <4> QED BY <1>6, <2>1, <3>2, <4>2
    <3> QED BY <3>1, <3>2
  <2>3. Shown[v] = Step(Shown)[v]
    BY <1>5
  <2> QED BY <2>1, <2>2, <2>3
<1>8. Shown \in [SUBSET Products -> [Products -> R]]
  BY <1>5, <1>7
<1> QED BY <1>6, <1>8 DEF R

\* Every edge an entry stands for or comes by starts at a product that was not
\* visited before, and its product offers something.
LEMMA EntriesAvoidVisited ==
  ASSUME MenuTypeOK, NEW v \in SUBSET Products, NEW p \in Products, NEW e \in Shown[v][p]
  PROVE  /\ e \in MenuEntries
         /\ e.edge[1] \notin v /\ \A d \in e.via : d[1] \notin v
         /\ GroupsOf(e.edge[1]) # {}
<1> DEFINE Avoids(u, d) == /\ d.edge[1] \notin u /\ \A x \in d.via : x[1] \notin u
                           /\ GroupsOf(d.edge[1]) # {}
           Good(u, q) == \A d \in Shown[u][q] : Avoids(u, d)
           Bad == {u \in SUBSET Products : \E q \in Products : ~Good(u, q)}
<1>1. ASSUME Bad # {} PROVE FALSE
  <2>1. PICK u \in Bad : \A q \in Products \ u : u \cup {q} \in (SUBSET Products) \ Bad
    <3>1. Bad \subseteq SUBSET Products
      OBVIOUS
    <3> HIDE DEF Bad
    <3> QED BY <1>1, <3>1, LargestVisited
  <2>2. ASSUME NEW q \in Products, NEW d \in Shown[u][q] PROVE Avoids(u, d)
    <3>0. u \in SUBSET Products
      BY <2>1
    <3> HIDE DEF Bad
    <3>1. q \notin u
      BY <2>2, <3>0, ShownWalks
    <3> DEFINE below == Shown[u \cup {q}]
    <3>2. Shown[u][q] = BuildGroups(q, below) /\ below \in [Products -> SUBSET MenuEntries]
      <4>1. u \cup {q} \in SUBSET Products
        BY <3>0
      <4> QED BY <3>0, <3>1, <4>1, ShownWalks
    <3> HIDE DEF below
    <3>3. PICK c \in OptionsAt(q) :
            d = Top(q, c) \/ \E x \in below[c[2]] : d = Under(q, c, x)
      BY <2>2, <3>2, BuildGroupsIs
    <3>4. GroupsOf(q) # {} /\ c[2] \in Products
      BY OptionTypes
    <3>5. CASE d = Top(q, c)
      BY <3>1, <3>4, <3>5 DEF Top, EdgeOf
    <3>6. ASSUME NEW x \in below[c[2]], d = Under(q, c, x)
          PROVE  Avoids(u, d)
      <4>1. u \cup {q} \in (SUBSET Products) \ Bad
        BY <2>1, <3>1
      <4>2. Good(u \cup {q}, c[2])
        <5> HIDE DEF Good
        <5> QED BY <3>4, <4>1 DEF Bad
      <4>3. Avoids(u \cup {q}, x)
        BY <4>2 DEF below
      <4>4. d.edge = x.edge /\ d.via = x.via \cup {EdgeOf(q, c)}
        BY <3>6 DEF Under
      <4> QED BY <3>1, <4>3, <4>4 DEF EdgeOf
    <3> QED BY <3>3, <3>5, <3>6
  <2> QED BY <2>1, <2>2
<1>2. v \notin Bad
  BY <1>1
<1>3. Good(v, p)
  BY <1>2
<1>4. e \in MenuEntries
  BY ShownWalks
<1> QED BY <1>3, <1>4

\* The picked entries of a call are those of the picked options, each option's
\* own and those picked below it, and no two options share one.
PickedShown(p, v, sel) == {e \in Shown[v][p] : EntryPicked(e, sel)}
PickedUnder(p, c, v, sel) ==
  {Under(p, c, e) : e \in PickedShown(c[2], v \cup {p}, sel)}
PickedPart(p, c, v, sel) == {Top(p, c)} \cup PickedUnder(p, c, v, sel)

LEMMA PickedInParts ==
  ASSUME MenuTypeOK, NEW sel \in Selections,
         NEW v \in SUBSET Products, NEW p \in Products, p \notin v
  PROVE  PickedShown(p, v, sel)
           = UNION {PickedPart(p, c, v, sel) : c \in PickedAt(p, sel)}
<1> DEFINE below == Shown[v \cup {p}]
<1>0. v \cup {p} \in SUBSET Products
  OBVIOUS
<1>1. Shown[v][p] = BuildGroups(p, below) /\ below \in [Products -> SUBSET MenuEntries]
  BY <1>0, ShownWalks
<1> HIDE DEF below
<1>2. \A c \in PickedAt(p, sel) : c \in OptionsAt(p) /\ c[2] \in sel[c[1]]
  BY PickedTypes DEF OptionsAt
<1>3. \A c \in OptionsAt(p) : c[2] \in sel[c[1]] => c \in PickedAt(p, sel)
  <2>1. ASSUME NEW c \in OptionsAt(p), c[2] \in sel[c[1]]
        PROVE  c \in PickedAt(p, sel)
    <3>1. c \in Groups \X Products /\ c[1] \in GroupsOf(p) /\ c[2] \in Offered(c[1])
      BY OptionTypes
    <3>2. <<c[1], c[2]>> \in PickedAt(p, sel)
      BY <2>1, <3>1, PickedTypes
    <3>3. c = <<c[1], c[2]>>
      BY <3>1
    <3> QED BY <3>2, <3>3
  <2> QED BY <2>1
<1>4. \A c \in OptionsAt(p) : EntryPicked(Top(p, c), sel) <=> c[2] \in sel[c[1]]
  BY DEF EntryPicked, EdgePicked, Top, EdgeOf
<1>5. ASSUME NEW c, NEW d
      PROVE  EntryPicked(Under(p, c, d), sel) <=>
               EntryPicked(d, sel) /\ c[2] \in sel[c[1]]
  <2>1. /\ Under(p, c, d).edge = d.edge
        /\ Under(p, c, d).via = d.via \cup {EdgeOf(p, c)}
    BY DEF Under
  <2>2. EdgePicked(EdgeOf(p, c), sel) <=> c[2] \in sel[c[1]]
    BY DEF EdgePicked, EdgeOf
  <2> QED BY <2>1, <2>2 DEF EntryPicked
<1>6. ASSUME NEW e \in PickedShown(p, v, sel)
      PROVE  \E c \in PickedAt(p, sel) : e \in PickedPart(p, c, v, sel)
  <2>1. e \in BuildGroups(p, below) /\ EntryPicked(e, sel)
    BY <1>1 DEF PickedShown
  <2>2. PICK c \in OptionsAt(p) :
          e = Top(p, c) \/ \E d \in below[c[2]] : e = Under(p, c, d)
    BY <1>1, <2>1, BuildGroupsIs
  <2>3. CASE e = Top(p, c)
    BY <1>3, <1>4, <2>1, <2>3 DEF PickedPart
  <2>4. ASSUME NEW d \in below[c[2]], e = Under(p, c, d)
        PROVE  c \in PickedAt(p, sel) /\ e \in PickedPart(p, c, v, sel)
    <3>1. EntryPicked(d, sel) /\ c \in PickedAt(p, sel)
      BY <1>3, <1>5, <2>1, <2>4
    <3> QED BY <2>4, <3>1 DEF PickedPart, PickedUnder, PickedShown, below
  <2> QED BY <2>2, <2>3, <2>4
<1>7. ASSUME NEW c \in PickedAt(p, sel), NEW e \in PickedPart(p, c, v, sel)
      PROVE  e \in PickedShown(p, v, sel)
  <2>1. CASE e = Top(p, c)
    BY <1>1, <1>2, <1>4, <2>1, BuildGroupsIs DEF PickedShown
  <2>2. ASSUME NEW d \in PickedShown(c[2], v \cup {p}, sel), e = Under(p, c, d)
        PROVE  e \in PickedShown(p, v, sel)
    <3>1. d \in below[c[2]] /\ EntryPicked(d, sel)
      BY DEF PickedShown, below
    <3>2. e \in BuildGroups(p, below) /\ EntryPicked(e, sel)
      BY <1>1, <1>2, <1>5, <2>2, <3>1, BuildGroupsIs
    <3> QED BY <1>1, <3>2 DEF PickedShown
  <2> QED BY <2>1, <2>2 DEF PickedPart, PickedUnder
<1> QED BY <1>6, <1>7

\* An entry under an option has the option's edge, and no other from p.
LEMMA PartsAreApart ==
  ASSUME MenuTypeOK, NEW sel \in Selections,
         NEW v \in SUBSET Products, NEW p \in Products
  PROVE  /\ \A c, d \in PickedAt(p, sel) :
              c # d => PickedPart(p, c, v, sel) \cap PickedPart(p, d, v, sel) = {}
         /\ \A c \in PickedAt(p, sel) : Top(p, c) \notin PickedUnder(p, c, v, sel)
         /\ \A c \in PickedAt(p, sel) :
              \A e, d \in PickedShown(c[2], v \cup {p}, sel) :
                Under(p, c, e) = Under(p, c, d) => e = d
<1>1. ASSUME NEW c \in PickedAt(p, sel), NEW e \in PickedShown(c[2], v \cup {p}, sel)
      PROVE  /\ e \in MenuEntries /\ e.edge[1] # p /\ \A x \in e.via : x[1] # p
             /\ Under(p, c, e).edge[1] # p
             /\ {x \in Under(p, c, e).via : x[1] = p} = {EdgeOf(p, c)}
  <2>1. c[2] \in Products /\ v \cup {p} \in SUBSET Products /\ e \in Shown[v \cup {p}][c[2]]
    BY PickedTypes DEF PickedShown
  <2>2. e \in MenuEntries /\ e.edge[1] # p /\ \A x \in e.via : x[1] # p
    BY <2>1, EntriesAvoidVisited
  <2> QED BY <2>2 DEF Under, EdgeOf
<1>2. \A c \in PickedAt(p, sel) : c \in OptionsAt(p)
  BY PickedTypes DEF OptionsAt
<1>3. \A c, d \in PickedAt(p, sel) : EdgeOf(p, c) = EdgeOf(p, d) => c = d
  BY <1>2, OptionTypes
<1>4. \A c : Top(p, c).via = {} /\ Top(p, c).edge = EdgeOf(p, c) /\ EdgeOf(p, c)[1] = p
  BY DEF Top, EdgeOf
<1>5. ASSUME NEW c \in PickedAt(p, sel), NEW d \in PickedAt(p, sel), c # d,
             NEW x \in PickedPart(p, c, v, sel), x \in PickedPart(p, d, v, sel)
      PROVE  FALSE
  <2>1. x = Top(p, c) \/ \E e \in PickedShown(c[2], v \cup {p}, sel) : x = Under(p, c, e)
    BY DEF PickedPart, PickedUnder
  <2>2. x = Top(p, d) \/ \E e \in PickedShown(d[2], v \cup {p}, sel) : x = Under(p, d, e)
    BY <1>5 DEF PickedPart, PickedUnder
  <2>3. \/ x.edge = EdgeOf(p, c)
        \/ x.edge[1] # p /\ {y \in x.via : y[1] = p} = {EdgeOf(p, c)}
    BY <1>1, <1>4, <2>1
  <2>4. \/ x.edge = EdgeOf(p, d)
        \/ x.edge[1] # p /\ {y \in x.via : y[1] = p} = {EdgeOf(p, d)}
    BY <1>1, <1>4, <2>2
  <2> QED BY <1>3, <1>4, <1>5, <2>3, <2>4
<1>6. ASSUME NEW c \in PickedAt(p, sel) PROVE Top(p, c) \notin PickedUnder(p, c, v, sel)
  BY <1>1, <1>4 DEF PickedUnder
<1>7. ASSUME NEW c \in PickedAt(p, sel),
             NEW e \in PickedShown(c[2], v \cup {p}, sel),
             NEW d \in PickedShown(c[2], v \cup {p}, sel),
             Under(p, c, e) = Under(p, c, d)
      PROVE  e = d
  <2>1. e.edge = d.edge /\ e.via \cup {EdgeOf(p, c)} = d.via \cup {EdgeOf(p, c)}
    BY <1>7 DEF Under
  <2>2. EdgeOf(p, c) \notin e.via /\ EdgeOf(p, c) \notin d.via
    BY <1>1, <1>4
  <2>3. e.via = d.via
    BY <2>1, <2>2
  <2>4. e \in MenuEntries /\ d \in MenuEntries
    BY <1>1
  <2> QED BY <2>1, <2>3, <2>4 DEF MenuEntries
<1> QED BY <1>5, <1>6, <1>7

\* What an entry costs.
CostOf == [e \in MenuEntries |-> ExtraPrice(e.edge[1], e.edge[3])]

LEMMA PickedCost ==
  ASSUME MenuTypeOK, NEW v \in SUBSET Products, NEW p \in Products, NEW sel \in Selections
  PROVE  /\ PickedShown(p, v, sel) \subseteq MenuEntries
         /\ IsFiniteSet(PickedShown(p, v, sel))
         /\ \A e \in PickedShown(p, v, sel) :
              CostOf[e] = ExtraPrice(e.edge[1], e.edge[3]) /\ CostOf[e] \in Int
<1>1. PickedShown(p, v, sel) \subseteq MenuEntries
  BY EntriesAvoidVisited DEF PickedShown
<1>2. ASSUME NEW e \in PickedShown(p, v, sel)
      PROVE  CostOf[e] = ExtraPrice(e.edge[1], e.edge[3]) /\ CostOf[e] \in Int
  <2>1. e \in MenuEntries /\ GroupsOf(e.edge[1]) # {}
    BY EntriesAvoidVisited DEF PickedShown
  <2>2. e.edge[1] \in Products /\ e.edge[3] \in Products
    BY <2>1 DEF MenuEntries, Edges
  <2>3. ExtraPrice(e.edge[1], e.edge[3]) \in Int
    BY <2>1, <2>2, PricesAreNat
  <2> QED BY <2>1, <2>3 DEF CostOf
<1> QED BY <1>1, <1>2, EntriesAreFinite, FS_Subset

\* What one picked option and what is picked below it cost.
LEMMA PartCost ==
  ASSUME MenuTypeOK, NEW sel \in Selections,
         NEW v \in SUBSET Products, NEW p \in Products, NEW c \in PickedAt(p, sel)
  PROVE  /\ IsFiniteSet(PickedPart(p, c, v, sel))
         /\ \A e \in PickedPart(p, c, v, sel) : CostOf[e] \in Int
         /\ Sum(CostOf, PickedPart(p, c, v, sel))
              = ExtraPrice(p, c[2]) + Sum(CostOf, PickedShown(c[2], v \cup {p}, sel))
<1> DEFINE S == PickedShown(c[2], v \cup {p}, sel)
           U == PickedUnder(p, c, v, sel)
           h == [e \in S |-> Under(p, c, e)]
<1>1. /\ c \in OptionsAt(p) /\ c[2] \in Products /\ GroupsOf(p) # {}
      /\ EdgeOf(p, c) \in Edges /\ v \cup {p} \in SUBSET Products
  <2>1. c \in OptionsAt(p)
    BY PickedTypes DEF OptionsAt
  <2> QED BY <2>1, PickedTypes, OptionTypes
<1>2. /\ S \subseteq MenuEntries /\ IsFiniteSet(S)
      /\ \A e \in S : CostOf[e] = ExtraPrice(e.edge[1], e.edge[3]) /\ CostOf[e] \in Int
  BY <1>1, PickedCost
<1>3. Top(p, c) \in MenuEntries /\ CostOf[Top(p, c)] = ExtraPrice(p, c[2])
  BY <1>1 DEF CostOf, Top, MenuEntries, EdgeOf
<1>4. ExtraPrice(p, c[2]) \in Int
  BY <1>1, PricesAreNat
<1>5. \A e, d \in S : h[e] = h[d] => e = d
  BY PartsAreApart
<1>6. ASSUME NEW e \in S PROVE CostOf[e] \in Int /\ CostOf[h[e]] = CostOf[e]
  <2>1. Under(p, c, e) \in MenuEntries /\ Under(p, c, e).edge = e.edge
    BY <1>1, <1>2 DEF Under, MenuEntries
  <2>2. CostOf[Under(p, c, e)] = ExtraPrice(e.edge[1], e.edge[3])
    BY <2>1 DEF CostOf
  <2> QED BY <1>2, <2>2
<1>7. U = {h[e] : e \in S}
  BY DEF PickedUnder
<1>8. IsFiniteSet(U) /\ Sum(CostOf, U) = Sum(CostOf, S)
  <2> HIDE DEF h, S, U
  <2> QED BY <1>2, <1>5, <1>6, <1>7, SumImage
<1>9. \A e \in U : CostOf[e] \in Int
  BY <1>6, <1>7
<1>10. Top(p, c) \notin U
  BY PartsAreApart
<1>11. PickedPart(p, c, v, sel) = U \cup {Top(p, c)}
  BY DEF PickedPart
<1> HIDE DEF U, h, S
<1>12. IsFiniteSet(U \cup {Top(p, c)}) /\ \A e \in U \cup {Top(p, c)} : CostOf[e] \in Int
  BY <1>3, <1>4, <1>8, <1>9, FS_AddElement
<1>13. Sum(CostOf, U \cup {Top(p, c)}) = Sum(CostOf, U) + CostOf[Top(p, c)]
  BY <1>8, <1>10, <1>12, SumInsert
<1>14. Sum(CostOf, S) \in Int
  BY <1>2, SumRemove
<1>15. Sum(CostOf, U \cup {Top(p, c)}) = ExtraPrice(p, c[2]) + Sum(CostOf, S)
  BY <1>3, <1>4, <1>8, <1>13, <1>14
<1> QED BY <1>11, <1>12, <1>15 DEF S

\* What a call charges is what the picked entries cost.
LEMMA ChargedIsPicked ==
  ASSUME MenuTypeOK, NEW sel \in Selections, NEW v \in SUBSET Products, NEW p \in Products
  PROVE  Checked(sel)[v][p].delta = Sum(CostOf, PickedShown(p, v, sel))
<1> DEFINE Good(u, q) ==
             Checked(sel)[u][q].delta = Sum(CostOf, PickedShown(q, u, sel))
           Bad == {u \in SUBSET Products : \E q \in Products : ~Good(u, q)}
<1>1. ASSUME Bad # {} PROVE FALSE
  <2>1. PICK u \in Bad : \A q \in Products \ u : u \cup {q} \in (SUBSET Products) \ Bad
    <3>1. Bad \subseteq SUBSET Products
      OBVIOUS
    <3> HIDE DEF Bad
    <3> QED BY <1>1, <3>1, LargestVisited
  <2>2. u \in SUBSET Products
    BY <2>1
  <2>3. ASSUME NEW q \in Products PROVE Good(u, q)
    <3>1. CASE q \in u
      <4>1. Checked(sel)[u][q].delta = 0
        BY <2>2, <3>1, CheckedWalks DEF CameBack
      <4>2. PickedShown(q, u, sel) = {}
        BY <2>2, <3>1, ShownWalks DEF PickedShown
      <4> QED BY <4>1, <4>2, SumEmpty
    <3>2. CASE q \notin u
      <4> DEFINE below == Checked(sel)[u \cup {q}]
                 picked == PickedAt(q, sel)
                 F == [c \in picked |-> PickedPart(q, c, u, sel)]
                 w == [c \in picked |-> Charge(q, c[2], below[c[2]])]
      <4>1. u \cup {q} \in (SUBSET Products) \ Bad
        BY <2>1, <3>2
      <4>2. Checked(sel)[u][q].delta = Charges(q, picked, below)
        <5> HIDE DEF Bad
        <5>1. FoundFromBelow(q, u, sel)
          BY <2>2, <3>2, CheckOfProduct
        <5> QED BY <5>1 DEF FoundFromBelow
      <4>3. IsFiniteSet(picked) /\ \A c \in picked : c[2] \in Products
        BY PickedTypes
      <4>4. Charges(q, picked, below) = Sum(w, picked)
        <5>1. \A c \in picked : w[c] = Charge(q, c[2], below[c[2]])
          OBVIOUS
        <5> HIDE DEF picked, w, below
        <5> QED BY <4>3, <5>1, ChargesAreSum
      <4>5. ASSUME NEW c \in picked
            PROVE  /\ IsFiniteSet(F[c]) /\ \A e \in F[c] : CostOf[e] \in Int
                   /\ w[c] = Sum(CostOf, F[c])
        <5>1. Good(u \cup {q}, c[2])
          BY <4>1, <4>3
        <5> HIDE DEF Bad
        <5>2. /\ IsFiniteSet(PickedPart(q, c, u, sel))
              /\ \A e \in PickedPart(q, c, u, sel) : CostOf[e] \in Int
              /\ Sum(CostOf, PickedPart(q, c, u, sel))
                   = ExtraPrice(q, c[2]) + Sum(CostOf, PickedShown(c[2], u \cup {q}, sel))
          BY <2>2, PartCost
        <5> QED BY <5>1, <5>2 DEF Charge
      <4>6. \A c, d \in picked : c # d => F[c] \cap F[d] = {}
        BY <2>2, PartsAreApart
      <4>7. \A e : e \in PickedShown(q, u, sel) <=> \E c \in picked : e \in F[c]
        <5>1. PickedShown(q, u, sel)
                = UNION {PickedPart(q, c, u, sel) : c \in PickedAt(q, sel)}
          BY <2>2, <3>2, PickedInParts
        <5> QED BY <5>1
      <4>8. Sum(CostOf, PickedShown(q, u, sel)) = Sum(w, picked)
        <5> HIDE DEF F, w, picked, Bad, below, Good
        <5>1. \A c \in picked : IsFiniteSet(F[c])
          BY <4>5
        <5>2. \A c \in picked : \A e \in F[c] : CostOf[e] \in Int
          BY <4>5
        <5>3. \A c \in picked : w[c] = Sum(CostOf, F[c])
          BY <4>5
        <5>4. ArePartsOf(PickedShown(q, u, sel), F, picked, CostOf, w)
          BY <4>6, <4>7, <5>1, <5>2, <5>3 DEF ArePartsOf
        <5> QED BY <4>3, <5>4, SumOfParts
      <4> QED BY <4>2, <4>4, <4>8
    <3> QED BY <3>1, <3>2
  <2> QED BY <2>1, <2>3
<1>2. v \notin Bad
  BY <1>1
<1> QED BY <1>2

LEMMA ChargesFollowTheMenu == MenuTypeOK => ChargedAsShown
<1> SUFFICES ASSUME MenuTypeOK, NEW p \in Dishes, NEW sel \in Selections
    PROVE  Check(p, sel).delta
             = MapThenSumSet(LAMBDA e : ExtraPrice(e.edge[1], e.edge[3]),
                             {e \in Entries(p) : EntryPicked(e, sel)})
  BY DEF ChargedAsShown
<1>1. p \in Products /\ {} \in SUBSET Products
  BY MenuAssumption DEF Dishes
<1>2. Check(p, sel).delta = Sum(CostOf, PickedShown(p, {}, sel))
  BY <1>1, ChargedIsPicked DEF Check
<1>3. Prices(PickedShown(p, {}, sel)) = Sum(CostOf, PickedShown(p, {}, sel))
  BY <1>1, PickedCost, PricesAreSum
<1> QED BY <1>2, <1>3 DEF Prices, PickedShown, Entries

(***************************************************************************)
(*                     The menu: the merchant's edits                      *)
(***************************************************************************)

LEMMA MenuStart == MenuInit => MenuTypeOK
BY MenuAssumption DEF MenuInit, MenuTypeOK, Statuses, GoodRule

\* What a save lists has a status.
LEMMA ListsTypes ==
  ASSUME MenuTypeOK, NEW own \in BOOLEAN, NEW p, NEW status \in Statuses, NEW options,
         Lists(own, p, status, options)
  PROVE  shelf' \in [Products -> Statuses]
BY DEF Lists, MenuTypeOK, Statuses

\* Each edit keeps the types; a group is written only with a rule that can be
\* met, and only Parents get groups.
LEMMA SaveProductTypes ==
  ASSUME MenuTypeOK, Edit, NEW own \in BOOLEAN, NEW p \in Products, NEW status \in Statuses,
         NEW sel \in SUBSET Groups, p \notin Parents => sel = {},
         SaveProduct(own, p, status, sel)
  PROVE  MenuTypeOK'
<1>1. shelf' \in [Products -> Statuses]
  BY ListsTypes DEF SaveProduct
<1>2. affects' \in [Parents -> BOOLEAN]
  BY DEF SaveProduct, MenuTypeOK
<1>3. /\ links' \in [Products -> SUBSET Groups]
      /\ \A q \in Products \ Parents : links'[q] = {}
  BY DEF SaveProduct, MenuTypeOK
<1>4. edits' \in 0..MaxEdits
  BY MenuAssumption DEF Edit, MenuTypeOK
<1> QED BY <1>1, <1>2, <1>3, <1>4 DEF SaveProduct, MenuTypeOK

LEMMA SaveWithGroupTypes ==
  ASSUME MenuTypeOK, Edit, NEW own \in BOOLEAN, NEW p \in Parents,
         NEW sel \in SUBSET Groups, NEW under \in SUBSET Groups,
         NEW g \in Groups, NEW r \in Rules, NEW options \in SUBSET Products,
         options \subseteq Parents \/ under = {},
         SaveProductWithGroup(own, p, sel, g, r, options, under)
  PROVE  MenuTypeOK'
<1>1. shelf' \in [Products -> Statuses]
  BY ListsTypes DEF SaveProductWithGroup, Statuses
<1>2. /\ links' \in [Products -> SUBSET Groups]
      /\ \A q \in Products \ Parents : links'[q] = {}
  BY DEF SaveProductWithGroup, MenuTypeOK
<1>3. /\ items' \in [Groups -> SUBSET Products] /\ rule' \in [Groups -> Rules]
      /\ \A h \in Groups : rule'[h].min <= rule'[h].max
  BY DEF SaveProductWithGroup, MenuTypeOK, GoodRule
<1>4. edits' \in 0..MaxEdits
  BY MenuAssumption DEF Edit, MenuTypeOK
<1> QED BY <1>1, <1>2, <1>3, <1>4 DEF SaveProductWithGroup, MenuTypeOK

LEMMA UpdateGroupTypes ==
  ASSUME MenuTypeOK, Edit, NEW own \in BOOLEAN, NEW g \in Groups, NEW r \in Rules,
         NEW options \in SUBSET Products, UpdateOptionGroup(own, g, r, options)
  PROVE  MenuTypeOK'
<1>1. /\ items' \in [Groups -> SUBSET Products] /\ rule' \in [Groups -> Rules]
      /\ \A h \in Groups : rule'[h].min <= rule'[h].max
  BY DEF UpdateOptionGroup, MenuTypeOK, GoodRule
<1>2. edits' \in 0..MaxEdits
  BY MenuAssumption DEF Edit, MenuTypeOK
<1> QED BY <1>1, <1>2 DEF UpdateOptionGroup, MenuTypeOK

LEMMA MenuStep == MenuTypeOK /\ [MenuNext]_menuVars => MenuTypeOK'
<1> SUFFICES ASSUME MenuTypeOK, [MenuNext]_menuVars PROVE MenuTypeOK'
  OBVIOUS
<1>1. CASE ReadMenu \/ UNCHANGED menuVars
  BY <1>1 DEF ReadMenu, menuVars, MenuTypeOK
<1>2. ASSUME NEW p \in Products, NEW status \in Statuses, SetStatus(p, status)
      PROVE  MenuTypeOK'
  BY <1>2 DEF SetStatus, MenuTypeOK
<1> QED
  BY <1>1, <1>2, SaveProductTypes, SaveWithGroupTypes, UpdateGroupTypes DEF MenuNext

\* Whatever a merchant saves, the rows of the menu keep their types, and no
\* group asks for more options than it allows.
THEOREM MenuTypes == MenuSpec => []MenuTypeOK
BY MenuStart, MenuStep, PTL DEF MenuSpec

\* An order is accepted exactly if it answers every group its choices lead to
\* and no other, for any menu, cycles and shared groups included.
THEOREM OrdersFollowTheMenu == MenuSpec => []AcceptedOrdersFollowTheMenu
BY MenuTypes, AcceptedFollowTheMenu, PTL

\* What an accepted order pays for its options is what the buyer's menu shows
\* beside them, for any menu and any prices.
THEOREM OrdersPayWhatIsShown == MenuSpec => []ChargedAsShown
BY MenuTypes, ChargesFollowTheMenu, PTL

(***************************************************************************)
(*                            All of a buyer's                             *)
(***************************************************************************)

\* The parts share no state: together they do what each of them does alone.
THEOREM BuyerParts ==
  BuyerSpec => LedgerSpec /\ WalletSpec /\ AddressSpec /\ ProfilesSpec /\ MenuSpec
<1>1. BuyerInit => RewardsInit /\ WalletInit /\ AddressInit /\ ProfilesInit /\ MenuInit
  BY DEF BuyerInit
<1>2. [BuyerNext]_buyerVars =>
        /\ [LedgerNext]_rewardsVars /\ [WalletNext]_walletVars /\ [AddressNext]_addressVars
        /\ [ProfilesNext]_profileVars /\ [MenuNext]_menuVars
  BY DEF BuyerNext, buyerVars
<1> QED
  BY <1>1, <1>2, PTL
  DEF BuyerSpec, LedgerSpec, WalletSpec, AddressSpec, ProfilesSpec, MenuSpec

\* The rows of the ledger, the wallet, the addresses and the menu keep their
\* types, for any finite numbers of them: no balance below zero, no group that
\* asks for more than it allows.
THEOREM BuyerTypes == BuyerSpec => []BuyerTypeOK
<1>1. WalletInv => WalletTypeOK
  BY DEF WalletInv
<1>2. AddressInv => AddressTypeOK
  BY DEF AddressInv
<1>3. RewardsTypeOK /\ WalletTypeOK /\ AddressTypeOK /\ MenuTypeOK => BuyerTypeOK
  BY DEF BuyerTypeOK
<1> QED
  BY <1>1, <1>2, <1>3, BuyerParts, LedgerTypeOK, WalletKeepsInv, AddressKeepsInv,
     MenuTypes, PTL
=============================================================================
