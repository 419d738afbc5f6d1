-------------------------- MODULE WalletLedgerProofs --------------------------
(***************************************************************************)
(* What the wallet promises, for any number of riders, orders, payments,     *)
(* sessions and connections.  The invariant says of every open transaction   *)
(* which rows it has locked at the statement it is at, and that what it has  *)
(* read under those locks is still so.                                      *)
(***************************************************************************)
EXTENDS WalletLedger, LedgerSums, TLAPS

-----------------------------------------------------------------------------
(* The invariant.                                                          *)

Crediting == {"wallet", "insert", "credit"}
Settling == {"row", "debit", "insertdebit", "finalize", "commit"}

\* The transaction has seen the wallet of the session it settles.
Judged == {"insertdebit", "finalize", "commit"}

OrderRow(c) == OrderOf[txn[c].key]
OrderWallet(c) == WalletOf[OrderOf[txn[c].key]]
SessionWallet(c) == WalletOf[txn[c].key]

Broke(c) == Price[txn[c].key] > 0 /\ Refusing(txn[c].key)

\* An order that is being credited is known, locked and not captured, and its payment is
\* new to the ledger; the wallet it is credited to is active and locked.
Credits(c) ==
    /\ txn[c].pc \in {"capture", "miss"} \cup Crediting =>
            txn[c].key \in Payment /\ topup[OrderRow(c)].status # "absent"
    /\ txn[c].pc \in Crediting =>
            lock[OrderRow(c)] = c /\ topup[OrderRow(c)].status # "captured"
    /\ txn[c].pc \in {"insert", "credit"} =>
            lock[OrderWallet(c)] = c /\ OrderWallet(c) \in active
    /\ txn[c].pc = "credit" => txn[c].inserted

\* A settlement that has something to collect holds the wallet from the comparison with its
\* balance to the commit; what it decided still holds when it commits.
Settles(c) ==
    /\ txn[c].pc \in Settling => txn[c].key \in Session
    /\ txn[c].pc \in Judged /\ Price[txn[c].key] > 0 => lock[SessionWallet(c)] = c
    /\ txn[c].pc = "insertdebit" => Price[txn[c].key] > 0 /\ ~Broke(c)
    /\ txn[c].pc \in {"finalize", "commit"} =>
            /\ txn[c].refused <=> Broke(c)
            /\ txn[c].inserted <=> Price[txn[c].key] > 0 /\ ~Broke(c) /\ ~Posted(txn[c].key)

\* What a transaction found out is not left over from an earlier one.
Flags(c) ==
    /\ txn[c].inserted => txn[c].pc \in {"credit", "finalize", "commit"}
    /\ txn[c].refused => txn[c].pc \in {"finalize", "commit"}

TxnsOK == \A c \in Conn : Credits(c) /\ Settles(c) /\ Flags(c)

\* Only orders that are stored are paid for.
SentOK == \A e \in sent : topup[OrderOf[e.payment]].status # "absent"

IInv ==
    /\ TypeOK /\ TxnsOK /\ SentOK
    /\ CapturedIsCredited
    /\ IsFiniteSet(ledger) /\ BalanceIsLedger

-----------------------------------------------------------------------------
(* How a step changes the transactions and the locks.                       *)

Rows == Order \cup Rider \cup Session

Others(c) == \A d \in Conn : d # c => txn'[d] = txn[d]

\* What is in the database but not for c to change, the rows the others have locked and
\* what they have read under the locks, stays as it is.
Respects(c) ==
    /\ Others(c) /\ active' = active
    /\ \A x \in Rows : lock[x] \notin {c, Null} => lock'[x] = lock[x]
    /\ \A o \in Order :
        /\ topup[o].status # "absent" => topup'[o].status # "absent"
        /\ lock[o] \notin {c, Null} => topup'[o] = topup[o]
    /\ \A r \in Rider : lock[r] \notin {c, Null} => balance'[r] = balance[r]
    /\ \A s \in Session : lock[WalletOf[s]] \notin {c, Null} => (Posted(s)' <=> Posted(s))

ConnStep(c) ==
    \/ \E e \in sent : Deliver(c, e)
    \/ \E s \in Session, pc \in {"row", "debit"} : BeginSettle(c, s, pc)
    \/ LockStep(c) \/ FreeStep(c)
    \/ BeginNotify(c) \/ UpsertCharger(c) \/ NotifierLeaves(c)
    \/ DeadlockDetected(c) \/ Broken(c)

LEMMA Went ==
    ASSUME TypeOK, NEW c \in Conn, NEW pc \in Pc, Go(c, pc)
    PROVE  /\ Others(c) /\ txn' \in [Conn -> Txn]
           /\ txn'[c].pc = pc /\ txn'[c].key = txn[c].key
           /\ (txn'[c].inserted <=> txn[c].inserted) /\ (txn'[c].refused <=> txn[c].refused)
<1>. DEFINE t == [txn[c] EXCEPT !.pc = pc]
<1>1. txn[c] \in Txn
    BY DEF TypeOK
<1>2. /\ t \in Txn /\ t.pc = pc /\ t.key = txn[c].key
      /\ (t.inserted <=> txn[c].inserted) /\ (t.refused <=> txn[c].refused)
    BY <1>1 DEF Txn
<1>3. txn' = [txn EXCEPT ![c] = t]
    BY DEF Go
<1>. HIDE DEF t
<1>. QED
    BY <1>2, <1>3 DEF TypeOK, Others

\* The record of a transaction that begins.
LEMMA Began ==
    ASSUME TypeOK, NEW c \in Conn
    PROVE  /\ \A e \in sent : Deliver(c, e) =>
                /\ Others(c) /\ txn' \in [Conn -> Txn]
                /\ txn'[c].pc \in {"capture", "miss"} /\ txn'[c].key = e.payment
                /\ ~txn'[c].inserted /\ ~txn'[c].refused
           /\ \A s \in Session, pc \in {"row", "debit"} : BeginSettle(c, s, pc) =>
                /\ Others(c) /\ txn' \in [Conn -> Txn]
                /\ txn'[c].pc = pc /\ txn'[c].key = s
                /\ ~txn'[c].inserted /\ ~txn'[c].refused
<1>1. ASSUME NEW e \in sent, Deliver(c, e)
      PROVE  /\ Others(c) /\ txn' \in [Conn -> Txn]
             /\ txn'[c].pc \in {"capture", "miss"} /\ txn'[c].key = e.payment
             /\ ~txn'[c].inserted /\ ~txn'[c].refused
    <2>. DEFINE pc == IF e.status = "captured" THEN "capture" ELSE "miss"
                t == [Idle EXCEPT !.key = e.payment, !.pc = pc]
    <2>1. e.payment \in Payment
        BY DEF TypeOK, Event
    <2>2. /\ t \in Txn /\ t.pc \in {"capture", "miss"} /\ t.key = e.payment
          /\ ~t.inserted /\ ~t.refused
        BY <2>1 DEF Idle, Txn, Pc
    <2>3. txn' = [txn EXCEPT ![c] = t]
        BY <1>1 DEF Deliver
    <2>. HIDE DEF t
    <2>. QED
        BY <2>2, <2>3 DEF TypeOK, Others
<1>2. ASSUME NEW s \in Session, NEW pc \in {"row", "debit"}, BeginSettle(c, s, pc)
      PROVE  /\ Others(c) /\ txn' \in [Conn -> Txn]
             /\ txn'[c].pc = pc /\ txn'[c].key = s
             /\ ~txn'[c].inserted /\ ~txn'[c].refused
    <2>. DEFINE t == [Idle EXCEPT !.key = s, !.pc = pc]
    <2>1. t \in Txn /\ t.pc = pc /\ t.key = s /\ ~t.inserted /\ ~t.refused
        BY DEF Idle, Txn, Pc
    <2>2. txn' = [txn EXCEPT ![c] = t]
        BY <1>2 DEF BeginSettle
    <2>. HIDE DEF t
    <2>. QED
        BY <2>1, <2>2 DEF TypeOK, Others
<1>. QED
    BY <1>1, <1>2

\* The record of a transaction that has inserted a key or found it there, and of one whose
\* wallet holds too little.
LEMMA Found ==
    ASSUME TypeOK, NEW c \in Conn
    PROVE  /\ InsertCredit(c) =>
                /\ Others(c) /\ txn' \in [Conn -> Txn]
                /\ txn'[c].pc = "credit" /\ txn'[c].key = txn[c].key
                /\ (txn'[c].inserted <=> Inserts(c)) /\ (txn'[c].refused <=> txn[c].refused)
           /\ InsertDebit(c) =>
                /\ Others(c) /\ txn' \in [Conn -> Txn]
                /\ txn'[c].pc = "finalize" /\ txn'[c].key = txn[c].key
                /\ (txn'[c].inserted <=> Inserts(c)) /\ (txn'[c].refused <=> txn[c].refused)
           /\ Refuse(c) =>
                /\ Others(c) /\ txn' \in [Conn -> Txn]
                /\ txn'[c].pc = "finalize" /\ txn'[c].key = txn[c].key
                /\ (txn'[c].inserted <=> txn[c].inserted) /\ txn'[c].refused
<1>1. txn[c] \in Txn
    BY DEF TypeOK
<1>2. Inserts(c) \in BOOLEAN
    BY DEF Inserts, Posted
<1>3. ASSUME NEW pc \in {"credit", "finalize"}, NEW b \in BOOLEAN,
             txn' = [txn EXCEPT ![c].pc = pc, ![c].inserted = b]
      PROVE  /\ Others(c) /\ txn' \in [Conn -> Txn]
             /\ txn'[c].pc = pc /\ txn'[c].key = txn[c].key
             /\ (txn'[c].inserted <=> b) /\ (txn'[c].refused <=> txn[c].refused)
    <2>. DEFINE t == [txn[c] EXCEPT !.pc = pc, !.inserted = b]
    <2>1. /\ t \in Txn /\ t.pc = pc /\ t.key = txn[c].key
          /\ (t.inserted <=> b) /\ (t.refused <=> txn[c].refused)
        BY <1>1 DEF Txn, Pc
    <2>2. txn' = [txn EXCEPT ![c] = t]
        BY <1>1, <1>3 DEF TypeOK, Txn
    <2>. HIDE DEF t
    <2>. QED
        BY <2>1, <2>2 DEF TypeOK, Others
<1>4. ASSUME NEW b \in BOOLEAN, txn' = [txn EXCEPT ![c].pc = "finalize", ![c].refused = b]
      PROVE  /\ Others(c) /\ txn' \in [Conn -> Txn]
             /\ txn'[c].pc = "finalize" /\ txn'[c].key = txn[c].key
             /\ (txn'[c].inserted <=> txn[c].inserted) /\ (txn'[c].refused <=> b)
    <2>. DEFINE t == [txn[c] EXCEPT !.pc = "finalize", !.refused = b]
    <2>1. /\ t \in Txn /\ t.pc = "finalize" /\ t.key = txn[c].key
          /\ (t.inserted <=> txn[c].inserted) /\ (t.refused <=> b)
        BY <1>1 DEF Txn, Pc
    <2>2. txn' = [txn EXCEPT ![c] = t]
        BY <1>1, <1>4 DEF TypeOK, Txn
    <2>. HIDE DEF t
    <2>. QED
        BY <2>1, <2>2 DEF TypeOK, Others
<1>5. InsertCredit(c) => txn' = [txn EXCEPT ![c].pc = "credit", ![c].inserted = Inserts(c)]
    BY DEF InsertCredit
<1>6. InsertDebit(c) => txn' = [txn EXCEPT ![c].pc = "finalize", ![c].inserted = Inserts(c)]
    BY DEF InsertDebit
<1>7. Refuse(c) => txn' = [txn EXCEPT ![c].pc = "finalize", ![c].refused = TRUE]
    BY DEF Refuse
<1>. QED
    BY <1>2, <1>3, <1>4, <1>5, <1>6, <1>7

LEMMA Ended ==
    ASSUME TypeOK, NEW c \in Conn, End(c)
    PROVE  /\ Others(c) /\ txn' \in [Conn -> Txn] /\ txn'[c] = Idle
           /\ lock' \in [Rows -> Conn \cup {Null}]
           /\ \A x \in Rows : lock[x] \notin {c, Null} => lock'[x] = lock[x]
<1>1. Idle \in Txn
    BY DEF Idle, Txn, Pc
<1>2. /\ txn' = [txn EXCEPT ![c] = Idle]
      /\ lock' = [x \in Rows |-> IF lock[x] = c THEN Null ELSE lock[x]]
    BY DEF End, ReleaseAll, TypeOK, Rows
<1>. QED
    BY <1>1, <1>2 DEF TypeOK, Others, Rows

LEMMA Locked ==
    ASSUME TypeOK, NEW c \in Conn, NEW x \in Rows, Lock(c, x)
    PROVE  /\ lock' \in [Rows -> Conn \cup {Null}]
           /\ lock'[x] = c
           /\ \A y \in Rows : lock[y] = c => lock'[y] = c
           /\ \A y \in Rows : lock[y] \notin {c, Null} => lock'[y] = lock[y]
BY DEF TypeOK, Rows, Lock, CanLock

LEMMA RollsBack ==
    ASSUME NEW c \in Conn,
           UpsertCharger(c) \/ NotifierLeaves(c) \/ DeadlockDetected(c) \/ Broken(c)
    PROVE  Rollback(c)
BY DEF UpsertCharger, NotifierLeaves, DeadlockDetected, Broken

\* The rows a transaction asks for are rows.
LEMMA RowsOfKeys ==
    ASSUME IInv, NEW c \in Conn
    PROVE  /\ txn[c].pc \in {"capture", "miss"} \cup Crediting =>
                /\ txn[c].key \in Payment
                /\ OrderRow(c) \in Order /\ OrderRow(c) \in Rows
                /\ OrderWallet(c) \in Rider /\ OrderWallet(c) \in Rows
           /\ txn[c].pc \in Settling =>
                /\ txn[c].key \in Session /\ txn[c].key \in Rows
                /\ SessionWallet(c) \in Rider /\ SessionWallet(c) \in Rows
                /\ Price[txn[c].key] \in Nat
BY WalletAssumption DEF IInv, TxnsOK, Credits, Settles, OrderRow, OrderWallet, SessionWallet, Rows

-----------------------------------------------------------------------------
(* The state keeps its shape.                                              *)

LEMMA KeepsType == ASSUME IInv, [Next]_vars PROVE TypeOK'
<1>. USE DEF IInv, data
<1>1. ASSUME NEW o \in Order, InitiateTopup(o)
      PROVE  TypeOK'
    BY <1>1 DEF TypeOK, Topup, InitiateTopup
<1>17. ASSUME NEW r \in Rider, SetWalletStatus(r)
       PROVE  TypeOK'
    BY <1>17, WalletAssumption DEF TypeOK, SetWalletStatus
<1>2. ASSUME NEW p \in Payment, NEW status \in {"captured", "failed"}, GatewayEvent(p, status)
      PROVE  TypeOK'
    BY <1>2 DEF TypeOK, Event, GatewayEvent
<1>3. ASSUME NEW c \in Conn, NEW e \in sent, Deliver(c, e)
      PROVE  TypeOK'
    BY <1>3, Began DEF TypeOK, Deliver
<1>4. ASSUME NEW c \in Conn, NEW s \in Session, NEW pc \in {"row", "debit"}, BeginSettle(c, s, pc)
      PROVE  TypeOK'
    BY <1>4, Began DEF TypeOK, BeginSettle
<1>5. ASSUME NEW c \in Conn, SelectTopup(c)
      PROVE  TypeOK'
    <2>1. OrderRow(c) \in Rows
        BY <1>5, RowsOfKeys DEF SelectTopup
    <2>2. lock' \in [Rows -> Conn \cup {Null}] /\ txn' \in [Conn -> Txn]
        BY <1>5, <2>1, Locked, Went, Ended DEF SelectTopup, OrderRow, Pc
    <2>. QED
        BY <1>5, <2>2 DEF TypeOK, SelectTopup, Rows
<1>6. ASSUME NEW c \in Conn, MissTopup(c)
      PROVE  TypeOK'
    <2>1. OrderRow(c) \in Order /\ txn[c].key \in Payment
        BY <1>6, RowsOfKeys DEF MissTopup
    <2>2. topup' \in [Order -> Topup]
        BY <1>6, <2>1 DEF TypeOK, Topup, MissTopup, OrderRow
    <2>3. lock' \in [Rows -> Conn \cup {Null}] /\ txn' \in [Conn -> Txn]
        BY <1>6, Ended DEF MissTopup
    <2>. QED
        BY <1>6, <2>2, <2>3 DEF TypeOK, MissTopup, Rows
<1>7. ASSUME NEW c \in Conn, SelectWallet(c)
      PROVE  TypeOK'
    <2>1. OrderWallet(c) \in Rows
        BY <1>7, RowsOfKeys DEF SelectWallet, Crediting
    <2>2. lock' \in [Rows -> Conn \cup {Null}] /\ txn' \in [Conn -> Txn]
        BY <1>7, <2>1, Locked, Went, Ended DEF SelectWallet, OrderWallet, Pc
    <2>. QED
        BY <1>7, <2>2 DEF TypeOK, SelectWallet, Rows
<1>8. ASSUME NEW c \in Conn, LockRow(c) \/ FinalizeRow(c)
      PROVE  TypeOK'
    <2>1. txn[c].key \in Rows
        BY <1>8, RowsOfKeys DEF LockRow, FinalizeRow, Settling
    <2>2. lock' \in [Rows -> Conn \cup {Null}] /\ txn' \in [Conn -> Txn]
        BY <1>8, <2>1, Locked, Went DEF LockRow, FinalizeRow, Pc
    <2>. QED
        BY <1>8, <2>2 DEF TypeOK, LockRow, FinalizeRow, Rows
<1>9. ASSUME NEW c \in Conn, SelectDebitWallet(c)
      PROVE  TypeOK'
    <2>1. SessionWallet(c) \in Rows
        BY <1>9, RowsOfKeys DEF SelectDebitWallet, Settling
    <2>2. lock' \in [Rows -> Conn \cup {Null}]
        BY <1>9, <2>1, Locked DEF TypeOK, SelectDebitWallet, SessionWallet, Rows
    <2>3. txn' \in [Conn -> Txn]
        BY <1>9, Went, Found DEF SelectDebitWallet, Pc
    <2>. QED
        BY <1>9, <2>2, <2>3 DEF TypeOK, SelectDebitWallet, Rows
<1>10. ASSUME NEW c \in Conn, InsertCredit(c) \/ InsertDebit(c)
       PROVE  TypeOK'
    BY <1>10, Found DEF TypeOK, InsertCredit, InsertDebit
<1>11. ASSUME NEW c \in Conn, CommitCredit(c)
       PROVE  TypeOK'
    <2>. DEFINE p == txn[c].key
                o == OrderOf[p]
                r == WalletOf[o]
    <2>1. p \in Payment /\ o \in Order /\ r \in Rider /\ Amount[o] \in Nat
        BY <1>11, WalletAssumption, RowsOfKeys
           DEF CommitCredit, Crediting, OrderRow, OrderWallet
    <2>2. lock' \in [Rows -> Conn \cup {Null}] /\ txn' \in [Conn -> Txn]
        BY <1>11, Ended DEF CommitCredit
    <2>3. topup' = [topup EXCEPT ![o] = [status |-> "captured", payment |-> p]]
        BY <1>11 DEF CommitCredit
    <2>4. \/ /\ ledger' = ledger \cup {[key |-> p, rider |-> r, amount |-> Amount[o]]}
             /\ balance' = [balance EXCEPT ![r] = @ + Amount[o]]
          \/ UNCHANGED <<balance, ledger>>
        BY <1>11 DEF CommitCredit
    <2>5. UNCHANGED <<session, active, sent, mismatched, faults>>
        BY <1>11 DEF CommitCredit
    <2>. HIDE DEF p, o, r
    <2>6. topup' \in [Order -> Topup]
        BY <2>1, <2>3 DEF TypeOK, Topup
    <2>7. ledger' \subseteq Entry
        BY <2>1, <2>4 DEF TypeOK, Entry
    <2>8. balance' \in [Rider -> Nat]
        BY <2>1, <2>4 DEF TypeOK
    <2>. QED
        BY <2>2, <2>5, <2>6, <2>7, <2>8 DEF TypeOK, Rows
<1>12. ASSUME NEW c \in Conn, CommitSettle(c)
       PROVE  TypeOK'
    <2>. DEFINE s == txn[c].key
                r == WalletOf[s]
    <2>1. s \in Session /\ r \in Rider /\ Price[s] \in Nat
        BY <1>12, RowsOfKeys DEF CommitSettle, Settling, SessionWallet
    <2>2. lock' \in [Rows -> Conn \cup {Null}] /\ txn' \in [Conn -> Txn]
        BY <1>12, Ended DEF CommitSettle
    <2>3. txn[c].inserted => ~(balance[r] < Price[s])
        BY <1>12 DEF CommitSettle, TxnsOK, Settles, Broke, Refusing, SessionWallet
    <2>4. \/ /\ txn[c].inserted
             /\ ledger' = ledger \cup {[key |-> s, rider |-> r, amount |-> -Price[s]]}
             /\ balance' = [balance EXCEPT ![r] = @ - Price[s]]
          \/ UNCHANGED <<balance, ledger>>
        BY <1>12 DEF CommitSettle
    <2>5. UNCHANGED <<topup, active, sent, mismatched, faults>>
        BY <1>12 DEF CommitSettle
    <2>6. session' = [session EXCEPT ![s] =
                        [stopped |-> TRUE, billed |-> session[s].billed \/ txn[c].inserted,
                         unpaid |-> session[s].unpaid \/ txn[c].refused]]
        BY <1>12, <2>1 DEF CommitSettle, TypeOK
    <2>. HIDE DEF s, r
    <2>7. session' \in [Session -> [stopped : BOOLEAN, billed : BOOLEAN, unpaid : BOOLEAN]]
        <3>. DEFINE b == session[s].billed \/ txn[c].inserted
                    u == session[s].unpaid \/ txn[c].refused
        <3>1. b \in BOOLEAN /\ u \in BOOLEAN
            OBVIOUS
        <3>. HIDE DEF b, u
        <3>. QED
            BY <2>1, <2>6, <3>1 DEF TypeOK
    <2>8. ledger' \subseteq Entry
        BY <2>1, <2>4 DEF TypeOK, Entry
    <2>9. balance' \in [Rider -> Nat]
        <3>1. CASE UNCHANGED balance
            BY <3>1 DEF TypeOK
        <3>2. CASE txn[c].inserted /\ balance' = [balance EXCEPT ![r] = @ - Price[s]]
            <4>1. balance[r] \in Nat /\ balance[r] - Price[s] \in Nat
                BY <2>1, <2>3, <3>2 DEF TypeOK
            <4>. QED
                BY <2>1, <3>2, <4>1 DEF TypeOK
        <3>. QED
            BY <2>4, <3>1, <3>2
    <2>. QED
        BY <2>2, <2>5, <2>7, <2>8, <2>9 DEF TypeOK, Rows
<1>13. ASSUME NEW c \in Conn, BeginNotify(c)
       PROVE  TypeOK'
    BY <1>13, Went DEF TypeOK, BeginNotify, Pc
<1>14. ASSUME NEW c \in Conn, Rollback(c), faults' \in 0 .. MaxFaults
       PROVE  TypeOK'
    BY <1>14, Ended DEF TypeOK, Rollback, Rows
<1>15. ASSUME NEW c \in Conn,
              UpsertCharger(c) \/ NotifierLeaves(c) \/ DeadlockDetected(c) \/ Broken(c)
       PROVE  TypeOK'
    <2>1. faults' \in 0 .. MaxFaults
        BY <1>15, WalletAssumption
           DEF TypeOK, UpsertCharger, NotifierLeaves, DeadlockDetected, Broken
    <2>. QED
        BY <1>14, <1>15, <2>1, RollsBack
<1>16. CASE UNCHANGED vars
    BY <1>16 DEF TypeOK, vars
<1>. QED
    BY <1>1, <1>2, <1>3, <1>4, <1>5, <1>6, <1>7, <1>8, <1>9, <1>10, <1>11, <1>12, <1>13, <1>15,
       <1>16, <1>17 DEF Next, LockStep, FreeStep

-----------------------------------------------------------------------------
(* No transaction disturbs another one.                                    *)

LEMMA PostedIs ==
    ASSUME NEW e, ledger' = ledger \cup {e}, NEW k, k # e.key
    PROVE  Posted(k)' <=> Posted(k)
BY DEF Posted

LEMMA StepRespects ==
    ASSUME IInv, NEW c \in Conn, ConnStep(c)
    PROVE  Respects(c)
<1>. USE DEF IInv, data
<1>1. ASSUME NEW e \in sent, Deliver(c, e)
      PROVE  Respects(c)
    BY <1>1, Began DEF Respects, Deliver, Posted
<1>2. ASSUME NEW s \in Session, NEW pc \in {"row", "debit"}, BeginSettle(c, s, pc)
      PROVE  Respects(c)
    BY <1>2, Began DEF Respects, BeginSettle, Posted
<1>3. CASE SelectTopup(c)
    <2>1. OrderRow(c) \in Rows
        BY <1>3, RowsOfKeys DEF SelectTopup
    <2>2. Others(c) /\ \A x \in Rows : lock[x] \notin {c, Null} => lock'[x] = lock[x]
        BY <1>3, <2>1, Locked, Went, Ended DEF SelectTopup, OrderRow, Pc
    <2>. QED
        BY <1>3, <2>2 DEF Respects, SelectTopup, Posted
<1>4. CASE MissTopup(c)
    <2>1. OrderRow(c) \in Order /\ lock[OrderRow(c)] \in {Null, c}
        BY <1>4, RowsOfKeys DEF MissTopup, CanLock, OrderRow
    <2>2. /\ \A o \in Order : o # OrderRow(c) => topup'[o] = topup[o]
          /\ topup'[OrderRow(c)].status # "absent" \/ topup' = topup
        BY <1>4, <2>1 DEF TypeOK, MissTopup, OrderRow
    <2>3. Others(c) /\ \A x \in Rows : lock[x] \notin {c, Null} => lock'[x] = lock[x]
        BY <1>4, Ended DEF MissTopup
    <2>4. UNCHANGED <<balance, ledger>>
        BY <1>4 DEF MissTopup
    <2>5. active' = active
        BY <1>4 DEF MissTopup
    <2>. QED
        BY <2>1, <2>2, <2>3, <2>4, <2>5 DEF Respects, Posted
<1>5. CASE SelectWallet(c)
    <2>1. OrderWallet(c) \in Rows
        BY <1>5, RowsOfKeys DEF SelectWallet, Crediting
    <2>2. Others(c) /\ \A x \in Rows : lock[x] \notin {c, Null} => lock'[x] = lock[x]
        BY <1>5, <2>1, Locked, Went, Ended DEF SelectWallet, OrderWallet, Pc
    <2>. QED
        BY <1>5, <2>2 DEF Respects, SelectWallet, Posted
<1>6. CASE LockRow(c) \/ FinalizeRow(c)
    <2>1. txn[c].key \in Rows
        BY <1>6, RowsOfKeys DEF LockRow, FinalizeRow, Settling
    <2>2. Others(c) /\ \A x \in Rows : lock[x] \notin {c, Null} => lock'[x] = lock[x]
        BY <1>6, <2>1, Locked, Went DEF LockRow, FinalizeRow, Pc
    <2>. QED
        BY <1>6, <2>2 DEF Respects, LockRow, FinalizeRow, Posted
<1>7. CASE SelectDebitWallet(c)
    <2>1. SessionWallet(c) \in Rows
        BY <1>7, RowsOfKeys DEF SelectDebitWallet, Settling
    <2>2. \A x \in Rows : lock[x] \notin {c, Null} => lock'[x] = lock[x]
        BY <1>7, <2>1, Locked DEF SelectDebitWallet, SessionWallet
    <2>3. Others(c)
        BY <1>7, Went, Found DEF SelectDebitWallet, Pc
    <2>. QED
        BY <1>7, <2>2, <2>3 DEF Respects, SelectDebitWallet, Posted
<1>8. CASE InsertCredit(c) \/ InsertDebit(c)
    BY <1>8, Found DEF Respects, InsertCredit, InsertDebit, Posted
<1>9. CASE CommitCredit(c)
    <2>. DEFINE p == txn[c].key
                o == OrderOf[p]
                r == WalletOf[o]
                e == [key |-> p, rider |-> r, amount |-> Amount[o]]
    <2>1. p \in Payment /\ o \in Order /\ r \in Rider /\ lock[o] = c /\ lock[r] = c
        BY <1>9, RowsOfKeys
           DEF CommitCredit, Crediting, OrderRow, OrderWallet, TxnsOK, Credits
    <2>2. /\ topup' = [topup EXCEPT ![o] = [status |-> "captured", payment |-> p]]
          /\ \/ ledger' = ledger \cup {e} /\ balance' = [balance EXCEPT ![r] = @ + Amount[o]]
             \/ UNCHANGED <<balance, ledger>>
          /\ active' = active
        BY <1>9 DEF CommitCredit
    <2>3. Others(c) /\ \A x \in Rows : lock[x] \notin {c, Null} => lock'[x] = lock[x]
        BY <1>9, Ended DEF CommitCredit
    <2>4. e.key = p
        OBVIOUS
    <2>. HIDE DEF p, o, r, e
    <2>5. \A q \in Order : /\ topup[q].status # "absent" => topup'[q].status # "absent"
                           /\ lock[q] \notin {c, Null} => topup'[q] = topup[q]
        BY <2>1, <2>2 DEF TypeOK
    <2>6. \A q \in Rider : lock[q] \notin {c, Null} => balance'[q] = balance[q]
        BY <2>1, <2>2 DEF TypeOK
    <2>7. \A s \in Session : Posted(s)' <=> Posted(s)
        <3>1. \A s \in Session : s # p
            BY <2>1, WalletAssumption
        <3>. QED
            BY <2>2, <2>4, <3>1 DEF Posted
    <2>. QED
        BY <2>2, <2>3, <2>5, <2>6, <2>7 DEF Respects
<1>10. CASE CommitSettle(c)
    <2>. DEFINE s == txn[c].key
                r == WalletOf[s]
                e == [key |-> s, rider |-> r, amount |-> -Price[s]]
    <2>1. s \in Session /\ r \in Rider
        BY <1>10, RowsOfKeys DEF CommitSettle, Settling, SessionWallet
    <2>2. txn[c].inserted => lock[r] = c
        BY <1>10 DEF CommitSettle, TxnsOK, Settles, Judged, SessionWallet
    <2>3. /\ topup' = topup /\ active' = active
          /\ \/ /\ txn[c].inserted
                /\ ledger' = ledger \cup {e} /\ balance' = [balance EXCEPT ![r] = @ - Price[s]]
             \/ UNCHANGED <<balance, ledger>>
        BY <1>10 DEF CommitSettle
    <2>4. Others(c) /\ \A x \in Rows : lock[x] \notin {c, Null} => lock'[x] = lock[x]
        BY <1>10, Ended DEF CommitSettle
    <2>5. e.key = s /\ r = WalletOf[s]
        OBVIOUS
    <2>. HIDE DEF s, r, e
    <2>6. \A q \in Rider : lock[q] \notin {c, Null} => balance'[q] = balance[q]
        BY <2>1, <2>2, <2>3 DEF TypeOK
    <2>7. \A q \in Session : lock[WalletOf[q]] \notin {c, Null} => (Posted(q)' <=> Posted(q))
        BY <2>2, <2>3, <2>5 DEF Posted
    <2>. QED
        BY <2>3, <2>4, <2>6, <2>7 DEF Respects
<1>11. CASE BeginNotify(c)
    BY <1>11, Went DEF Respects, BeginNotify, Pc, Posted
<1>12. CASE Rollback(c)
    BY <1>12, Ended DEF Respects, Rollback, Posted
<1>. QED
    BY <1>1, <1>2, <1>3, <1>4, <1>5, <1>6, <1>7, <1>8, <1>9, <1>10, <1>11, <1>12, RollsBack
       DEF ConnStep, LockStep, FreeStep

\* So what the invariant says of the others still holds.
LEMMA OthersKept ==
    ASSUME IInv, TypeOK', NEW c \in Conn, Respects(c), NEW d \in Conn, d # c
    PROVE  Credits(d)' /\ Settles(d)' /\ Flags(d)'
<1>. USE DEF IInv
<1>1. txn'[d] = txn[d] /\ d \notin {c, Null}
    BY WalletAssumption DEF Respects, Others
<1>2. Credits(d) /\ Settles(d) /\ Flags(d)
    BY DEF TxnsOK
<1>3. Credits(d)'
    <2>1. /\ txn[d].pc \in {"capture", "miss"} \cup Crediting =>
                txn[d].key \in Payment /\ topup'[OrderRow(d)].status # "absent"
          /\ txn[d].pc \in Crediting =>
                lock'[OrderRow(d)] = d /\ topup'[OrderRow(d)].status # "captured"
          /\ txn[d].pc \in {"insert", "credit"} =>
                lock'[OrderWallet(d)] = d /\ OrderWallet(d) \in active'
        BY <1>1, <1>2, RowsOfKeys DEF Credits, Respects, Crediting
    <2>. QED
        BY <1>1, <1>2, <2>1 DEF Credits, OrderRow, OrderWallet
<1>4. Settles(d)'
    <2>. DEFINE s == txn[d].key
                r == WalletOf[s]
    <2>. SUFFICES ASSUME txn[d].pc \in Settling
                  PROVE  Settles(d)'
        BY <1>1 DEF Settles, Settling, Judged
    <2>1. s \in Session /\ r \in Rider /\ r \in Rows /\ Price[s] \in Nat
        BY RowsOfKeys DEF SessionWallet
    <2>2. balance[r] \in Nat /\ balance'[r] \in Nat
        BY <2>1 DEF TypeOK
    <2>3. txn[d].pc \in Judged /\ Price[s] > 0 =>
            lock[r] = d /\ lock'[r] = d /\ balance'[r] = balance[r] /\ (Posted(s)' <=> Posted(s))
        BY <1>1, <1>2, <2>1 DEF Settles, Respects, SessionWallet
    <2>4. /\ txn[d].pc = "insertdebit" => Price[s] > 0 /\ ~Refusing(s)
          /\ txn[d].pc \in {"finalize", "commit"} =>
                /\ txn[d].refused <=> Price[s] > 0 /\ Refusing(s)
                /\ txn[d].inserted <=> Price[s] > 0 /\ ~Refusing(s) /\ ~Posted(s)
        BY <1>2, <2>1 DEF Settles, Broke
    <2>7. s' = s /\ r' = r /\ txn'[d].key = s /\ SessionWallet(d)' = r
        BY <1>1 DEF s, r, SessionWallet
    <2>8. balance'[r] = balance[r] => (Refusing(s)' <=> Refusing(s))
        BY <2>7 DEF Refusing, Respects
    <2>. HIDE DEF s, r
    <2>5. /\ txn[d].pc = "insertdebit" => Price[s] > 0 /\ ~Refusing(s)'
          /\ txn[d].pc \in {"finalize", "commit"} =>
                /\ txn[d].refused <=> Price[s] > 0 /\ Refusing(s)'
                /\ txn[d].inserted <=> Price[s] > 0 /\ ~Refusing(s)' /\ ~Posted(s)'
        <3>1. CASE Price[s] > 0
            BY <2>3, <2>4, <2>8, <3>1 DEF Judged
        <3>2. CASE Price[s] = 0
            BY <2>2, <2>4, <3>2
        <3>. QED
            BY <2>1, <3>1, <3>2
    <2>. QED
        BY <1>1, <2>1, <2>3, <2>5, <2>7 DEF Settles, Broke
<1>5. Flags(d)'
    BY <1>1, <1>2 DEF Flags
<1>. QED
    BY <1>3, <1>4, <1>5

-----------------------------------------------------------------------------
(* What a transaction knows itself after its step.                          *)

\* A payment that is being credited is new to the ledger, because its order is not captured.
LEMMA NewPayment ==
    ASSUME IInv, NEW o \in Order, topup[o].status # "captured",
           NEW p \in Payment, OrderOf[p] = o
    PROVE  ~Posted(p)
<1>1. {e.key : e \in {f \in ledger : f.key \in Payment /\ OrderOf[f.key] = o}} = {}
    BY DEF IInv, CapturedIsCredited
<1>. QED
    BY <1>1 DEF Posted

LEMMA IdleKept ==
    ASSUME NEW c \in Conn, txn'[c].pc \in {"idle", "notify"}, ~txn'[c].inserted, ~txn'[c].refused
    PROVE  Credits(c)' /\ Settles(c)' /\ Flags(c)'
BY DEF Credits, Settles, Flags, Crediting, Settling, Judged

LEMMA OwnKept ==
    ASSUME IInv, TypeOK', NEW c \in Conn, ConnStep(c)
    PROVE  Credits(c)' /\ Settles(c)' /\ Flags(c)'
<1>. USE DEF IInv, data
<1>0. Credits(c) /\ Settles(c) /\ Flags(c)
    BY DEF TxnsOK
<1>1. ASSUME NEW e \in sent, Deliver(c, e)
      PROVE  Credits(c)' /\ Settles(c)' /\ Flags(c)'
    <2>1. /\ txn'[c].pc \in {"capture", "miss"} /\ txn'[c].key = e.payment
          /\ ~txn'[c].inserted /\ ~txn'[c].refused
        BY <1>1, Began
    <2>2. topup[OrderOf[e.payment]].status # "absent" /\ e.payment \in Payment /\ topup' = topup
        BY <1>1 DEF Deliver, SentOK, TypeOK, Event
    <2>. QED
        BY <2>1, <2>2 DEF Credits, Settles, Flags, Crediting, Settling, Judged, OrderRow
<1>2. ASSUME NEW s \in Session, NEW pc \in {"row", "debit"}, BeginSettle(c, s, pc)
      PROVE  Credits(c)' /\ Settles(c)' /\ Flags(c)'
    <2>1. txn'[c].pc = pc /\ txn'[c].key = s /\ ~txn'[c].inserted /\ ~txn'[c].refused
        BY <1>2, Began
    <2>. QED
        BY <2>1 DEF Credits, Settles, Flags, Crediting, Settling, Judged
<1>3. CASE End(c)
    <2>1. txn'[c] = Idle
        BY <1>3, Ended
    <2>. QED
        BY <2>1, IdleKept DEF Idle
<1>4. CASE SelectTopup(c) /\ ~End(c)
    <2>1. OrderRow(c) \in Rows /\ txn[c].key \in Payment
        BY <1>4, RowsOfKeys DEF SelectTopup
    <2>2. Lock(c, OrderRow(c)) /\ Go(c, "wallet") /\ Capturable(OrderRow(c)) /\ topup' = topup
        BY <1>4 DEF SelectTopup, OrderRow
    <2>3. lock'[OrderRow(c)] = c
        BY <2>1, <2>2, Locked
    <2>4. /\ txn'[c].pc = "wallet" /\ txn'[c].key = txn[c].key
          /\ (txn'[c].inserted <=> txn[c].inserted) /\ (txn'[c].refused <=> txn[c].refused)
        BY <2>2, Went DEF Pc
    <2>5. txn[c].pc = "capture" /\ ~txn[c].inserted /\ ~txn[c].refused
        BY <1>0, <1>4 DEF SelectTopup, Flags
    <2>. QED
        BY <1>0, <2>1, <2>2, <2>3, <2>4, <2>5
           DEF Credits, Settles, Flags, Crediting, Settling, Judged, OrderRow, Capturable
<1>5. CASE SelectWallet(c) /\ ~End(c)
    <2>1. OrderWallet(c) \in Rows /\ OrderRow(c) \in Rows /\ txn[c].key \in Payment
        BY <1>5, RowsOfKeys DEF SelectWallet, Crediting
    <2>2. /\ Lock(c, OrderWallet(c)) /\ Go(c, "insert") /\ topup' = topup
          /\ OrderWallet(c) \in active /\ active' = active
        BY <1>5 DEF SelectWallet, OrderWallet
    <2>3. lock'[OrderWallet(c)] = c /\ (lock[OrderRow(c)] = c => lock'[OrderRow(c)] = c)
        BY <2>1, <2>2, Locked
    <2>4. /\ txn'[c].pc = "insert" /\ txn'[c].key = txn[c].key
          /\ (txn'[c].inserted <=> txn[c].inserted) /\ (txn'[c].refused <=> txn[c].refused)
        BY <2>2, Went DEF Pc
    <2>5. txn[c].pc = "wallet" /\ ~txn[c].inserted /\ ~txn[c].refused
        BY <1>0, <1>5 DEF SelectWallet, Flags
    <2>. QED
        BY <1>0, <2>1, <2>2, <2>3, <2>4, <2>5
           DEF Credits, Settles, Flags, Crediting, Settling, Judged, OrderRow, OrderWallet
<1>6. CASE InsertCredit(c)
    <2>1. /\ txn'[c].pc = "credit" /\ txn'[c].key = txn[c].key
          /\ (txn'[c].inserted <=> Inserts(c)) /\ (txn'[c].refused <=> txn[c].refused)
        BY <1>6, Found
    <2>2. txn[c].pc = "insert" /\ ~txn[c].refused /\ UNCHANGED <<topup, lock, active>>
        BY <1>0, <1>6 DEF InsertCredit, Flags
    <2>3. Inserts(c)
        <3>1. /\ OrderRow(c) \in Order /\ txn[c].key \in Payment
              /\ topup[OrderRow(c)].status # "captured"
            BY <1>0, <2>2, RowsOfKeys DEF Credits, Crediting
        <3>. QED
            BY <3>1, NewPayment DEF Inserts, OrderRow
    <2>. QED
        BY <1>0, <2>1, <2>2, <2>3
           DEF Credits, Settles, Flags, Crediting, Settling, Judged, OrderRow, OrderWallet
<1>7. CASE LockRow(c)
    <2>1. txn[c].pc = "row" /\ txn[c].key \in Session /\ ~txn[c].inserted /\ ~txn[c].refused
        BY <1>0, <1>7, RowsOfKeys DEF LockRow, Settling, Flags
    <2>2. /\ txn'[c].pc = "debit" /\ txn'[c].key = txn[c].key
          /\ (txn'[c].inserted <=> txn[c].inserted) /\ (txn'[c].refused <=> txn[c].refused)
        BY <1>7, Went DEF LockRow, Pc
    <2>. QED
        BY <2>1, <2>2 DEF Credits, Settles, Flags, Crediting, Settling, Judged
<1>8. CASE SelectDebitWallet(c)
    <2>. DEFINE s == txn[c].key
    <2>1. /\ txn[c].pc = "debit" /\ s \in Session /\ ~txn[c].inserted /\ ~txn[c].refused
          /\ SessionWallet(c) \in Rows /\ SessionWallet(c) \in Rider /\ Price[s] \in Nat
        BY <1>0, <1>8, RowsOfKeys DEF SelectDebitWallet, Settling, Flags
    <2>2. UNCHANGED <<balance, ledger, active>> /\ balance[SessionWallet(c)] \in Nat
        BY <1>8, <2>1 DEF SelectDebitWallet, TypeOK
    <2>3. CASE Price[s] = 0 /\ Go(c, "finalize")
        <3>1. /\ txn'[c].pc = "finalize" /\ txn'[c].key = s
              /\ (txn'[c].inserted <=> txn[c].inserted) /\ (txn'[c].refused <=> txn[c].refused)
            BY <2>3, Went DEF Pc
        <3>2. ~Broke(c)
            BY <2>2, <2>3 DEF Broke
        <3>. QED
            BY <2>1, <2>2, <2>3, <3>1, <3>2
               DEF Credits, Settles, Flags, Crediting, Settling, Judged, Broke, Refusing, SessionWallet
    <2>4. CASE Price[s] > 0 /\ Lock(c, SessionWallet(c)) /\ Broke(c) /\ Refuse(c)
        <3>1. /\ txn'[c].pc = "finalize" /\ txn'[c].key = s
              /\ (txn'[c].inserted <=> txn[c].inserted) /\ txn'[c].refused
            BY <2>4, Found
        <3>2. lock'[SessionWallet(c)] = c
            BY <2>1, <2>4, Locked
        <3>. QED
            BY <2>1, <2>2, <2>4, <3>1, <3>2
               DEF Credits, Settles, Flags, Crediting, Settling, Judged, Broke, Refusing, SessionWallet
    <2>5. CASE Price[s] > 0 /\ Lock(c, SessionWallet(c)) /\ ~Broke(c) /\ Go(c, "insertdebit")
        <3>1. /\ txn'[c].pc = "insertdebit" /\ txn'[c].key = s
              /\ (txn'[c].inserted <=> txn[c].inserted) /\ (txn'[c].refused <=> txn[c].refused)
            BY <2>5, Went DEF Pc
        <3>2. lock'[SessionWallet(c)] = c
            BY <2>1, <2>5, Locked
        <3>. QED
            BY <2>1, <2>2, <2>5, <3>1, <3>2
               DEF Credits, Settles, Flags, Crediting, Settling, Judged, Broke, Refusing, SessionWallet
    <2>. QED
        BY <1>8, <2>3, <2>4, <2>5 DEF SelectDebitWallet, Broke, SessionWallet
<1>9. CASE InsertDebit(c)
    <2>. DEFINE s == txn[c].key
    <2>1. /\ txn[c].pc = "insertdebit" /\ s \in Session /\ ~txn[c].refused
          /\ Price[s] > 0 /\ ~Broke(c) /\ lock[SessionWallet(c)] = c
        BY <1>0, <1>9, RowsOfKeys DEF InsertDebit, Settling, Flags, Settles, Judged
    <2>2. /\ txn'[c].pc = "finalize" /\ txn'[c].key = s
          /\ (txn'[c].inserted <=> Inserts(c)) /\ (txn'[c].refused <=> txn[c].refused)
        BY <1>9, Found
    <2>3. UNCHANGED <<balance, ledger, lock, active>>
        BY <1>9 DEF InsertDebit
    <2>. QED
        BY <2>1, <2>2, <2>3
           DEF Credits, Settles, Flags, Crediting, Settling, Judged, Broke, Refusing, SessionWallet,
               Inserts, Posted
<1>10. CASE FinalizeRow(c)
    <2>. DEFINE s == txn[c].key
    <2>1. txn[c].pc = "finalize" /\ s \in Session /\ s \in Rows /\ SessionWallet(c) \in Rows
        BY <1>10, RowsOfKeys DEF FinalizeRow, Settling
    <2>2. /\ txn'[c].pc = "commit" /\ txn'[c].key = s
          /\ (txn'[c].inserted <=> txn[c].inserted) /\ (txn'[c].refused <=> txn[c].refused)
        BY <1>10, Went DEF FinalizeRow, Pc
    <2>3. UNCHANGED <<balance, ledger, active>>
        BY <1>10 DEF FinalizeRow
    <2>4. lock[SessionWallet(c)] = c => lock'[SessionWallet(c)] = c
        BY <1>10, <2>1, Locked DEF FinalizeRow
    <2>. QED
        BY <1>0, <2>1, <2>2, <2>3, <2>4
           DEF Credits, Settles, Flags, Crediting, Settling, Judged, Broke, Refusing, SessionWallet, Posted
<1>11. CASE BeginNotify(c)
    <2>1. /\ txn'[c].pc = "notify"
          /\ (txn'[c].inserted <=> txn[c].inserted) /\ (txn'[c].refused <=> txn[c].refused)
        BY <1>11, Went DEF BeginNotify, Pc
    <2>2. ~txn[c].inserted /\ ~txn[c].refused
        BY <1>0, <1>11 DEF BeginNotify, Flags
    <2>. QED
        BY <2>1, <2>2, IdleKept
<1>12. MissTopup(c) \/ CommitCredit(c) \/ CommitSettle(c) \/ Rollback(c) => End(c)
    BY DEF MissTopup, CommitCredit, CommitSettle, Rollback
<1>. QED
    BY <1>1, <1>2, <1>3, <1>4, <1>5, <1>6, <1>7, <1>8, <1>9, <1>10, <1>11, <1>12, RollsBack
       DEF ConnStep, LockStep, FreeStep

LEMMA NextIs ==
    Next <=> \/ \E o \in Order : InitiateTopup(o)
             \/ \E p \in Payment, status \in {"captured", "failed"} : GatewayEvent(p, status)
             \/ \E r \in Rider : SetWalletStatus(r)
             \/ \E c \in Conn : ConnStep(c)
BY DEF Next, ConnStep

LEMMA KeepsTxns == ASSUME IInv, [Next]_vars PROVE TxnsOK'
<1>0. TypeOK'
    BY KeepsType
<1>1. ASSUME NEW o \in Order, InitiateTopup(o)
      PROVE  TxnsOK'
    <2>1. /\ UNCHANGED <<balance, ledger, lock, txn, active>>
          /\ \A q \in Order : topup[q].status # "absent" => topup'[q] = topup[q]
        BY <1>1 DEF InitiateTopup, IInv, TypeOK
    <2>2. ASSUME NEW c \in Conn
          PROVE  Credits(c)' /\ Settles(c)' /\ Flags(c)'
        <3>1. Credits(c) /\ Settles(c) /\ Flags(c)
            BY DEF IInv, TxnsOK
        <3>2. Credits(c)'
            BY <2>1, <3>1, RowsOfKeys DEF Credits, OrderRow, OrderWallet, Crediting
        <3>3. Settles(c)' /\ Flags(c)'
            BY <2>1, <3>1 DEF Settles, Flags, Broke, Refusing, SessionWallet, Posted
        <3>. QED
            BY <3>2, <3>3
    <2>. QED
        BY <2>2 DEF TxnsOK
<1>2. CASE UNCHANGED <<balance, ledger, topup, lock, txn, active>>
    BY <1>2 DEF IInv, TxnsOK, Credits, Settles, Flags, Broke, Refusing, OrderRow, OrderWallet,
                SessionWallet, Posted
<1>3. ASSUME NEW c \in Conn, ConnStep(c)
      PROVE  TxnsOK'
    BY <1>0, <1>3, StepRespects, OthersKept, OwnKept DEF TxnsOK
<1>4. ASSUME NEW p \in Payment, NEW status \in {"captured", "failed"}, GatewayEvent(p, status)
      PROVE  UNCHANGED <<balance, ledger, topup, lock, txn, active>>
    BY <1>4 DEF GatewayEvent
<1>5. ASSUME NEW r \in Rider, SetWalletStatus(r)
      PROVE  TxnsOK'
    <2>1. /\ UNCHANGED <<balance, ledger, topup, lock, txn>> /\ lock[r] = Null
          /\ \A q \in Rider : q # r => (q \in active' <=> q \in active)
        BY <1>5 DEF SetWalletStatus
    <2>2. ASSUME NEW c \in Conn
          PROVE  Credits(c)' /\ Settles(c)' /\ Flags(c)'
        <3>1. Credits(c) /\ Settles(c) /\ Flags(c) /\ c # Null
            BY WalletAssumption DEF IInv, TxnsOK
        <3>2. Credits(c)'
            BY <2>1, <3>1, RowsOfKeys DEF Credits, OrderRow, OrderWallet, Crediting
        <3>3. Flags(c)'
            BY <2>1, <3>1 DEF Flags
        <3>4. txn[c].pc \in Judged => (Broke(c)' <=> Broke(c))
            <4>1. ASSUME txn[c].pc \in Judged, Price[txn[c].key] > 0
                  PROVE  SessionWallet(c) # r /\ SessionWallet(c) \in Rider
                BY <2>1, <3>1, <4>1, RowsOfKeys DEF Settles, Settling, Judged
            <4>. QED
                BY <2>1, <4>1 DEF Broke, Refusing, SessionWallet
        <3>5. Settles(c)'
            BY <2>1, <3>1, <3>4 DEF Settles, Judged, SessionWallet, Posted
        <3>. QED
            BY <3>2, <3>3, <3>5
    <2>. QED
        BY <2>2 DEF TxnsOK
<1>. QED
    BY <1>1, <1>2, <1>3, <1>4, <1>5, NextIs DEF vars

LEMMA KeepsSent == ASSUME IInv, [Next]_vars PROVE SentOK'
<1>. USE DEF IInv, data
<1>0. \A e \in sent : OrderOf[e.payment] \in Order
    BY WalletAssumption DEF TypeOK, Event
<1>1. ASSUME NEW o \in Order, InitiateTopup(o)
      PROVE  SentOK'
    BY <1>0, <1>1 DEF InitiateTopup, SentOK, TypeOK
<1>2. ASSUME NEW p \in Payment, NEW status \in {"captured", "failed"}, GatewayEvent(p, status)
      PROVE  SentOK'
    BY <1>2 DEF GatewayEvent, SentOK
<1>3. ASSUME NEW c \in Conn, ConnStep(c)
      PROVE  SentOK'
    <2>1. sent' = sent
        BY <1>3, RollsBack
           DEF ConnStep, LockStep, FreeStep, Deliver, BeginSettle, SelectTopup, MissTopup,
               SelectWallet, LockRow, SelectDebitWallet, FinalizeRow, InsertCredit,
               CommitCredit, InsertDebit, CommitSettle, BeginNotify, Rollback
    <2>2. Respects(c)
        BY <1>3, StepRespects
    <2>. QED
        BY <1>0, <2>1, <2>2 DEF SentOK, Respects
<1>4. CASE UNCHANGED vars
    BY <1>4 DEF SentOK, vars
<1>5. ASSUME NEW r \in Rider, SetWalletStatus(r)
      PROVE  SentOK'
    BY <1>5 DEF SetWalletStatus, SentOK
<1>. QED
    BY <1>1, <1>2, <1>3, <1>4, <1>5, NextIs

-----------------------------------------------------------------------------
(* Every step is one of the abstract wallet, or none of it.                  *)

LEMMA CreditIsCapture ==
    ASSUME IInv, NEW c \in Conn, CommitCredit(c)
    PROVE  \E p \in Payment : Atomic!Capture(p)
<1>. DEFINE p == txn[c].key
            o == OrderOf[p]
<1>1. p \in Payment /\ o \in Order /\ p \notin Session
    BY WalletAssumption, RowsOfKeys DEF CommitCredit, Crediting, OrderRow
<1>2. /\ txn[c].inserted
      /\ topup[o].status # "absent" /\ topup[o].status # "captured"
      /\ WalletOf[o] \in active
    BY DEF CommitCredit, IInv, TxnsOK, Credits, Crediting, OrderRow, OrderWallet
<1>3. topup[o].status \in {"pending", "failed"}
    BY <1>1, <1>2 DEF IInv, TypeOK, Topup
<1>4. ~Atomic!Posted(p)
    BY <1>1, <1>2, NewPayment DEF Posted, Atomic!Posted
<1>5. /\ ledger' = ledger \cup {[key |-> p, rider |-> WalletOf[o], amount |-> Amount[o]]}
      /\ balance' = [balance EXCEPT ![WalletOf[o]] = @ + Amount[o]]
      /\ topup' = [topup EXCEPT ![o] = [status |-> "captured", payment |-> p]]
      /\ UNCHANGED <<session, active>>
    BY <1>2 DEF CommitCredit
<1>6. Atomic!Capture(p)
    BY <1>1, <1>2, <1>3, <1>4, <1>5 DEF Atomic!Capture, Atomic!Post
<1>. QED
    BY <1>1, <1>6

LEMMA SettleIsSettle ==
    ASSUME IInv, NEW c \in Conn, CommitSettle(c)
    PROVE  \E s \in Session : Atomic!Settle(s)
<1>. DEFINE s == txn[c].key
            r == WalletOf[s]
            broke == Price[s] > 0 /\ (r \notin active \/ balance[r] < Price[s])
            paid == Price[s] > 0 /\ ~broke /\ ~Atomic!Posted(s)
<1>1. s \in Session /\ r \in Rider /\ Price[s] \in Nat /\ balance[r] \in Nat
    BY RowsOfKeys DEF CommitSettle, Settling, SessionWallet, IInv, TypeOK
<1>2. (txn[c].refused <=> broke) /\ (txn[c].inserted <=> paid)
    BY DEF CommitSettle, IInv, TxnsOK, Settles, Broke, Refusing, SessionWallet, Posted, Atomic!Posted
<1>3. txn[c].refused \in BOOLEAN /\ txn[c].inserted \in BOOLEAN
    BY DEF IInv, TypeOK, Txn
<1>4. txn[c].refused = broke /\ txn[c].inserted = paid
    BY <1>2, <1>3
<1>5. /\ IF txn[c].inserted
         THEN /\ ledger' = ledger \cup {[key |-> s, rider |-> r, amount |-> -Price[s]]}
              /\ balance' = [balance EXCEPT ![r] = @ - Price[s]]
         ELSE UNCHANGED <<balance, ledger>>
      /\ session' = [session EXCEPT ![s] =
                        [stopped |-> TRUE, billed |-> @.billed \/ txn[c].inserted,
                         unpaid |-> @.unpaid \/ txn[c].refused]]
      /\ UNCHANGED <<topup, active>>
    BY DEF CommitSettle
<1>6. [balance EXCEPT ![r] = @ - Price[s]] = [balance EXCEPT ![r] = @ + -Price[s]]
    BY <1>1 DEF IInv, TypeOK
<1>7. IF paid THEN Atomic!Post(s, -Price[s]) ELSE UNCHANGED <<balance, ledger>>
    <2>1. ASSUME paid
          PROVE  Atomic!Post(s, -Price[s])
        <3>1. /\ ledger' = ledger \cup {[key |-> s, rider |-> r, amount |-> -Price[s]]}
              /\ balance' = [balance EXCEPT ![r] = @ - Price[s]]
            BY <1>2, <1>5, <2>1
        <3>. QED
            BY <1>1, <1>6, <3>1 DEF Atomic!Post
    <2>2. ASSUME ~paid
          PROVE  UNCHANGED <<balance, ledger>>
        BY <1>2, <1>5, <2>2
    <2>. QED
        BY <2>1, <2>2
<1>8. session' = [session EXCEPT ![s] = [stopped |-> TRUE, billed |-> @.billed \/ paid,
                                         unpaid |-> @.unpaid \/ broke]]
    BY <1>4, <1>5
<1>. HIDE DEF paid, broke
<1>9. Atomic!Settle(s)
    BY <1>5, <1>7, <1>8 DEF Atomic!Settle, paid, broke
<1>. QED
    BY <1>1, <1>9

LEMMA StepIsAtomic ==
    ASSUME IInv, [Next]_vars
    PROVE  Atomic!Next \/ UNCHANGED data
<1>1. ASSUME NEW o \in Order, InitiateTopup(o)
      PROVE  Atomic!Next
    BY <1>1 DEF InitiateTopup, Atomic!Initiate, Atomic!Next
<1>2. ASSUME NEW p \in Payment, NEW status \in {"captured", "failed"}, GatewayEvent(p, status)
      PROVE  UNCHANGED data
    BY <1>2 DEF GatewayEvent, data
<1>3. ASSUME NEW c \in Conn, MissTopup(c)
      PROVE  Atomic!Next \/ UNCHANGED data
    <2>. DEFINE p == txn[c].key
                o == OrderOf[p]
    <2>1. p \in Payment /\ o \in Order /\ topup[o].status # "absent"
        BY <1>3, RowsOfKeys DEF MissTopup, OrderRow, IInv, TxnsOK, Credits
    <2>2. UNCHANGED <<balance, ledger, session, active>>
        BY <1>3 DEF MissTopup
    <2>3. CASE topup[o].status = "captured" \/ o \in mismatched
        BY <1>3, <2>2, <2>3 DEF MissTopup, data
    <2>4. CASE topup[o].status # "captured" /\ o \notin mismatched
        <3>1. topup[o].status \in {"pending", "failed"}
            BY <2>1, <2>4 DEF IInv, TypeOK, Topup
        <3>2. topup' = [topup EXCEPT ![o] = [status |-> "failed", payment |-> p]]
            BY <1>3, <2>4 DEF MissTopup
        <3>3. Atomic!Miss(p)
            BY <2>2, <3>1, <3>2 DEF Atomic!Miss
        <3>. QED
            BY <2>1, <3>3 DEF Atomic!Next
    <2>. QED
        BY <2>3, <2>4
<1>4. ASSUME NEW c \in Conn, CommitCredit(c) \/ CommitSettle(c)
      PROVE  Atomic!Next
    BY <1>4, CreditIsCapture, SettleIsSettle DEF Atomic!Next
<1>5. ASSUME NEW c \in Conn, ConnStep(c),
             ~MissTopup(c), ~CommitCredit(c), ~CommitSettle(c)
      PROVE  UNCHANGED data
    BY <1>5, RollsBack
       DEF ConnStep, LockStep, FreeStep, Deliver, BeginSettle, SelectTopup, SelectWallet,
           LockRow, SelectDebitWallet, FinalizeRow, InsertCredit, InsertDebit, BeginNotify,
           Rollback, data
<1>6. CASE UNCHANGED vars
    BY <1>6 DEF vars, data
<1>7. ASSUME NEW r \in Rider, SetWalletStatus(r)
      PROVE  Atomic!Next
    BY <1>7 DEF SetWalletStatus, Atomic!SetStatus, Atomic!Next
<1>. QED
    BY <1>1, <1>2, <1>3, <1>4, <1>5, <1>6, <1>7, NextIs

-----------------------------------------------------------------------------
(* The books.  A step of the abstract wallet keeps them, so every step does. *)

EntriesOf(r) == {e \in ledger : e.rider = r}

KeysOf(o) == {e.key : e \in {f \in ledger : f.key \in Payment /\ OrderOf[f.key] = o}}

LEMMA SumIsTotal == ASSUME NEW S PROVE MapThenSumSet(AmountOf, S) = Total(S)
BY DEF MapThenSumSet, MapThenFoldSet, AmountOf, Total, Tally, IsTally, First

LEMMA BalanceIs == BalanceIsLedger <=> \A r \in Rider : balance[r] = InitBalance + Total(EntriesOf(r))
BY SumIsTotal DEF BalanceIsLedger, EntriesOf

\* An entry under a new key moves the balance of its rider and of nobody else.
LEMMA PostKeepsBalance ==
    ASSUME IInv, NEW key \in Payment \cup Session, NEW amount \in Int,
           ~Atomic!Posted(key), Atomic!Post(key, amount)
    PROVE  IsFiniteSet(ledger') /\ BalanceIsLedger'
<1>. DEFINE r == WalletOf[IF key \in Session THEN key ELSE OrderOf[key]]
            e == [key |-> key, rider |-> r, amount |-> amount]
<1>1. ledger' = ledger \cup {e} /\ balance' = [balance EXCEPT ![r] = @ + amount]
    BY DEF Atomic!Post
<1>2. r \in Rider
    BY WalletAssumption
<1>3. e \notin ledger /\ e.rider = r /\ e.amount = amount
    BY DEF Atomic!Posted
<1>. HIDE DEF e, r
<1>4. IsFiniteSet(ledger) /\ IsFiniteSet(ledger')
    BY <1>1, FS_AddElement DEF IInv
<1>5. ASSUME NEW q \in Rider
      PROVE  balance'[q] = InitBalance + Total(EntriesOf(q))'
    <2>1. IsFiniteSet(EntriesOf(q)) /\ Amounts(EntriesOf(q)) /\ e \notin EntriesOf(q)
        BY <1>3, <1>4, FS_Subset DEF EntriesOf, Amounts, IInv, TypeOK, Entry
    <2>2. balance[q] = InitBalance + Total(EntriesOf(q)) /\ balance[q] \in Nat
        BY BalanceIs DEF IInv, TypeOK
    <2>3. Total(EntriesOf(q)) \in Int /\ InitBalance \in Int
        BY <2>1, TotalIsInteger, WalletAssumption
    <2>4. CASE q = r
        <3>1. EntriesOf(q)' = EntriesOf(q) \cup {e}
            BY <1>1, <1>3, <2>4 DEF EntriesOf
        <3>2. Total(EntriesOf(q) \cup {e}) = Total(EntriesOf(q)) + amount
            BY <1>3, <2>1, TotalOfOneMore
        <3>3. balance'[q] = balance[q] + amount
            BY <1>1, <1>2, <2>4 DEF IInv, TypeOK
        <3>4. Total(EntriesOf(q))' = Total(EntriesOf(q)')
            BY DEF Total, Tally, IsTally, First
        <3>. QED
            BY <2>2, <2>3, <3>1, <3>2, <3>3, <3>4
    <2>5. CASE q # r
        <3>1. EntriesOf(q)' = EntriesOf(q)
            BY <1>1, <1>3, <2>5 DEF EntriesOf
        <3>2. balance'[q] = balance[q]
            BY <1>1, <2>5 DEF IInv, TypeOK
        <3>3. Total(EntriesOf(q))' = Total(EntriesOf(q)')
            BY DEF Total, Tally, IsTally, First
        <3>. QED
            BY <2>2, <3>1, <3>2, <3>3
    <2>. QED
        BY <2>4, <2>5
<1>6. BalanceIsLedger'
    <2>1. ASSUME NEW q \in Rider
          PROVE  balance'[q] = InitBalance
                                + MapThenSumSet(AmountOf, {f \in ledger' : f.rider = q})
        <3>1. Total(EntriesOf(q))' = Total({f \in ledger' : f.rider = q})
            BY DEF Total, Tally, IsTally, First, EntriesOf
        <3>. QED
            BY <1>5, <3>1, SumIsTotal
    <2>. QED
        BY <2>1 DEF BalanceIsLedger
<1>. QED
    BY <1>4, <1>6

LEMMA CapturedIs ==
    CapturedIsCredited <=>
        \A o \in Order : KeysOf(o) = IF topup[o].status = "captured" THEN {topup[o].payment} ELSE {}
BY DEF CapturedIsCredited, KeysOf

LEMMA BooksKept ==
    ASSUME IInv, Atomic!Next
    PROVE  CapturedIsCredited' /\ IsFiniteSet(ledger') /\ BalanceIsLedger'
<1>. USE DEF IInv
<1>1. ASSUME NEW o \in Order, Atomic!Initiate(o)
      PROVE  CapturedIsCredited' /\ IsFiniteSet(ledger') /\ BalanceIsLedger'
    <2>1. UNCHANGED <<balance, ledger>>
        BY <1>1 DEF Atomic!Initiate
    <2>2. \A q \in Order : \/ topup'[q] = topup[q]
                           \/ topup[q].status # "captured" /\ topup'[q].status # "captured"
        BY <1>1 DEF Atomic!Initiate, TypeOK, Topup
    <2>. QED
        BY <2>1, <2>2 DEF CapturedIsCredited, BalanceIsLedger
<1>2. ASSUME NEW p \in Payment, Atomic!Miss(p)
      PROVE  CapturedIsCredited' /\ IsFiniteSet(ledger') /\ BalanceIsLedger'
    <2>1. UNCHANGED <<balance, ledger>>
        BY <1>2 DEF Atomic!Miss
    <2>2. \A q \in Order : \/ topup'[q] = topup[q]
                           \/ topup[q].status # "captured" /\ topup'[q].status # "captured"
        BY <1>2 DEF Atomic!Miss, TypeOK
    <2>. QED
        BY <2>1, <2>2 DEF CapturedIsCredited, BalanceIsLedger
<1>3. ASSUME NEW p \in Payment, Atomic!Capture(p)
      PROVE  CapturedIsCredited' /\ IsFiniteSet(ledger') /\ BalanceIsLedger'
    <2>. DEFINE o == OrderOf[p]
                e == [key |-> p, rider |-> WalletOf[o], amount |-> Amount[o]]
    <2>1. o \in Order /\ Amount[o] \in Int /\ p \notin Session
        BY WalletAssumption
    <2>2. IsFiniteSet(ledger') /\ BalanceIsLedger'
        BY <1>3, <2>1, PostKeepsBalance DEF Atomic!Capture
    <2>3. /\ topup[o].status # "captured"
          /\ topup' = [topup EXCEPT ![o] = [status |-> "captured", payment |-> p]]
          /\ ledger' = ledger \cup {e}
        BY <1>3, <2>1 DEF Atomic!Capture, Atomic!Post
    <2>4. e.key = p
        OBVIOUS
    <2>. HIDE DEF e
    <2>5. ASSUME NEW q \in Order
          PROVE  KeysOf(q)' = IF topup'[q].status = "captured" THEN {topup'[q].payment} ELSE {}
        <3>1. KeysOf(q) = IF topup[q].status = "captured" THEN {topup[q].payment} ELSE {}
            BY CapturedIs
        <3>2. KeysOf(q)' = IF q = o THEN KeysOf(q) \cup {p} ELSE KeysOf(q)
            <4>1. \A k : k \in KeysOf(q)' <=> k \in KeysOf(q) \/ (k = p /\ q = o)
                BY <2>3, <2>4 DEF KeysOf
            <4>. QED
                BY <4>1
        <3>3. topup'[q] = IF q = o THEN [status |-> "captured", payment |-> p] ELSE topup[q]
            BY <2>1, <2>3 DEF TypeOK
        <3>. QED
            BY <2>3, <3>1, <3>2, <3>3
    <2>6. CapturedIsCredited'
        BY <2>5 DEF CapturedIsCredited, KeysOf
    <2>. QED
        BY <2>2, <2>6
<1>4. ASSUME NEW s \in Session, Atomic!Settle(s)
      PROVE  CapturedIsCredited' /\ IsFiniteSet(ledger') /\ BalanceIsLedger'
    <2>1. topup' = topup
        BY <1>4 DEF Atomic!Settle
    <2>2. CASE UNCHANGED <<balance, ledger>>
        BY <2>1, <2>2 DEF CapturedIsCredited, BalanceIsLedger
    <2>3. CASE ~Atomic!Posted(s) /\ Atomic!Post(s, -Price[s])
        <3>1. -Price[s] \in Int /\ s \notin Payment
            BY WalletAssumption
        <3>2. IsFiniteSet(ledger') /\ BalanceIsLedger'
            BY <2>3, <3>1, PostKeepsBalance
        <3>3. PICK e : e.key = s /\ ledger' = ledger \cup {e}
            BY <2>3 DEF Atomic!Post
        <3>4. {f \in ledger' : f.key \in Payment} = {f \in ledger : f.key \in Payment}
            BY <3>1, <3>3
        <3>5. \A o \in Order : KeysOf(o)' = KeysOf(o)
            BY <3>4 DEF KeysOf
        <3>. QED
            BY <2>1, <3>2, <3>5 DEF CapturedIsCredited, KeysOf
    <2>. QED
        BY <1>4, <2>2, <2>3 DEF Atomic!Settle
<1>5. ASSUME NEW r \in Rider, Atomic!SetStatus(r)
      PROVE  CapturedIsCredited' /\ IsFiniteSet(ledger') /\ BalanceIsLedger'
    BY <1>5 DEF Atomic!SetStatus, CapturedIsCredited, BalanceIsLedger
<1>. QED
    BY <1>1, <1>2, <1>3, <1>4, <1>5 DEF Atomic!Next

-----------------------------------------------------------------------------
(* It holds at first, and every step keeps it.                              *)

LEMMA Initially == Init => IInv
<1>. SUFFICES ASSUME Init
              PROVE  IInv
    OBVIOUS
<1>1. TypeOK
    BY WalletAssumption DEF Init, TypeOK, Topup, Idle, Txn, Pc
<1>2. TxnsOK
    BY DEF Init, TxnsOK, Credits, Settles, Flags, Crediting, Settling, Judged, Idle
<1>3. SentOK
    BY DEF Init, SentOK
<1>4. CapturedIsCredited
    BY DEF Init, CapturedIsCredited
<1>5. IsFiniteSet(ledger)
    BY FS_EmptySet DEF Init
<1>6. BalanceIsLedger
    <2>1. \A r \in Rider : EntriesOf(r) = {} /\ balance[r] = InitBalance
        BY DEF Init, EntriesOf
    <2>. QED
        <3>1. \A r \in Rider : balance[r] = InitBalance + Total(EntriesOf(r))
            BY <2>1, TotalOfNone, WalletAssumption
        <3>. QED
            BY <3>1, BalanceIs
<1>. QED
    BY <1>1, <1>2, <1>3, <1>4, <1>5, <1>6 DEF IInv

LEMMA KeepsBooks ==
    ASSUME IInv, [Next]_vars
    PROVE  CapturedIsCredited' /\ IsFiniteSet(ledger') /\ BalanceIsLedger'
<1>1. CASE Atomic!Next
    BY <1>1, BooksKept
<1>2. CASE UNCHANGED data
    BY <1>2 DEF IInv, CapturedIsCredited, BalanceIsLedger, data
<1>. QED
    BY <1>1, <1>2, StepIsAtomic

LEMMA Invariance == Spec => []IInv
<1>1. IInv /\ [Next]_vars => IInv'
    BY KeepsType, KeepsTxns, KeepsSent, KeepsBooks DEF IInv
<1>. QED
    BY <1>1, Initially, PTL DEF Spec

-----------------------------------------------------------------------------
(* What follows from it.                                                   *)

\* The state keeps its shape, and no wallet is overdrawn: the balance a settlement compared
\* is the one it takes from (wallet_repo.go, SELECT ... FOR UPDATE).
THEOREM TypeCorrect == Spec => []TypeOK
BY Invariance, PTL DEF IInv

\* Whatever open transactions have read, and whoever was rolled back or ended as a deadlock's
\* victim, a wallet holds what it held first plus the sum of its ledger entries: the ledger's
\* row and the balance are written in one transaction (wallet_repo.go).
THEOREM BooksBalance == Spec => []BalanceIsLedger
BY Invariance, PTL DEF IInv

\* An order is credited once if its top-up is captured, with the payment it names, and not at
\* all otherwise, however often and in whatever order its events arrive (ProcessTopupWebhook).
THEOREM CreditedOnce == Spec => []CapturedIsCredited
BY Invariance, PTL DEF IInv

\* Two open transactions never insert the same ledger key: those that could have the row of
\* the order, or the wallet of the session, locked, and one row has one holder.
THEOREM KeysApart == Spec => []KeysSerialised
<1>1. IInv => KeysSerialised
    <2>. SUFFICES ASSUME IInv, NEW c \in Conn, NEW d \in Conn,
                         txn[c].inserted, txn[d].inserted, txn[c].key = txn[d].key
                  PROVE  c = d
        BY DEF KeysSerialised
    <2>1. /\ Credits(c) /\ Settles(c) /\ Flags(c)
          /\ Credits(d) /\ Settles(d) /\ Flags(d)
        BY DEF IInv, TxnsOK
    <2>2. CASE txn[c].pc = "credit"
        <3>1. txn[c].key \in Payment /\ lock[OrderRow(c)] = c
            BY <2>1, <2>2 DEF Credits, Crediting
        <3>2. txn[d].pc = "credit"
            BY <2>1, <3>1, WalletAssumption DEF Flags, Settles, Settling
        <3>3. lock[OrderRow(d)] = d
            BY <2>1, <3>2 DEF Credits, Crediting
        <3>. QED
            BY <3>1, <3>3 DEF OrderRow
    <2>3. CASE txn[c].pc \in {"finalize", "commit"}
        <3>1. txn[c].key \in Session /\ lock[SessionWallet(c)] = c
            BY <2>1, <2>3 DEF Settles, Settling, Judged
        <3>2. txn[d].pc \in {"finalize", "commit"}
            BY <2>1, <3>1, WalletAssumption DEF Flags, Credits, Crediting
        <3>3. lock[SessionWallet(d)] = d
            BY <2>1, <3>2 DEF Settles, Judged
        <3>. QED
            BY <3>1, <3>3 DEF SessionWallet
    <2>. QED
        BY <2>1, <2>2, <2>3 DEF Flags
<1>. QED
    BY <1>1, Invariance, PTL

\* Statement by statement and with everything that interleaves, the transactions do what
\* they would do at once: the detailed wallet implements the one its callers think of.
THEOREM Atomicity == Spec => ActsAtomically
<1>1. Init => Atomic!Init
    BY WalletAssumption DEF Init, Atomic!Init
<1>2. IInv /\ [Next]_vars => [Atomic!Next]_(Atomic!wallet)
    BY StepIsAtomic DEF data, Atomic!wallet
<1>. QED
    BY <1>1, <1>2, Invariance, PTL DEF Spec, ActsAtomically, Atomic!Spec

\* An event that arrives late does not undo a captured top-up: it waits for the row's lock
\* and then reads the status (ProcessTopupWebhook).
THEOREM CaptureIsFinal == Spec => CapturedStays
<1>1. IInv /\ [Next]_vars =>
        [\A o \in Order : topup[o].status = "captured" => topup'[o] = topup[o]]_topup
    <2>. SUFFICES ASSUME IInv, [Next]_vars,
                         NEW o \in Order, topup[o].status = "captured"
                  PROVE  topup'[o] = topup[o]
        OBVIOUS
    <2>1. CASE Atomic!Next
        BY <2>1 DEF IInv, TypeOK, Atomic!Next, Atomic!Initiate, Atomic!Miss, Atomic!Capture,
                    Atomic!Settle, Atomic!SetStatus
    <2>2. CASE UNCHANGED data
        BY <2>2 DEF data
    <2>. QED
        BY <2>1, <2>2, StepIsAtomic
<1>2. (Spec => []IInv) => (Spec => CapturedStays)
    BY <1>1, PTL DEF Spec, CapturedStays
<1>. QED
    BY <1>2, Invariance
=============================================================================
