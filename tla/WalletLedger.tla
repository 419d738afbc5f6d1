----------------------------- MODULE WalletLedger -----------------------------
(***************************************************************************)
(* The database transactions that move money, statement by statement, with  *)
(* the row locks they take: the payment webhook (topup row, wallet row,      *)
(* ledger key) and the settlement of a session by the poller (wallet row,    *)
(* ledger key, session row) and by a sync goroutine, which may have locked   *)
(* the session row first by attaching to it.  Nothing a transaction writes   *)
(* is seen before its commit.  PostgreSQL ends one of the transactions that  *)
(* wait for each other; its writes are lost and its caller gets an error.    *)
(*                                                                         *)
(* All of them share the process's connection pool with the                *)
(* status_notification webhook, which asks for a second connection while it  *)
(* holds one.                                                              *)
(*                                                                         *)
(* ChargingLifecycle takes such a transaction for one step; here it is       *)
(* shown to behave like one (ActsAtomically).                               *)
(***************************************************************************)
EXTENDS Integers, FiniteSetsExt

CONSTANTS
    Rider, Order, Payment, Session,
    Conn,           \* the database connections of the pool
    Null,
    OrderOf, WalletOf, Amount, Price,
    InitBalance,    \* what every wallet holds at first
    MaxFaults       \* bound: how often a connection breaks or a wallet's status is set

ASSUME WalletAssumption ==
    /\ OrderOf \in [Payment -> Order]
    /\ WalletOf \in [Order \cup Session -> Rider]
    /\ Amount \in [Order -> Nat \ {0}]
    /\ Price \in [Session -> Nat]
    /\ InitBalance \in Nat
    /\ MaxFaults \in Nat
    /\ Payment \cap Session = {} /\ Null \notin Conn \cup Payment

VARIABLES
    balance,    \* wallets.balance
    ledger,     \* wallet_transactions
    topup,      \* wallet_topups by gateway order
    session,    \* the columns of charging_sessions a settlement writes
    active,     \* the riders whose wallet has the status "active"
    lock,       \* who holds the lock of a topup, a wallet or a session row
    txn,        \* the transaction on a connection
    sent,       \* the events the payment gateway has to deliver
    mismatched, \* the orders whose stored amount is not the one the gateway was asked for
    faults      \* how often a connection has broken or a wallet's status was set

vars == <<balance, ledger, topup, session, active, lock, txn, sent, mismatched, faults>>

\* What the business is about; the rest is PostgreSQL's and the pool's.
data == <<balance, ledger, topup, session, active>>

Entry == [key : Payment \cup Session, rider : Rider, amount : Int]
\* "failed" stands for every status that is not "captured": "authorized" is one of them.
Event == [payment : Payment, status : {"captured", "failed"}]
Topup == [status : {"absent", "pending", "failed", "captured"}, payment : Payment \cup {Null}]

Pc == {"idle", "capture", "miss", "wallet", "insert", "credit",
       "row", "debit", "insertdebit", "finalize", "commit", "notify"}

Idle == [pc |-> "idle", key |-> Null, inserted |-> FALSE, refused |-> FALSE]
Txn  == [pc : Pc, key : Payment \cup Session \cup {Null}, inserted : BOOLEAN, refused : BOOLEAN]

TypeOK ==
    /\ balance \in [Rider -> Nat]
    /\ ledger \subseteq Entry
    /\ topup \in [Order -> Topup]
    /\ session \in [Session -> [stopped : BOOLEAN, billed : BOOLEAN, unpaid : BOOLEAN]]
    /\ lock \in [Order \cup Rider \cup Session -> Conn \cup {Null}]
    /\ txn \in [Conn -> Txn]
    /\ active \subseteq Rider
    /\ sent \subseteq Event /\ mismatched \subseteq Order
    /\ faults \in 0..MaxFaults

Init ==
    /\ balance = [r \in Rider |-> InitBalance]
    /\ ledger = {}
    /\ topup = [o \in Order |-> [status |-> "absent", payment |-> Null]]
    /\ session = [s \in Session |-> [stopped |-> FALSE, billed |-> FALSE, unpaid |-> FALSE]]
    /\ lock = [x \in Order \cup Rider \cup Session |-> Null]
    /\ txn = [c \in Conn |-> Idle]
    /\ active = Rider
    /\ sent = {} /\ mismatched = {}
    /\ faults = 0

-----------------------------------------------------------------------------
(* Locks.                                                                  *)

CanLock(c, x) == lock[x] \in {Null, c}

Lock(c, x) == CanLock(c, x) /\ lock' = [lock EXCEPT ![x] = c]

ReleaseAll(c) == lock' = [x \in DOMAIN lock |-> IF lock[x] = c THEN Null ELSE lock[x]]

Go(c, pc) == txn' = [txn EXCEPT ![c].pc = pc]

\* Commit or rollback, and the connection goes back to the pool.
End(c) == ReleaseAll(c) /\ txn' = [txn EXCEPT ![c] = Idle]

Rollback(c) == End(c) /\ UNCHANGED <<data, sent, mismatched>>

Posted(key) == \E e \in ledger : e.key = key

\* Mutant: the count of inserted rows is not looked at.
InsertsAlways(c) == TRUE

\* INSERT ... ON CONFLICT (idempotency_key) DO NOTHING adds a row.
Inserts(c) == ~Posted(txn[c].key)

-----------------------------------------------------------------------------
(* Top-ups.  A rider learns of an order when its intent is stored, and may   *)
(* pay it in several attempts, of which the gateway captures one.  It        *)
(* delivers what it sent in any order and any number of times.              *)

\* The amount is a floating-point number from 100 to 10000: the gateway is asked for its
\* hundredfold, rounded, and the table rounds it to two decimals (mismatched when the two
\* differ, which takes more decimals than that).
InitiateTopup(o) ==
    /\ topup[o].status = "absent" /\ WalletOf[o] \in active
    /\ topup' = [topup EXCEPT ![o].status = "pending"]
    /\ mismatched' \in {mismatched, mismatched \cup {o}}
    /\ UNCHANGED <<balance, ledger, session, active, lock, txn, sent, faults>>

GatewayEvent(p, status) ==
    /\ topup[OrderOf[p]].status # "absent"
    /\ status = "captured" =>
        \A e \in sent : OrderOf[e.payment] = OrderOf[p] => e.status # "captured"
    /\ sent' = sent \cup {[payment |-> p, status |-> status]}
    /\ UNCHANGED <<balance, ledger, topup, session, active, lock, txn, mismatched, faults>>

\* An operator blocks a wallet or frees it; the row must not be locked.
SetWalletStatus(r) ==
    /\ lock[r] = Null
    /\ active' \in {active \ {r}, active \cup {r}}
    /\ faults < MaxFaults
    /\ faults' = faults + 1
    /\ UNCHANGED <<balance, ledger, topup, session, lock, txn, sent, mismatched>>

\* PaymentWebhook begins ProcessTopupWebhook for an event.
Deliver(c, e) ==
    /\ txn[c].pc = "idle"
    /\ e \in sent
    /\ txn' = [txn EXCEPT ![c] = [Idle EXCEPT !.key = e.payment,
                                    !.pc = IF e.status = "captured" THEN "capture" ELSE "miss"]]
    /\ UNCHANGED <<balance, ledger, topup, session, lock, active, sent, mismatched, faults>>

\* Mutant: only a pending top-up can be captured.
CapturablePending(o) == topup[o].status = "pending"

Capturable(o) == topup[o].status # "captured"

\* Mutant: the early return for a captured top-up leaves the transaction open.
SelectTopupLeaks(c) ==
    LET o == OrderOf[txn[c].key] IN
    /\ txn[c].pc = "capture"
    /\ Lock(c, o)
    /\ IF Capturable(o) /\ o \notin mismatched
       THEN Go(c, "wallet") ELSE txn' = [txn EXCEPT ![c] = Idle]
    /\ UNCHANGED <<balance, ledger, topup, session, active, sent, mismatched, faults>>

\* SELECT ... FOR UPDATE of the topup row, the early return for a captured one, and the
\* error for an amount or a currency that is not the stored one.
SelectTopup(c) ==
    LET o == OrderOf[txn[c].key] IN
    /\ txn[c].pc = "capture"
    /\ IF Capturable(o) /\ o \notin mismatched
       THEN Lock(c, o) /\ Go(c, "wallet")
       ELSE CanLock(c, o) /\ End(c)
    /\ UNCHANGED <<balance, ledger, topup, session, active, sent, mismatched, faults>>

\* Mutant: an event that is not a capture is not compared with the stored status.
MissTopupUnchecked(c) ==
    LET o == OrderOf[txn[c].key] IN
    /\ txn[c].pc = "miss"
    /\ CanLock(c, o)
    /\ topup' = IF o \in mismatched THEN topup
                ELSE [topup EXCEPT ![o] = [status |-> "failed", payment |-> txn[c].key]]
    /\ End(c)
    /\ UNCHANGED <<balance, ledger, session, active, sent, mismatched, faults>>

\* The same for an event that is not a capture: the top-up is marked failed, unless it
\* is captured already or the amount is refused.
MissTopup(c) ==
    LET o == OrderOf[txn[c].key] IN
    /\ txn[c].pc = "miss"
    /\ CanLock(c, o)
    /\ topup' = IF topup[o].status = "captured" \/ o \in mismatched THEN topup
                ELSE [topup EXCEPT ![o] = [status |-> "failed", payment |-> txn[c].key]]
    /\ End(c)
    /\ UNCHANGED <<balance, ledger, session, active, sent, mismatched, faults>>

\* SELECT ... FOR UPDATE of the wallet row, and the error for one that is not active.
SelectWallet(c) ==
    LET r == WalletOf[OrderOf[txn[c].key]] IN
    /\ txn[c].pc = "wallet"
    /\ IF r \in active THEN Lock(c, r) /\ Go(c, "insert") ELSE CanLock(c, r) /\ End(c)
    /\ UNCHANGED <<balance, ledger, topup, session, active, sent, mismatched, faults>>

InsertCredit(c) ==
    /\ txn[c].pc = "insert"
    /\ txn' = [txn EXCEPT ![c].pc = "credit", ![c].inserted = Inserts(c)]
    /\ UNCHANGED <<balance, ledger, topup, session, lock, active, sent, mismatched, faults>>

CommitCredit(c) ==
    LET p == txn[c].key
        o == OrderOf[p]
        r == WalletOf[o]
    IN
    /\ txn[c].pc = "credit"
    /\ IF txn[c].inserted
       THEN /\ ledger' = ledger \cup {[key |-> p, rider |-> r, amount |-> Amount[o]]}
            /\ balance' = [balance EXCEPT ![r] = @ + Amount[o]]
       ELSE UNCHANGED <<balance, ledger>>
    /\ topup' = [topup EXCEPT ![o] = [status |-> "captured", payment |-> p]]
    /\ End(c)
    /\ UNCHANGED <<session, active, sent, mismatched, faults>>

-----------------------------------------------------------------------------
(* Settlements.  A session may be settled by several goroutines, also after  *)
(* it was; "row" is the attach or meter update a sync goroutine begins with. *)

BeginSettle(c, s, pc) ==
    /\ txn[c].pc = "idle"
    /\ txn' = [txn EXCEPT ![c] = [Idle EXCEPT !.key = s, !.pc = pc]]
    /\ UNCHANGED <<balance, ledger, topup, session, lock, active, sent, mismatched, faults>>

LockRow(c) ==
    /\ txn[c].pc = "row"
    /\ Lock(c, txn[c].key)
    /\ Go(c, "debit")
    /\ UNCHANGED <<balance, ledger, topup, session, active, sent, mismatched, faults>>

\* Mutant: the balance is not looked at.
RefusingBlocked(s) == WalletOf[s] \notin active

\* The wallet cannot pay: the settlement goes on and records it.
Refusing(s) == WalletOf[s] \notin active \/ balance[WalletOf[s]] < Price[s]

Refuse(c) == txn' = [txn EXCEPT ![c].pc = "finalize", ![c].refused = TRUE]

\* Mutant: the wallet is read without FOR UPDATE.
SelectDebitWalletUnlocked(c) ==
    LET s == txn[c].key IN
    /\ txn[c].pc = "debit"
    /\ IF Price[s] = 0 THEN Go(c, "finalize")
       ELSE IF Refusing(s) THEN Refuse(c) ELSE Go(c, "insertdebit")
    /\ UNCHANGED <<balance, ledger, topup, session, lock, active, sent, mismatched, faults>>

\* Nothing is due, or the wallet is locked, and its status and balance are looked at.
SelectDebitWallet(c) ==
    LET s == txn[c].key IN
    /\ txn[c].pc = "debit"
    /\ \/ Price[s] = 0 /\ Go(c, "finalize") /\ UNCHANGED lock
       \/ /\ Price[s] > 0
          /\ Lock(c, WalletOf[s])
          /\ IF Refusing(s) THEN Refuse(c) ELSE Go(c, "insertdebit")
    /\ UNCHANGED <<balance, ledger, topup, session, active, sent, mismatched, faults>>

InsertDebit(c) ==
    /\ txn[c].pc = "insertdebit"
    /\ txn' = [txn EXCEPT ![c].pc = "finalize", ![c].inserted = Inserts(c)]
    /\ UNCHANGED <<balance, ledger, topup, session, lock, active, sent, mismatched, faults>>

FinalizeRow(c) ==
    /\ txn[c].pc = "finalize"
    /\ Lock(c, txn[c].key)
    /\ Go(c, "commit")
    /\ UNCHANGED <<balance, ledger, topup, session, active, sent, mismatched, faults>>

CommitSettle(c) ==
    LET s == txn[c].key
        r == WalletOf[s]
    IN
    /\ txn[c].pc = "commit"
    /\ IF txn[c].inserted
       THEN /\ ledger' = ledger \cup {[key |-> s, rider |-> r, amount |-> -Price[s]]}
            /\ balance' = [balance EXCEPT ![r] = @ - Price[s]]
       ELSE UNCHANGED <<balance, ledger>>
    /\ session' = [session EXCEPT ![s] = [stopped |-> TRUE, billed |-> @.billed \/ txn[c].inserted,
                                         unpaid |-> @.unpaid \/ txn[c].refused]]
    /\ End(c)
    /\ UNCHANGED <<topup, active, sent, mismatched, faults>>

-----------------------------------------------------------------------------
(* The connection pool.  A status_notification has its event's id inserted   *)
(* and then writes the charger on a connection of its own.                   *)

BeginNotify(c) ==
    /\ txn[c].pc = "idle"
    /\ Go(c, "notify")
    /\ UNCHANGED <<data, lock, sent, mismatched, faults>>

\* Another connection is free for the moment of the write; the webhook's own
\* transaction then ends.
UpsertCharger(c) ==
    /\ txn[c].pc = "notify"
    /\ \E d \in Conn : txn[d].pc = "idle"
    /\ Rollback(c)
    /\ UNCHANGED faults

\* CitrineOS gives up waiting, and the request's context rolls the transaction back.
NotifierLeaves(c) ==
    /\ txn[c].pc = "notify"
    /\ Rollback(c)
    /\ UNCHANGED faults

PoolExhausted == \A c \in Conn : txn[c].pc = "notify"

-----------------------------------------------------------------------------
(* PostgreSQL.                                                             *)

\* The row the next statement of a transaction locks.
Wants(c) ==
    LET k == txn[c].key IN
    CASE txn[c].pc \in {"capture", "miss"}     -> {OrderOf[k]}
      [] txn[c].pc = "wallet"                  -> {WalletOf[OrderOf[k]]}
      [] txn[c].pc \in {"row", "finalize"}     -> {k}
      [] txn[c].pc = "debit" /\ Price[k] > 0   -> {WalletOf[k]}
      [] OTHER                                 -> {}

WaitsFor(c, d) == c # d /\ \E x \in Wants(c) : lock[x] = d

\* Everyone in D waits for another one in D and is waited for by another one.
Deadlocked(D) ==
    \A c \in D : /\ \E d \in D : WaitsFor(c, d)
                 /\ \E d \in D : WaitsFor(d, c)

DeadlockDetected(c) ==
    /\ \E D \in SUBSET Conn : c \in D /\ Deadlocked(D)
    /\ Rollback(c)
    /\ UNCHANGED faults

Broken(c) ==
    /\ txn[c].pc # "idle"
    /\ faults < MaxFaults
    /\ faults' = faults + 1
    /\ Rollback(c)

-----------------------------------------------------------------------------
LockStep(c) ==
    \/ SelectTopup(c) \/ MissTopup(c) \/ SelectWallet(c)
    \/ LockRow(c) \/ SelectDebitWallet(c) \/ FinalizeRow(c)

FreeStep(c) == InsertCredit(c) \/ CommitCredit(c) \/ InsertDebit(c) \/ CommitSettle(c)

Next ==
    \/ \E o \in Order : InitiateTopup(o)
    \/ \E p \in Payment, status \in {"captured", "failed"} : GatewayEvent(p, status)
    \/ \E r \in Rider : SetWalletStatus(r)
    \/ \E c \in Conn :
        \/ \E e \in sent : Deliver(c, e)
        \/ \E s \in Session, pc \in {"row", "debit"} : BeginSettle(c, s, pc)
        \/ LockStep(c) \/ FreeStep(c)
        \/ BeginNotify(c) \/ UpsertCharger(c) \/ NotifierLeaves(c)
        \/ DeadlockDetected(c) \/ Broken(c)

Spec == Init /\ [][Next]_vars

\* Statements return, PostgreSQL queues the waiters of a row and looks for deadlocks, the
\* pool queues those who wait for a connection, and the gateway delivers a capture until
\* it is acknowledged.
Fairness ==
    /\ \A c \in Conn : /\ WF_vars(FreeStep(c) \/ DeadlockDetected(c))
                      /\ SF_vars(LockStep(c) \/ UpsertCharger(c))
    /\ \A p \in Payment :
        SF_vars(\E c \in Conn : Deliver(c, [payment |-> p, status |-> "captured"]))

FairSpec == Spec /\ Fairness

-----------------------------------------------------------------------------
(* What the wallet promises.                                               *)

AmountOf(e) == e.amount

\* A wallet holds what it held first plus what the ledger says, whatever the
\* transactions that are still open have read or written, and whoever was rolled back.
BalanceIsLedger ==
    \A r \in Rider :
        balance[r] = InitBalance + MapThenSumSet(AmountOf, {e \in ledger : e.rider = r})

\* A captured order is credited once, with the payment it names, and no other order is.
CapturedIsCredited ==
    \A o \in Order :
        {e.key : e \in {f \in ledger : f.key \in Payment /\ OrderOf[f.key] = o}}
            = IF topup[o].status = "captured" THEN {topup[o].payment} ELSE {}

\* Two open transactions never insert the same ledger key, so that the INSERT's ON
\* CONFLICT finds the row of a committed one or none: the row locks taken before it
\* keep the payments of an order, and the settlements of a rider, apart.
KeysSerialised ==
    \A c, d \in Conn :
        (txn[c].inserted /\ txn[d].inserted /\ c # d) => txn[c].key # txn[d].key

\* An event that arrives late does not undo a captured top-up.
CapturedStays ==
    [][\A o \in Order : topup[o].status = "captured" => topup'[o] = topup[o]]_topup

\* Every transaction ends, also those whose rows were locked in opposite orders, unless
\* the whole pool is held by notifications that wait for one connection more.
TransactionsEnd ==
    \A c \in Conn : (txn[c].pc # "idle") ~> (txn[c].pc = "idle" \/ PoolExhausted)

\* The code answers every delivery of such a payment with an error: the amount the gateway
\* captured is not the stored one, or the wallet is blocked.
Refused(p) == OrderOf[p] \in mismatched \/ WalletOf[OrderOf[p]] \notin active

\* What the gateway has captured is credited in the end, whatever attempts failed before
\* and in whatever order the events arrive, with the same exception, and unless it is refused.
CapturesAreCredited ==
    \A p \in Payment :
        ([payment |-> p, status |-> "captured"] \in sent)
            ~> (Posted(p) \/ PoolExhausted \/ Refused(p))

-----------------------------------------------------------------------------
(* Statement by statement, the transactions do what they would do at once.  *)

Atomic == INSTANCE AtomicWallet

\* A commit is one step of the wallet as its callers think of it, on the balance and the
\* ledger of that moment; every other step is none.
ActsAtomically == Atomic!Spec
=============================================================================
