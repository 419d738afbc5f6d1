---------------------------- MODULE ChargingStore ----------------------------
(***************************************************************************)
(* The repository layer of the charging backend: every SQL statement that  *)
(* changes a row of charging_sessions, and the wallet debit, as a function *)
(* from the table before the statement to the table after it.  A statement *)
(* whose WHERE clause matches no row leaves the table as it was.           *)
(*                                                                         *)
(* The operators have no variables; the modules that model the service,    *)
(* the sync goroutines and the pollers apply them inside their actions.    *)
(***************************************************************************)
EXTENDS Integers, FiniteSets

CONSTANTS
    Session,        \* ids of charging_sessions rows
    User,
    Connector,      \* a (charger_id, connector_id) pair
    Tx,             \* primary keys of Hasura's Transactions table
    OcppId,         \* the OCPP transactionId each of those rows carries
    Numeric,        \* the ids of either kind that read like an integer
    Null,           \* SQL NULL / empty string
    CostPerKwh      \* the tariff, in currency units per kWh

ASSUME StoreAssumption ==
    /\ Null \notin Session \cup Tx \cup User \cup Connector
    /\ Tx \subseteq Numeric /\ Null \notin Numeric
    /\ \A t \in Tx : OcppId[t] # Null
    /\ CostPerKwh \in Nat \ {0}

OcppIds == {OcppId[t] : t \in Tx}

\* parseInt: 0, which is the primary key of no row, unless the text is an integer.  An
\* OCPP id that is one is taken for a primary key.
ParseInt(id) == IF id \in Numeric THEN id ELSE Null

Status == {"absent", "starting", "charging", "stopping", "stopped", "failed"}

\* "pending" is the column's default, but the only INSERT writes "starting".
Live == {"starting", "charging", "stopping"}

Row == [status  : Status,
        user    : User \cup {Null},
        conn    : Connector \cup {Null},
        remote  : BOOLEAN,              \* remote_start_id IS NOT NULL
        ref     : Tx \cup {Null},       \* transaction_ref
        ocpp    : OcppIds \cup {Null},  \* ocpp_transaction_id
        kwh     : Nat,                  \* energy_kwh
        cost    : Nat,
        billed  : BOOLEAN,              \* billed_at IS NOT NULL
        unpaid  : BOOLEAN,              \* failure_reason holds a billing error
        claimed : BOOLEAN,              \* stop_poll_claimed_at is within the lease
        old     : BOOLEAN]              \* start_time is past CHARGING_START_TIMEOUT

Cost(kwh) == kwh * CostPerKwh

NoRow == [status |-> "absent", user |-> Null, conn |-> Null, remote |-> FALSE,
          ref |-> Null, ocpp |-> Null, kwh |-> 0, cost |-> 0, billed |-> FALSE,
          unpaid |-> FALSE, claimed |-> FALSE, old |-> FALSE]

-----------------------------------------------------------------------------
(* Reads.                                                                  *)

ActiveOfUser(db, u) == {s \in Session : db[s].user = u /\ db[s].status \in Live}

ActiveOnConnector(db, c) == {s \in Session : db[s].conn = c /\ db[s].status \in Live}

\* transaction_ref = $1 OR ocpp_transaction_id = $1, whichever kind of id $1 is.
Matching(db, id) == {s \in Session : db[s].ref = id \/ db[s].ocpp = id}

-----------------------------------------------------------------------------
(* Writes.                                                                 *)

CreateSession(db, s, u, c) ==
    [db EXCEPT ![s] = [NoRow EXCEPT !.status = "starting", !.user = u, !.conn = c]]

UpdateRemoteStartID(db, s) == [db EXCEPT ![s].remote = TRUE]

UpdateSessionStopping(db, s) ==
    IF db[s].status \in {"starting", "charging"}
    THEN [db EXCEPT ![s].status = "stopping", ![s].claimed = FALSE]
    ELSE db

\* Mutant: the WHERE clause forgets the status list.
UpdateSessionStateUnguarded(db, s, allowedFrom, toStatus) ==
    [db EXCEPT ![s].status = toStatus]

UpdateSessionState(db, s, allowedFrom, toStatus) ==
    IF db[s].status \in allowedFrom
    THEN [db EXCEPT ![s].status = toStatus]
    ELSE db

CanClaim(db, s) == db[s].status = "stopping" /\ ~db[s].claimed

ClaimStopPolling(db, s) == [db EXCEPT ![s].claimed = TRUE]

ReleaseStopPolling(db, s) == [db EXCEPT ![s].claimed = FALSE]

\* Mutant: the UPDATE overwrites a reference that is already there.
AttachableAnyRef(db, s, t) == db[s].status \in {"starting", "stopping"}

\* Mutant: transaction_ref has no unique index.
RefNeverTaken(db, s, t) == FALSE

\* Whether the UPDATE of AttachTransactionToSessionTx finds its row, and whether
\* it would give two rows one transaction_ref, which the unique index refuses.
Attachable(db, s, t) ==
    db[s].status \in {"starting", "stopping"} /\ db[s].ref \in {Null, t}

RefTaken(db, s, t) == \E o \in Session \ {s} : db[o].ref = t

\* ref and ocpp name the transaction: its primary key and its OCPP id for a caller that
\* has read it in Hasura.
AttachTransactionToSession(db, s, ref, ocpp, kwh) ==
    [db EXCEPT
        ![s].ocpp   = IF db[s].ref = Null THEN ocpp ELSE @,
        ![s].ref    = ref,
        ![s].kwh    = kwh,
        ![s].cost   = Cost(kwh),
        ![s].status = IF @ = "stopping" THEN @ ELSE "charging"]

\* No condition on the status: a row that is already stopped is rewritten too.
UpdateSessionMeterValues(db, id, kwh) ==
    [s \in Session |->
        IF s \in Matching(db, id)
        THEN [db[s] EXCEPT !.kwh = kwh, !.cost = Cost(kwh),
                           !.status = IF @ = "starting" THEN "charging" ELSE @]
        ELSE db[s]]

\* No condition on the status here either.
FinalizeStoppedSession(db, s, kwh, billed, billErr) ==
    [db EXCEPT
        ![s].status = "stopped",
        ![s].kwh    = kwh,
        ![s].cost   = Cost(kwh),
        ![s].billed = @ \/ billed,
        ![s].unpaid = @ \/ billErr]

\* Mutant: the sweep forgets that only starting rows time out.
StaleRows(db) == {s \in Session : db[s].old}

StaleStarts(db) == {s \in Session : db[s].status = "starting" /\ db[s].old}

\* Mutant: the sweep takes a row with a remote start id for one that was dispatched.
FailUndispatchedStarts(db) ==
    [s \in Session |-> IF s \in StaleStarts(db) /\ ~db[s].remote
                       THEN [db[s] EXCEPT !.status = "failed"]
                       ELSE db[s]]

FailStaleStartingSessions(db) ==
    [s \in Session |-> IF s \in StaleStarts(db)
                       THEN [db[s] EXCEPT !.status = "failed"]
                       ELSE db[s]]

-----------------------------------------------------------------------------
(* DebitWalletForSessionTx.  The balance is compared before the idempotency *)
(* key is looked at; the key is the session id.                             *)

Debit == [key : Session, user : User, amount : Nat]

DebitRefused(bal, u, amount) == amount > 0 /\ bal[u] < amount

\* Mutant: the INSERT has no idempotency key.
DebitAlwaysInserted(bal, led, u, amount, s) == amount > 0 /\ bal[u] >= amount

DebitInserted(bal, led, u, amount, s) ==
    /\ amount > 0
    /\ bal[u] >= amount
    /\ ~\E e \in led : e.key = s

DebitLedger(bal, led, u, amount, s) ==
    IF DebitInserted(bal, led, u, amount, s)
    THEN led \cup {[key |-> s, user |-> u, amount |-> amount]}
    ELSE led

\* Mutant: the wallet is updated although the INSERT found the key taken.
DebitBalanceAgain(bal, led, u, amount, s) ==
    IF amount > 0 /\ bal[u] >= amount THEN [bal EXCEPT ![u] = @ - amount] ELSE bal

DebitBalance(bal, led, u, amount, s) ==
    IF DebitInserted(bal, led, u, amount, s)
    THEN [bal EXCEPT ![u] = @ - amount]
    ELSE bal
=============================================================================
