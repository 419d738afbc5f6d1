# Vajra backend: TLA+ models and proofs

Vajra is the backend of an EV charging app, written in Go: riders hold a
prepaid wallet, start and stop charging sessions over HTTP, and are billed from
the wallet when a session ends. The chargers are driven through CitrineOS
(OCPP 1.6); what happens on them is read from Hasura, a GraphQL view of the
CitrineOS database. State lives in PostgreSQL; goroutines and timers in the API
process move it.

## Components

| component | state | operations | interacts with |
|---|---|---|---|
| charging service (`internal/charging/service.go`, `state_machine.go`, `internal/handlers/charging_handler.go`) | `stopPollers`, one goroutine per sync and per poll | StartCharging, StopCharging, sync goroutine, remote stop poller, RecoverStaleStarts, ProcessWebhook (off by default) | repository, wallet, CitrineOS, Hasura, retry queue, hub |
| charging repository (`internal/repositories/charging_repo.go`) | table `charging_sessions` (also chargers, connectors, webhook events) | one SQL statement per method | called by everything above, from many goroutines |
| wallet (`internal/repositories/wallet_repo.go`, `internal/handlers/wallet_handler.go`) | `wallets`, `wallet_transactions`, `wallet_topups` | InitiateTopup, payment webhook, session debit | payment gateway, charging service |
| retry queue and CitrineOS client (`retry_queue.go`, `citrine_client.go`) | `scheduled`, `deadLetter`; failure count and opening time of the circuit breaker | Enqueue, run; dispatch with retries | charging service |
| Hasura client (`station_status_client.go`, `authorization_client.go`) | none | transaction lookups, connector status, authorization upsert | charging service |
| live updates hub (`charging_handler.go`) | websocket connections per session | Add, Remove, Publish | service, riders' apps |
| accounts (`auth_handler.go`, `user_handler.go`, `user_repo.go`, `jwt.go`, `middleware/auth.go`) | users and their wallets, one-time codes, refresh tokens, id tags | send a code, register, create, login, refresh, logout | charging service (the id tag of a start), Hasura (its authorisation) |
| database pool (`internal/db/postgres.go`) | 25 connections | taken by every transaction and statement | everything above |
| rate limiter, error tracker, metrics (`internal/middleware`, `metrics.go`) | counters, error log rows | per request | - |

What is hard in this code is the life of a session. Many actors write the same row: the
two request handlers, the sync goroutines (one per start and one per stop without an
OCPP id), the poller of a stop, the recovery ticker and, where they are switched on, the
webhooks of CitrineOS. None holds anything across its steps: each reads a row, talks to
Hasura or CitrineOS, and writes by a later statement whose WHERE clause may or may not
repeat what was read. The process can die at any point and only the database survives.
Billing has to come out right all the same: once, to the right rider, for the right
transaction.

What makes each component correct:

* charging: a session moves only along the state machine; it names one
  transaction for good, which belongs to it; it is billed once, for what Hasura
  reports of the end of a transaction it names; a start or a polled stop does not
  stay open forever;
* wallet: the balance is the initial amount plus each captured top-up once less
  each session's debit once, and it is never negative;
* retry queue: a command accepted for retry is executed until it succeeds or is
  in the dead letter, by one goroutine at a time;
* circuit breaker: it never stays open for good;
* hub: a subscriber learns that the session is over, no connection is written to
  after its handler closed it, and the lock never stays behind;
* accounts: a one-time code lets one request in, a user comes with a wallet, a
  logout lasts, and a start command carries an authorised tag;
* pool: whoever waits for a connection gets one.

`PROJECT.json` lists the places where this can go wrong, with the properties
that watch them.

## Modules

| module | models |
|---|---|
| `ChargingStore` | every SQL statement on `charging_sessions` that the default mode runs, and the wallet debit, as functions from table to table; no variables |
| `ChargingLifecycle` | one API process in its default configuration (`CHARGING_USE_WEBHOOK_EVENTS=false`): requests, sync goroutines, pollers, recovery, the stop half of the retry queue, crashes, and the chargers behind Hasura |
| `BillingContract` | abstract: what a session and the money it costs may do, with no goroutines in sight |
| `WalletLedger` | the transactions on the wallet statement by statement: the payment webhook and the settlement of a session, row locks, deadlocks, broken connections, the gateway's redelivery, and the connection pool with the webhook that asks it for two |
| `AtomicWallet` | abstract: the wallet as the callers of these transactions think of it, each of them one step |
| `ChargingWebhook` | the same process with `CHARGING_USE_WEBHOOK_EVENTS=true`: `ChargingLifecycle` and the events that CitrineOS pushes, delivered in any order, again, or not at all |
| `CommandQueue` | the retry queue and the circuit breaker of the CitrineOS client, one memory access at a time |
| `LiveUpdates` | the hub and the websockets of one session: its lock, the writers, riders who stall or leave, and what happens when two goroutines write at once |
| `Accounts` | codes, users, tokens and id tags: every request one database or Hasura call at a time, failing at any of them |
| `MCChargingLifecycle`, `MCChargingWebhook`, `MCWalletLedger` | what TLC needs to instantiate these |
| `ChargingLifecycleProofs` | the inductive invariant of the lifecycle, its safety theorems and the money |
| `ChargingBillingProofs` | `ChargingLifecycle` implements `BillingContract`; a session's transaction is its own, and what it pays was reported of a transaction it names |
| `ChargingWebhookProofs` | the inductive invariant of the service with its webhooks and its safety theorems |
| `LedgerSums` | what the amounts of a ledger's entries sum to: no model of code, lemmas for both wallets |
| `WalletLedgerProofs` | the inductive invariant of the wallet, its safety theorems, and that `WalletLedger` implements `AtomicWallet` |
| `CommandQueueProofs` | the inductive invariant of the retry queue and its safety theorems |
| `LiveUpdatesProofs` | the inductive invariant of the hub and its safety theorems |
| `AccountsProofs` | the inductive invariant of the accounts and their safety theorems |

The modules meet where the code does: `ChargingLifecycle` takes from `WalletLedger`
that a settlement is one step, from `CommandQueue` that a command for retry is tried
or given up, and from `Accounts` that a start has an authorised tag (its failure is
`StartAbort`); what `LiveUpdates` publishes are the commits of `ChargingLifecycle`.

### How the lifecycle corresponds to the code

* `sessions` is the table; a `Row` keeps the columns that decide something.
  Times became the two questions asked of them: `old` (is `start_time` past
  `CHARGING_START_TIMEOUT`) and `claimed` (is `stop_poll_claimed_at` within the
  30 s lease). `failure_reason` is `unpaid` when a billing error was stored. The
  status `pending` does not occur: CreateSession inserts `starting`. (The
  integration document describes a `pending` row first; the difference has no
  consequence that a property could show.)
* `req[h]` is a request with its program counter and the few values it carries
  from one database call to the next. Each call is a step. A start passes
  `StartCheckWallet` (with the connector's status), `StartCheckUser`,
  `StartCheckConnector`, `StartCreate`, `StartRemoteID`, `StartDispatch`; a stop
  `StopRead`, `StopMark`, `StopSend`, `StopReload` and one of `StopReplySync`,
  `StopReplyPoll`.
* `sync[w]` is a sync goroutine: `SyncLoad` (the row its iteration decides from),
  `SyncMatch` (findTransactionForStartingSession), `SyncFetch`
  (GetTransactionByID), `SyncApply` (applyTransactionSnapshot, one commit).
* `poll[s]` is the poller of a session, `stopPollers` the domain where it is not
  `off`: `PollFetch`, `PollBegin` (the unlocked read and the choice of the energy
  in finalizeStoppedSessionFromTransaction), `PollCommit`, `PollGiveUp` (revert to
  charging), `PollExit` (the deferred clean-up).
* a database transaction is one step, taken at its commit. Its rows are locked
  from the first write, so nothing can come between; the one read that is not
  covered by such a lock and feeds a later write is a step of its own.
* `cloud[t]` is Hasura's view of a transaction: which connector (and whether
  Hasura knows it), which remote start id, which sessions existed before it,
  whether it has ended, and its two energies: `total` (`totalKwh`) and `register` (the
  last sample of the meter). `ended` is the total at the end, for the properties.
* a lookup is the set of its possible answers. `GetTransactionByID` puts the sample in
  the place of a total of zero if it can read one (`MeterReadings`);
  `GetTransactionByOCPPTransactionID` knows the total only. The poller goes from the one
  to the other when the first finds nothing or fails (`Resolved`), and to the energy of
  the row when the answer's is zero (`PollBegin`).
* ids are what the code takes them for: `ParseInt` reads any id that looks like an
  integer (`Numeric`) as a primary key, and a statement that compares one value with
  `transaction_ref` and `ocpp_transaction_id` matches either (`Matching`).
* `ticker` is the goroutine of the recovery loop. It publishes what it failed, on
  websockets without a deadline, and may never come back from that (`stalled`).
* `stopCmd[s]` records what became of the last stop command; it restricts
  nothing and serves `StopIsSent`.

Assumptions about the world outside the repository, each visible in the model:
a connector runs one transaction at a time; a charger uses a remote start id
only if it was given one, on that connector (`TxStart`); the ids that
`makeOCPPRemoteStartID` derives from session ids do not collide; every
transaction has an OCPP id, and a primary key is an integer (`StoreAssumption`); the two
energies of a transaction only grow, and except where `LateMeter` is TRUE they do not
after its end. All connectors are on one charger, because no
lookup returns a transaction of another one. Nothing is assumed of OCPP ids: two
transactions may share one, and one may read like a primary key.

### How the wallet corresponds to the code

`ChargingLifecycle` takes a settlement for one step. `WalletLedger` opens it up.

* `balance`, `ledger`, `topup` are the committed rows of `wallets`,
  `wallet_transactions` (by `idempotency_key`) and `wallet_topups`; `session` has
  the columns that FinalizeStoppedSessionTx sets. `lock` says which connection
  holds a row, `txn[c]` where the transaction on connection `c` is and what it
  has found out so far.
* a top-up passes `Deliver` (PaymentWebhook), `SelectTopup` or `MissTopup` (FOR
  UPDATE on the top-up and the two early commits), `SelectWallet` (FOR UPDATE on
  the wallet), `InsertCredit` (ON CONFLICT DO NOTHING), `CommitCredit`. A
  settlement passes `BeginSettle`, for a sync goroutine `LockRow` (its attach or
  meter update), `SelectDebitWallet`, `InsertDebit`, `FinalizeRow`, `CommitSettle`.
  The poller locks the wallet first and the row last, the sync goroutine the
  other way round.
* writes are seen at the commit, where they are made in one go; under the locks
  nobody else can see or change those rows before (`ActsAtomically` would fail).
* `DeadlockDetected` and `Broken` roll a transaction back at any statement.
* a session's price does not change between settlements; what it may be is the matter
  of `PaysItsMeter`.
* a debit that the wallet refuses (blocked, or too little on it: `Refusing`) does not
  undo the settlement: the error is recorded in the row and the session is over.
* the pool is the set of connections. A status_notification (`BeginNotify`) holds one
  while UpsertConnectorStatusTx writes the charger on another (`UpsertCharger`), which
  has to be free for a moment; it gives up its own when PostgreSQL refuses its second
  statement, or when CitrineOS closes the request (`NotifierLeaves`).
  `PoolExhausted` is the state in which only that helps.
* the status `failed` of an event stands for all that are not `captured`. The
  gateway captures one payment of an order, and knows an order only after its intent was
  stored, because the rider is shown it only then.
* the amount is a floating-point number; the gateway is asked for its rounded hundredfold
  and the table rounds it to two decimals. Whether the two agree is decided when the
  order is made (`mismatched`), and an order whose amount does not is refused at every
  delivery. A wallet is blocked and freed from outside (`SetWalletStatus`); no code of
  the backend does it, and both transactions look at the status.

### How the webhooks correspond to the code

* `ChargingWebhook` keeps every action of `ChargingLifecycle`, because the service
  does: the switch only adds a writer. `recorded` is `ocpp_webhook_events`,
  `hook[d]` a delivery of stop_transaction in the middle of ProcessWebhook,
  `refused` the stop commands a charger has turned down. A start command may be
  turned down at any time after it was sent.
* an event is what it says (its type, its session or transaction, its reading), and
  that stands for its id. It may be delivered as soon as what it reports has
  happened, at any later time, or never.
* ProcessWebhook is one database transaction that starts with the INSERT of the
  event's id (`Record`). An event that is recorded changes nothing, and one whose id
  another delivery has just inserted waits for that delivery's end
  (`NotRecorded`). Events that act through one UPDATE are one step:
  `RemoteStartResult`, `RemoteStopResult`, `StartTransaction`, `MeterValues`.
  stop_transaction decides from what it reads without a lock and asks Hasura before
  it writes: `StopTransaction`, `LookupTransaction`, `CommitStop`. A delivery may
  fail before its commit (`StopFails`, `StartTransactionFails`), and CitrineOS may
  deliver it again.
* start_transaction writes the OCPP id into `transaction_ref`, where the sync
  goroutine writes Hasura's primary key. `OcppId` keeps the two apart; the
  types of `ChargingLifecycle` do not hold here and `WebhookTypeOK` replaces them.
  Where an OCPP id reads like a primary key the lookups take it for one, as the code does;
  in the run none does.
* which of several rows is the latest is not known to the model: any of them.
* the energies of the events (`meter_start_kwh`, `energy_kwh`, `meter_stop_kwh`) are any
  that was reported of the transaction so far (`Reported`): nothing in the code relates
  them to each other or to Hasura's. start_transaction stores its own in the row,
  stop_transaction prefers Hasura's total to its own and its own to the row's. An
  accepted result only records its event and is left out.
* `status_notification` is left out. It writes the connector cache, which no decision
  reads (and PostgreSQL refuses its statement: `charging_repo.go:459` coalesces a
  text and a jsonb).

### How the queue corresponds to the code

* a `worker` is a goroutine that sends commands: one of a request (`Dispatch`), or
  one of a retry task. `Enqueue` turns the caller's worker into the task's goroutine;
  the caller itself has nothing more to do with the queue. The map `scheduled` is
  guarded by a mutex, so each of its accesses is one step.
* the client's fields have no lock. `failures` and `openedAt` are read and written
  one access at a time: the increment is a load (`NotAnswered`) and a store
  (`StoreFailures`), the reset two stores (the count, the time), the opening time two
  words written one after the other (`StampWall`, `StampExt`). Only this write is split:
  the reset of the time (`ClearOpenedAt`) and its reads (`IsZero`, `Cooled`) take one
  step each, although they are of two words too. Of the torn values one matters: a
  monotonic reading without its flag is a date far in the future (`Torn`). The
  count is only ever compared with the threshold, where the model lets it stop.
* `fate` records what became of a key's last task. It restricts nothing.
* backoff and cooldown times have no length: a sleep ends when it ends, and the
  cooldown passes (`CooldownPasses`) at any time after the opening.

### How the live updates correspond to the code

* `conns` is the hub's map, `pending` and `Readers` the two halves of its RWMutex: a
  handler that has asked for the write half (`AskLock`) keeps new readers out and has
  it when the last one is gone (`HasLock`). The critical sections of Add and Remove
  have no calls in them and are one step.
* `pub[p]` is a publication: of a stop request (`StopReply`), which answers with the
  row as it read it; of a goroutine or a webhook that saw the session go on, or that ended
  it in the same step as the commit (`Progress`, `Finish`); of a remote_start_result that
  refuses, which is published whatever the UPDATE found (`Refusal`). It carries what it
  knew then, takes the read half (`RLock`), and writes to each connection in turn.
* `sub[s]` is LiveUpdatesWS: `Upgrade`, `Add`, the snapshot (`Load` and a write), the
  read loop (`ReadFails`), `Remove` and then Close.
* a write is two steps, so that two can overlap (`Collision`). gorilla/websocket then
  panics, or does not notice. A panic in a request is recovered (gin or net/http) and
  runs what was deferred, the lock's release included, and the connections that were
  still to be written to get nothing; in a goroutine of the service it ends the process.
  `endedBy` is who ended the session, and `untold` are the connections that a webhook
  which did so and panicked has left out. Mixed-up frames break the connection. These
  three are the outcomes, and each may happen.
* a connection takes `Buffer` messages that nobody reads, and then its writer waits.
* the hub belongs to a process: riders on another one hear nothing of this one's
  publications. StartCharging's publication comes before its caller knows the
  session's id and is not an action.

### How the accounts correspond to the code

* `req[c]` is a request and the call it makes next. A login passes `SelectOTP` and
  `DeleteOTP` (the transaction of VerifyPhoneOTP), `FetchUser`, for a new rider
  `InsertUser` and `InsertWallet` (the transaction of Create), `MarkPhoneVerified`,
  `Mint`, `SetAuthToken`; Register begins at Create, CreateUser ends with it; a
  refresh passes its check (`Refresh`), `Mint` and `SetAuthToken`, a logout
  `ClearAuthToken`; a start of charging `SetIDTag` if the user has no tag,
  `GetAuthorization`, `CreateAuthorization`, `StartTransaction`.
* `otpLock` is the row lock of SELECT FOR UPDATE, which the upsert of SendOTP and
  other logins wait for. `newUser` is the unique key of a row that is inserted and not
  committed: another INSERT of the phone number waits for it.
* NOW() is the beginning of the transaction (`began`), not the moment of the
  comparison; what a login read stays locked until its DELETE.
* a token is a function of the user's id and of the second it was made in, so that is
  its name; two tokens of one second are the same. A clock tick is one second, or all
  the time it takes a code or a token to expire.
* tags are the rider's own: `given` one at Register, or `derived` from the user's id.
  A tag somebody else has fails the INSERT by its unique index, which is `Fail`.
* `users.auth_token` is NULL until the first token is stored and after a logout, and the
  code scans it into a plain string (`user_repo.go:97,109`, `models/user.go:14`): a user
  without a token is an error of GetByPhoneNumber and of GetByID (`Readable`). A login
  that finds such a user ends there (`FetchUser`), and charging cannot be started
  (`StartCharging`).
* an authorisation is a record of the tag in Hasura. Its status and tenant are read and
  not looked at (`authorization_client.go:188-191`), so neither is in the model.
* `issued`, `logins`, `out`, `commands`, a request's `crossed` and a code's number are
  histories for the properties and restrict nothing but the bound on codes.

## Runs

Every run is small in ids and exhaustive in interleavings. `CHECK_DEADLOCK` is
FALSE in the runs of the lifecycle, the webhooks, the wallet and the hub: an idle server
with its bounds used up has nothing to do, and a websocket closed is closed. The goroutines
of `CommandQueue` and the requests of `Accounts` never run out of work, and deadlock is
checked there.

| run | instance | checks |
|---|---|---|
| `lifecycle_single` | 1 session, 2 transactions, 1 request at a time, 2 sync goroutines, 1 attempt, 1 stop, 1 crash, failing calls; the OCPP id of either transaction reads like the other's primary key | types, `IInv`, `WalletConserved`, `PaysItsMeter`, `FailedIsUntouched`, `StatusFollowsStateMachine`, `RefWriteOnce`, `KeepsBillingContract` |
| `lifecycle_pair` | 2 sessions, 2 riders, 2 connectors, 1 transaction, 2 concurrent requests, 2 sync goroutines | `BilledOnce`, `AttachedBelongs` |
| `lifecycle_live` | 2 sessions, 1 transaction, 1 sync goroutine, 2 attempts, 1 stop, 1 crash, failing calls, no energy, fairness | `StartingResolves`, `PolledStopResolves` |
| `wallet` | 1 rider, 1 order with 2 payments, 2 sessions of which one is free, 2 connections, notifications, 1 broken connection or blocked wallet, orders that match or do not, fairness | types, `BalanceIsLedger`, `CapturedIsCredited`, `KeysSerialised`, `CapturedStays`, `ActsAtomically`, `TransactionsEnd`, `CapturesAreCredited` |
| `webhook` | 1 session, 2 connectors, 1 transaction, 1 request at a time, 1 sync goroutine, 1 delivery of stop_transaction at a time, 2 events recorded, any energy in them | `WebhookTypeOK`, `DebitsSettled`, `PaysForItsOwn`, `StoppedIsFinal` |
| `command_queue` | 1 command, 2 goroutines, 2 attempts of 2 requests each, breaker opens at 2 failures, fairness | types, `OneRunner`, `TaskHasFate`, `TasksEnd`, `BreakerCloses`, no deadlock |
| `accounts` | 1 phone number, 2 requests, 2 values of a code and 2 codes sent, 2 ticks of which each outlives a code or a token, failures, fairness | types, `OtpLogsInOnce`, `UsersHaveWallets`, `LogoutLasts`, `CommandsAreAuthorised`, `NewestCodeSurvives`, `RequestsEnd`, no deadlock |
| `live_updates` | 2 connections, 1 request that may be a stop or a webhook, 1 goroutine, connections that take 1 message unread, fairness | types, `EndIsSeen`, `NoWriteAfterClose`, `HubMoves` |

Bounds and why they are enough. What a session can suffer comes from the actors
on its own row, and those of one session are all there at once in
`lifecycle_single`: two sync goroutines (one from the start, one from a stop),
the poller, the sweep and a successor after a crash; a second transaction on the
connector is the wrong one to attach. A balance of 2 with sessions that cost at
most 1 leaves room for a second, wrong, debit. Two sessions interact only through
a rider, a connector or a transaction; `lifecycle_pair` has two of each that can
compete for one transaction, whose connector may be unnamed in Hasura. The
liveness run needs more than one attempt of a poller, a start that is lost with its
process or its call, and another one that the sweep comes to after it, and gives all
three; energies decide nothing there. `MaxKwh` is 1: a total and a sample are either zero
(the fallbacks to the sample and to the row's energy) or not, each before or after a
growth.
Transactions of different wallets share no row but that of an order or a session,
which belongs to one wallet: one rider is the crowded case. Every conflict, and the
longest cycle of waiting (a wallet and a session row), is between two connections;
each of them goes through any number of transactions, of any kind. Two connections
are also the smallest pool that notifications can exhaust and a single one cannot.
The opening balance is zero and the session that costs something needs the top-up, which
pays for it once and leaves as much again: a refused debit, an accepted one and a second,
wrong, one are all within reach.
The webhooks add to the actors on one row, and one session has all of them; the
second connector gives a stop_transaction a wrong place to look. Two recorded events are
enough for a start and a stop, a stop and a late start, or either with a meter value or a
refusal; with one rider, that a debit is from the session's own wallet is left to the
theorem (`DebitsAreSettled`). `NoTwins` keeps TLC from exploring a state twice that
differs only in what nothing reads again (the age of a row past `starting`, a ticker that
has stalled). What two sessions
can do to each other through the webhooks is `paid_twice`. Commands of different
keys meet only in the breaker, whose fields do not know keys; a lost update or a
torn time takes two goroutines, and two failures, the threshold, open the breaker
inside one command or across two. Users share nothing but unique keys that make a
request fail, which any request may; what two requests of one rider can do to each other
is all in `accounts`, where each slot takes requests of every kind one after the
other, and a second code can be sent, with the same digits or others, while a login
holds the first. Sessions share the hub's lock only: two connections are one that stalls,
collides or goes and another that must not suffer, and two publishers are the smallest
number that can collide on a connection without its handler.

Fairness (`Fairness`): the 30 s ticker (`RecoverStaleStarts`), the clock (`Age`) and the
goroutine of a poller up to the commit that its publication follows (`PollWork`), all of
which the Go scheduler and the timers justify; the lookups of a poller are bounded by
HTTP timeouts and its attempts by a counter. The ticker is fair while it runs: its
publication may stall it for good, which `StartingResolves` excepts. What a poller does
after its publication (`PollExit`) is not assumed to happen. Nothing is assumed of
chargers, requests, riders or the network: a transaction may run for ever, a call may
fail every time, and a sync goroutine may never be fast enough. `PolledStopResolves`
starts from a running poller because the code does not give every stop one: one that
arrives while the previous poller is cleaning up, or after a crash, gets none until it
is asked for again. `wallet` assumes that statements return (weak fairness), that
PostgreSQL serves the waiters of a row lock in their order (strong fairness: a waiter
sees the lock free infinitely often, and its turn comes), that its deadlock detector
runs, and that the gateway delivers a capture until it is answered with 200 (strong
fairness: a connection is free infinitely often), and that the pool serves its waiters
in their order. Nothing is assumed of CitrineOS, which may hold an exhausted pool for as
long as it waits for an answer. `accounts` assumes that calls return (weak fairness; a
call that fails has returned) and that PostgreSQL serves the waiters of a code's row and
of a phone number's unique key (strong fairness). `live_updates` assumes that the
goroutines of the process run, and nothing of the riders: a connection without deadlines
can stand still for ever, and `HubMoves` says that this is the only way for the hub to
do so. `command_queue` assumes that goroutines run and their requests and sleeps end
(timeouts and timers), that the cooldown passes, and that riders keep asking (strong
fairness: what closes the breaker is the next command); nothing is assumed of
CitrineOS's answers. A settlement that PostgreSQL rolled back is not retried by itself:
that is the poller's next attempt, or the next iteration of the goroutine, in
`ChargingLifecycle`.

### Where the code and what is said of it differ

Each of these runs checks one statement of the repository, and TLC shows a
behaviour of the code without it.

| run | what happens |
|---|---|
| `admission_race` | two concurrent starts of one rider on one connector both read that nothing is active, then both insert |
| `lost_stop` | a stop crosses the attach of the transaction: the handler has read a row without an OCPP id, or the sync goroutine one that was still `starting`; the row ends `stopping` with an id, and no RequestStopTransaction was asked for |
| `stale_cost` | a goroutine with an older snapshot cannot attach to the row that was just finalised, falls back to the meter update, which has no condition on the status, and changes the energy and cost of a paid row |
| `paid_twice` | a start_transaction arrives after the sync goroutine has settled its session; it attaches the transaction to the next session on the connector, under its other id, and that session pays for it too |

Other effects that the models show, and that no run counts as a violation:

* a command that fails while the retry goroutine of its key is finishing is dropped:
  `Enqueue` finds the key still scheduled (`Accepts`), so the command is neither
  retried nor a dead letter, of which `docs/charging_integration.md:79-80` says it is
  one or the other;
* with as many status_notification webhooks at once as the pool has connections, each
  waits for one more, and settlements and top-ups wait with them until CitrineOS
  hangs up (`PoolExhausted`);
* a rider who stops reading a websocket stalls the publication that writes to it; once
  anybody connects or leaves, the write half is asked for and no session of the process
  is published any more (`Stalled`). If the publication is the sweep's, the goroutine of
  the ticker hangs in it and no stale start is failed until a restart (`ticker`);
* when the request of a webhook that ended a session panics in its publication, gin
  recovers it, and the riders whose turn had not come are never told (`untold`);
* the last message on a websocket may be older than the one before it: a snapshot or a
  stop request's reply read before the end and written after it;
* a rider whose `auth_token` is NULL - who has logged out, was made by CreateUser, or whose
  registration ended before its SetAuthToken - cannot be read any more: every login
  answers 500 after it has used up a code, a start of charging fails, and so does a top-up,
  until somebody writes the column (`Readable`). `LogoutLasts` is the other side of it;
* a refresh or a login that was past its check when a logout cleared the token gives the
  rider a token again; of two refreshes with one token both are answered, and the first
  answer's token is dead unless they fell in one second;
* an order of an amount with more than two decimals may be captured by the gateway and
  refused by the backend at every delivery, so that the rider is never credited
  (`mismatched`);
* a first login without a name is refused after its code was deleted, and a request that
  fails after that point needs a new code too;
* a session that ends without a total in Hasura is billed by whoever settles it from what
  it knows: the last sample, the energy of the row, or nothing when the lookup by primary
  key failed and the one by OCPP id, which knows no sample, answered (`BillFor`);
* an OCPP id that reads like another transaction's primary key sends a lookup or an UPDATE
  to that transaction: the session then names both, and may be settled for either
  (`NamedBy`);
* the second settlement of a paid session compares the (spent) balance before the
  idempotency key and records `insufficient wallet balance` on the paid row;
* the breaker can stay open past its cooldown: `BreakerCloses` excepts an opening
  time of which two goroutines wrote one half each, and then every command is
  refused until one that was already under way succeeds;
* with the webhooks on, a stop_transaction settles the row it read, also one that
  the sweep has failed since; and one that finds no row while Hasura is down, or
  before the sync goroutine attaches, is recorded all the same, so that a
  repetition does nothing.

## Proofs

Every safety property that a passing run checks (the type invariants, the other
invariants, the action properties and both refinements) is also a theorem, for every set
of sessions, riders, connectors, transactions, requests, goroutines, connections, codes
and so on, and for every bound, from the assumptions on the constants alone. Each
component has one inductive invariant, the lifecycle two more on top of it (`Belonging`,
`Metered`); every one of them holds in TLC on the instance of the component's run.

### The lifecycle

From the named assumptions `StoreAssumption` and `LifecycleAssumption` alone (the
constants have their types, NULL is no id, every transaction has an OCPP id):

* `IInv`, the inductive invariant, adds to the types: a row is bound to a
  transaction exactly when it has an OCPP id, and is not while `starting` or
  `failed` (`RowsOK`); references are unique (`RefsUnique`); what a request, a
  sync goroutine or a poller remembers of a row is still true of it in the ways
  that matter (`ReqOK`, `SyncOK`, `PollOK`); every debit belongs to a stopped,
  bound session of its own rider, and is that session's only one (`LedgerOK`).
  None of the promises is inductive without it: `UpdateSessionMeterValuesTx` and
  `FinalizeStoppedSessionTx` do not look at the status, so that a failed row
  stays failed follows from its having no reference, and that a debit is the only
  one of its session from what all the other rows and goroutines may hold.
* The argument: `TableStep` says what any step may do to the table. The Store
  lemmas show it once for each SQL statement; `SettleStep`, `SyncApplyStep`,
  `HandlerDataStep`, `PollDataStep` show it for each action through the
  statements it runs; `RowsPersist`, `LedgerPersists`, `ReqStep`, `SyncStep`,
  `PollerStep` show that what is remembered survives any such step.
* From it: `TypeCorrectness`, `TransactionBilledOnce`, `FailedStaysUntouched`,
  `StatusMachine`, `RefsWrittenOnce`.
* `RidersPayOnce` is about a sum. `MapThenSumSet` is a recursive function over the
  subsets of the ledger that takes its elements in an order nobody knows. `LedgerSums`
  shows that the order does not matter: an inclusion-minimal ledger for which taking one
  entry out did not leave the rest of the total cannot exist. The provers have no
  induction over sets to offer, but that a collection of finite sets has a minimal
  member is an ordinary fact (`SmallestSet`). A debit enters the ledger in the step
  that takes it from the wallet (`Enters`), so `NextConserved` keeps the books.
* `BillingContractKept`: every step of the lifecycle opens, binds, voids or
  closes a session of `BillingContract`, or is a stutter of it, under the mapping
  that forgets everything but phase, rider, transaction, ledger and balances.
* `OwnTransaction` needs what `IInv` leaves out: `Belonging` says that the transaction
  a goroutine has matched, and the one a row names, began after the row and ran on its
  connector as far as Hasura knows; and whose remote start id a transaction carries
  (`RemotesOK`). A match may be old when it is committed, but Hasura's answers to these
  questions do not change (`CloudStep`).
* `MeterIsPaid` follows energies. `Metered` says that what a goroutine remembers of an
  ended transaction is a total no older than its end, or, if there was none, something
  that was reported of a transaction its row names (`SyncMetered`, `PollMetered`); that a
  row shows only energies reported of what it names (`RowsMetered`); and that totals grow
  from what they were at the end (`CloudMetered`). It needs no hypothesis on ids or on
  late meters, because `PaysItsMeter` says what the lookups and the matching of ids can
  promise: with a total at the end nothing older and nothing else is billed, and without
  one nothing that was never reported.

### The service with its webhooks

* `WInv` shares little with `IInv`. A row may name its transaction by either id, two rows
  may name one transaction (`paid_twice`), a row may be settled without a transaction, or
  after it had failed. What every writer leaves true is: a row that exists keeps its
  rider and its connector, a stopped one is not attached again (`HookRowStep`); its energy
  was reported of a transaction that it names, or that ran on its connector (`HookRowOK`,
  `Delivered`); what a goroutine or a delivery remembers was reported of such a
  transaction, for the row it is going to write (`SyncerOK`, `PollerOK`, `StopOK`); debits
  are of stopped rows, one each, for an energy reported likewise (`DebitsOK`).
* `HookStep` says what any step does: nothing to the database, or a commit that moves
  each row by `HookRowStep` and enters at most one debit. The lemmas up to `HookWebhooks`
  show it for each statement and each action; `HookLasting` and those after it show that
  what is remembered survives such a step.
* From it: `WebhookTypes`, `DebitsAreSettled`, `StoppedStays`, `WebhookRidersPayOnce` and
  `ChargesAreOwn`. Lookups by id have nothing but the id to go by, and an id that reads
  like another one leads to a transaction on another connector; the row then names that
  one, and this is how far the promise goes.

### The wallet

From `WalletAssumption` (types, positive top-ups, payments and sessions have
different keys) and no bound on riders, orders, payments, sessions or connections:

* The invariant says of every open transaction which rows it has locked at the
  statement it is at, and that what it has read under those locks is still so: an order
  that is being credited is not captured (`Credits`), a settlement that has compared the
  balance finds the same answer at its commit (`Settles`). `Respects` says what a step
  of one connection leaves to the others; locks are what makes it true.
* From it: `TypeCorrect` (no wallet is overdrawn), `BooksBalance` (with `LedgerSums`),
  `CreditedOnce`, `KeysApart`, `CaptureIsFinal`, and `Atomicity`: each step is a step of
  `AtomicWallet` or changes nothing its callers can see.

### The retry queue

From `QueueAssumption` alone (there is a command, the limits are positive):

* `QueueInv` adds to the two promises what makes them inductive: a goroutine that
  sleeps has attempts left (`SleepersGoOn`), and one that is about to free its key
  has settled the task's fate (`DoneIsSettled`). That no second task reopens the fate
  in between follows from `OneRunner`.
* Most steps are in the middle of a command (`Moves`) and keep the goroutines of every
  key; `EnqueuePromises` and `TaskDonePromises` are the two that change them.
* From it: `LimitsKept`, `OneGoroutinePerCommand` and `NoTaskIsLost`. Whatever the
  unlocked breaker does, it can delay the queue but not corrupt it.

### The live updates

From `LiveAssumption` alone (a connection takes a message unread, and publishers and
connections are different things), for any number of both:

* `MembersOK` and `TodoOK` tie the hub's map to the handlers between Add and Remove, and a
  publication's connections to the map. `NewsOK` follows the news: a rider whose snapshot
  said that the session goes on, although it is over, has been told since, or the
  publication that ended the session still has that connection to write to, or was a
  webhook's and panicked before it (`untold`).
* From it: `TypeCorrect`, `EndSeen`, `NoLateWrite`.

### The accounts

From `AccountsAssumption` alone (the limits are natural numbers, a code
and a token live at least a tick, NULL is nothing else), for any number of phones,
requests and codes:

* `IInv` says of every request in flight that what it found is still so when it acts on
  it. `CodesOK`: a code that is stored has let nobody in, no two rows hold the same one,
  and a login between its SELECT and its DELETE has the row locked and unchanged.
  `UsersOK`: the unique key of a user that is being inserted belongs to one request, and
  the user does not exist yet. `TagsOK`: a request that looked at a tag, or stored
  one, still finds it in the user's row, because all that can be stored for a user
  without a tag is the derived one. `TokensOK`: a user who has logged out has no token, so
  nobody comes past a check for that user, and a request that is past its check was
  crossed by the logout.
* `Begins`, `Moves`, `Ends` say what the steps do to requests and `UserSteps` what they
  write in a user's row; each part of the invariant is then kept by the steps that
  leave it alone in one go (`CodesKept`, `UsersKept`, `TagsKept`, `TokensKept`) and by
  the few others one by one.
* From it: `Types`, `LogsInOnce`, `NewestSurvives`, `HaveWallets`, `Lasts`,
  `Authorised`.

### Only model-checked

The liveness properties: `StartingResolves`, `PolledStopResolves`, `TransactionsEnd`,
`CapturesAreCredited`, `TasksEnd`, `BreakerCloses`, `RequestsEnd`, `HubMoves`. They rest
on fairness, and ENABLED is beyond the provers here. The four violated
properties are counterexamples, for which a run is all there is to show.

## Not modelled, and what comes next

Left out for good: hashing, JWT and gateway signatures, GraphQL text, metrics, the
error tracker (it writes a log row and feeds nothing back) and the endpoints that only
read, the rate limiter (one critical section under one mutex, whose fixed window lets
two windows' worth through at a boundary), and the generated API description. In
this order, still to be written:

1. `StopPollLease`: two API processes and the 30 s claim on a session's poller.
2. the choice among the sources of a connector's status in the Hasura client.

Still to prove: what the webhook mode keeps of the billing contract.
