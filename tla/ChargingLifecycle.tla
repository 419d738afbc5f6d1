-------------------------- MODULE ChargingLifecycle --------------------------
(***************************************************************************)
(* One API process driving charging sessions in its default configuration, *)
(* CHARGING_USE_WEBHOOK_EVENTS=false: nothing is pushed to the backend, it  *)
(* learns about a charge by polling Hasura.  The actors share the database *)
(* and nothing else:                                                        *)
(*                                                                         *)
(*   req[h]   an HTTP request being served (POST /charging/start or /stop)  *)
(*   sync[w]  a goroutine of syncSessionFromActiveTransaction               *)
(*   poll[s]  the goroutine of pollRemoteStopResult for a session, if any   *)
(*            (the process keeps at most one per session in stopPollers)    *)
(*   the 30 s recovery ticker, the stop half of the retry queue, crashes    *)
(*   cloud[t] the charger and CitrineOS, seen through Hasura's Transactions *)
(*                                                                         *)
(* A database transaction is one step, taken at its commit: the rows it     *)
(* writes are locked from their first write on.  The one unlocked read that *)
(* a later write of the same transaction depends on, in the poller's        *)
(* finalisation, is a step of its own (PollBegin).                          *)
(***************************************************************************)
EXTENDS ChargingStore, FiniteSetsExt

CONSTANTS
    Handler,            \* requests that can be in flight at once
    Worker,             \* sync goroutines that can run at once
    InitBalance,        \* what every wallet holds at first
    MinStartBalance,    \* CHARGING_MIN_START_BALANCE
    MaxKwh,             \* bound on an energy
    MaxAttempts,        \* remoteStopMaxAttempts
    MaxCrashes,         \* bound on the crashes of a behaviour
    MaxStops,           \* bound on its stop requests
    Faults,             \* the actors whose database and HTTP calls may fail
    LateMeter,          \* a finished transaction's energies may still grow
    Named               \* whether Hasura knows a transaction's connector: {TRUE} or BOOLEAN

ASSUME LifecycleAssumption ==
    /\ InitBalance \in Nat /\ MinStartBalance \in Nat
    /\ MaxKwh \in Nat /\ MaxAttempts \in Nat \ {0} /\ MaxCrashes \in Nat /\ MaxStops \in Nat
    /\ Faults \subseteq {"start", "stop", "sync", "lookup", "poll", "retry"}
    /\ LateMeter \in BOOLEAN /\ Named \subseteq BOOLEAN

VARIABLES
    sessions,   \* table charging_sessions
    balance,    \* wallets.balance by user
    ledger,     \* wallet_transactions: the debits
    cloud, req, sync, poll,
    stopCmd,    \* RequestStopTransaction for the last stop of a session: not asked
                \* for, in the retry queue, sent, or given up (dead letter, crash)
    ticker,     \* "running", or "stalled" in a publication that does not end
    crashes, stops

db      == <<sessions, balance, ledger>>
vars    == <<sessions, balance, ledger, cloud, req, sync, poll, stopCmd,
             ticker, crashes, stops>>
process == <<ticker, crashes, stops>>

IdleReq  == [pc |-> "idle", user |-> Null, conn |-> Null, sess |-> Null, ocpp |-> Null]
IdleSync == [pc |-> "idle", sess |-> Null, status |-> "absent", ref |-> Null,
             ocpp |-> Null, remote |-> FALSE, tx |-> Null, kwh |-> 0, finished |-> FALSE]
NoPoll   == [pc |-> "off", attempt |-> 0, kwh |-> 0]
NoTx     == [phase |-> "none", conn |-> Null, named |-> TRUE, remote |-> Null,
             since |-> {}, register |-> 0, total |-> 0, ended |-> 0]

ReqPc  == {"idle", "user", "connector", "create", "remote", "dispatch",
           "mark", "send", "reload", "reply"}
SyncPc == {"idle", "load", "match", "fetch", "apply"}
PollPc == {"off", "fetch", "begin", "commit", "giveup", "exit"}

Transaction == [phase : {"none", "active", "finished"}, conn : Connector \cup {Null},
                named : BOOLEAN, remote : Session \cup {Null}, since : SUBSET Session,
                register : Nat, total : Nat, ended : Nat]
Request     == [pc : ReqPc, user : User \cup {Null}, conn : Connector \cup {Null},
                sess : Session \cup {Null}, ocpp : OcppIds \cup {Null}]
Syncer      == [pc : SyncPc, sess : Session \cup {Null}, status : Status,
                ref : Tx \cup {Null}, ocpp : OcppIds \cup {Null}, remote : BOOLEAN,
                tx : Tx \cup {Null}, kwh : Nat, finished : BOOLEAN]
Poller      == [pc : PollPc, attempt : 0 .. MaxAttempts, kwh : Nat]

TypeOK ==
    /\ sessions \in [Session -> Row]
    /\ balance \in [User -> Nat]
    /\ ledger \subseteq Debit
    /\ cloud \in [Tx -> Transaction]
    /\ req \in [Handler -> Request]
    /\ sync \in [Worker -> Syncer]
    /\ poll \in [Session -> Poller]
    /\ stopCmd \in [Session -> {"none", "queued", "sent", "dead"}]
    /\ ticker \in {"running", "stalled"}
    /\ crashes \in 0 .. MaxCrashes /\ stops \in 0 .. MaxStops

Init ==
    /\ sessions = [s \in Session |-> NoRow]
    /\ balance = [u \in User |-> InitBalance]
    /\ ledger = {}
    /\ cloud = [t \in Tx |-> NoTx]
    /\ req = [h \in Handler |-> IdleReq]
    /\ sync = [w \in Worker |-> IdleSync]
    /\ poll = [s \in Session |-> NoPoll]
    /\ stopCmd = [s \in Session |-> "none"]
    /\ ticker = "running" /\ crashes = 0 /\ stops = 0

-----------------------------------------------------------------------------
(* The charger and CitrineOS.  A connector runs one transaction at a time;  *)
(* it carries the remote start id it was asked to use, or none when it was  *)
(* started at the charger.  "finished" is !IsActive or a terminal state.    *)
(* The connectors are those of one charger: on another charger no lookup    *)
(* finds a transaction.                                                     *)
(*                                                                         *)
(* Hasura has two energies of a transaction: totalKwh, and the samples of   *)
(* the charger's register.  Each only grows, in its own time; "ended" is    *)
(* what totalKwh was when the transaction ended.                            *)

Service == <<req, sync, poll, stopCmd, process>>

TxStart(t, c, r, n) ==
    /\ cloud[t].phase = "none"
    /\ \A o \in Tx : ~(cloud[o].phase = "active" /\ cloud[o].conn = c)
    /\ r # Null => sessions[r].remote /\ sessions[r].conn = c
    /\ cloud' = [cloud EXCEPT ![t] =
                    [phase |-> "active", conn |-> c, named |-> n, remote |-> r,
                     register |-> 0, total |-> 0, ended |-> 0,
                     since |-> {s \in Session : sessions[s].status # "absent"}]]
    /\ UNCHANGED <<db, Service>>

TxMeter(t) ==
    /\ cloud[t].phase \in IF LateMeter THEN {"active", "finished"} ELSE {"active"}
    /\ \/ cloud[t].register < MaxKwh /\ cloud' = [cloud EXCEPT ![t].register = @ + 1]
       \/ cloud[t].total < MaxKwh /\ cloud' = [cloud EXCEPT ![t].total = @ + 1]
    /\ UNCHANGED <<db, Service>>

TxFinish(t) ==
    /\ cloud[t].phase = "active"
    /\ cloud' = [cloud EXCEPT ![t].phase = "finished", ![t].ended = cloud[t].total]
    /\ UNCHANGED <<db, Service>>

(* What the lookups answer: the set of possible answers, empty for none.    *)

Snapshot(t, kwh) == [kwh |-> kwh, finished |-> cloud[t].phase = "finished"]

ByID(id) == {t \in Tx : t = id /\ cloud[t].phase # "none"}

\* Two transactions with one OCPP id are an error.
ByOCPPTransactionID(id) ==
    LET found == {t \in Tx : OcppId[t] = id /\ cloud[t].phase # "none"} IN
    {t \in found : found = {t}}

\* The last sample stands in for a total of zero, if there is one and it is readable.
MeterReadings(t) == IF cloud[t].total > 0 THEN {cloud[t].total} ELSE 0 .. cloud[t].register

GetTransactionByID(id) ==
    UNION {{Snapshot(t, k) : k \in MeterReadings(t)} : t \in ByID(id)}

GetTransactionByOCPPTransactionID(id) ==
    {Snapshot(t, cloud[t].total) : t \in ByOCPPTransactionID(id)}

-----------------------------------------------------------------------------
(* A sync goroutine is started by the handlers of start and stop.           *)

Spawn(w, s) ==
    /\ sync[w].pc = "idle"
    /\ sync' = [sync EXCEPT ![w] = [IdleSync EXCEPT !.pc = "load", !.sess = s]]

(* POST /charging/start.  Each check is a read of its own; nothing is held  *)
(* from the checks to the INSERT.  A request that a check rejects ends; one *)
(* that the wallet or the connector's status rejects never begins.  The ids *)
(* of Session bound how many sessions a behaviour creates.                  *)

GoReq(h, pc) == req' = [req EXCEPT ![h].pc = pc]

EndReq(h) == req' = [req EXCEPT ![h] = IdleReq]

IdsLeft ==
    Cardinality({s \in Session : sessions[s].status = "absent"})
        > Cardinality({h \in Handler : req[h].pc \in {"user", "connector", "create"}})

StartCheckWallet(h, u, c) ==
    /\ req[h].pc = "idle"
    /\ IdsLeft
    /\ balance[u] >= MinStartBalance
    /\ req' = [req EXCEPT ![h] = [IdleReq EXCEPT !.pc = "user", !.user = u, !.conn = c]]
    /\ UNCHANGED <<db, cloud, sync, poll, stopCmd, process>>

StartCheckUser(h) ==
    /\ req[h].pc = "user"
    /\ IF ActiveOfUser(sessions, req[h].user) = {} THEN GoReq(h, "connector") ELSE EndReq(h)
    /\ UNCHANGED <<db, cloud, sync, poll, stopCmd, process>>

StartCheckConnector(h) ==
    /\ req[h].pc = "connector"
    /\ IF ActiveOnConnector(sessions, req[h].conn) = {} THEN GoReq(h, "create") ELSE EndReq(h)
    /\ UNCHANGED <<db, cloud, sync, poll, stopCmd, process>>

StartCreate(h, s) ==
    /\ req[h].pc = "create"
    /\ sessions[s].status = "absent"
    /\ sessions' = CreateSession(sessions, s, req[h].user, req[h].conn)
    /\ req' = [req EXCEPT ![h] = [IdleReq EXCEPT !.pc = "remote", !.sess = s]]
    /\ UNCHANGED <<balance, ledger, cloud, sync, poll, stopCmd, process>>

StartRemoteID(h) ==
    /\ req[h].pc = "remote"
    /\ sessions' = UpdateRemoteStartID(sessions, req[h].sess)
    /\ GoReq(h, "dispatch")
    /\ UNCHANGED <<balance, ledger, cloud, sync, poll, stopCmd, process>>

\* RequestStartTransaction is sent, or left to the retry queue; the charger may act
\* on it late or never in both cases, so they are one.
StartDispatch(h, w) ==
    /\ req[h].pc = "dispatch"
    /\ Spawn(w, req[h].sess)
    /\ EndReq(h)
    /\ UNCHANGED <<db, cloud, poll, stopCmd, process>>

\* A call fails between the INSERT and the dispatch: the row stays as it is.
StartAbort(h) ==
    /\ "start" \in Faults
    /\ req[h].pc \in {"remote", "dispatch"}
    /\ EndReq(h)
    /\ UNCHANGED <<db, cloud, sync, poll, stopCmd, process>>

-----------------------------------------------------------------------------
(* POST /charging/stop.  The row read first decides, after the UPDATE,      *)
(* whether a stop command is sent.                                          *)

StopRead(h, s) ==
    /\ req[h].pc = "idle"
    /\ sessions[s].status \in Live
    /\ stops < MaxStops /\ stops' = stops + 1
    /\ req' = [req EXCEPT ![h] = [IdleReq EXCEPT
                    !.pc = IF sessions[s].status = "stopping" THEN "reply" ELSE "mark",
                    !.sess = s, !.ocpp = sessions[s].ocpp]]
    /\ UNCHANGED <<db, cloud, sync, poll, stopCmd, ticker, crashes>>

StopMark(h) ==
    LET s == req[h].sess IN
    /\ req[h].pc = "mark"
    /\ sessions' = UpdateSessionStopping(sessions, s)
    /\ stopCmd' = [stopCmd EXCEPT ![s] =
                     IF @ = "queued" \/ sessions[s].status \notin {"starting", "charging"}
                     THEN @ ELSE "none"]
    /\ GoReq(h, IF req[h].ocpp = Null THEN "reload" ELSE "send")
    /\ UNCHANGED <<balance, ledger, cloud, sync, poll, process>>

StopSend(h) ==
    /\ req[h].pc = "send"
    /\ \/ stopCmd' = [stopCmd EXCEPT ![req[h].sess] = "sent"]
       \/ "stop" \in Faults /\ stopCmd' = [stopCmd EXCEPT ![req[h].sess] = "queued"]
    /\ GoReq(h, "reload")
    /\ UNCHANGED <<db, cloud, sync, poll, process>>

StopReload(h) ==
    /\ req[h].pc = "reload"
    /\ req' = [req EXCEPT ![h].pc = "reply", ![h].ocpp = sessions[req[h].sess].ocpp]
    /\ UNCHANGED <<db, cloud, sync, poll, stopCmd, process>>

\* The handler goes on with the row StopCharging returned: without an OCPP id it
\* starts a sync goroutine, with one StartRemoteStopPolling.
StopReplySync(h, w) ==
    /\ req[h].pc = "reply" /\ req[h].ocpp = Null
    /\ Spawn(w, req[h].sess)
    /\ EndReq(h)
    /\ UNCHANGED <<db, cloud, poll, stopCmd, process>>

StopReplyPoll(h) ==
    LET s == req[h].sess
        start == /\ sessions[s].ocpp # Null
                 /\ poll[s].pc = "off"
                 /\ CanClaim(sessions, s)
    IN
    /\ req[h].pc = "reply" /\ req[h].ocpp # Null
    /\ sessions' = IF start THEN ClaimStopPolling(sessions, s) ELSE sessions
    /\ poll' = IF start THEN [poll EXCEPT ![s] = [pc |-> "fetch", attempt |-> 1, kwh |-> 0]]
                        ELSE poll
    /\ EndReq(h)
    /\ UNCHANGED <<balance, ledger, cloud, sync, stopCmd, process>>

StopAbort(h) ==
    /\ "stop" \in Faults
    /\ req[h].pc \in {"mark", "reload", "reply"}
    /\ EndReq(h)
    /\ UNCHANGED <<db, cloud, sync, poll, stopCmd, process>>

-----------------------------------------------------------------------------
(* syncSessionFromActiveTransaction.  The row it loads at the top of an      *)
(* iteration is what it decides from after two lookups in Hasura.           *)

EndSync(w) == sync' = [sync EXCEPT ![w] = IdleSync]

NextIteration(w) ==
    sync' = [sync EXCEPT ![w] = [IdleSync EXCEPT !.pc = "load", !.sess = sync[w].sess]]

SyncLoad(w) ==
    LET row == sessions[sync[w].sess] IN
    /\ sync[w].pc = "load"
    /\ IF row.status \in {"failed", "stopped"}
       THEN EndSync(w)
       ELSE sync' = [sync EXCEPT ![w] = [IdleSync EXCEPT
                        !.pc = IF ParseInt(row.ref) = Null THEN "match" ELSE "fetch",
                        !.sess = sync[w].sess, !.status = row.status, !.ref = row.ref,
                        !.ocpp = row.ocpp, !.remote = row.remote, !.tx = ParseInt(row.ref)]]
    /\ UNCHANGED <<db, cloud, req, poll, stopCmd, process>>

\* findTransactionForStartingSession: the transaction with the session's remote start
\* id (two of them are an error), else the only one created on its connector since
\* the session was, for a session that is starting or stopping.
ByRemoteStartID(w) ==
    IF sync[w].remote
    THEN {t \in Tx : cloud[t].phase # "none" /\ cloud[t].remote = sync[w].sess}
    ELSE {}

\* The fallback query takes a transaction without a connector for one on any of them.
MayBeOn(t, c) == cloud[t].named => cloud[t].conn = c

\* Mutant: the fallback query has no lower bound on createdAt.
FallbackAnyAge(w) ==
    IF sync[w].status \in {"starting", "stopping"}
    THEN {t \in Tx : cloud[t].phase # "none" /\ MayBeOn(t, sessions[sync[w].sess].conn)}
    ELSE {}

Fallback(w) ==
    IF sync[w].status \in {"starting", "stopping"}
    THEN {t \in Tx : /\ cloud[t].phase # "none"
                     /\ MayBeOn(t, sessions[sync[w].sess].conn)
                     /\ sync[w].sess \in cloud[t].since}
    ELSE {}

Candidates(w) == IF ByRemoteStartID(w) # {} THEN ByRemoteStartID(w) ELSE Fallback(w)

SyncMatch(w) ==
    /\ sync[w].pc = "match"
    /\ IF Cardinality(Candidates(w)) = 1
       THEN \E t \in Candidates(w) :
                sync' = [sync EXCEPT ![w].pc = "fetch", ![w].tx = t]
       ELSE NextIteration(w)
    /\ UNCHANGED <<db, cloud, req, poll, stopCmd, process>>

SyncFetch(w) ==
    /\ sync[w].pc = "fetch"
    /\ IF ByID(sync[w].tx) = {}
       THEN NextIteration(w)
       ELSE \E tx \in GetTransactionByID(sync[w].tx) :
                sync' = [sync EXCEPT ![w].pc = "apply", ![w].kwh = tx.kwh,
                                     ![w].finished = tx.finished]
    /\ UNCHANGED <<db, cloud, req, poll, stopCmd, process>>

\* A lookup or the database fails, or there is no answer: the next tick tries again.
SyncFault(w) ==
    /\ "sync" \in Faults
    /\ sync[w].pc \in {"match", "fetch", "apply"}
    /\ NextIteration(w)
    /\ UNCHANGED <<db, cloud, req, poll, stopCmd, process>>

\* The deadline of the goroutine passes, or its reload of the row fails.
SyncExpire(w) ==
    /\ sync[w].pc = "load"
    /\ EndSync(w)
    /\ UNCHANGED <<db, cloud, req, poll, stopCmd, process>>

(* applyTransactionSnapshot in one commit, by what it does to the row.       *)

Attaches(w) ==
    /\ sync[w].ref = Null
    /\ Attachable(sessions, sync[w].sess, sync[w].tx)

\* The table after the attach, or after the meter update that stands in for it when
\* no row could be attached.  With a reference already loaded nothing is written.
Synced(w) ==
    LET v == sync[w] IN
    IF Attaches(w) THEN AttachTransactionToSession(sessions, v.sess, v.tx, OcppId[v.tx], v.kwh)
    ELSE IF v.ref = Null THEN UpdateSessionMeterValues(sessions, v.tx, v.kwh)
    ELSE sessions

\* The rows RETURNING may hand back, whose first is the session gone on with; none for
\* a row that was loaded with another reference than the transaction's.
SyncTarget(w) ==
    IF Attaches(w) \/ sync[w].ref = sync[w].tx THEN {sync[w].sess}
    ELSE IF sync[w].ref = Null THEN Matching(sessions, sync[w].tx)
    ELSE {}

\* The session was loaded "stopping" without an OCPP id and now has one.
OwesStop(w, o) ==
    sync[w].status = "stopping" /\ sync[w].ocpp = Null /\ Synced(w)[o].ocpp # Null

EnqueueStop(o) == [stopCmd EXCEPT ![o] = "queued"]

Settle(d, o, kwh) ==
    LET u == d[o].user
        c == Cost(kwh)
    IN
    /\ sessions' = FinalizeStoppedSession(d, o, kwh, DebitInserted(balance, ledger, u, c, o),
                                          DebitRefused(balance, u, c))
    /\ ledger' = DebitLedger(balance, ledger, u, c, o)
    /\ balance' = DebitBalance(balance, ledger, u, c, o)

SyncApply(w) ==
    /\ sync[w].pc = "apply"
    /\ ~(Attaches(w) /\ RefTaken(sessions, sync[w].sess, sync[w].tx))
    /\ \E o \in SyncTarget(w) :
        /\ IF sync[w].finished
           THEN Settle(Synced(w), o, sync[w].kwh) /\ EndSync(w)
           ELSE /\ sessions' = Synced(w)
                /\ UNCHANGED <<balance, ledger>>
                /\ NextIteration(w)
        /\ stopCmd' = IF OwesStop(w, o) THEN EnqueueStop(o) ELSE stopCmd
    /\ UNCHANGED <<cloud, req, poll, process>>

\* No row to go on with, or the unique index refuses the attach: nothing is written.
SyncApplyNothing(w) ==
    /\ sync[w].pc = "apply"
    /\ \/ SyncTarget(w) = {}
       \/ Attaches(w) /\ RefTaken(sessions, sync[w].sess, sync[w].tx)
    /\ IF sync[w].finished /\ ~Attaches(w) THEN EndSync(w) ELSE NextIteration(w)
    /\ UNCHANGED <<db, cloud, req, poll, stopCmd, process>>

-----------------------------------------------------------------------------
(* pollRemoteStopResult.  PollFetch reloads the row and reads its           *)
(* transaction; the row's status is read again before anything is written.  *)

GoPoll(s, pc) == poll' = [poll EXCEPT ![s].pc = pc]

\* Mutant: one attempt too many.
PollFetchOffByOne(s) ==
    /\ poll[s].pc = "fetch"
    /\ IF poll[s].attempt <= MaxAttempts
       THEN poll' = [poll EXCEPT ![s].attempt = @ + 1]
       ELSE GoPoll(s, "giveup")
    /\ UNCHANGED <<db, cloud, req, sync, stopCmd, process>>

\* resolveTransactionForStopPolling: the lookup by OCPP id follows one by primary key
\* that finds nothing, and one that fails.
Resolved(row) ==
    LET byID == GetTransactionByID(ParseInt(row.ref)) IN
    byID \cup IF byID = {} \/ "lookup" \in Faults
              THEN GetTransactionByOCPPTransactionID(row.ocpp)
              ELSE {}

Ended(row) == {tx \in Resolved(row) : tx.finished}

\* Mutant: an attempt that finds the transaction running does not count.
PollFetchForever(s) ==
    /\ poll[s].pc = "fetch"
    /\ IF sessions[s].status # "stopping" THEN GoPoll(s, "exit")
       ELSE \E tx \in Ended(sessions[s]) :
                poll' = [poll EXCEPT ![s].pc = "begin", ![s].kwh = tx.kwh]
    /\ UNCHANGED <<db, cloud, req, sync, stopCmd, process>>

PollFetch(s) ==
    LET row == sessions[s] IN
    /\ poll[s].pc = "fetch"
    /\ IF row.status # "stopping" THEN GoPoll(s, "exit")
       ELSE \/ \E tx \in Ended(row) :
                    poll' = [poll EXCEPT ![s].pc = "begin", ![s].kwh = tx.kwh]
            \/ /\ Ended(row) = {} \/ Ended(row) # Resolved(row)
               /\ IF poll[s].attempt < MaxAttempts
                  THEN poll' = [poll EXCEPT ![s].attempt = @ + 1]
                  ELSE GoPoll(s, "giveup")
    /\ UNCHANGED <<db, cloud, req, sync, stopCmd, process>>

\* A failed lookup uses up the attempt; a failed database call ends the goroutine.
PollFault(s) ==
    /\ \/ /\ "lookup" \in Faults /\ poll[s].pc = "fetch" /\ poll[s].attempt < MaxAttempts
          /\ poll' = [poll EXCEPT ![s].attempt = @ + 1]
       \/ /\ "lookup" \in Faults /\ poll[s].pc = "fetch" /\ poll[s].attempt = MaxAttempts
          /\ GoPoll(s, "giveup")
       \/ "poll" \in Faults /\ poll[s].pc \notin {"off", "exit"} /\ GoPoll(s, "exit")
    /\ UNCHANGED <<db, cloud, req, sync, stopCmd, process>>

\* Mutant: the energy stored in the row is preferred to the transaction's.
PollBeginStoredEnergy(s) ==
    /\ poll[s].pc = "begin"
    /\ IF sessions[s].status = "stopping"
       THEN poll' = [poll EXCEPT ![s].pc = "commit", ![s].kwh = sessions[s].kwh]
       ELSE GoPoll(s, "exit")
    /\ UNCHANGED <<db, cloud, req, sync, stopCmd, process>>

PollBegin(s) ==
    /\ poll[s].pc = "begin"
    /\ IF sessions[s].status = "stopping"
       THEN poll' = [poll EXCEPT ![s].pc = "commit",
                                 ![s].kwh = IF @ = 0 THEN sessions[s].kwh ELSE @]
       ELSE GoPoll(s, "exit")
    /\ UNCHANGED <<db, cloud, req, sync, stopCmd, process>>

PollCommit(s) ==
    /\ poll[s].pc = "commit"
    /\ Settle(sessions, s, poll[s].kwh)
    /\ GoPoll(s, "exit")
    /\ UNCHANGED <<cloud, req, sync, stopCmd, process>>

PollGiveUp(s) ==
    /\ poll[s].pc = "giveup"
    /\ sessions' = UpdateSessionState(sessions, s, {"stopping"}, "charging")
    /\ GoPoll(s, "exit")
    /\ UNCHANGED <<balance, ledger, cloud, req, sync, stopCmd, process>>

\* The deferred clean-up: the lease is given back, whoever holds it by now, and the
\* entry of stopPollers goes away.
PollExit(s) ==
    /\ poll[s].pc = "exit"
    /\ \/ sessions' = ReleaseStopPolling(sessions, s)
       \/ "poll" \in Faults /\ UNCHANGED sessions
    /\ poll' = [poll EXCEPT ![s] = NoPoll]
    /\ UNCHANGED <<balance, ledger, cloud, req, sync, stopCmd, process>>

-----------------------------------------------------------------------------
(* Time, the recovery ticker, the retry queue and crashes.                  *)

\* CHARGING_START_TIMEOUT passes since the row was inserted.
Age(s) ==
    /\ sessions[s].status = "starting" /\ ~sessions[s].old
    /\ sessions' = [sessions EXCEPT ![s].old = TRUE]
    /\ UNCHANGED <<balance, ledger, cloud, Service>>

\* remoteStopPollLease passes since the claim.
LeaseExpire(s) ==
    /\ sessions[s].claimed
    /\ sessions' = [sessions EXCEPT ![s].claimed = FALSE]
    /\ UNCHANGED <<balance, ledger, cloud, Service>>

\* The goroutine of the ticker publishes each row it failed, and is stuck for good when the
\* hub waits for a rider who does not read.
RecoverStaleStarts ==
    /\ ticker = "running"
    /\ StaleStarts(sessions) # {}
    /\ sessions' = FailStaleStartingSessions(sessions)
    /\ ticker' \in {"running"} \cup IF sessions' = sessions THEN {} ELSE {"stalled"}
    /\ UNCHANGED <<balance, ledger, cloud, req, sync, poll, stopCmd, crashes, stops>>

\* The queued stop command gets through, or uses up its attempts.
RetryStop(s) ==
    /\ stopCmd[s] = "queued"
    /\ \/ stopCmd' = [stopCmd EXCEPT ![s] = "sent"]
       \/ "retry" \in Faults /\ stopCmd' = [stopCmd EXCEPT ![s] = "dead"]
    /\ UNCHANGED <<db, cloud, req, sync, poll, process>>

\* The process dies and is started again; only the database outlives it.
Crash ==
    /\ crashes < MaxCrashes
    /\ crashes' = crashes + 1
    /\ req' = [h \in Handler |-> IdleReq]
    /\ sync' = [w \in Worker |-> IdleSync]
    /\ poll' = [s \in Session |-> NoPoll]
    /\ stopCmd' = [s \in Session |-> IF stopCmd[s] = "queued" THEN "dead" ELSE stopCmd[s]]
    /\ ticker' = "running"
    /\ UNCHANGED <<db, cloud, stops>>

-----------------------------------------------------------------------------
HandlerNext(h) ==
    \/ \E u \in User, c \in Connector : StartCheckWallet(h, u, c)
    \/ StartCheckUser(h) \/ StartCheckConnector(h)
    \/ \E s \in Session : StartCreate(h, s) \/ StopRead(h, s)
    \/ StartRemoteID(h) \/ StartAbort(h)
    \/ \E w \in Worker : StartDispatch(h, w) \/ StopReplySync(h, w)
    \/ StopMark(h) \/ StopSend(h) \/ StopReload(h) \/ StopReplyPoll(h) \/ StopAbort(h)

SyncNext(w) ==
    \/ SyncLoad(w) \/ SyncMatch(w) \/ SyncFetch(w)
    \/ SyncApply(w) \/ SyncApplyNothing(w) \/ SyncFault(w) \/ SyncExpire(w)

PollWork(s) == PollFetch(s) \/ PollBegin(s) \/ PollCommit(s) \/ PollGiveUp(s)

PollStep(s) == PollWork(s) \/ PollExit(s)

CloudNext(t) ==
    \/ \E c \in Connector, r \in Session \cup {Null}, n \in Named : TxStart(t, c, r, n)
    \/ TxMeter(t) \/ TxFinish(t)

Next ==
    \/ \E h \in Handler : HandlerNext(h)
    \/ \E w \in Worker : SyncNext(w)
    \/ \E s \in Session : PollStep(s) \/ PollFault(s) \/ Age(s) \/ LeaseExpire(s) \/ RetryStop(s)
    \/ \E t \in Tx : CloudNext(t)
    \/ RecoverStaleStarts
    \/ Crash

Spec == Init /\ [][Next]_vars

\* The clock never stops, the ticker sweeps as long as its goroutine is not stuck, and a
\* poller goes on up to the commit that is followed by its publication.  Nothing is
\* assumed of chargers, requests, the network, or what comes after a publication.
Fairness ==
    /\ WF_vars(RecoverStaleStarts)
    /\ \A s \in Session : WF_vars(Age(s)) /\ WF_vars(PollWork(s))

FairSpec == Spec /\ Fairness

-----------------------------------------------------------------------------
(* What the service promises.                                              *)

\* A rider pays for a session once: the ledger has one debit per session, and the
\* wallets hold what they held less those debits, whichever of the poller, the sync
\* goroutines and their successors after a crash settle it, and however often.
AmountOf(e) == e.amount

DebitsOf(u) == {e \in ledger : e.user = u}

WalletConserved ==
    /\ \A e, f \in ledger : e.key = f.key => e = f
    /\ \A u \in User :
        balance[u] + MapThenSumSet(AmountOf, DebitsOf(u)) = InitBalance

\* One charging transaction is billed to one session only, although two sessions
\* that slip past the admission checks both look for it on their connector.
BilledOnce ==
    \A e, f \in ledger :
        e # f => /\ sessions[e.key].ref # Null
                 /\ sessions[e.key].ref # sessions[f.key].ref

\* The transactions a row names, by the one column or the other: an OCPP id that reads
\* like another transaction's primary key names both.
NamedBy(row) == {t \in Tx : row.ref = t \/ row.ocpp = t}

\* An energy that some lookup may have reported of a transaction up to now.
Reported(t) == (0 .. cloud[t].register) \cup (0 .. cloud[t].total)

\* What a session may be billed for the end of t: a total of t no older than its end, or,
\* if there was no total by then, an energy reported of a transaction it names.
BillFor(row, t) ==
    IF cloud[t].ended > 0 THEN cloud[t].ended .. cloud[t].total
    ELSE UNION {Reported(o) : o \in NamedBy(row)}

\* A stopped session is settled for the end of a transaction it names: debited that from
\* its own rider, or marked unpaid, or nothing was due.  No finaliser bills from a snapshot
\* of a running transaction, from a stale row when there is a total, or for a transaction
\* the session does not name, and none stops a session for nothing.
PaysItsMeter ==
    \A s \in Session :
        LET row   == sessions[s]
            debit == {e \in ledger : e.key = s}
        IN
        IF row.status = "stopped"
        THEN \E t \in NamedBy(row) :
                /\ cloud[t].phase = "finished"
                /\ \E k \in BillFor(row, t) :
                    \/ debit = {[key |-> s, user |-> row.user, amount |-> Cost(k)]} /\ row.billed
                    \/ debit = {} /\ (row.unpaid \/ k = 0)
        ELSE debit = {}

\* The recovery sweep gives up on a row only when no transaction was attached to it,
\* and nothing done later by a goroutine that still holds the row attaches or bills it.
FailedIsUntouched ==
    \A s \in Session :
        sessions[s].status = "failed" =>
            /\ sessions[s].ref = Null /\ sessions[s].kwh = 0
            /\ ~sessions[s].billed /\ ~\E e \in ledger : e.key = s

\* A row is attached to a transaction that began after the row was inserted and that
\* ran on the row's own connector, as far as Hasura knows.
AttachedBelongs ==
    \A s \in Session :
        LET t == sessions[s].ref IN
        t # Null => /\ MayBeOn(t, sessions[s].conn)
                    /\ s \in cloud[t].since

\* state_machine.go's table; starting -> stopped is an attach and a finalisation in
\* one commit.
CanTransition(from, to) ==
    to \in CASE from = "absent"   -> {"starting"}
             [] from = "starting" -> {"charging", "stopping", "failed", "stopped"}
             [] from = "charging" -> {"stopping", "stopped", "failed"}
             [] from = "stopping" -> {"charging", "stopped", "failed"}
             [] OTHER             -> {}

\* No step of any actor moves a row along an edge the state machine does not have:
\* stopped and failed rows stay so whatever stale snapshot a goroutine acts on.
StatusStep ==
    \A s \in Session :
        \/ sessions'[s].status = sessions[s].status
        \/ CanTransition(sessions[s].status, sessions'[s].status)

StatusFollowsStateMachine == [][StatusStep]_sessions

\* Once a row names a transaction it names it for good, with its OCPP id: what the
\* pollers look up and the stop commands carry is not swapped under them.
RefStep ==
    \A s \in Session :
        sessions[s].ref # Null =>
            sessions'[s].ref = sessions[s].ref /\ sessions'[s].ocpp = sessions[s].ocpp

RefWriteOnce == [][RefStep]_sessions

\* A row whose start nobody completes - the request died with the process or was never
\* dispatched - leaves "starting" by the recovery sweep, as long as the ticker is not stuck
\* in a publication.
StartingResolves ==
    \A s \in Session :
        (sessions[s].status = "starting") ~>
            (sessions[s].status # "starting" \/ ticker = "stalled")

\* A session whose stop is being polled does not stay "stopping": it is finalised or
\* goes back to "charging", unless the process dies.
PolledStopResolves ==
    \A s \in Session, n \in 0 .. MaxCrashes :
        (poll[s].pc = "fetch" /\ crashes = n) ~>
            (sessions[s].status # "stopping" \/ crashes # n)

-----------------------------------------------------------------------------
(* The lifecycle implements the billing contract.                          *)

Phase(status) ==
    CASE status = "absent"  -> "none"
      [] status = "stopped" -> "closed"
      [] status = "failed"  -> "void"
      [] OTHER              -> "open"

Contract == INSTANCE BillingContract WITH
    phase <- [s \in Session |-> Phase(sessions[s].status)],
    owner <- [s \in Session |-> sessions[s].user],
    tx    <- [s \in Session |-> sessions[s].ref]

\* Whatever the handlers, the sync goroutines, the pollers, the recovery sweep and a
\* restart do in between, every step is a step of the contract or changes none of it.
KeepsBillingContract == Contract!Spec

-----------------------------------------------------------------------------
(* The inductive invariant behind the promises, in named parts.            *)

\* A row has a rider, and may have a remote start id, once it exists, and a reference to
\* a transaction exactly when it has an OCPP id; it has neither while it is starting or
\* after it failed, and without them it has no energy and is not billed.
RowOK(row) ==
    /\ row.status # "absent" => row.user \in User
    /\ row.remote => row.status # "absent"
    /\ row.status \in {"absent", "starting", "failed"} => row.ref = Null
    /\ row.ref = Null <=> row.ocpp = Null
    /\ row.ref = Null => row.kwh = 0 /\ ~row.billed

RowsOK == \A s \in Session : RowOK(sessions[s])

RefsUnique ==
    \A s, o \in Session :
        s # o /\ sessions[s].ref # Null => sessions[s].ref # sessions[o].ref

\* A request works for a rider, then on a row that exists.
ReqOK ==
    \A h \in Handler :
        /\ req[h].pc \in {"user", "connector", "create"} => req[h].user \in User
        /\ req[h].pc \in {"remote", "dispatch", "mark", "send", "reload", "reply"} =>
            req[h].sess \in Session /\ sessions[req[h].sess].status # "absent"

\* A sync goroutine works on a row that exists; the reference it loaded is the row's.
SyncOK ==
    \A w \in Worker :
        /\ sync[w].pc # "idle" =>
            sync[w].sess \in Session /\ sessions[sync[w].sess].status # "absent"
        /\ sync[w].pc \in {"fetch", "apply"} => sync[w].tx \in Tx
        /\ sync[w].pc # "idle" /\ sync[w].ref # Null =>
            sessions[sync[w].sess].ref = sync[w].ref

\* A poller works on a row that has a transaction.
PollOK == \A s \in Session : poll[s].pc # "off" => sessions[s].ref # Null

\* Every debit is one of a stopped session with a transaction, from its own rider, and
\* the only one of its session.
LedgerOK ==
    \A e \in ledger :
        /\ sessions[e.key].status = "stopped" /\ sessions[e.key].billed
        /\ sessions[e.key].ref # Null /\ sessions[e.key].user = e.user
        /\ \A f \in ledger : f.key = e.key => f = e

IInv ==
    /\ TypeOK /\ RowsOK /\ RefsUnique
    /\ ReqOK /\ SyncOK /\ PollOK /\ LedgerOK

-----------------------------------------------------------------------------
(* What the repository says of itself and the code does not keep.           *)

\* ErrActiveSessionExists and ErrConnectorBusy: one live session per user and per
\* connector.
OneLiveSession ==
    /\ \A u \in User : Cardinality(ActiveOfUser(sessions, u)) <= 1
    /\ \A c \in Connector : Cardinality(ActiveOnConnector(sessions, c)) <= 1

\* A session being stopped whose transaction is known has had RequestStopTransaction
\* asked for, or some request or goroutine that was told of the stop is about to.
ActsOn(s) ==
    \/ \E h \in Handler : req[h].sess = s
    \/ \E w \in Worker :
        /\ sync[w].sess = s
        /\ sync[w].pc = "load" \/ (sync[w].status = "stopping" /\ sync[w].ocpp = Null)

StopIsSent ==
    \A s \in Session :
        (sessions[s].status = "stopping" /\ sessions[s].ocpp # Null /\ stopCmd[s] = "none")
            => ActsOn(s)

\* The cost a finalised row shows is what the rider was debited.
FinalCostIsDebited ==
    \A e \in ledger : sessions[e.key].cost = e.amount
=============================================================================
