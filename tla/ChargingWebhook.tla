--------------------------- MODULE ChargingWebhook ---------------------------
(***************************************************************************)
(* The same process with CHARGING_USE_WEBHOOK_EVENTS=true: CitrineOS also    *)
(* pushes what happens to POST /webhooks/ocpp.  Everything of                *)
(* ChargingLifecycle still runs; a webhook is one more writer of the rows,   *)
(* in any order, any number of times, and it names a transaction by its OCPP *)
(* id where the sync goroutine uses the primary key.                         *)
(*                                                                         *)
(* A webhook is one database transaction that begins by recording the id of  *)
(* its event.  One that decides by a single UPDATE is one step, taken at its *)
(* commit; stop_transaction reads rows without a lock and asks Hasura before *)
(* it writes, and has a step for each.                                       *)
(***************************************************************************)
EXTENDS ChargingLifecycle

CONSTANTS
    Delivery,   \* deliveries of stop_transaction that may be processed at once
    MaxEvents   \* bound on the events of a behaviour

ASSUME WebhookAssumption == MaxEvents \in Nat

VARIABLES
    refused,    \* the commands that a charger turned down, by the event that says so
    recorded,   \* table ocpp_webhook_events
    hook        \* deliveries of stop_transaction being processed

webhook     == <<refused, recorded, hook>>
webhookVars == <<vars, webhook>>

Event == [type : {"remote_start_result", "remote_stop_result", "start_transaction",
                  "meter_values", "stop_transaction"},
          sess : Session \cup {Null}, tx : Tx \cup {Null}, kwh : 0 .. MaxKwh]

About(s, type)    == [type |-> type, sess |-> s, tx |-> Null, kwh |-> 0]
Report(t, type, k) == [type |-> type, sess |-> Null, tx |-> t, kwh |-> k]

NoHook == [pc |-> "idle", tx |-> Null, sess |-> Null, kwh |-> 0]

\* A row may name its transaction by either id, and so may what a sync goroutine loaded.
WebhookTypeOK ==
    /\ \A s \in Session :
        /\ [sessions[s] EXCEPT !.ref = Null] \in Row
        /\ sessions[s].ref \in Tx \cup OcppIds \cup {Null}
    /\ \A w \in Worker :
        /\ [sync[w] EXCEPT !.ref = Null, !.tx = Null] \in Syncer
        /\ {sync[w].ref, sync[w].tx} \subseteq Tx \cup OcppIds \cup {Null}
    /\ balance \in [User -> Nat] /\ ledger \subseteq Debit
    /\ poll \in [Session -> Poller]
    /\ refused \subseteq Event /\ recorded \subseteq Event
    /\ hook \in [Delivery -> [pc : {"idle", "lookup", "commit"}, tx : Tx \cup {Null},
                              sess : Session \cup {Null}, kwh : 0 .. MaxKwh]]

WebhookInit ==
    /\ Init
    /\ refused = {} /\ recorded = {}
    /\ hook = [d \in Delivery |-> NoHook]

-----------------------------------------------------------------------------
(* What CitrineOS has to report.  A charger may turn a command down, also    *)
(* one that is sent again although the first came through.  The energies its *)
(* events carry are those that the lookups report, sooner or later.          *)

RefuseStop(s) ==
    /\ stopCmd[s] = "sent"
    /\ refused' = refused \cup {About(s, "remote_stop_result")}
    /\ UNCHANGED <<vars, recorded, hook>>

-----------------------------------------------------------------------------
(* ProcessWebhook.  A delivery whose event is recorded changes nothing; the  *)
(* INSERT of one that another delivery is processing waits for its end.      *)

\* A transaction has one event of its start and one of its end; the energy in them is left
\* open until they are processed.
StartEvent(t) == Report(t, "start_transaction", 0)

StopEvent(t) == Report(t, "stop_transaction", 0)

NotRecorded(e) ==
    /\ e \notin recorded /\ Cardinality(recorded) < MaxEvents
    /\ \A d \in Delivery : hook[d].pc # "idle" => StopEvent(hook[d].tx) # e

Record(e) == NotRecorded(e) /\ recorded' = recorded \cup {e}

RemoteStartResult(s) ==
    /\ sessions[s].remote
    /\ \A h \in Handler : ~(req[h].sess = s /\ req[h].pc = "dispatch")
    /\ Record(About(s, "remote_start_result"))
    /\ sessions' = UpdateSessionState(sessions, s, {"starting"}, "failed")
    /\ UNCHANGED <<balance, ledger, cloud, Service, refused, hook>>

RemoteStopResult(s) ==
    LET e == About(s, "remote_stop_result") IN
    /\ e \in refused /\ Record(e)
    /\ sessions' = UpdateSessionState(sessions, s, {"stopping"}, "charging")
    /\ UNCHANGED <<balance, ledger, cloud, Service, refused, hook>>

MeterValues(t, k) ==
    /\ cloud[t].phase # "none" /\ k \in Reported(t)
    /\ Record(Report(t, "meter_values", k))
    /\ sessions' = UpdateSessionMeterValues(sessions, OcppId[t], k)
    /\ UNCHANGED <<balance, ledger, cloud, Service, refused, hook>>

\* The rows that AttachTransactionTx may pick on the connector of t: the latest of them,
\* which the model does not know.
Targets(t) == {s \in Session : sessions[s].conn = cloud[t].conn
                                /\ sessions[s].status \in {"starting", "stopping"}}

\* The stop command of a session that was waiting for its transaction is asked for
\* when the handler returns, also when the commit failed.
StartTransaction(t, k) ==
    LET id == OcppId[t] IN
    /\ cloud[t].phase # "none" /\ k \in Reported(t)
    /\ Record(StartEvent(t))
    /\ \/ /\ \/ Targets(t) = {}
             \/ \E s \in Targets(t) : ~Attachable(sessions, s, id)
          /\ UNCHANGED <<sessions, stopCmd>>
       \/ \E s \in Targets(t) :
            /\ Attachable(sessions, s, id) /\ ~RefTaken(sessions, s, id)
            /\ sessions' = AttachTransactionToSession(sessions, s, id, id, k)
            /\ stopCmd' = IF sessions[s].status = "stopping" THEN EnqueueStop(s) ELSE stopCmd
    /\ UNCHANGED <<balance, ledger, cloud, req, sync, poll, process, refused, hook>>

StartTransactionFails(t, k) ==
    /\ cloud[t].phase # "none" /\ k \in Reported(t)
    /\ NotRecorded(StartEvent(t))
    /\ \E s \in Targets(t) :
        /\ Attachable(sessions, s, OcppId[t]) /\ sessions[s].status = "stopping"
        /\ stopCmd' = EnqueueStop(s)
    /\ UNCHANGED <<db, cloud, req, sync, poll, process, webhook>>

\* The row of the transaction, if any; its energy is used when the event's is zero.
StopTransaction(d, t, k) ==
    LET rows == Matching(sessions, OcppId[t]) IN
    /\ hook[d].pc = "idle"
    /\ cloud[t].phase = "finished" /\ k \in Reported(t)
    /\ NotRecorded(StopEvent(t))
    /\ \E s \in IF rows = {} THEN {Null} ELSE rows :
        hook' = [hook EXCEPT ![d] =
                    [pc |-> "lookup", tx |-> t, sess |-> s,
                     kwh |-> IF k > 0 \/ s = Null THEN k ELSE sessions[s].kwh]]
    /\ UNCHANGED <<vars, refused, recorded>>

\* Mutant: any live session of the charger will do.
LatestOnAnyConnector(t) == {s \in Session : sessions[s].status \in Live}

LatestOn(t) == IF cloud[t].named THEN ActiveOnConnector(sessions, cloud[t].conn) ELSE {}

\* Mutant: the energy of the event and of the transaction are added.
LookupTransactionAdds(d) ==
    /\ hook[d].pc = "lookup"
    /\ hook' = [hook EXCEPT ![d].pc = "commit", ![d].kwh = @ + cloud[hook[d].tx].total]
    /\ UNCHANGED <<vars, refused, recorded>>

\* Hasura is asked for the transaction, which may fail; without a row of it any live
\* session on its connector will do.  Its total goes before what is known of the energy.
LookupTransaction(d) ==
    LET old == hook[d].kwh IN
    /\ hook[d].pc = "lookup"
    /\ \E found \in {{}, ByOCPPTransactionID(OcppId[hook[d].tx])} :
        LET others == IF hook[d].sess = Null THEN UNION {LatestOn(t) : t \in found} ELSE {}
            totals == {cloud[t].total : t \in found} \ {0}
        IN
        \E s \in IF others = {} THEN {hook[d].sess} ELSE others :
            LET known == IF old = 0 /\ s \in others THEN sessions[s].kwh ELSE old IN
            \E k \in IF totals = {} THEN {known} ELSE totals :
                hook' = [hook EXCEPT ![d].pc = "commit", ![d].sess = s, ![d].kwh = k]
    /\ UNCHANGED <<vars, refused, recorded>>

CommitStop(d) ==
    LET s == hook[d].sess IN
    /\ hook[d].pc = "commit"
    /\ IF s = Null THEN UNCHANGED db ELSE Settle(sessions, s, hook[d].kwh)
    /\ recorded' = recorded \cup {StopEvent(hook[d].tx)}
    /\ hook' = [hook EXCEPT ![d] = NoHook]
    /\ UNCHANGED <<cloud, Service, refused>>

\* A statement or the commit fails: everything is rolled back, CitrineOS tries again.
StopFails(d) ==
    /\ hook[d].pc # "idle"
    /\ hook' = [hook EXCEPT ![d] = NoHook]
    /\ UNCHANGED <<vars, refused, recorded>>

-----------------------------------------------------------------------------
StopStep(d) == LookupTransaction(d) \/ CommitStop(d)

Results(s) == RemoteStartResult(s) \/ RemoteStopResult(s)

Reports(t, k) == StartTransaction(t, k) \/ StartTransactionFails(t, k) \/ MeterValues(t, k)

WebhookNext ==
    \/ /\ Next
       /\ hook' = IF crashes' = crashes THEN hook ELSE [d \in Delivery |-> NoHook]
       /\ UNCHANGED <<refused, recorded>>
    \/ \E s \in Session : RefuseStop(s) \/ Results(s)
    \/ \E t \in Tx, k \in 0 .. MaxKwh :
        Reports(t, k) \/ \E d \in Delivery : StopTransaction(d, t, k)
    \/ \E d \in Delivery : StopStep(d) \/ StopFails(d)

WebhookSpec == WebhookInit /\ [][WebhookNext]_webhookVars

-----------------------------------------------------------------------------
(* What the service promises with the webhooks on.                          *)

\* Whoever settles a session - a webhook with a row it read earlier, the poller, a sync
\* goroutine - the debit is that of a stopped session, from its own rider.
DebitsSettled ==
    \A e \in ledger :
        sessions[e.key].status = "stopped" /\ sessions[e.key].billed
            /\ sessions[e.key].user = e.user

\* A stopped session stays stopped and keeps its transaction, however late a result, a
\* start or a meter reading of it arrives.
StoppedStep ==
    \A s \in Session :
        sessions[s].status = "stopped" =>
            /\ sessions'[s].status = "stopped"
            /\ sessions'[s].ref = sessions[s].ref /\ sessions'[s].ocpp = sessions[s].ocpp

StoppedIsFinal == [][StoppedStep]_sessions

\* A rider pays only for an energy reported of a transaction that the session names, by
\* either id, or that ran on the session's own connector.
PaysForItsOwn ==
    \A e \in ledger :
        LET row == sessions[e.key] IN
        \E t \in Tx :
            /\ cloud[t].phase # "none"
            /\ cloud[t].conn = row.conn \/ {t, OcppId[t]} \cap {row.ref, row.ocpp} # {}
            /\ \E k \in Reported(t) : e.amount = Cost(k)

\* "Transaction-level idempotency ... to prevent double billing": two sessions do not pay
\* for one transaction.
TransactionPaidOnce ==
    \A e, f \in ledger :
        e # f => \/ sessions[e.key].ocpp = Null
                 \/ sessions[e.key].ocpp # sessions[f.key].ocpp
=============================================================================
