------------------------ MODULE ChargingWebhookProofs ------------------------
(***************************************************************************)
(* Proofs about ChargingWebhook, for every value of the constants.          *)
(*                                                                         *)
(* With the webhooks on, most of what IInv says is gone: a row may name its *)
(* transaction by either id, may be attached by one writer and settled by   *)
(* another, or settled without an attach.  What is left is what every       *)
(* writer makes sure of by itself: a row that exists keeps its rider and    *)
(* its connector, the ids it names its transaction by are written once, and  *)
(* whatever energy is read for it was reported of a transaction that is its  *)
(* own: one that it names, by either id, or that ran on its connector.       *)
(***************************************************************************)
EXTENDS ChargingWebhook, ChargingLifecycleProofs

Ids   == Tx \cup OcppIds \cup {Null}
Meter == 0 .. MaxKwh

HookRow    == [status : Status, user : User \cup {Null}, conn : Connector \cup {Null},
               remote : BOOLEAN, ref : Ids, ocpp : OcppIds \cup {Null}, kwh : Meter,
               cost : Nat, billed : BOOLEAN, unpaid : BOOLEAN, claimed : BOOLEAN,
               old : BOOLEAN]
HookSyncer == [pc : SyncPc, sess : Session \cup {Null}, status : Status, ref : Ids,
               ocpp : OcppIds \cup {Null}, remote : BOOLEAN, tx : Ids, kwh : Meter,
               finished : BOOLEAN]
HookPoller == [pc : PollPc, attempt : 0 .. MaxAttempts, kwh : Meter]
StopHook   == [pc : {"idle", "lookup", "commit"}, tx : Tx \cup {Null},
               sess : Session \cup {Null}, kwh : Meter]

HookTable == [Session -> HookRow]

-----------------------------------------------------------------------------
(* The invariant.                                                          *)

Names(r, t) == {t, OcppId[t]} \cap {r.ref, r.ocpp} # {}

\* The transactions that a row may be charged for, and the energies it may show.
Own(r, t) == cloud[t].phase # "none" /\ (cloud[t].conn = r.conn \/ Names(r, t))

Delivered(r, k) == k = 0 \/ \E t \in Tx : Own(r, t) /\ k \in Reported(t)

\* What is true of a row, whoever wrote it.
HookRowOK(r) ==
    /\ r.status # "absent" => r.user \in User
    /\ r.status = "absent" => r.ref = Null
    /\ r.ref = Null => r.ocpp = Null
    /\ Delivered(r, r.kwh)

HookRowsOK == \A s \in Session : HookRowOK(sessions[s])

Exists(s) == s \in Session /\ sessions[s].status # "absent"

MetersOK == \A t \in Tx : Bounded(cloud[t])

SyncerOK(v) ==
    /\ v.pc # "idle" =>
        Exists(v.sess) /\ (v.ref # Null => sessions[v.sess].ref = v.ref)
    /\ v.pc = "apply" =>
        v.tx \in Tx /\ cloud[v.tx].phase # "none" /\ v.kwh \in Reported(v.tx)

HookSyncOK == \A w \in Worker : SyncerOK(sync[w])

PollerOK(s, v) == v.pc # "off" => Exists(s) /\ Delivered(sessions[s], v.kwh)

HookPollOK == \A s \in Session : PollerOK(s, poll[s])

\* Until a delivery has a row, its energy is one of the transaction it reports.
StopOK(v) ==
    v.pc # "idle" =>
        /\ v.tx \in Tx /\ cloud[v.tx].phase # "none"
        /\ v.sess = Null => v.kwh \in Reported(v.tx)
        /\ v.sess # Null => /\ Exists(v.sess) /\ Own(sessions[v.sess], v.tx)
                            /\ Delivered(sessions[v.sess], v.kwh)

StopsOK == \A d \in Delivery : StopOK(hook[d])

Paid(e) ==
    \E t \in Tx : Own(sessions[e.key], t) /\ \E k \in Reported(t) : e.amount = Cost(k)

\* One debit a session, of a stopped one, from its rider, for what its own transaction
\* metered.
DebitsOK ==
    \A e \in ledger :
        /\ sessions[e.key].status = "stopped" /\ sessions[e.key].billed
        /\ sessions[e.key].user = e.user
        /\ Paid(e)
        /\ \A f \in ledger : f.key = e.key => f = e

HookTypes ==
    /\ sessions \in HookTable
    /\ balance \in [User -> Nat] /\ ledger \subseteq Debit
    /\ cloud \in [Tx -> Transaction]
    /\ req \in [Handler -> Request]
    /\ sync \in [Worker -> HookSyncer]
    /\ poll \in [Session -> HookPoller]
    /\ refused \subseteq Event /\ recorded \subseteq Event
    /\ hook \in [Delivery -> StopHook]

WInv ==
    /\ HookTypes /\ HookRowsOK /\ MetersOK
    /\ ReqOK /\ HookSyncOK /\ HookPollOK /\ StopsOK /\ DebitsOK

-----------------------------------------------------------------------------
(* The statements of the repository layer.                                 *)

HookSound(d) == d \in HookTable /\ \A s \in Session : HookRowOK(d[s])

HookRowStep(r, q) ==
    /\ HookRowOK(q)
    /\ r.status # "absent" =>
        /\ q.status # "absent" /\ q.user = r.user /\ q.conn = r.conn
        /\ r.billed => q.billed
    /\ r.ref # Null => q.ref = r.ref /\ q.ocpp = r.ocpp
    /\ r.status = "stopped" => q.status = "stopped" /\ q.ref = r.ref /\ q.ocpp = r.ocpp

HookTableStep(d, e) == e \in HookTable /\ \A s \in Session : HookRowStep(d[s], e[s])

\* A table goes on to itself.
LEMMA HookSame ==
    ASSUME NEW d, HookSound(d)
    PROVE  HookTableStep(d, d)
BY DEF HookSound, HookTableStep, HookRowStep

\* Two statements of one database transaction make one step of the table.
LEMMA HookThen ==
    ASSUME NEW d, NEW e, NEW f, HookTableStep(d, e), HookTableStep(e, f)
    PROVE  HookTableStep(d, f)
BY DEF HookTableStep, HookRowStep

\* Writing one row makes a step of the table when it makes a step of the row.
LEMMA HookOneRow ==
    ASSUME NEW d, HookSound(d), NEW s \in Session, NEW q \in HookRow, HookRowStep(d[s], q)
    PROVE  HookTableStep(d, [d EXCEPT ![s] = q])
<1> DEFINE e == [d EXCEPT ![s] = q]
<1>1. d \in HookTable
    BY DEF HookSound
<1>2. e \in HookTable
    BY <1>1 DEF HookTable
<1>3. \A o \in Session : e[o] = IF o = s THEN q ELSE d[o]
    BY <1>1 DEF HookTable
<1>. HIDE DEF e
<1>4. ASSUME NEW o \in Session
      PROVE  HookRowStep(d[o], e[o])
    <2>1. HookRowStep(d[o], d[o])
        BY HookSame DEF HookTableStep
    <2>. QED
        BY <1>3, <2>1
<1>5. HookTableStep(d, e)
    BY <1>2, <1>4 DEF HookTableStep
<1>. QED
    BY <1>5 DEF e

\* What is a row's own stays so.
LEMMA OwnKept ==
    ASSUME NEW r, NEW q, HookRowOK(r), HookRowStep(r, q), r.status # "absent"
    PROVE  /\ \A t \in Tx : Own(r, t) => Own(q, t)
           /\ \A k : Delivered(r, k) => Delivered(q, k)
<1>1. ASSUME NEW t \in Tx, Own(r, t)
      PROVE  Own(q, t)
    <2>1. q.conn = r.conn
        BY DEF HookRowStep
    <2>2. CASE Names(r, t)
        <3>1. t # Null /\ OcppId[t] # Null
            BY StoreAssumption
        <3>2. r.ref # Null
            BY <2>2, <3>1 DEF Names, HookRowOK
        <3>. QED
            BY <1>1, <2>2, <3>2 DEF HookRowStep, Own, Names
    <2>. QED
        BY <1>1, <2>1, <2>2 DEF Own
<1>. QED
    BY <1>1 DEF Delivered

\* What a statement writes that attaches, meters and settles nothing.
Marked(r, q) ==
    /\ q.user = r.user /\ q.conn = r.conn
    /\ q.ref = r.ref /\ q.ocpp = r.ocpp /\ q.kwh = r.kwh
    /\ q.billed <=> r.billed
    /\ q.status = "absent" <=> r.status = "absent"
    /\ r.status = "stopped" => q.status = "stopped"

LEMMA MarkedStep ==
    ASSUME NEW r, NEW q, HookRowOK(r), Marked(r, q)
    PROVE  HookRowStep(r, q)
<1>1. Delivered(q, q.kwh)
    BY DEF Marked, HookRowOK, Delivered, Own, Names
<1>. QED
    BY <1>1 DEF Marked, HookRowStep, HookRowOK

\* The statements that write a status, the lease, the remote start id or the clock.
LEMMA HookMarks ==
    ASSUME NEW d, HookSound(d), NEW s \in Session, NEW b \in BOOLEAN
    PROVE  /\ d[s].status # "absent" => HookTableStep(d, UpdateRemoteStartID(d, s))
           /\ HookTableStep(d, ClaimStopPolling(d, s))
           /\ HookTableStep(d, ReleaseStopPolling(d, s))
           /\ HookTableStep(d, [d EXCEPT ![s].old = b])
           /\ HookTableStep(d, [d EXCEPT ![s].claimed = b])
           /\ HookTableStep(d, UpdateSessionStopping(d, s))
           /\ HookTableStep(d, UpdateSessionState(d, s, {"starting"}, "failed"))
           /\ HookTableStep(d, UpdateSessionState(d, s, {"stopping"}, "charging"))
<1> DEFINE r == d[s]
<1>1. d \in HookTable /\ r \in HookRow /\ HookRowOK(r)
    BY DEF HookSound, HookTable
<1>2. ASSUME NEW q \in HookRow, Marked(r, q)
      PROVE  HookTableStep(d, [d EXCEPT ![s] = q])
    BY <1>1, <1>2, MarkedStep, HookOneRow
<1>3. r.status # "absent" => HookTableStep(d, [d EXCEPT ![s].remote = TRUE])
    BY <1>1, <1>2 DEF HookRow, Marked
<1>4. \A c \in BOOLEAN : HookTableStep(d, [d EXCEPT ![s].claimed = c])
    BY <1>1, <1>2 DEF HookRow, Marked
<1>5. HookTableStep(d, [d EXCEPT ![s].old = b])
    BY <1>1, <1>2 DEF HookRow, Marked
<1>6. ASSUME NEW st \in {"stopping", "failed", "charging"}, r.status \notin {"absent", "stopped"}
      PROVE  /\ HookTableStep(d, [d EXCEPT ![s].status = st])
             /\ HookTableStep(d, [d EXCEPT ![s].status = st, ![s].claimed = FALSE])
    <2> DEFINE q == [r EXCEPT !.status = st]
               p == [r EXCEPT !.status = st, !.claimed = FALSE]
    <2>1. q \in HookRow /\ Marked(r, q)
        BY <1>1, <1>6 DEF HookRow, Marked, Status
    <2>2. p \in HookRow /\ Marked(r, p)
        BY <1>1, <1>6 DEF HookRow, Marked, Status
    <2>3. /\ [d EXCEPT ![s].status = st] = [d EXCEPT ![s] = q]
          /\ [d EXCEPT ![s].status = st, ![s].claimed = FALSE] = [d EXCEPT ![s] = p]
        BY <1>1 DEF HookTable
    <2>. HIDE DEF q, p
    <2>. QED
        BY <1>2, <2>1, <2>2, <2>3
<1>. QED
    BY <1>3, <1>4, <1>5, <1>6, HookSame DEF UpdateRemoteStartID, ClaimStopPolling,
        ReleaseStopPolling, UpdateSessionStopping, UpdateSessionState

\* The sweep over the stale starts.
LEMMA HookSweep ==
    ASSUME NEW d, HookSound(d)
    PROVE  HookTableStep(d, FailStaleStartingSessions(d))
<1> DEFINE e == FailStaleStartingSessions(d)
<1>1. ASSUME NEW s \in Session
      PROVE  e[s] \in HookRow /\ HookRowStep(d[s], e[s])
    <2> DEFINE q == [d[s] EXCEPT !.status = "failed"]
    <2>1. d[s] \in HookRow /\ HookRowOK(d[s]) /\ HookRowStep(d[s], d[s])
        BY HookSame DEF HookSound, HookTable, HookTableStep
    <2>2. d[s].status = "starting" => q \in HookRow /\ Marked(d[s], q)
        BY <2>1 DEF HookRow, Marked, Status
    <2>3. e[s] = IF d[s].status = "starting" /\ d[s].old THEN q ELSE d[s]
        BY DEF FailStaleStartingSessions, StaleStarts
    <2>. HIDE DEF e, q
    <2>. QED
        BY <2>1, <2>2, <2>3, MarkedStep
<1>2. e = [s \in Session |-> e[s]]
    BY DEF FailStaleStartingSessions
<1>3. e \in HookTable
    <2>. HIDE DEF e
    <2>. QED
        BY <1>1, <1>2 DEF HookTable
<1>. QED
    BY <1>1, <1>3 DEF HookTableStep

\* CreateSession makes a row of its rider that names no transaction.
LEMMA HookCreate ==
    ASSUME NEW d, HookSound(d), NEW s \in Session, NEW u \in User, NEW c \in Connector \cup {Null},
           d[s].status = "absent"
    PROVE  /\ HookTableStep(d, CreateSession(d, s, u, c))
           /\ CreateSession(d, s, u, c)[s].status # "absent"
<1> DEFINE q == [NoRow EXCEPT !.status = "starting", !.user = u, !.conn = c]
<1>1. d \in HookTable /\ d[s] \in HookRow
    BY DEF HookSound, HookTable
<1>2. /\ q.status = "starting" /\ q.user = u /\ q.conn = c /\ q.ref = Null /\ q.ocpp = Null
      /\ q.kwh = 0
    BY DEF NoRow
<1>3. q \in HookRow
    <2>1. 0 \in Meter /\ Null \in Ids
        BY LifecycleAssumption DEF Meter, Ids
    <2>. QED
        BY <2>1 DEF NoRow, HookRow, Status
<1>. HIDE DEF q
<1>4. HookRowStep(d[s], q)
    <2>1. d[s].ref = Null
        BY DEF HookSound, HookRowOK
    <2>. QED
        BY <1>2, <2>1 DEF HookRowStep, HookRowOK, Delivered
<1>5. CreateSession(d, s, u, c) = [d EXCEPT ![s] = q]
    BY DEF CreateSession, q
<1>6. HookTableStep(d, [d EXCEPT ![s] = q])
    BY <1>3, <1>4, HookOneRow
<1>7. [d EXCEPT ![s] = q][s].status # "absent"
    BY <1>1, <1>2 DEF HookTable
<1>. QED
    BY <1>5, <1>6, <1>7

\* Attaching makes the transaction the row's own, by either of its ids.
LEMMA HookAttach ==
    ASSUME NEW d, HookSound(d), NEW s \in Session, NEW t \in Tx, NEW id \in {t, OcppId[t]},
           NEW k \in Meter, Attachable(d, s, id), cloud[t].phase # "none", k \in Reported(t)
    PROVE  LET e == AttachTransactionToSession(d, s, id, OcppId[t], k) IN
           HookTableStep(d, e) /\ e[s].ref = id
<1> DEFINE r == d[s]
           o == IF r.ref = Null THEN OcppId[t] ELSE r.ocpp
           st == IF r.status = "stopping" THEN "stopping" ELSE "charging"
           q == [r EXCEPT !.ocpp = o, !.ref = id, !.kwh = k, !.cost = Cost(k), !.status = st]
<1>1. d \in HookTable /\ r \in HookRow /\ HookRowOK(r)
    BY DEF HookSound, HookTable
<1>2. r.status \in {"starting", "stopping"} /\ r.ref \in {Null, id}
    BY DEF Attachable
<1>3. Cost(k) \in Nat /\ OcppId[t] \in OcppIds
    BY CostIsNat, LifecycleAssumption DEF Meter, OcppIds
<1>4. id \in Ids /\ o \in OcppIds \cup {Null} /\ st \in {"charging", "stopping"}
    BY <1>1, <1>2, <1>3 DEF HookRow, Ids
<1>5. AttachTransactionToSession(d, s, id, OcppId[t], k) = [d EXCEPT ![s] = q]
    BY <1>1, <1>2 DEF AttachTransactionToSession, HookTable
<1>6. q \in HookRow
    <2>. HIDE DEF o, st
    <2>. QED
        BY <1>1, <1>3, <1>4 DEF HookRow, Status
<1>7. /\ q.status = st /\ q.user = r.user /\ q.conn = r.conn /\ q.ref = id /\ q.ocpp = o
      /\ q.kwh = k /\ (q.billed <=> r.billed)
    <2>. HIDE DEF o, st
    <2>. QED
        BY <1>1 DEF HookRow
<1>. HIDE DEF q
<1>8. Delivered(q, q.kwh) /\ q.ref # Null /\ (r.ref # Null => q.ref = r.ref /\ q.ocpp = r.ocpp)
    <2>1. Own(q, t)
        BY <1>7 DEF Own, Names
    <2>2. t # Null /\ OcppId[t] # Null
        BY StoreAssumption
    <2>. QED
        BY <1>2, <1>7, <2>1, <2>2 DEF Delivered
<1>9. r.user \in User /\ r.status \notin {"absent", "stopped"} /\ st # "absent"
    BY <1>1, <1>2 DEF HookRowOK
<1>10. HookRowStep(r, q)
    <2>. HIDE DEF st
    <2>. QED
        BY <1>4, <1>7, <1>8, <1>9 DEF HookRowStep, HookRowOK
<1>11. [d EXCEPT ![s] = q][s].ref = id
    BY <1>1, <1>7 DEF HookTable
<1>. QED
    BY <1>5, <1>6, <1>10, <1>11, HookOneRow

\* A meter update writes energy that was delivered to each row it finds.
LEMMA HookMeter ==
    ASSUME NEW d, HookSound(d), NEW id, NEW k \in Meter,
           \A s \in Matching(d, id) : Delivered(d[s], k)
    PROVE  HookTableStep(d, UpdateSessionMeterValues(d, id, k))
<1> DEFINE e == UpdateSessionMeterValues(d, id, k)
<1>1. ASSUME NEW s \in Session
      PROVE  e[s] \in HookRow /\ HookRowStep(d[s], e[s])
    <2> DEFINE r == d[s]
               st == IF r.status = "starting" THEN "charging" ELSE r.status
               q == [r EXCEPT !.kwh = k, !.cost = Cost(k), !.status = st]
    <2>1. r \in HookRow /\ HookRowOK(r) /\ HookRowStep(r, r)
        BY HookSame DEF HookSound, HookTable, HookTableStep
    <2>2. Cost(k) \in Nat /\ st \in Status
        BY <2>1, CostIsNat, LifecycleAssumption DEF Meter, HookRow, Status
    <2>3. /\ q \in HookRow
          /\ q.status = st /\ q.user = r.user /\ q.conn = r.conn /\ q.ref = r.ref
          /\ q.ocpp = r.ocpp /\ q.kwh = k /\ (q.billed <=> r.billed)
        <3>. HIDE DEF st
        <3>. QED
            BY <2>1, <2>2 DEF HookRow
    <2>4. e[s] = IF s \in Matching(d, id) THEN q ELSE r
        BY DEF UpdateSessionMeterValues
    <2>. HIDE DEF q, e
    <2>5. ASSUME s \in Matching(d, id)
          PROVE  HookRowStep(r, q)
        <3>1. Delivered(q, q.kwh)
            BY <2>3, <2>5 DEF Delivered, Own, Names
        <3>. QED
            BY <2>1, <2>3, <3>1 DEF HookRowStep, HookRowOK
    <2>. QED
        BY <2>1, <2>3, <2>4, <2>5
<1>2. e = [s \in Session |-> e[s]]
    BY DEF UpdateSessionMeterValues
<1>3. e \in HookTable
    <2>. HIDE DEF e
    <2>. QED
        BY <1>1, <1>2 DEF HookTable
<1>. QED
    BY <1>1, <1>3 DEF HookTableStep

\* Finalising stops a row that exists, for energy that was delivered to it.
LEMMA HookFinalize ==
    ASSUME NEW d, HookSound(d), NEW s \in Session, NEW k \in Meter,
           NEW b \in BOOLEAN, NEW x \in BOOLEAN, d[s].status # "absent",
           Delivered(d[s], k)
    PROVE  LET e == FinalizeStoppedSession(d, s, k, b, x) IN
           /\ HookTableStep(d, e)
           /\ e[s].status = "stopped" /\ e[s].user = d[s].user
           /\ b => e[s].billed
<1> DEFINE r == d[s]
           q == [r EXCEPT !.status = "stopped", !.kwh = k, !.cost = Cost(k),
                          !.billed = @ \/ b, !.unpaid = @ \/ x]
<1>1. d \in HookTable /\ r \in HookRow /\ HookRowOK(r)
    BY DEF HookSound, HookTable
<1>2. Cost(k) \in Nat
    BY CostIsNat, LifecycleAssumption DEF Meter
<1>3. q \in HookRow
    BY <1>1, <1>2 DEF HookRow, Status
<1>4. FinalizeStoppedSession(d, s, k, b, x) = [d EXCEPT ![s] = q]
    BY <1>1 DEF FinalizeStoppedSession, HookTable
<1>5. /\ q.status = "stopped" /\ q.user = r.user /\ q.conn = r.conn /\ q.ref = r.ref
      /\ q.ocpp = r.ocpp /\ q.kwh = k /\ (q.billed <=> (r.billed \/ b))
    BY <1>1 DEF HookRow
<1>. HIDE DEF q
<1>6. HookRowStep(r, q)
    <2>1. Delivered(q, q.kwh)
        BY <1>5 DEF Delivered, Own, Names
    <2>. QED
        BY <1>1, <1>5, <2>1 DEF HookRowStep, HookRowOK
<1>7. [d EXCEPT ![s] = q][s] = q
    BY <1>1 DEF HookTable
<1>8. HookTableStep(d, [d EXCEPT ![s] = q])
    BY <1>3, <1>6, HookOneRow
<1>. QED
    BY <1>4, <1>5, <1>7, <1>8

-----------------------------------------------------------------------------
(* What one step of the service does to the database.                      *)

\* Either no money moves, or a debit is entered for a session that the step leaves stopped
\* and billed, for what its own transaction metered.
HookLedgerStep ==
    \/ UNCHANGED <<balance, ledger>>
    \/ \E e \in Debit :
        /\ Enters(e)
        /\ sessions'[e.key].status = "stopped" /\ sessions'[e.key].billed
        /\ sessions'[e.key].user = e.user
        /\ \E t \in Tx : Own(sessions'[e.key], t) /\ \E k \in Reported(t) : e.amount = Cost(k)

HookCommit ==
    /\ UNCHANGED cloud
    /\ HookTableStep(sessions, sessions') /\ HookLedgerStep

LEMMA HookSessions ==
    ASSUME WInv
    PROVE  HookSound(sessions)
BY DEF WInv, HookTypes, HookRowsOK, HookSound

LEMMA HookQuiet ==
    ASSUME WInv, UNCHANGED db, UNCHANGED cloud
    PROVE  HookCommit
BY HookSessions, HookSame DEF db, HookCommit, HookLedgerStep

LEMMA HookStatement ==
    ASSUME WInv, HookTableStep(sessions, sessions'), UNCHANGED <<balance, ledger, cloud>>
    PROVE  HookCommit
BY DEF HookCommit, HookLedgerStep

\* Settling a session of a table that the current one goes on to, for energy that was
\* delivered to the session.
LEMMA HookSettle ==
    ASSUME WInv, NEW d, HookTableStep(sessions, d), UNCHANGED cloud,
           NEW o \in Session, d[o].status # "absent", NEW k \in Meter,
           Delivered(d[o], k), Settle(d, o, k)
    PROVE  HookCommit
<1> DEFINE u == d[o].user
           b == DebitInserted(balance, ledger, u, Cost(k), o)
           x == DebitRefused(balance, u, Cost(k))
           e == [key |-> o, user |-> u, amount |-> Cost(k)]
<1>1. HookSound(d)
    BY DEF HookTableStep, HookRowStep, HookSound
<1>2. k \in Nat /\ u \in User /\ balance \in [User -> Nat]
    BY <1>1, LifecycleAssumption DEF Meter, HookSound, HookRowOK, WInv, HookTypes
<1>3. sessions' = FinalizeStoppedSession(d, o, k, b, x) /\ b \in BOOLEAN /\ x \in BOOLEAN
    BY DEF Settle, DebitInserted, DebitRefused
<1>4. /\ HookTableStep(d, sessions')
      /\ sessions'[o].status = "stopped" /\ sessions'[o].user = u
      /\ b => sessions'[o].billed
    <2>. HIDE DEF b, x
    <2>. QED
        BY <1>1, <1>3, HookFinalize DEF u
<1>5. HookTableStep(sessions, sessions')
    BY <1>4, HookThen
<1>6. UNCHANGED <<balance, ledger>> \/ (e \in Debit /\ b /\ Enters(e))
    BY <1>2, SettleMoney
<1>7. e.key = o /\ e.user = u /\ e.amount = Cost(k)
    OBVIOUS
<1>. HIDE DEF e, b, x
<1>8. ASSUME Enters(e)
      PROVE  \E t \in Tx : Own(sessions'[o], t) /\ \E j \in Reported(t) : e.amount = Cost(j)
    <2>1. k # 0
        BY <1>7, <1>8, StoreAssumption DEF Enters, Cost
    <2>2. PICK t \in Tx : Own(d[o], t) /\ k \in Reported(t)
        BY <2>1 DEF Delivered
    <2>3. Own(sessions'[o], t)
        BY <1>1, <1>4, <2>2, OwnKept DEF HookSound, HookTableStep
    <2>. QED
        BY <1>7, <2>2, <2>3
<1>9. HookLedgerStep
    BY <1>4, <1>6, <1>7, <1>8 DEF HookLedgerStep
<1>. QED
    BY <1>5, <1>9 DEF HookCommit

\* What a sync goroutine writes before it settles anything makes a step of the table, after
\* which the transaction is the own one of the session it goes on with.
LEMMA HookSyncTargets ==
    ASSUME WInv, NEW w \in Worker, SyncApply(w)
    PROVE  /\ HookTableStep(sessions, Synced(w))
           /\ \A o \in SyncTarget(w) :
                o \in Session /\ Synced(w)[o].status # "absent" /\ Own(Synced(w)[o], sync[w].tx)
<1> DEFINE d == Synced(w)
           s == sync[w].sess
           t == sync[w].tx
           k == sync[w].kwh
<1>1. HookSound(sessions)
    BY HookSessions
<1>2. /\ Exists(s) /\ t \in Tx /\ k \in Meter /\ t # Null /\ k \in Reported(t)
      /\ cloud[t].phase # "none"
      /\ sync[w].ref # Null => sessions[s].ref = sync[w].ref
    BY StoreAssumption DEF SyncApply, WInv, HookSyncOK, SyncerOK, HookTypes, HookSyncer
<1>3. ASSUME NEW o \in Session, sessions[o].ref = t \/ sessions[o].ocpp = t
      PROVE  /\ sessions[o].status # "absent" /\ Own(sessions[o], t)
             /\ Delivered(sessions[o], k)
    <2>1. HookRowOK(sessions[o])
        BY <1>1 DEF HookSound
    <2>2. sessions[o].status # "absent"
        BY <1>2, <1>3, <2>1 DEF HookRowOK
    <2>. QED
        BY <1>2, <1>3, <2>2 DEF Own, Names, Delivered
<1>4. ASSUME NEW o \in Session, sessions[o].ref = t \/ sessions[o].ocpp = t,
             HookTableStep(sessions, d)
      PROVE  d[o].status # "absent" /\ Own(d[o], t)
    BY <1>1, <1>2, <1>3, <1>4, OwnKept DEF HookSound, HookTableStep, HookRowStep
<1>5. CASE Attaches(w)
    <2>1. d = AttachTransactionToSession(sessions, s, t, OcppId[t], k) /\ SyncTarget(w) = {s}
        BY <1>5 DEF Synced, SyncTarget
    <2>2. Attachable(sessions, s, t)
        BY <1>5 DEF Attaches
    <2>3. HookTableStep(sessions, d) /\ d[s].ref = t
        <3>. HIDE DEF d, s, t, k
        <3>. QED
            BY <1>1, <1>2, <2>1, <2>2, HookAttach DEF Exists
    <2>4. d[s].status # "absent" /\ Own(d[s], t)
        <3>. HIDE DEF d, s, t
        <3>. QED
            BY <1>2, <2>3 DEF HookTableStep, HookRowStep, Exists, Own, Names
    <2>. QED
        BY <1>2, <2>1, <2>3, <2>4 DEF Exists
<1>6. CASE ~Attaches(w) /\ sync[w].ref = Null
    <2>1. d = UpdateSessionMeterValues(sessions, t, k) /\ SyncTarget(w) = Matching(sessions, t)
        BY <1>2, <1>6 DEF Synced, SyncTarget
    <2>2. \A o \in Matching(sessions, t) :
            o \in Session /\ (sessions[o].ref = t \/ sessions[o].ocpp = t)
        BY DEF Matching
    <2>3. HookTableStep(sessions, d)
        <3>. HIDE DEF d, t, k
        <3>. QED
            BY <1>1, <1>2, <1>3, <2>1, <2>2, HookMeter
    <2>. QED
        BY <1>4, <2>1, <2>2, <2>3
<1>7. CASE ~Attaches(w) /\ sync[w].ref # Null
    <2>1. d = sessions /\ SyncTarget(w) \subseteq {s}
        BY <1>7 DEF Synced, SyncTarget
    <2>2. SyncTarget(w) # {} => sessions[s].ref = t
        BY <1>2, <1>7 DEF SyncTarget
    <2>3. HookTableStep(sessions, d)
        BY <1>1, <2>1, HookSame
    <2>. QED
        BY <1>2, <1>4, <2>1, <2>2, <2>3 DEF Exists
<1>. QED
    BY <1>5, <1>6, <1>7

\* A sync goroutine's commit: that, and a settlement when the transaction has ended.
LEMMA HookSyncApply ==
    ASSUME WInv, NEW w \in Worker, SyncApply(w)
    PROVE  HookCommit
<1> DEFINE d == Synced(w)
           k == sync[w].kwh
<1>1. /\ k \in Meter /\ UNCHANGED cloud /\ k \in Reported(sync[w].tx) /\ sync[w].tx \in Tx
    BY DEF SyncApply, WInv, HookTypes, HookSyncer, HookSyncOK, SyncerOK
<1>2. /\ HookTableStep(sessions, d)
      /\ \A o \in SyncTarget(w) :
            o \in Session /\ d[o].status # "absent" /\ Own(d[o], sync[w].tx)
    BY HookSyncTargets
<1>3. PICK o \in SyncTarget(w) :
        IF sync[w].finished THEN Settle(d, o, k)
        ELSE sessions' = d /\ UNCHANGED <<balance, ledger>>
    BY DEF SyncApply
<1>4. o \in Session /\ d[o].status # "absent" /\ Delivered(d[o], k)
    BY <1>1, <1>2 DEF Delivered
<1>5. CASE sync[w].finished
    <2>. HIDE DEF d, k
    <2>. QED
        BY <1>1, <1>2, <1>3, <1>4, <1>5, HookSettle
<1>6. CASE ~sync[w].finished
    BY <1>1, <1>2, <1>3, <1>6, HookStatement
<1>. QED
    BY <1>5, <1>6

\* The steps of a request.
LEMMA HookHandler ==
    ASSUME WInv, NEW h \in Handler, HandlerNext(h)
    PROVE  HookCommit
<1>1. HookSound(sessions)
    BY HookSessions
<1>2. ASSUME NEW s \in Session, StartCreate(h, s)
      PROVE  HookCommit
    <2>1. req[h].user \in User /\ req[h].conn \in Connector \cup {Null}
        BY <1>2 DEF StartCreate, WInv, ReqOK, HookTypes, Request
    <2>2. HookTableStep(sessions, sessions')
        BY <1>1, <1>2, <2>1, HookCreate DEF StartCreate
    <2>. QED
        BY <1>2, <2>2, HookStatement DEF StartCreate
<1>3. ASSUME StartRemoteID(h) \/ StopMark(h) \/ StopReplyPoll(h)
      PROVE  HookCommit
    <2>1. req[h].sess \in Session /\ sessions[req[h].sess].status # "absent"
        BY <1>3 DEF StartRemoteID, StopMark, StopReplyPoll, WInv, ReqOK
    <2>2. \/ sessions' = UpdateRemoteStartID(sessions, req[h].sess)
          \/ sessions' = UpdateSessionStopping(sessions, req[h].sess)
          \/ sessions' = ClaimStopPolling(sessions, req[h].sess)
          \/ sessions' = sessions
        BY <1>3 DEF StartRemoteID, StopMark, StopReplyPoll
    <2>3. HookTableStep(sessions, sessions')
        BY <1>1, <2>1, <2>2, HookMarks, HookSame, TRUE \in BOOLEAN
    <2>. QED
        BY <1>3, <2>3, HookStatement DEF StartRemoteID, StopMark, StopReplyPoll
<1>4. ASSUME \/ \E u \in User, c \in Connector : StartCheckWallet(h, u, c)
             \/ StartCheckUser(h) \/ StartCheckConnector(h) \/ StartAbort(h)
             \/ \E w \in Worker : StartDispatch(h, w) \/ StopReplySync(h, w)
             \/ \E s \in Session : StopRead(h, s)
             \/ StopSend(h) \/ StopReload(h) \/ StopAbort(h)
      PROVE  HookCommit
    <2>1. UNCHANGED db /\ UNCHANGED cloud
        BY <1>4 DEF StartCheckWallet, StartCheckUser, StartCheckConnector, StartAbort,
            StartDispatch, StopReplySync, StopRead, StopSend, StopReload, StopAbort
    <2>. QED
        BY <2>1, HookQuiet
<1>. QED
    BY <1>2, <1>3, <1>4 DEF HandlerNext

\* The steps of a poller.
LEMMA HookPolls ==
    ASSUME WInv, NEW s \in Session, PollStep(s) \/ PollFault(s)
    PROVE  HookCommit
<1>1. HookSound(sessions)
    BY HookSessions
<1>2. ASSUME PollCommit(s)
      PROVE  HookCommit
    <2>1. /\ sessions[s].status # "absent" /\ poll[s].kwh \in Meter /\ UNCHANGED cloud
          /\ Delivered(sessions[s], poll[s].kwh)
        BY <1>2 DEF PollCommit, WInv, HookPollOK, PollerOK, Exists, HookTypes, HookPoller
    <2>2. HookTableStep(sessions, sessions)
        BY <1>1, HookSame
    <2>. QED
        BY <1>2, <2>1, <2>2, HookSettle DEF PollCommit
<1>3. ASSUME PollGiveUp(s) \/ PollExit(s)
      PROVE  HookCommit
    <2>1. \/ sessions' = UpdateSessionState(sessions, s, {"stopping"}, "charging")
          \/ sessions' = ReleaseStopPolling(sessions, s)
          \/ sessions' = sessions
        BY <1>3 DEF PollGiveUp, PollExit
    <2>2. HookTableStep(sessions, sessions')
        BY <1>1, <2>1, HookMarks, HookSame, TRUE \in BOOLEAN
    <2>. QED
        BY <1>3, <2>2, HookStatement DEF PollGiveUp, PollExit
<1>4. ASSUME PollFetch(s) \/ PollBegin(s) \/ PollFault(s)
      PROVE  HookCommit
    <2>1. UNCHANGED db /\ UNCHANGED cloud
        BY <1>4 DEF PollFetch, PollBegin, PollFault
    <2>. QED
        BY <2>1, HookQuiet
<1>. QED
    BY <1>2, <1>3, <1>4 DEF PollStep, PollWork

\* Every step of the service without the webhooks.
LEMMA HookServiceStep ==
    ASSUME WInv, [Next]_vars, ~(\E t \in Tx : CloudNext(t))
    PROVE  HookCommit
<1>1. HookSound(sessions) /\ UNCHANGED cloud
    BY HookSessions, CloudAlone
<1>2. ASSUME NEW w \in Worker, SyncNext(w)
      PROVE  HookCommit
    <2>1. CASE SyncApply(w)
        BY <2>1, HookSyncApply
    <2>2. CASE ~SyncApply(w)
        <3>1. UNCHANGED db
            BY <1>2, <2>2 DEF SyncNext, SyncLoad, SyncMatch, SyncFetch, SyncApplyNothing,
                SyncFault, SyncExpire
        <3>. QED
            BY <1>1, <3>1, HookQuiet
    <2>. QED
        BY <2>1, <2>2
<1>3. ASSUME NEW s \in Session, Age(s) \/ LeaseExpire(s)
      PROVE  HookCommit
    <2>1. \/ sessions' = [sessions EXCEPT ![s].old = TRUE]
          \/ sessions' = [sessions EXCEPT ![s].claimed = FALSE]
        BY <1>3 DEF Age, LeaseExpire
    <2>2. /\ HookTableStep(sessions, [sessions EXCEPT ![s].old = TRUE])
          /\ HookTableStep(sessions, [sessions EXCEPT ![s].claimed = FALSE])
        <3>1. ASSUME NEW b \in BOOLEAN
              PROVE  /\ HookTableStep(sessions, [sessions EXCEPT ![s].old = b])
                     /\ HookTableStep(sessions, [sessions EXCEPT ![s].claimed = b])
            BY <1>1, HookMarks
        <3>. QED
            BY <3>1
    <2>3. HookTableStep(sessions, sessions')
        BY <2>1, <2>2
    <2>. QED
        BY <1>1, <1>3, <2>3, HookStatement DEF Age, LeaseExpire
<1>4. ASSUME RecoverStaleStarts
      PROVE  HookCommit
    <2>1. HookTableStep(sessions, sessions')
        BY <1>1, <1>4, HookSweep DEF RecoverStaleStarts
    <2>. QED
        BY <1>1, <1>4, <2>1, HookStatement DEF RecoverStaleStarts
<1>5. ASSUME \/ \E s \in Session : RetryStop(s)
             \/ Crash
             \/ UNCHANGED vars
      PROVE  HookCommit
    <2>1. UNCHANGED db
        BY <1>5 DEF RetryStop, Crash, vars, db
    <2>. QED
        BY <1>1, <2>1, HookQuiet
<1>. QED
    BY <1>2, <1>3, <1>4, <1>5, HookHandler, HookPolls DEF Next

\* Every step of a webhook.
Webhooks ==
    \/ \E s \in Session : RefuseStop(s) \/ Results(s)
    \/ \E t \in Tx, k \in Meter : Reports(t, k) \/ \E d \in Delivery : StopTransaction(d, t, k)
    \/ \E d \in Delivery : StopStep(d) \/ StopFails(d)

LEMMA HookWebhooks ==
    ASSUME WInv, Webhooks
    PROVE  HookCommit
<1>1. HookSound(sessions)
    BY HookSessions
<1>2. ASSUME NEW s \in Session, Results(s)
      PROVE  HookCommit
    <2>1. /\ \/ sessions' = UpdateSessionState(sessions, s, {"starting"}, "failed")
             \/ sessions' = UpdateSessionState(sessions, s, {"stopping"}, "charging")
          /\ UNCHANGED <<balance, ledger, cloud>>
        BY <1>2 DEF Results, RemoteStartResult, RemoteStopResult
    <2>2. HookTableStep(sessions, sessions')
        BY <1>1, <2>1, HookMarks, TRUE \in BOOLEAN
    <2>. QED
        BY <2>1, <2>2, HookStatement
<1>3. ASSUME NEW t \in Tx, NEW k \in Meter, MeterValues(t, k)
      PROVE  HookCommit
    <2>1. k \in Reported(t) /\ cloud[t].phase # "none"
        BY <1>3 DEF MeterValues
    <2>2. ASSUME NEW s \in Matching(sessions, OcppId[t])
          PROVE  Delivered(sessions[s], k)
        BY <2>1, <2>2 DEF Matching, Own, Names, Delivered
    <2>3. HookTableStep(sessions, sessions')
        BY <1>1, <1>3, <2>2, HookMeter DEF MeterValues
    <2>. QED
        BY <1>3, <2>3, HookStatement DEF MeterValues
<1>4. ASSUME NEW t \in Tx, NEW k \in Meter, StartTransaction(t, k)
      PROVE  HookCommit
    <2>1. UNCHANGED <<balance, ledger, cloud>> /\ cloud[t].phase # "none" /\ k \in Reported(t)
        BY <1>4 DEF StartTransaction
    <2>2. CASE UNCHANGED sessions
        BY <2>1, <2>2, HookQuiet DEF db
    <2>3. ASSUME NEW s \in Targets(t), Attachable(sessions, s, OcppId[t]),
                 sessions' = AttachTransactionToSession(sessions, s, OcppId[t], OcppId[t], k)
          PROVE  HookCommit
        <3>1. s \in Session
            BY <2>3 DEF Targets
        <3>2. HookTableStep(sessions, sessions')
            BY <1>1, <2>1, <2>3, <3>1, HookAttach
        <3>. QED
            BY <2>1, <3>2, HookStatement
    <2>. QED
        BY <1>4, <2>2, <2>3 DEF StartTransaction
<1>5. ASSUME NEW d \in Delivery, CommitStop(d)
      PROVE  HookCommit
    <2>1. /\ hook[d].pc # "idle" /\ hook[d].kwh \in Meter /\ UNCHANGED cloud
          /\ IF hook[d].sess = Null THEN UNCHANGED db
             ELSE Settle(sessions, hook[d].sess, hook[d].kwh)
        BY <1>5 DEF CommitStop, WInv, HookTypes, StopHook
    <2>2. CASE hook[d].sess = Null
        BY <2>1, <2>2, HookQuiet
    <2>3. CASE hook[d].sess # Null
        <3>1. /\ Exists(hook[d].sess)
              /\ Delivered(sessions[hook[d].sess], hook[d].kwh)
            BY <2>1, <2>3 DEF WInv, StopsOK, StopOK
        <3>2. HookTableStep(sessions, sessions)
            BY <1>1, HookSame
        <3>. QED
            BY <2>1, <2>3, <3>1, <3>2, HookSettle DEF Exists
    <2>. QED
        BY <2>2, <2>3
<1>6. ASSUME \/ \E s \in Session : RefuseStop(s)
             \/ \E t \in Tx, k \in Meter :
                    \/ StartTransactionFails(t, k)
                    \/ \E d \in Delivery : StopTransaction(d, t, k)
             \/ \E d \in Delivery : LookupTransaction(d) \/ StopFails(d)
      PROVE  HookCommit
    <2>1. UNCHANGED db /\ UNCHANGED cloud
        BY <1>6 DEF RefuseStop, StartTransactionFails, LookupTransaction, StopFails,
            StopTransaction, vars, db
    <2>. QED
        BY <2>1, HookQuiet
<1>. QED
    BY <1>2, <1>3, <1>4, <1>5, <1>6 DEF Webhooks, Reports, StopStep

-----------------------------------------------------------------------------
(* What requests, goroutines and deliveries remember survives every step.  *)

\* A step of the charger and CitrineOS, or a commit.
HookStep ==
    \/ HookCommit
    \/ (\E t \in Tx : CloudNext(t)) /\ UNCHANGED db

\* What Hasura says of a transaction stays true, and what was once reported stays reported.
LEMMA HookMetersGrow ==
    ASSUME WInv, HookStep
    PROVE  /\ cloud' \in [Tx -> Transaction] /\ MetersOK'
           /\ \A t \in Tx : cloud[t].phase # "none" =>
                /\ cloud'[t].phase # "none" /\ cloud'[t].conn = cloud[t].conn
                /\ \A k \in Reported(t) : (k \in Reported(t))'
<1>1. cloud \in [Tx -> Transaction] /\ MetersOK
    BY DEF WInv, HookTypes
<1>2. cloud' \in [Tx -> Transaction] /\ MetersOK'
    <2>1. CASE UNCHANGED cloud
        BY <1>1, <2>1 DEF MetersOK
    <2>2. ASSUME NEW o \in Tx, CloudNext(o)
          PROVE  cloud' \in [Tx -> Transaction] /\ MetersOK'
        <3>1. PICK q \in Transaction :
                cloud' = [cloud EXCEPT ![o] = q] /\ (Bounded(cloud[o]) => Bounded(q))
            BY <1>1, <2>2, CloudRecord
        <3>2. \A t \in Tx : cloud'[t] = IF t = o THEN q ELSE cloud[t]
            BY <1>1, <3>1
        <3>. QED
            BY <1>1, <3>1, <3>2 DEF MetersOK
    <2>. QED
        BY <2>1, <2>2 DEF HookStep, HookCommit
<1>3. ASSUME NEW t \in Tx, cloud[t].phase # "none"
      PROVE  /\ cloud'[t].phase # "none" /\ cloud'[t].conn = cloud[t].conn
             /\ \A k \in Reported(t) : (k \in Reported(t))'
    <2>1. CASE UNCHANGED cloud
        BY <1>3, <2>1 DEF Reported
    <2>2. CASE \E o \in Tx : CloudNext(o)
        <3>1. Follows(cloud[t], cloud'[t])
            BY <1>1, <1>3, <2>2, CloudStep DEF Next
        <3>2. cloud[t] \in Transaction /\ cloud'[t] \in Transaction
            BY <1>1, <1>2
        <3>. QED
            BY <1>3, <3>1, <3>2 DEF Follows, Reported, Transaction
    <2>. QED
        BY <2>1, <2>2 DEF HookStep, HookCommit
<1>. QED
    BY <1>2, <1>3

\* A row that exists keeps its rider, its connector and the transaction it names, and what
\* is its own stays so.
LEMMA HookLasting ==
    ASSUME WInv, HookStep
    PROVE  /\ \A s \in Session : sessions[s].status # "absent" =>
                /\ sessions'[s].status # "absent"
                /\ sessions'[s].user = sessions[s].user
                /\ sessions[s].ref # Null => sessions'[s].ref = sessions[s].ref
                /\ \A t \in Tx : Own(sessions[s], t) => Own(sessions[s], t)'
                /\ \A k : Delivered(sessions[s], k) => Delivered(sessions[s], k)'
           /\ sessions' \in HookTable /\ HookRowsOK'
<1>1. \A t \in Tx : cloud[t].phase # "none" =>
            /\ cloud'[t].phase # "none" /\ cloud'[t].conn = cloud[t].conn
            /\ \A k \in Reported(t) : (k \in Reported(t))'
    BY HookMetersGrow
<1>2. ASSUME NEW r
      PROVE  /\ \A t \in Tx : Own(r, t) => Own(r, t)'
             /\ \A k : Delivered(r, k) => Delivered(r, k)'
    <2>1. \A t \in Tx : Own(r, t) => Own(r, t)'
        BY <1>1 DEF Own, Names
    <2>2. \A t \in Tx : Own(r, t) => \A k \in Reported(t) : (k \in Reported(t))'
        BY <1>1 DEF Own
    <2>. QED
        BY <2>1, <2>2 DEF Delivered
<1>3. HookTableStep(sessions, sessions') /\ HookSound(sessions)
    <2>1. HookSound(sessions)
        BY HookSessions
    <2>. QED
        BY <2>1, HookSame DEF HookStep, HookCommit, db
<1>4. ASSUME NEW s \in Session
      PROVE  /\ HookRowOK(sessions[s])'
             /\ sessions[s].status # "absent" =>
                /\ sessions'[s].status # "absent"
                /\ sessions'[s].user = sessions[s].user
                /\ sessions[s].ref # Null => sessions'[s].ref = sessions[s].ref
                /\ \A t \in Tx : Own(sessions[s], t) => Own(sessions[s], t)'
                /\ \A k : Delivered(sessions[s], k) => Delivered(sessions[s], k)'
    <2>1. PICK r : r = sessions[s]
        OBVIOUS
    <2>2. PICK q : q = sessions'[s]
        OBVIOUS
    <2>3. HookRowOK(r) /\ HookRowStep(r, q) /\ HookRowOK(q)
        BY <1>3, <2>1, <2>2 DEF HookSound, HookTableStep, HookRowStep
    <2>4. \A t \in Tx : Own(q, t)' <=> Own(sessions[s], t)'
        BY <2>2 DEF Own, Names
    <2>5. \A k : Delivered(q, k)' <=> Delivered(sessions[s], k)'
        BY <2>2, <2>4 DEF Delivered
    <2>6. HookRowOK(sessions[s])'
        BY <1>2, <2>2, <2>3, <2>5 DEF HookRowOK
    <2>7. ASSUME r.status # "absent"
          PROVE  /\ \A t \in Tx : Own(r, t) => Own(q, t)'
                 /\ \A k : Delivered(r, k) => Delivered(q, k)'
        BY <1>2, <2>3, <2>7, OwnKept
    <2>. QED
        BY <2>1, <2>2, <2>3, <2>4, <2>5, <2>6, <2>7 DEF HookRowStep
<1>. QED
    BY <1>3, <1>4 DEF HookTableStep, HookRowsOK

\* The service's own steps, and those of a webhook, which leave its goroutines alone.
OwnOrHook == [Next]_vars \/ UNCHANGED <<cloud, req, sync, poll>>

\* A request ends idle, or goes on with the row or the rider it had.
LEMMA HookReqs ==
    ASSUME WInv, OwnOrHook, HookStep
    PROVE  req' \in [Handler -> Request] /\ ReqOK'
<1>1. /\ req \in [Handler -> Request] /\ ReqOK /\ DOMAIN sessions = Session
      /\ \A s \in Session : sessions[s].ocpp \in OcppIds \cup {Null}
    BY DEF WInv, HookTypes, HookTable, HookRow
<1>2. CASE UNCHANGED req
    BY <1>1, <1>2, HookLasting DEF ReqOK
<1>3. CASE [Next]_vars
    BY <1>1, <1>3, HookLasting, ReqGoesOn
<1>. QED
    BY <1>2, <1>3 DEF OwnOrHook

\* A sync goroutine ends, or goes on with its row and what it read for it.
LEMMA HookSyncs ==
    ASSUME WInv, OwnOrHook, HookStep
    PROVE  sync' \in [Worker -> HookSyncer] /\ HookSyncOK'
<1> DEFINE Good(v) == v \in HookSyncer /\ SyncerOK(v)
<1>1. /\ sync \in [Worker -> HookSyncer] /\ sessions \in HookTable /\ HookRowsOK
      /\ cloud \in [Tx -> Transaction] /\ MetersOK /\ ReqOK
      /\ \A w \in Worker : Good(sync[w])
    BY DEF WInv, HookTypes, HookSyncOK
<1>2. Good(IdleSync)
    <2>1. 0 \in Meter /\ Null \in Ids
        BY LifecycleAssumption DEF Meter, Ids
    <2>. QED
        BY <2>1 DEF IdleSync, HookSyncer, SyncPc, Status, SyncerOK
<1>3. ASSUME NEW v, Good(v)
      PROVE  SyncerOK(v)'
    BY <1>3, HookLasting, HookMetersGrow DEF SyncerOK, Exists, HookSyncer
<1>4. ASSUME NEW w \in Worker, NEW q, sync' = [sync EXCEPT ![w] = q], Good(q)
      PROVE  sync' \in [Worker -> HookSyncer] /\ HookSyncOK'
    <2>1. \A v \in Worker : sync'[v] = IF v = w THEN q ELSE sync[v]
        BY <1>1, <1>4
    <2>2. sync' \in [Worker -> HookSyncer]
        BY <1>1, <1>4
    <2>3. ASSUME NEW v \in Worker
          PROVE  SyncerOK(sync[v])'
        <3>1. PICK r : r = sync'[v]
            OBVIOUS
        <3>2. Good(r)
            BY <1>1, <1>4, <2>1, <3>1
        <3>3. SyncerOK(r)'
            BY <1>3, <3>2
        <3>. QED
            BY <3>1, <3>3 DEF SyncerOK, Exists, Reported
    <2>. QED
        BY <2>2, <2>3 DEF HookSyncOK
<1>5. CASE UNCHANGED sync
    <2>1. ASSUME NEW v \in Worker
          PROVE  SyncerOK(sync[v])'
        <3>1. PICK r : r = sync[v]
            OBVIOUS
        <3>2. SyncerOK(r)'
            BY <1>1, <1>3, <3>1
        <3>. QED
            BY <1>5, <3>1, <3>2 DEF SyncerOK, Exists, Reported
    <2>. QED
        BY <1>1, <1>5, <2>1 DEF HookSyncOK
<1>6. ASSUME NEW w \in Worker, EndSync(w)
      PROVE  sync' \in [Worker -> HookSyncer] /\ HookSyncOK'
    BY <1>2, <1>4, <1>6 DEF EndSync
<1>7. ASSUME NEW s, Exists(s)
      PROVE  Good([IdleSync EXCEPT !.pc = "load", !.sess = s])
    BY <1>2, <1>7 DEF IdleSync, HookSyncer, SyncPc, SyncerOK, Exists
<1>8. ASSUME NEW w \in Worker, NextIteration(w), sync[w].pc # "idle"
      PROVE  sync' \in [Worker -> HookSyncer] /\ HookSyncOK'
    <2>1. Exists(sync[w].sess)
        BY <1>1, <1>8 DEF SyncerOK
    <2>. HIDE DEF Good
    <2>. QED
        BY <1>4, <1>7, <1>8, <2>1 DEF NextIteration
<1>9. ASSUME NEW w \in Worker, NEW h \in Handler, StartDispatch(h, w) \/ StopReplySync(h, w)
      PROVE  sync' \in [Worker -> HookSyncer] /\ HookSyncOK'
    <2>1. Exists(req[h].sess)
        BY <1>1, <1>9 DEF StartDispatch, StopReplySync, ReqOK, Exists
    <2>2. Spawn(w, req[h].sess)
        BY <1>9 DEF StartDispatch, StopReplySync
    <2>. HIDE DEF Good
    <2>. QED
        BY <1>4, <1>7, <2>1, <2>2 DEF Spawn
<1>10. ASSUME NEW w \in Worker, SyncLoad(w)
       PROVE  sync' \in [Worker -> HookSyncer] /\ HookSyncOK'
    <2> DEFINE s == sync[w].sess
               row == sessions[s]
               pc == IF ParseInt(row.ref) = Null THEN "match" ELSE "fetch"
               q == [IdleSync EXCEPT !.pc = pc, !.sess = s, !.status = row.status,
                         !.ref = row.ref, !.ocpp = row.ocpp, !.remote = row.remote,
                         !.tx = ParseInt(row.ref)]
    <2>1. Exists(s)
        BY <1>1, <1>10 DEF SyncLoad, SyncerOK
    <2>2. /\ row.status \in Status /\ row.ref \in Ids /\ ParseInt(row.ref) \in Ids
          /\ row.ocpp \in OcppIds \cup {Null} /\ row.remote \in BOOLEAN
        BY <1>1, <2>1 DEF HookTable, HookRow, Exists, ParseInt, Ids
    <2>3. q \in HookSyncer
        <3>1. pc \in SyncPc
            BY DEF SyncPc
        <3>. HIDE DEF pc, row
        <3>. QED
            BY <1>2, <2>1, <2>2, <3>1 DEF IdleSync, HookSyncer, Exists
    <2>4. q.pc = pc /\ q.sess = s /\ q.ref = row.ref /\ pc \in {"match", "fetch"}
        BY DEF IdleSync
    <2>5. EndSync(w) \/ sync' = [sync EXCEPT ![w] = q]
        BY <1>10 DEF SyncLoad
    <2>. HIDE DEF q, pc
    <2>6. Good(q)
        BY <2>1, <2>3, <2>4 DEF SyncerOK
    <2>. HIDE DEF Good
    <2>. QED
        BY <1>4, <1>6, <2>5, <2>6
<1>11. ASSUME NEW w \in Worker, SyncMatch(w)
       PROVE  sync' \in [Worker -> HookSyncer] /\ HookSyncOK'
    <2>1. sync[w].pc = "match" /\ Good(sync[w])
        BY <1>1, <1>11 DEF SyncMatch
    <2>2. CASE NextIteration(w)
        BY <1>8, <2>1, <2>2
    <2>3. CASE ~NextIteration(w)
        <3>1. PICK t \in Candidates(w) : sync' = [sync EXCEPT ![w].pc = "fetch", ![w].tx = t]
            BY <1>11, <2>3 DEF SyncMatch
        <3>2. t \in Tx
            BY DEF Candidates, ByRemoteStartID, Fallback
        <3> DEFINE q == [sync[w] EXCEPT !.pc = "fetch", !.tx = t]
        <3>3. /\ q \in HookSyncer /\ q.pc = "fetch"
              /\ q.ref = sync[w].ref /\ q.sess = sync[w].sess
            BY <2>1, <3>2 DEF HookSyncer, SyncPc, Ids
        <3>4. sync' = [sync EXCEPT ![w] = q]
            BY <1>1, <3>1
        <3>. HIDE DEF q
        <3>5. Good(q)
            BY <2>1, <3>3 DEF SyncerOK
        <3>. HIDE DEF Good
        <3>. QED
            BY <1>4, <3>4, <3>5
    <2>. QED
        BY <2>2, <2>3
<1>12. ASSUME NEW w \in Worker, SyncFetch(w)
       PROVE  sync' \in [Worker -> HookSyncer] /\ HookSyncOK'
    <2> DEFINE t == sync[w].tx
    <2>1. sync[w].pc = "fetch" /\ Good(sync[w])
        BY <1>1, <1>12 DEF SyncFetch
    <2>2. CASE NextIteration(w)
        BY <1>8, <2>1, <2>2
    <2>3. CASE ~NextIteration(w)
        <3>1. PICK tx \in GetTransactionByID(t) :
                sync' = [sync EXCEPT ![w].pc = "apply", ![w].kwh = tx.kwh,
                                     ![w].finished = tx.finished]
            BY <1>12, <2>3 DEF SyncFetch
        <3>2. PICK k \in MeterReadings(t) : tx = Snapshot(t, k) /\ t \in Tx /\ cloud[t].phase # "none"
            BY <3>1 DEF GetTransactionByID, ByID
        <3>3. k \in Reported(t) /\ k \in Meter
            <4>1. cloud[t] \in Transaction /\ Bounded(cloud[t])
                BY <1>1, <3>2 DEF MetersOK
            <4>. QED
                BY <3>2, <4>1, LifecycleAssumption
                DEF MeterReadings, Reported, Meter, Bounded, Transaction
        <3>4. tx.kwh = k /\ tx.finished \in BOOLEAN
            BY <3>2 DEF Snapshot
        <3> DEFINE q == [sync[w] EXCEPT !.pc = "apply", !.kwh = tx.kwh, !.finished = tx.finished]
        <3>5. sync' = [sync EXCEPT ![w] = q]
            BY <1>1, <3>1
        <3>6. /\ q \in HookSyncer /\ q.pc = "apply" /\ q.tx = t /\ q.sess = sync[w].sess
              /\ q.ref = sync[w].ref /\ q.kwh = k
            BY <2>1, <3>3, <3>4 DEF HookSyncer, SyncPc
        <3>. HIDE DEF q
        <3>7. Good(q)
            BY <2>1, <3>2, <3>3, <3>6 DEF SyncerOK
        <3>. HIDE DEF Good
        <3>. QED
            BY <1>4, <3>5, <3>7
    <2>. QED
        BY <2>2, <2>3
<1>13. ASSUME NEW w \in Worker,
              SyncApply(w) \/ SyncApplyNothing(w) \/ SyncFault(w) \/ SyncExpire(w)
       PROVE  sync' \in [Worker -> HookSyncer] /\ HookSyncOK'
    <2>1. sync[w].pc # "idle"
        BY <1>13 DEF SyncApply, SyncApplyNothing, SyncFault, SyncExpire
    <2>2. EndSync(w) \/ NextIteration(w)
        BY <1>13 DEF SyncApply, SyncApplyNothing, SyncFault, SyncExpire
    <2>. QED
        BY <1>6, <1>8, <2>1, <2>2
<1>14. CASE Crash
    <2>1. sync' \in [Worker -> HookSyncer] /\ \A w \in Worker : sync'[w].pc = "idle"
        BY <1>2, <1>14 DEF Crash, IdleSync
    <2>. QED
        BY <2>1 DEF HookSyncOK, SyncerOK
<1>15. ASSUME NEW h \in Handler, HandlerNext(h),
              ~\E w \in Worker : StartDispatch(h, w) \/ StopReplySync(h, w)
       PROVE  UNCHANGED sync
    BY <1>15 DEF HandlerNext, StartCheckWallet, StartCheckUser, StartCheckConnector,
        StartCreate, StartRemoteID, StartAbort, StopRead, StopMark, StopSend, StopReload,
        StopReplyPoll, StopAbort
<1>16. ASSUME \/ \E s \in Session :
                    PollStep(s) \/ PollFault(s) \/ Age(s) \/ LeaseExpire(s) \/ RetryStop(s)
              \/ \E t \in Tx : CloudNext(t)
              \/ RecoverStaleStarts \/ UNCHANGED vars
       PROVE  UNCHANGED sync
    BY <1>16 DEF PollStep, PollWork, PollFetch, PollBegin, PollCommit, PollGiveUp, PollExit,
        PollFault, Age, LeaseExpire, RetryStop, CloudNext, TxStart, TxMeter, TxFinish,
        RecoverStaleStarts, Service, vars
<1>. QED
    <2>. HIDE DEF Good
    <2>. QED
        BY <1>5, <1>9, <1>10, <1>11, <1>12, <1>13, <1>14, <1>15, <1>16
        DEF OwnOrHook, Next, SyncNext

\* A poller is started on a row that exists, and reads energies that were delivered to the
\* row: those of transactions it names, and the row's own.
LEMMA HookPollers ==
    ASSUME WInv, OwnOrHook, HookStep
    PROVE  poll' \in [Session -> HookPoller] /\ HookPollOK'
<1> DEFINE Good(s, v) == v \in HookPoller /\ PollerOK(s, v)
<1>1. /\ poll \in [Session -> HookPoller] /\ sessions \in HookTable /\ HookRowsOK
      /\ MetersOK /\ ReqOK /\ cloud \in [Tx -> Transaction]
      /\ \A s \in Session : Good(s, poll[s])
    BY DEF WInv, HookTypes, HookPollOK
<1>2. ASSUME NEW s \in Session
      PROVE  Good(s, NoPoll)
    <2>1. 0 \in Meter
        BY LifecycleAssumption DEF Meter
    <2>. QED
        BY <2>1, LifecycleAssumption DEF NoPoll, HookPoller, PollPc, PollerOK
<1>3. ASSUME NEW s \in Session, NEW v, Good(s, v)
      PROVE  PollerOK(s, v)'
    BY <1>3, HookLasting DEF PollerOK, Exists
<1>4. ASSUME NEW s \in Session, NEW q, poll' = [poll EXCEPT ![s] = q], Good(s, q)
      PROVE  poll' \in [Session -> HookPoller] /\ HookPollOK'
    <2>1. \A o \in Session : poll'[o] = IF o = s THEN q ELSE poll[o]
        BY <1>1, <1>4
    <2>2. poll' \in [Session -> HookPoller]
        BY <1>1, <1>4
    <2>3. ASSUME NEW o \in Session
          PROVE  PollerOK(o, poll[o])'
        <3>1. PICK r : r = poll'[o]
            OBVIOUS
        <3>2. Good(o, r)
            BY <1>1, <1>4, <2>1, <3>1
        <3>3. PollerOK(o, r)'
            BY <1>3, <3>2
        <3>. QED
            BY <3>1, <3>3 DEF PollerOK, Exists, Delivered, Own, Names, Reported
    <2>. QED
        BY <2>2, <2>3 DEF HookPollOK
<1>5. CASE UNCHANGED poll
    <2>1. ASSUME NEW o \in Session
          PROVE  PollerOK(o, poll[o])'
        <3>1. PICK r : r = poll[o]
            OBVIOUS
        <3>2. PollerOK(o, r)'
            BY <1>1, <1>3, <3>1
        <3>. QED
            BY <1>5, <3>1, <3>2 DEF PollerOK, Exists, Delivered, Own, Names, Reported
    <2>. QED
        BY <1>1, <1>5, <2>1 DEF HookPollOK
<1>6. ASSUME NEW s \in Session, NEW pc \in {"exit", "giveup"}, GoPoll(s, pc), poll[s].pc # "off"
      PROVE  poll' \in [Session -> HookPoller] /\ HookPollOK'
    <2> DEFINE q == [poll[s] EXCEPT !.pc = pc]
    <2>1. /\ q \in HookPoller /\ q.pc = pc /\ q.kwh = poll[s].kwh
          /\ Exists(s) /\ Delivered(sessions[s], poll[s].kwh)
        BY <1>1, <1>6 DEF HookPoller, PollPc, PollerOK
    <2>2. poll' = [poll EXCEPT ![s] = q]
        BY <1>1, <1>6 DEF GoPoll
    <2>. HIDE DEF q
    <2>. QED
        BY <1>4, <2>1, <2>2 DEF PollerOK
<1>7. ASSUME NEW s \in Session, poll[s].pc = "fetch", poll[s].attempt < MaxAttempts,
             poll' = [poll EXCEPT ![s].attempt = @ + 1]
      PROVE  poll' \in [Session -> HookPoller] /\ HookPollOK'
    <2> DEFINE q == [poll[s] EXCEPT !.attempt = @ + 1]
    <2>1. /\ q \in HookPoller /\ q.pc = "fetch" /\ q.kwh = poll[s].kwh
          /\ Exists(s) /\ Delivered(sessions[s], poll[s].kwh)
        BY <1>1, <1>7, LifecycleAssumption DEF HookPoller, PollPc, PollerOK
    <2>2. poll' = [poll EXCEPT ![s] = q]
        BY <1>1, <1>7
    <2>. HIDE DEF q
    <2>. QED
        BY <1>4, <2>1, <2>2 DEF PollerOK
<1>8. ASSUME NEW s \in Session, NEW pc \in {"begin", "commit"}, NEW k \in Meter,
             poll' = [poll EXCEPT ![s].pc = pc, ![s].kwh = k], poll[s].pc # "off",
             Delivered(sessions[s], k)
      PROVE  poll' \in [Session -> HookPoller] /\ HookPollOK'
    <2> DEFINE q == [poll[s] EXCEPT !.pc = pc, !.kwh = k]
    <2>1. q \in HookPoller /\ q.pc = pc /\ q.kwh = k /\ Exists(s)
        BY <1>1, <1>8 DEF HookPoller, PollPc, PollerOK
    <2>2. poll' = [poll EXCEPT ![s] = q]
        BY <1>1, <1>8
    <2>. HIDE DEF q
    <2>. QED
        BY <1>4, <1>8, <2>1, <2>2 DEF PollerOK
<1>9. ASSUME NEW s \in Session, NEW tx \in Ended(sessions[s])
      PROVE  tx.kwh \in Meter /\ Delivered(sessions[s], tx.kwh)
    <2>1. /\ sessions[s] \in HookRow /\ HookRowOK(sessions[s])
          /\ sessions[s].status # "absent" => Exists(s)
        BY <1>1 DEF HookRowsOK, HookTable, Exists
    <2>2. PICK t \in Tx :
                /\ cloud[t].phase # "none" /\ Names(sessions[s], t)
                /\ \E k \in MeterReadings(t) \cup {cloud[t].total} : tx = Snapshot(t, k)
        <3>1. CASE tx \in GetTransactionByID(ParseInt(sessions[s].ref))
            <4>1. PICK t \in ByID(ParseInt(sessions[s].ref)) :
                        \E k \in MeterReadings(t) : tx = Snapshot(t, k)
                BY <3>1 DEF GetTransactionByID
            <4>2. t \in Tx /\ t = ParseInt(sessions[s].ref) /\ cloud[t].phase # "none"
                BY <4>1 DEF ByID
            <4>3. t = sessions[s].ref
                BY <4>2, StoreAssumption DEF ParseInt
            <4>. QED
                BY <4>1, <4>2, <4>3 DEF Names
        <3>2. CASE tx \in GetTransactionByOCPPTransactionID(sessions[s].ocpp)
            <4>1. PICK t \in ByOCPPTransactionID(sessions[s].ocpp) : tx = Snapshot(t, cloud[t].total)
                BY <3>2 DEF GetTransactionByOCPPTransactionID
            <4>2. t \in Tx /\ OcppId[t] = sessions[s].ocpp /\ cloud[t].phase # "none"
                BY <4>1 DEF ByOCPPTransactionID
            <4>. QED
                BY <4>1, <4>2 DEF Names
        <3>. QED
            BY <3>1, <3>2 DEF Ended, Resolved
    <2>3. PICK k \in MeterReadings(t) \cup {cloud[t].total} : tx = Snapshot(t, k)
        BY <2>2
    <2>4. k \in Reported(t) /\ k \in Meter
        <3>1. cloud[t] \in Transaction /\ Bounded(cloud[t])
            BY <1>1 DEF MetersOK
        <3>. QED
            BY <3>1, LifecycleAssumption
            DEF MeterReadings, Reported, Meter, Bounded, Transaction
    <2>. QED
        BY <2>2, <2>3, <2>4 DEF Snapshot, Delivered, Own
<1>10. ASSUME NEW s \in Session, PollFetch(s)
       PROVE  poll' \in [Session -> HookPoller] /\ HookPollOK'
    <2>1. /\ poll[s].pc = "fetch"
          /\ \/ GoPoll(s, "exit") \/ GoPoll(s, "giveup")
             \/ \E tx \in Ended(sessions[s]) :
                    poll' = [poll EXCEPT ![s].pc = "begin", ![s].kwh = tx.kwh]
             \/ /\ poll[s].attempt < MaxAttempts
                /\ poll' = [poll EXCEPT ![s].attempt = @ + 1]
        BY <1>10 DEF PollFetch
    <2>2. ASSUME NEW tx \in Ended(sessions[s]),
                 poll' = [poll EXCEPT ![s].pc = "begin", ![s].kwh = tx.kwh]
          PROVE  poll' \in [Session -> HookPoller] /\ HookPollOK'
        <3>1. PICK k \in Meter : k = tx.kwh /\ Delivered(sessions[s], k)
            BY <1>9, <2>2
        <3>. QED
            BY <1>8, <2>1, <2>2, <3>1
    <2>. QED
        BY <1>6, <1>7, <2>1, <2>2
<1>11. ASSUME NEW s \in Session, PollFault(s)
       PROVE  poll' \in [Session -> HookPoller] /\ HookPollOK'
    BY <1>6, <1>7, <1>11 DEF PollFault
<1>12. ASSUME NEW s \in Session, PollBegin(s)
       PROVE  poll' \in [Session -> HookPoller] /\ HookPollOK'
    <2> DEFINE k == IF poll[s].kwh = 0 THEN sessions[s].kwh ELSE poll[s].kwh
    <2>1. poll[s].pc = "begin"
          /\ (GoPoll(s, "exit") \/ poll' = [poll EXCEPT ![s].pc = "commit", ![s].kwh = k])
        BY <1>12 DEF PollBegin
    <2>2. k \in Meter /\ Delivered(sessions[s], k)
        <3>1. /\ sessions[s].kwh \in Meter /\ Delivered(sessions[s], sessions[s].kwh)
              /\ poll[s].kwh \in Meter /\ Delivered(sessions[s], poll[s].kwh)
            BY <1>1, <2>1 DEF HookTable, HookRow, HookPoller, HookRowsOK, HookRowOK, PollerOK
        <3>. QED
            BY <3>1
    <2>. HIDE DEF k
    <2>. QED
        BY <1>6, <1>8, <2>1, <2>2
<1>13. ASSUME NEW s \in Session, PollCommit(s) \/ PollGiveUp(s)
       PROVE  poll' \in [Session -> HookPoller] /\ HookPollOK'
    BY <1>6, <1>13 DEF PollCommit, PollGiveUp
<1>14. ASSUME NEW s \in Session, PollExit(s)
       PROVE  poll' \in [Session -> HookPoller] /\ HookPollOK'
    BY <1>2, <1>4, <1>14 DEF PollExit
<1>15. ASSUME NEW h \in Handler, StopReplyPoll(h)
       PROVE  poll' \in [Session -> HookPoller] /\ HookPollOK'
    <2> DEFINE s == req[h].sess
               q == [pc |-> "fetch", attempt |-> 1, kwh |-> 0]
    <2>1. Exists(s) /\ (UNCHANGED poll \/ poll' = [poll EXCEPT ![s] = q])
        BY <1>1, <1>15 DEF StopReplyPoll, ReqOK, Exists
    <2>2. q \in HookPoller /\ q.pc = "fetch" /\ q.kwh = 0
        BY LifecycleAssumption DEF HookPoller, PollPc, Meter
    <2>. HIDE DEF q
    <2>3. Good(s, q)
        BY <2>1, <2>2 DEF PollerOK, Delivered
    <2>. HIDE DEF Good
    <2>. QED
        BY <1>4, <1>5, <2>1, <2>3 DEF Exists
<1>16. CASE Crash
    <2>1. /\ poll' = [s \in Session |-> NoPoll] /\ NoPoll.pc = "off"
          /\ \A s \in Session : NoPoll \in HookPoller
        BY <1>2, <1>16 DEF Crash, NoPoll
    <2>. QED
        BY <2>1 DEF HookPollOK, PollerOK
<1>17. ASSUME NEW h \in Handler, HandlerNext(h), ~StopReplyPoll(h)
       PROVE  UNCHANGED poll
    BY <1>17 DEF HandlerNext, StartCheckWallet, StartCheckUser, StartCheckConnector,
        StartCreate, StartRemoteID, StartDispatch, StartAbort, StopRead, StopMark, StopSend,
        StopReload, StopReplySync, StopAbort
<1>18. ASSUME \/ \E w \in Worker : SyncNext(w)
              \/ \E s \in Session : Age(s) \/ LeaseExpire(s) \/ RetryStop(s)
              \/ \E t \in Tx : CloudNext(t)
              \/ RecoverStaleStarts \/ UNCHANGED vars
       PROVE  UNCHANGED poll
    BY <1>18 DEF SyncNext, SyncLoad, SyncMatch, SyncFetch, SyncApply, SyncApplyNothing,
        SyncFault, SyncExpire, Age, LeaseExpire, RetryStop, CloudNext, TxStart, TxMeter,
        TxFinish, RecoverStaleStarts, Service, vars
<1>. QED
    <2>. HIDE DEF Good
    <2>. QED
        BY <1>5, <1>10, <1>11, <1>12, <1>13, <1>14, <1>15, <1>16, <1>17, <1>18
        DEF OwnOrHook, Next, PollStep, PollWork

\* A delivery starts on a finished transaction and a row that names it, or finds a session
\* on the transaction's connector; its energy is one of the transaction or of the row.
LEMMA HookDeliveries ==
    ASSUME WInv, [WebhookNext]_webhookVars, HookStep
    PROVE  hook' \in [Delivery -> StopHook] /\ StopsOK'
<1> DEFINE Good(v) == v \in StopHook /\ StopOK(v)
<1>1. /\ hook \in [Delivery -> StopHook] /\ sessions \in HookTable /\ HookRowsOK
      /\ MetersOK /\ cloud \in [Tx -> Transaction]
      /\ \A d \in Delivery : Good(hook[d])
    BY DEF WInv, HookTypes, StopsOK
<1>2. Good(NoHook)
    <2>1. 0 \in Meter
        BY LifecycleAssumption DEF Meter
    <2>. QED
        BY <2>1 DEF NoHook, StopHook, StopOK
<1>3. ASSUME NEW v, Good(v)
      PROVE  StopOK(v)'
    BY <1>3, HookLasting, HookMetersGrow DEF StopOK, Exists, StopHook
<1>4. ASSUME NEW d \in Delivery, NEW q, hook' = [hook EXCEPT ![d] = q], Good(q)
      PROVE  hook' \in [Delivery -> StopHook] /\ StopsOK'
    <2>1. \A o \in Delivery : hook'[o] = IF o = d THEN q ELSE hook[o]
        BY <1>1, <1>4
    <2>2. hook' \in [Delivery -> StopHook]
        BY <1>1, <1>4
    <2>3. ASSUME NEW o \in Delivery
          PROVE  StopOK(hook[o])'
        <3>1. PICK r : r = hook'[o]
            OBVIOUS
        <3>2. Good(r)
            BY <1>1, <1>4, <2>1, <3>1
        <3>3. StopOK(r)'
            BY <1>3, <3>2
        <3>. QED
            BY <3>1, <3>3 DEF StopOK, Exists, Delivered, Own, Names, Reported
    <2>. QED
        BY <2>2, <2>3 DEF StopsOK
<1>5. CASE UNCHANGED hook
    <2>1. ASSUME NEW o \in Delivery
          PROVE  StopOK(hook[o])'
        <3>1. PICK r : r = hook[o]
            OBVIOUS
        <3>2. StopOK(r)'
            BY <1>1, <1>3, <3>1
        <3>. QED
            BY <1>5, <3>1, <3>2 DEF StopOK, Exists, Delivered, Own, Names, Reported
    <2>. QED
        BY <1>1, <1>5, <2>1 DEF StopsOK
<1>6. CASE hook' = [d \in Delivery |-> NoHook]
    BY <1>2, <1>6 DEF StopsOK, StopOK, NoHook
<1>7. ASSUME NEW d \in Delivery, CommitStop(d) \/ StopFails(d)
      PROVE  hook' \in [Delivery -> StopHook] /\ StopsOK'
    BY <1>2, <1>4, <1>7 DEF CommitStop, StopFails
<1>8. \A s \in Session : HookRowOK(sessions[s]) /\ sessions[s].kwh \in Meter
    BY <1>1 DEF HookRowsOK, HookTable, HookRow
<1>9. ASSUME NEW d \in Delivery, NEW t \in Tx, NEW k \in Meter, StopTransaction(d, t, k)
      PROVE  hook' \in [Delivery -> StopHook] /\ StopsOK'
    <2> DEFINE rows == Matching(sessions, OcppId[t])
    <2>1. PICK s \in IF rows = {} THEN {Null} ELSE rows :
            hook' = [hook EXCEPT ![d] = [pc |-> "lookup", tx |-> t, sess |-> s,
                                 kwh |-> IF k > 0 \/ s = Null THEN k ELSE sessions[s].kwh]]
        BY <1>9 DEF StopTransaction
    <2>2. cloud[t].phase # "none" /\ k \in Reported(t)
        BY <1>9 DEF StopTransaction
    <2> DEFINE j == IF k > 0 \/ s = Null THEN k ELSE sessions[s].kwh
               q == [pc |-> "lookup", tx |-> t, sess |-> s, kwh |-> j]
    <2>3. s # Null => s \in Session /\ OcppId[t] \in {sessions[s].ref, sessions[s].ocpp}
        BY <2>1 DEF Matching
    <2>4. s # Null => /\ Exists(s) /\ Own(sessions[s], t)
                      /\ Delivered(sessions[s], sessions[s].kwh) /\ Delivered(sessions[s], k)
        <3>1. OcppId[t] # Null
            BY StoreAssumption
        <3>. QED
            BY <1>8, <2>2, <2>3, <3>1 DEF HookRowOK, Exists, Own, Names, Delivered
    <2>5. /\ j \in Meter /\ j \in {k} \cup {sessions[s].kwh} /\ (s = Null => j = k)
          /\ s \in Session \cup {Null}
        BY <1>8, <2>3
    <2>. HIDE DEF j
    <2>6. q \in StopHook /\ q.tx = t /\ q.sess = s /\ q.kwh = j
        BY <2>5 DEF StopHook
    <2>7. hook' = [hook EXCEPT ![d] = q]
        BY <2>1 DEF j
    <2>. HIDE DEF q
    <2>8. Good(q)
        BY <2>2, <2>4, <2>5, <2>6 DEF StopOK
    <2>. HIDE DEF Good
    <2>. QED
        BY <1>4, <2>7, <2>8
<1>10. ASSUME NEW d \in Delivery, LookupTransaction(d)
       PROVE  hook' \in [Delivery -> StopHook] /\ StopsOK'
    <2> DEFINE v == hook[d]
               t == v.tx
    <2>1. v \in StopHook /\ StopOK(v) /\ v.pc = "lookup" /\ t \in Tx /\ cloud[t].phase # "none"
        <3>1. v \in StopHook /\ StopOK(v)
            BY <1>1
        <3>2. v.pc = "lookup"
            BY <1>10 DEF LookupTransaction
        <3>. QED
            BY <3>1, <3>2 DEF StopOK
    <2>2. ByOCPPTransactionID(OcppId[t]) \subseteq {t}
        BY <2>1 DEF ByOCPPTransactionID
    <2>3. cloud[t].total \in Meter /\ cloud[t].total \in Reported(t)
        <3>1. cloud[t] \in Transaction /\ Bounded(cloud[t])
            BY <1>1, <2>1 DEF MetersOK
        <3>. QED
            BY <3>1, LifecycleAssumption DEF Reported, Meter, Bounded, Transaction
    <2>4. PICK found \in {{}, ByOCPPTransactionID(OcppId[t])} :
            LET others == IF v.sess = Null THEN UNION {LatestOn(o) : o \in found} ELSE {}
                totals == {cloud[o].total : o \in found} \ {0}
            IN
            \E s \in IF others = {} THEN {v.sess} ELSE others :
                LET known == IF v.kwh = 0 /\ s \in others THEN sessions[s].kwh ELSE v.kwh IN
                \E k \in IF totals = {} THEN {known} ELSE totals :
                    hook' = [hook EXCEPT ![d].pc = "commit", ![d].sess = s, ![d].kwh = k]
        BY <1>10 DEF LookupTransaction
    <2> DEFINE others == IF v.sess = Null THEN UNION {LatestOn(o) : o \in found} ELSE {}
               totals == {cloud[o].total : o \in found} \ {0}
               known(s) == IF v.kwh = 0 /\ s \in others THEN sessions[s].kwh ELSE v.kwh
    <2>5. PICK s \in IF others = {} THEN {v.sess} ELSE others :
            \E k \in IF totals = {} THEN {known(s)} ELSE totals :
                hook' = [hook EXCEPT ![d].pc = "commit", ![d].sess = s, ![d].kwh = k]
        BY <2>4
    <2>6. PICK k \in IF totals = {} THEN {known(s)} ELSE totals :
            hook' = [hook EXCEPT ![d].pc = "commit", ![d].sess = s, ![d].kwh = k]
        BY <2>5
    <2>7. totals \subseteq {cloud[t].total}
        BY <2>2, <2>4
    <2>8. ASSUME s \in others
          PROVE  v.sess = Null /\ s \in Session /\ Exists(s) /\ Own(sessions[s], t)
        <3>1. v.sess = Null /\ s \in LatestOn(t)
            BY <2>2, <2>4, <2>8
        <3>2. s \in Session /\ sessions[s].status \in Live /\ sessions[s].conn = cloud[t].conn
            BY <3>1 DEF LatestOn, ActiveOnConnector
        <3>. QED
            BY <2>1, <3>1, <3>2 DEF Exists, Live, Own
    <2>9. s \notin others => s = v.sess
        BY <2>5
    <2>10. k \in {cloud[t].total, known(s)}
        BY <2>6, <2>7
    <2>. HIDE DEF others, totals, v, t
    <2>11. v.sess = Null => v.kwh \in Reported(t)
        BY <2>1 DEF StopOK, t
    <2>12. v.sess # Null => /\ Exists(v.sess) /\ Own(sessions[v.sess], t)
                            /\ Delivered(sessions[v.sess], v.kwh)
        BY <2>1 DEF StopOK, t
    <2>13. k \in Meter /\ s \in Session \cup {Null}
        BY <1>8, <2>1, <2>3, <2>8, <2>9, <2>10 DEF StopHook
    <2>14. s = Null => k \in Reported(t)
        <3>1. s = Null => s \notin others
            BY <2>8, StoreAssumption
        <3>. QED
            BY <2>3, <2>9, <2>10, <2>11, <3>1
    <2>15. s # Null => Exists(s) /\ Own(sessions[s], t)
        BY <2>8, <2>9, <2>12
    <2>16. s # Null => Delivered(sessions[s], k)
        <3>1. s # Null => \A j \in Reported(t) : Delivered(sessions[s], j)
            BY <2>1, <2>15 DEF Delivered
        <3>2. s \in others => Delivered(sessions[s], sessions[s].kwh)
            BY <1>8, <2>8 DEF HookRowOK
        <3>. QED
            BY <2>3, <2>8, <2>9, <2>10, <2>11, <2>12, <3>1, <3>2
    <2> DEFINE q == [v EXCEPT !.pc = "commit", !.sess = s, !.kwh = k]
    <2>17. hook' = [hook EXCEPT ![d] = q]
        BY <1>1, <2>6 DEF v
    <2>18. q \in StopHook /\ q.tx = t /\ q.sess = s /\ q.kwh = k
        BY <2>1, <2>13 DEF StopHook, t
    <2>. HIDE DEF q
    <2>19. Good(q)
        BY <2>1, <2>14, <2>15, <2>16, <2>18 DEF StopOK
    <2>. HIDE DEF Good
    <2>. QED
        BY <1>4, <2>17, <2>19
<1>11. ASSUME Webhooks,
              ~\E d \in Delivery :
                \/ CommitStop(d) \/ StopFails(d) \/ LookupTransaction(d)
                \/ \E t \in Tx, k \in Meter : StopTransaction(d, t, k)
       PROVE  UNCHANGED hook
    BY <1>11 DEF Webhooks, RefuseStop, Results, RemoteStartResult, RemoteStopResult, Reports,
        MeterValues, StartTransaction, StartTransactionFails, StopStep, webhook
<1>. QED
    <2>. HIDE DEF Good
    <2>. QED
        BY <1>5, <1>6, <1>7, <1>9, <1>10, <1>11 DEF WebhookNext, Webhooks, StopStep, webhookVars, webhook, Meter

\* What is recorded and refused are events.
LEMMA HookEvents ==
    ASSUME WInv, [WebhookNext]_webhookVars
    PROVE  refused' \subseteq Event /\ recorded' \subseteq Event
<1>1. /\ refused \subseteq Event /\ recorded \subseteq Event
      /\ \A d \in Delivery : hook[d].pc # "idle" => hook[d].tx \in Tx
    BY DEF WInv, HookTypes, StopsOK, StopOK
<1>2. /\ \A s \in Session : /\ About(s, "remote_start_result") \in Event
                            /\ About(s, "remote_stop_result") \in Event
      /\ \A t \in Tx : /\ Report(t, "start_transaction", 0) \in Event
                       /\ StopEvent(t) \in Event
                       /\ \A k \in Meter : Report(t, "meter_values", k) \in Event
    BY LifecycleAssumption DEF About, Report, StopEvent, Event, Meter
<1>3. CASE UNCHANGED <<refused, recorded>>
    BY <1>1, <1>3
<1>4. ASSUME NEW s \in Session, RefuseStop(s) \/ Results(s)
      PROVE  refused' \subseteq Event /\ recorded' \subseteq Event
    BY <1>1, <1>2, <1>4 DEF RefuseStop, Results, RemoteStartResult, RemoteStopResult, Record
<1>5. ASSUME NEW t \in Tx, NEW k \in Meter, StartTransaction(t, k) \/ MeterValues(t, k)
      PROVE  refused' \subseteq Event /\ recorded' \subseteq Event
    BY <1>1, <1>2, <1>5 DEF StartTransaction, StartEvent, MeterValues, Record
<1>6. ASSUME NEW d \in Delivery, CommitStop(d)
      PROVE  refused' \subseteq Event /\ recorded' \subseteq Event
    BY <1>1, <1>2, <1>6 DEF CommitStop
<1>7. ASSUME NEW t \in Tx, NEW k \in Meter, StartTransactionFails(t, k)
      PROVE  UNCHANGED <<refused, recorded>>
    BY <1>7 DEF StartTransactionFails, webhook
<1>8. ASSUME NEW d \in Delivery, LookupTransaction(d) \/ StopFails(d)
      PROVE  UNCHANGED <<refused, recorded>>
    BY <1>8 DEF LookupTransaction, StopFails
<1>9. ASSUME NEW d \in Delivery, NEW t \in Tx, NEW k \in Meter, StopTransaction(d, t, k)
      PROVE  UNCHANGED <<refused, recorded>>
    BY <1>9 DEF StopTransaction
<1>. QED
    BY <1>3, <1>4, <1>5, <1>6, <1>7, <1>8, <1>9
    DEF WebhookNext, Reports, StopStep, webhookVars, webhook, Meter

\* A debit stays that of a stopped session and of a transaction of its own; the next one is
\* of another session.
LEMMA HookDebits ==
    ASSUME WInv, HookStep
    PROVE  /\ balance' \in [User -> Nat] /\ ledger' \subseteq Debit
           /\ DebitsOK'
<1>1. balance \in [User -> Nat] /\ ledger \subseteq Debit /\ DebitsOK /\ HookRowsOK
    BY DEF WInv, HookTypes
<1>2. UNCHANGED <<balance, ledger>> \/ HookCommit
    BY DEF HookStep, db
<1>3. ASSUME NEW s \in Session, sessions[s].status = "stopped", sessions[s].billed
      PROVE  /\ sessions'[s].status = "stopped" /\ sessions'[s].billed
             /\ sessions'[s].user = sessions[s].user
             /\ \A t \in Tx : Own(sessions[s], t) => Own(sessions[s], t)'
    BY <1>3, HookLasting DEF HookStep, HookCommit, HookTableStep, HookRowStep, db
<1>4. ASSUME NEW t \in Tx, cloud[t].phase # "none"
      PROVE  \A k \in Reported(t) : (k \in Reported(t))'
    BY <1>4, HookMetersGrow
<1> DEFINE Settled(e) ==
               /\ sessions'[e.key].status = "stopped" /\ sessions'[e.key].billed
               /\ sessions'[e.key].user = e.user
               /\ Paid(e)'
<1>5. ASSUME NEW e \in ledger
      PROVE  Settled(e) /\ \A f \in ledger : f.key = e.key => f = e
    <2>1. e.key \in Session
        BY <1>1 DEF Debit
    <2>2. /\ sessions[e.key].status = "stopped" /\ sessions[e.key].billed
          /\ sessions[e.key].user = e.user /\ Paid(e)
          /\ \A f \in ledger : f.key = e.key => f = e
        BY <1>1 DEF DebitsOK
    <2>3. /\ sessions'[e.key].status = "stopped" /\ sessions'[e.key].billed
          /\ sessions'[e.key].user = e.user
        BY <1>3, <2>1, <2>2
    <2>4. Paid(e)'
        <3>1. PICK t \in Tx : Own(sessions[e.key], t) /\ \E k \in Reported(t) : e.amount = Cost(k)
            BY <2>2 DEF Paid
        <3>2. PICK k \in Reported(t) : e.amount = Cost(k)
            BY <3>1
        <3>3. Own(sessions[e.key], t)'
            BY <1>3, <2>1, <2>2, <3>1
        <3>4. (k \in Reported(t))'
            BY <1>4, <3>1, <3>2 DEF Own
        <3>. QED
            BY <3>2, <3>3, <3>4 DEF Paid
    <2>. QED
        BY <2>2, <2>3, <2>4
<1>6. CASE UNCHANGED <<balance, ledger>>
    BY <1>1, <1>5, <1>6 DEF DebitsOK
<1>7. CASE ~UNCHANGED <<balance, ledger>>
    <2>1. PICK e \in Debit :
            /\ \A f \in ledger : f.key # e.key
            /\ e.user \in User /\ e.amount > 0 /\ e.amount <= balance[e.user]
            /\ ledger' = ledger \cup {e}
            /\ balance' = [balance EXCEPT ![e.user] = @ - e.amount]
            /\ sessions'[e.key].status = "stopped" /\ sessions'[e.key].billed
            /\ sessions'[e.key].user = e.user
            /\ \E t \in Tx : Own(sessions'[e.key], t) /\ \E k \in Reported(t) : e.amount = Cost(k)
        BY <1>2, <1>7 DEF HookCommit, HookLedgerStep, Enters
    <2>2. balance' \in [User -> Nat]
        <3>1. e.amount \in Nat
            BY DEF Debit
        <3>. QED
            BY <1>1, <2>1, <3>1
    <2>3. Paid(e)'
        <3>1. UNCHANGED cloud
            BY <1>2, <1>7 DEF HookCommit
        <3>. QED
            BY <2>1, <3>1 DEF Paid, Own, Names, Reported
    <2>4. DebitsOK'
        BY <1>5, <2>1, <2>3 DEF DebitsOK
    <2>. QED
        BY <1>1, <2>1, <2>2, <2>4
<1>. QED
    BY <1>6, <1>7

-----------------------------------------------------------------------------
(* The invariant holds of every behaviour.                                 *)

LEMMA InitWInv == WebhookInit => WInv
<1>. SUFFICES ASSUME WebhookInit PROVE WInv
    OBVIOUS
<1>1. 0 \in Meter /\ Null \in Ids /\ 0 <= MaxAttempts /\ MaxAttempts \in Nat
    BY LifecycleAssumption DEF Meter, Ids
<1>2. NoRow \in HookRow /\ HookRowOK(NoRow)
    BY <1>1 DEF NoRow, HookRow, Status, HookRowOK, Delivered
<1>3. IdleReq \in Request /\ IdleReq.pc = "idle"
    BY DEF IdleReq, Request, ReqPc
<1>4. IdleSync \in HookSyncer /\ IdleSync.pc = "idle"
    BY <1>1 DEF IdleSync, HookSyncer, SyncPc, Status
<1>5. NoPoll \in HookPoller /\ NoPoll.pc = "off"
    BY <1>1 DEF NoPoll, HookPoller, PollPc
<1>6. NoTx \in Transaction /\ Bounded(NoTx)
    BY LifecycleAssumption DEF NoTx, Transaction, Bounded
<1>7. NoHook \in StopHook /\ NoHook.pc = "idle"
    BY <1>1 DEF NoHook, StopHook
<1>8. HookTypes
    BY <1>2, <1>3, <1>4, <1>5, <1>6, <1>7, LifecycleAssumption
    DEF WebhookInit, Init, HookTypes, HookTable
<1>9. HookRowsOK /\ MetersOK
    <2>1. \A s \in Session : sessions[s] = NoRow
        BY DEF WebhookInit, Init
    <2>2. \A t \in Tx : cloud[t] = NoTx
        BY DEF WebhookInit, Init
    <2>. QED
        BY <1>2, <1>6, <2>1, <2>2 DEF HookRowsOK, MetersOK
<1>10. ReqOK /\ HookSyncOK /\ HookPollOK /\ StopsOK /\ DebitsOK
    BY <1>3, <1>4, <1>5, <1>7
    DEF WebhookInit, Init, ReqOK, HookSyncOK, SyncerOK, HookPollOK, PollerOK, StopsOK, StopOK,
        DebitsOK
<1>. QED
    BY <1>8, <1>9, <1>10 DEF WInv

\* A step is one of the charger and CitrineOS, of the service or of a webhook.
LEMMA WebhookKinds ==
    ASSUME WInv, [WebhookNext]_webhookVars
    PROVE  HookStep /\ OwnOrHook
<1>1. [Next]_vars \/ Webhooks
    BY DEF WebhookNext, Webhooks, webhookVars, Meter
<1>2. CASE Webhooks
    <2>1. UNCHANGED <<cloud, req, sync, poll>>
        <3>1. ASSUME NEW s \in Session, RefuseStop(s) \/ Results(s)
              PROVE  UNCHANGED <<cloud, req, sync, poll>>
            BY <3>1 DEF RefuseStop, Results, RemoteStartResult, RemoteStopResult, Service, vars
        <3>2. ASSUME NEW t \in Tx, NEW k \in Meter, Reports(t, k)
              PROVE  UNCHANGED <<cloud, req, sync, poll>>
            BY <3>2 DEF Reports, MeterValues, StartTransaction, StartTransactionFails, Service
        <3>3. ASSUME NEW d \in Delivery, LookupTransaction(d) \/ StopFails(d)
              PROVE  UNCHANGED <<cloud, req, sync, poll>>
            BY <3>3 DEF LookupTransaction, StopFails, vars
        <3>4. ASSUME NEW d \in Delivery, CommitStop(d)
              PROVE  UNCHANGED <<cloud, req, sync, poll>>
            BY <3>4 DEF CommitStop, Service
        <3>5. ASSUME NEW d \in Delivery, NEW t \in Tx, NEW k \in Meter, StopTransaction(d, t, k)
              PROVE  UNCHANGED <<cloud, req, sync, poll>>
            BY <3>5 DEF StopTransaction, vars
        <3>. QED
            BY <1>2, <3>1, <3>2, <3>3, <3>4, <3>5 DEF Webhooks, StopStep
    <2>. QED
        BY <1>2, <2>1, HookWebhooks DEF HookStep, OwnOrHook
<1>3. ASSUME NEW t \in Tx, CloudNext(t)
      PROVE  UNCHANGED db
    BY <1>3 DEF CloudNext, TxStart, TxMeter, TxFinish
<1>4. CASE [Next]_vars
    BY <1>3, <1>4, HookServiceStep DEF HookStep, OwnOrHook
<1>. QED
    BY <1>1, <1>2, <1>4

\* Every step preserves it.
LEMMA NextWInv == WInv /\ [WebhookNext]_webhookVars => WInv' /\ HookStep
<1>. SUFFICES ASSUME WInv, [WebhookNext]_webhookVars PROVE WInv' /\ HookStep
    OBVIOUS
<1>1. HookStep /\ OwnOrHook
    BY WebhookKinds
<1>2. cloud' \in [Tx -> Transaction] /\ MetersOK'
    BY <1>1, HookMetersGrow
<1>3. sessions' \in HookTable /\ HookRowsOK'
    BY <1>1, HookLasting
<1>5. req' \in [Handler -> Request] /\ ReqOK'
    BY <1>1, HookReqs
<1>6. sync' \in [Worker -> HookSyncer] /\ HookSyncOK'
    BY <1>1, HookSyncs
<1>7. poll' \in [Session -> HookPoller] /\ HookPollOK'
    BY <1>1, HookPollers
<1>8. hook' \in [Delivery -> StopHook] /\ StopsOK'
    BY <1>1, HookDeliveries
<1>9. refused' \subseteq Event /\ recorded' \subseteq Event
    BY HookEvents
<1>10. balance' \in [User -> Nat] /\ ledger' \subseteq Debit /\ DebitsOK'
    BY <1>1, HookDebits
<1>11. HookTypes'
    BY <1>2, <1>3, <1>5, <1>6, <1>7, <1>8, <1>9, <1>10 DEF HookTypes, HookTable
<1>. QED
    BY <1>1, <1>2, <1>3, <1>5, <1>6, <1>7, <1>8, <1>10, <1>11 DEF WInv

\* WInv is an invariant of the system with its webhooks.
THEOREM WebhookInvariance == WebhookSpec => []WInv
BY InitWInv, NextWInv, PTL DEF WebhookSpec

\* Every variable keeps its type whichever id a webhook or a sync goroutine writes into a
\* row (charging_repo.go, AttachTransactionToSessionTx).
THEOREM WebhookTypes == WebhookSpec => []WebhookTypeOK
<1>1. WInv => WebhookTypeOK
    <2>. SUFFICES ASSUME WInv PROVE WebhookTypeOK
        OBVIOUS
    <2>1. \A k \in Meter : k \in Nat
        BY LifecycleAssumption DEF Meter
    <2>2. ASSUME NEW s \in Session
          PROVE  /\ [sessions[s] EXCEPT !.ref = Null] \in Row
                 /\ sessions[s].ref \in Tx \cup OcppIds \cup {Null}
        <3>1. sessions[s] \in HookRow
            BY DEF WInv, HookTypes, HookTable
        <3>. QED
            BY <2>1, <3>1 DEF HookRow, Row, Ids
    <2>3. ASSUME NEW w \in Worker
          PROVE  /\ [sync[w] EXCEPT !.ref = Null, !.tx = Null] \in Syncer
                 /\ {sync[w].ref, sync[w].tx} \subseteq Tx \cup OcppIds \cup {Null}
        <3>1. sync[w] \in HookSyncer
            BY DEF WInv, HookTypes
        <3>. QED
            BY <2>1, <3>1 DEF HookSyncer, Syncer, Ids
    <2>4. poll \in [Session -> Poller]
        <3>1. HookPoller \subseteq Poller
            BY <2>1 DEF HookPoller, Poller
        <3>. QED
            BY <3>1 DEF WInv, HookTypes
    <2>. QED
        BY <2>2, <2>3, <2>4 DEF WInv, HookTypes, WebhookTypeOK, StopHook, Meter
<1>. QED
    BY <1>1, WebhookInvariance, PTL

\* No debit is of a session that still runs, or from another rider's wallet, although a
\* webhook may settle a row it read before somebody else did (service.go, ProcessWebhook
\* and finalizeStoppedSessionFromTransaction).
THEOREM DebitsAreSettled == WebhookSpec => []DebitsSettled
<1>1. WInv => DebitsSettled
    BY DEF WInv, DebitsOK, DebitsSettled
<1>. QED
    BY <1>1, WebhookInvariance, PTL

\* What CitrineOS reports late, or again, never opens a stopped session or gives it another
\* transaction (charging_repo.go, AttachTransactionToSessionTx and
\* UpdateSessionMeterValuesTx).
THEOREM StoppedStays == WebhookSpec => StoppedIsFinal
<1>1. WInv /\ [WebhookNext]_webhookVars => [StoppedStep]_sessions
    <2>. SUFFICES ASSUME WInv, HookStep PROVE StoppedStep \/ UNCHANGED sessions
        BY NextWInv
    <2>. QED
        BY DEF HookStep, HookCommit, HookTableStep, HookRowStep, StoppedStep, db
<1>. QED
    BY <1>1, WebhookInvariance, PTL DEF WebhookSpec, StoppedIsFinal

\* No rider is charged for energy that was reported of no transaction of his own, however a
\* session came by it: through an attach, a meter value, the fallbacks of a stop event or a
\* stop without a row, from the poller or a sync goroutine, whatever ids read like one
\* another (service.go, ProcessWebhook and applyTransactionSnapshot).
THEOREM ChargesAreOwn == WebhookSpec => []PaysForItsOwn
<1>1. WInv => PaysForItsOwn
    BY DEF WInv, DebitsOK, Paid, Own, Names, PaysForItsOwn
<1>. QED
    BY <1>1, WebhookInvariance, PTL

\* With the webhooks on, too, no rider pays twice for a session or anything the ledger does
\* not show.
THEOREM WebhookRidersPayOnce == WebhookSpec => []WalletConserved
<1>1. WebhookSpec => []Conserved
    <2>1. WInv /\ Conserved /\ [WebhookNext]_webhookVars => Conserved'
        <3>. SUFFICES ASSUME WInv, Conserved, HookStep PROVE Conserved'
            BY NextWInv
        <3>1. UNCHANGED <<balance, ledger>> \/ \E e \in Debit : Enters(e)
            BY DEF HookStep, HookCommit, HookLedgerStep, db
        <3>. QED
            BY <3>1, NextConserved DEF WInv, HookTypes
    <2>. QED
        BY <2>1, InitConserved, WebhookInvariance, PTL DEF WebhookSpec, WebhookInit
<1>2. WInv /\ Conserved => WalletConserved
    <2>. SUFFICES ASSUME WInv, Conserved PROVE WalletConserved
        OBVIOUS
    <2>1. \A e, f \in ledger : e.key = f.key => e = f
        BY DEF WInv, DebitsOK
    <2>2. \A u \in User : balance[u] + MapThenSumSet(AmountOf, DebitsOf(u)) = InitBalance
        BY SumIsTotal DEF Conserved
    <2>. QED
        BY <2>1, <2>2 DEF WalletConserved
<1>. QED
    BY <1>1, <1>2, WebhookInvariance, PTL

=============================================================================
