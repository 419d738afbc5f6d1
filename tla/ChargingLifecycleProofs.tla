----------------------- MODULE ChargingLifecycleProofs -----------------------
(***************************************************************************)
(* Proofs about ChargingLifecycle, for every set of sessions, riders,       *)
(* connectors, transactions, requests and goroutines and every bound.       *)
(*                                                                         *)
(* The argument goes through what one step may do to the table: TableStep.  *)
(* Each SQL statement is shown once to make a TableStep of the rows it is    *)
(* given (the Store lemmas), each action then makes one because of the       *)
(* statements it runs, and what goroutines and requests remember about a    *)
(* row survives every TableStep.                                            *)
(***************************************************************************)
EXTENDS ChargingLifecycle, LedgerSums, TLAPS

Table == [Session -> Row]

RowStep(r, q) ==
    /\ RowOK(q)
    /\ q.status = r.status \/ CanTransition(r.status, q.status)
    /\ r.status # "absent" => q.user = r.user /\ q.conn = r.conn
    /\ r.ref # Null => q.ref = r.ref /\ q.ocpp = r.ocpp
    /\ r.billed => q.billed

TableStep(d, e) == e \in Table /\ \A s \in Session : RowStep(d[s], e[s])

Unique(d) == \A s, o \in Session : s # o /\ d[s].ref # Null => d[s].ref # d[o].ref

Sound(d) == d \in Table /\ \A s \in Session : RowOK(d[s])

-----------------------------------------------------------------------------
(* The statements of the repository layer.                                 *)

\* A table goes on to itself.
LEMMA StoreSame ==
    ASSUME NEW d, Sound(d)
    PROVE  TableStep(d, d)
BY DEF Sound, TableStep, RowStep

\* A price is a natural number.
LEMMA CostIsNat ==
    ASSUME NEW k \in Nat
    PROVE  Cost(k) \in Nat
BY StoreAssumption, SMT DEF Cost

\* CreateSession turns an absent row into a starting one of its rider.
LEMMA StoreCreate ==
    ASSUME NEW d, Sound(d), NEW s \in Session, NEW u \in User, NEW c \in Connector \cup {Null},
           d[s].status = "absent"
    PROVE  TableStep(d, CreateSession(d, s, u, c))
BY StoreAssumption DEF Sound, Table, TableStep, RowStep, RowOK, Row, Status, CreateSession,
    NoRow, CanTransition

\* Writing one row makes a step of the table when it makes a step of the row.
LEMMA OneRow ==
    ASSUME NEW d, Sound(d), NEW s \in Session, NEW q \in Row, RowStep(d[s], q)
    PROVE  TableStep(d, [d EXCEPT ![s] = q])
BY DEF Sound, Table, TableStep, RowStep

\* UpdateRemoteStartID, the two claims and the clock write nothing the invariants name.
LEMMA StoreFlags ==
    ASSUME NEW d, Sound(d), NEW s \in Session, NEW b \in BOOLEAN
    PROVE  /\ d[s].status # "absent" => TableStep(d, UpdateRemoteStartID(d, s))
           /\ TableStep(d, ClaimStopPolling(d, s))
           /\ TableStep(d, ReleaseStopPolling(d, s))
           /\ TableStep(d, [d EXCEPT ![s].old = b])
           /\ TableStep(d, [d EXCEPT ![s].claimed = b])
<1> DEFINE r == d[s]
           Flagged == {[r EXCEPT !.claimed = b], [r EXCEPT !.claimed = TRUE],
                       [r EXCEPT !.claimed = FALSE], [r EXCEPT !.old = b]}
<1>1. r \in Row /\ RowOK(r)
    BY DEF Sound, Table
<1>2. ASSUME NEW q, q \in Flagged \/ (r.status # "absent" /\ q = [r EXCEPT !.remote = TRUE])
      PROVE  TableStep(d, [d EXCEPT ![s] = q])
    <2>1. q \in Row /\ RowStep(r, q)
        BY <1>1, <1>2 DEF Row, RowStep, RowOK
    <2>. QED
        BY <2>1, OneRow
<1>3. ASSUME d[s].status # "absent"
      PROVE  TableStep(d, UpdateRemoteStartID(d, s))
    BY <1>2, <1>3, Zenon DEF UpdateRemoteStartID
<1>4. TableStep(d, ClaimStopPolling(d, s)) /\ TableStep(d, ReleaseStopPolling(d, s))
    BY <1>2, Zenon DEF ClaimStopPolling, ReleaseStopPolling
<1>5. TableStep(d, [d EXCEPT ![s].old = b]) /\ TableStep(d, [d EXCEPT ![s].claimed = b])
    BY <1>2, Zenon
<1>. QED
    BY <1>3, <1>4, <1>5

\* The two guarded status updates follow the state machine.
LEMMA StoreStopping ==
    ASSUME NEW d, Sound(d), NEW s \in Session
    PROVE  /\ TableStep(d, UpdateSessionStopping(d, s))
           /\ TableStep(d, UpdateSessionState(d, s, {"stopping"}, "charging"))
<1> DEFINE r == d[s]
           q == [r EXCEPT !.status = "stopping", !.claimed = FALSE]
           p == [r EXCEPT !.status = "charging"]
<1>1. r \in Row /\ RowOK(r)
    BY DEF Sound, Table
<1>2. TableStep(d, d)
    BY StoreSame
<1>3. ASSUME r.status \in {"starting", "charging"}
      PROVE  TableStep(d, UpdateSessionStopping(d, s))
    <2>1. q \in Row /\ RowStep(d[s], q)
        BY <1>1, <1>3 DEF Row, Status, RowStep, RowOK, CanTransition
    <2>2. UpdateSessionStopping(d, s) = [d EXCEPT ![s] = q]
        BY <1>3 DEF UpdateSessionStopping, Sound, Table
    <2>. HIDE DEF q
    <2>. QED
        BY <2>1, <2>2, OneRow
<1>4. ASSUME r.status = "stopping"
      PROVE  TableStep(d, UpdateSessionState(d, s, {"stopping"}, "charging"))
    <2>1. p \in Row /\ RowStep(d[s], p)
        BY <1>1, <1>4 DEF Row, Status, RowStep, RowOK, CanTransition
    <2>2. UpdateSessionState(d, s, {"stopping"}, "charging") = [d EXCEPT ![s] = p]
        BY <1>4 DEF UpdateSessionState, Sound, Table
    <2>. HIDE DEF p
    <2>. QED
        BY <2>1, <2>2, OneRow
<1>. QED
    BY <1>2, <1>3, <1>4 DEF UpdateSessionStopping, UpdateSessionState

\* So does the sweep over the stale starts.
LEMMA StoreFailStale ==
    ASSUME NEW d, Sound(d)
    PROVE  TableStep(d, FailStaleStartingSessions(d))
BY DEF Sound, Table, TableStep, RowStep, RowOK, Row, Status, FailStaleStartingSessions,
    StaleStarts, CanTransition

\* The unique index keeps the references apart, and no other statement sets one.
LEMMA RefsKept ==
    ASSUME NEW d, NEW e, Unique(d), \A s \in Session : e[s].ref = d[s].ref
    PROVE  Unique(e)
BY DEF Unique

\* Attaching gives the row the transaction's reference and moves it to charging, unless
\* it is being stopped.
LEMMA StoreAttach ==
    ASSUME NEW d, Sound(d), NEW s \in Session, NEW t \in Tx, NEW k \in Nat,
           Attachable(d, s, t)
    PROVE  LET e == AttachTransactionToSession(d, s, t, OcppId[t], k) IN
           /\ TableStep(d, e)
           /\ e[s].ref = t
           /\ \A o \in Session \ {s} : e[o] = d[o]
           /\ ~RefTaken(d, s, t) /\ Unique(d) => Unique(e)
<1> DEFINE r == d[s]
           q == [r EXCEPT !.ocpp = IF r.ref = Null THEN OcppId[t] ELSE @, !.ref = t,
                          !.kwh = k, !.cost = Cost(k),
                          !.status = IF @ = "stopping" THEN @ ELSE "charging"]
           e == AttachTransactionToSession(d, s, t, OcppId[t], k)
<1>1. r \in Row /\ RowOK(r) /\ r.status \in {"starting", "stopping"} /\ r.ref \in {Null, t}
    BY DEF Sound, Table, Attachable
<1>2. Cost(k) \in Nat /\ OcppId[t] \in OcppIds /\ OcppId[t] # Null /\ t # Null
    BY CostIsNat, StoreAssumption DEF OcppIds
<1>3. q \in Row
    BY <1>1, <1>2 DEF Row, Status
<1>4. RowStep(r, q)
    BY <1>1, <1>2, <1>3 DEF Row, RowStep, RowOK, CanTransition
<1>5. e = [d EXCEPT ![s] = q]
    BY DEF AttachTransactionToSession, Sound, Table
<1>6. TableStep(d, e)
    <2>. HIDE DEF q, e
    <2>. QED
        BY <1>3, <1>4, <1>5, OneRow
<1>7. e[s].ref = t /\ \A o \in Session \ {s} : e[o] = d[o]
    BY <1>3, <1>5 DEF Sound, Table, Row
<1>8. ASSUME ~RefTaken(d, s, t), Unique(d)
      PROVE  Unique(e)
    BY <1>7, <1>8 DEF Unique, RefTaken
<1>. QED
    BY <1>6, <1>7, <1>8

\* A meter update writes rows that have a transaction, and no status of such a row.
LEMMA StoreMeter ==
    ASSUME NEW d, Sound(d), NEW t \in Tx, NEW k \in Nat
    PROVE  LET e == UpdateSessionMeterValues(d, t, k) IN
           /\ TableStep(d, e)
           /\ \A s \in Session : e[s].ref = d[s].ref
           /\ Unique(d) => Unique(e)
<1> DEFINE e == UpdateSessionMeterValues(d, t, k)
<1>1. Cost(k) \in Nat /\ t # Null
    BY CostIsNat, StoreAssumption
<1>2. ASSUME NEW s \in Session
      PROVE  e[s] \in Row /\ RowStep(d[s], e[s]) /\ e[s].ref = d[s].ref
    <2> DEFINE r == d[s]
               q == [r EXCEPT !.kwh = k, !.cost = Cost(k),
                              !.status = IF @ = "starting" THEN "charging" ELSE @]
    <2>1. r \in Row /\ RowOK(r)
        BY DEF Sound, Table
    <2>2. CASE s \in Matching(d, t)
        <3>1. r.ref # Null
            BY <1>1, <2>1, <2>2 DEF Matching, RowOK
        <3>2. q \in Row /\ RowStep(r, q) /\ q.ref = r.ref
            BY <1>1, <2>1, <3>1 DEF Row, Status, RowStep, RowOK, CanTransition
        <3>. QED
            BY <2>2, <3>2 DEF UpdateSessionMeterValues
    <2>3. CASE s \notin Matching(d, t)
        <3>1. e[s] = r
            BY <2>3 DEF UpdateSessionMeterValues
        <3>. QED
            BY <2>1, <3>1 DEF RowStep
    <2>. QED
        BY <2>2, <2>3
<1>3. e \in Table
    <2>1. e = [s \in Session |-> e[s]]
        BY DEF UpdateSessionMeterValues
    <2>. QED
        BY <1>2, <2>1 DEF Table
<1>. QED
    BY <1>2, <1>3, RefsKept DEF TableStep

\* Finalising stops a row that has a transaction.
LEMMA StoreFinalize ==
    ASSUME NEW d, Sound(d), NEW s \in Session, NEW k \in Nat,
           NEW b \in BOOLEAN, NEW x \in BOOLEAN, d[s].ref # Null
    PROVE  LET e == FinalizeStoppedSession(d, s, k, b, x) IN
           /\ e \in Table
           /\ \A o \in Session \ {s} : e[o] = d[o]
           /\ RowOK(e[s]) /\ e[s].status = "stopped"
           /\ e[s].ref = d[s].ref /\ e[s].ocpp = d[s].ocpp
           /\ e[s].user = d[s].user /\ e[s].conn = d[s].conn
           /\ e[s].billed = (d[s].billed \/ b)
<1> DEFINE r == d[s]
           q == [r EXCEPT !.status = "stopped", !.kwh = k, !.cost = Cost(k),
                          !.billed = @ \/ b, !.unpaid = @ \/ x]
           e == FinalizeStoppedSession(d, s, k, b, x)
<1>1. r \in Row /\ RowOK(r) /\ r.status \notin {"absent", "starting", "failed"}
    BY DEF Sound, Table, RowOK
<1>2. Cost(k) \in Nat
    BY CostIsNat
<1>3. q \in Row
    BY <1>1, <1>2 DEF Row, Status
<1>4. e = [d EXCEPT ![s] = q]
    BY DEF FinalizeStoppedSession, Sound, Table
<1>5. e[s] = q /\ e \in Table /\ \A o \in Session \ {s} : e[o] = d[o]
    BY <1>3, <1>4 DEF Sound, Table
<1>6. /\ q.status = "stopped" /\ q.ref = r.ref /\ q.ocpp = r.ocpp
      /\ q.user = r.user /\ q.conn = r.conn /\ q.remote = r.remote
      /\ q.billed = (r.billed \/ b)
    BY <1>1 DEF Row
<1>7. RowOK(q)
    BY <1>1, <1>6, r.status \in Status DEF RowOK, Row, Status
<1>. QED
    BY <1>5, <1>6, <1>7

-----------------------------------------------------------------------------
(* What one step of the system does to the database.                       *)

\* A debit is entered for a session that has none, and its rider's wallet pays it.
Enters(e) ==
    /\ \A f \in ledger : f.key # e.key
    /\ e.user \in User /\ e.amount > 0 /\ e.amount <= balance[e.user]
    /\ ledger' = ledger \cup {e}
    /\ balance' = [balance EXCEPT ![e.user] = @ - e.amount]

\* Either no money moves, or that happens to a session which the step leaves stopped,
\* billed and bound.
LedgerStep ==
    \/ UNCHANGED <<balance, ledger>>
    \/ \E e \in Debit :
        /\ Enters(e)
        /\ sessions'[e.key].status = "stopped" /\ sessions'[e.key].billed
        /\ sessions'[e.key].ref # Null /\ sessions'[e.key].user = e.user

DataStep == TableStep(sessions, sessions') /\ Unique(sessions') /\ LedgerStep

\* The invariant in the form the Store lemmas use.
LEMMA SoundSessions ==
    ASSUME IInv
    PROVE  Sound(sessions) /\ Unique(sessions)
BY DEF IInv, TypeOK, RowsOK, RefsUnique, Sound, Table, Unique

\* A step that leaves the database alone is a step of the data.
LEMMA QuietStep ==
    ASSUME IInv, UNCHANGED db
    PROVE  DataStep
BY SoundSessions, StoreSame DEF db, DataStep, LedgerStep

\* So is a statement that moves no money and no reference.
LEMMA StatementStep ==
    ASSUME IInv, TableStep(sessions, sessions'), UNCHANGED <<balance, ledger>>,
           \A s \in Session : sessions'[s].ref = sessions[s].ref
    PROVE  DataStep
BY SoundSessions, RefsKept DEF DataStep, LedgerStep

\* A settlement moves no money, or enters the debit of its price.
LEMMA SettleMoney ==
    ASSUME balance \in [User -> Nat], NEW d, NEW o \in Session, d[o].user \in User,
           NEW k \in Nat, Settle(d, o, k)
    PROVE  LET u == d[o].user
               e == [key |-> o, user |-> u, amount |-> Cost(k)]
           IN
           \/ UNCHANGED <<balance, ledger>>
           \/ e \in Debit /\ DebitInserted(balance, ledger, u, Cost(k), o) /\ Enters(e)
<1> DEFINE u == d[o].user
           c == Cost(k)
           b == DebitInserted(balance, ledger, u, c, o)
           e == [key |-> o, user |-> u, amount |-> c]
<1>1. CASE b
    <2>1. c > 0 /\ balance[u] >= c /\ \A f \in ledger : f.key # o
        BY <1>1 DEF DebitInserted
    <2>2. c \in Nat /\ balance[u] \in Nat
        BY CostIsNat
    <2>3. ledger' = ledger \cup {e} /\ balance' = [balance EXCEPT ![u] = @ - c]
        BY <1>1 DEF Settle, DebitLedger, DebitBalance
    <2>4. e \in Debit /\ e.key = o /\ e.user = u /\ e.amount = c
        BY <2>2 DEF Debit
    <2>5. Enters(e)
        <3>. HIDE DEF e, c, u
        <3>. QED
            BY <2>1, <2>2, <2>3, <2>4 DEF Enters, u
    <2>. QED
        BY <1>1, <2>4, <2>5
<1>2. CASE ~b
    BY <1>2 DEF Settle, DebitLedger, DebitBalance
<1>. QED
    BY <1>1, <1>2

\* Settling a session of a table that the current one goes on to: the row ends stopped
\* and bound, and money moves only if no debit of the session is in the ledger.
LEMMA SettleStep ==
    ASSUME IInv, NEW d, TableStep(sessions, d), Unique(d),
           NEW o \in Session, d[o].ref # Null, NEW k \in Nat, Settle(d, o, k)
    PROVE  DataStep
<1> DEFINE u == d[o].user
           c == Cost(k)
           b == DebitInserted(balance, ledger, u, c, o)
           x == DebitRefused(balance, u, c)
<1>1. Sound(d)
    BY DEF TableStep, RowStep, Sound
<1>2. b \in BOOLEAN /\ x \in BOOLEAN
    BY DEF DebitInserted, DebitRefused
<1>3. sessions' = FinalizeStoppedSession(d, o, k, b, x)
    BY DEF Settle
<1>4. /\ sessions' \in Table
      /\ \A s \in Session \ {o} : sessions'[s] = d[s]
      /\ RowOK(sessions'[o]) /\ sessions'[o].status = "stopped"
      /\ sessions'[o].ref = d[o].ref /\ sessions'[o].ocpp = d[o].ocpp
      /\ sessions'[o].user = u /\ sessions'[o].conn = d[o].conn
      /\ sessions'[o].billed = (d[o].billed \/ b)
    <2>. HIDE DEF b, x
    <2>. QED
        BY <1>1, <1>2, <1>3, StoreFinalize DEF u
<1>5. d[o].status \notin {"absent", "starting", "failed"} /\ u \in User /\ d[o].status \in Status
    BY <1>1 DEF Sound, Table, Row, RowOK
<1>6. TableStep(sessions, sessions')
    <2>1. ASSUME NEW s \in Session, s # o
          PROVE  RowStep(sessions[s], sessions'[s])
        BY <1>4, <2>1 DEF TableStep
    <2>2. RowStep(sessions[o], d[o])
        BY DEF TableStep
    <2>3. CanTransition(sessions[o].status, "stopped") \/ sessions[o].status = "stopped"
        BY <1>5, <2>2 DEF RowStep, CanTransition, Status
    <2>4. RowStep(sessions[o], sessions'[o])
        BY <1>4, <2>2, <2>3, <1>5 DEF RowStep, CanTransition
    <2>. QED
        BY <1>4, <2>1, <2>4 DEF TableStep
<1>7. Unique(sessions')
    BY <1>4, RefsKept
<1>8. LedgerStep
    <2> DEFINE e == [key |-> o, user |-> u, amount |-> c]
    <2>1. balance \in [User -> Nat]
        BY DEF IInv, TypeOK
    <2>2. UNCHANGED <<balance, ledger>> \/ (e \in Debit /\ b /\ Enters(e))
        BY <1>5, <2>1, SettleMoney
    <2>3. e.key = o /\ e.user = u
        OBVIOUS
    <2>. HIDE DEF e, c, u, b
    <2>. QED
        BY <1>4, <2>2, <2>3 DEF LedgerStep
<1>. QED
    BY <1>6, <1>7, <1>8 DEF DataStep

\* What a sync goroutine writes before it settles anything - an attach, a meter update or
\* nothing - makes a step of the table, after which the row it goes on with is bound.
LEMMA SyncTargets ==
    ASSUME IInv, NEW w \in Worker, SyncApply(w)
    PROVE  /\ TableStep(sessions, Synced(w)) /\ Unique(Synced(w))
           /\ \A o \in SyncTarget(w) : o \in Session /\ Synced(w)[o].ref # Null
<1> DEFINE d == Synced(w)
           s == sync[w].sess
           t == sync[w].tx
           k == sync[w].kwh
<1>1. Sound(sessions) /\ Unique(sessions)
    BY SoundSessions
<1>2. /\ sync[w].pc = "apply" /\ s \in Session /\ t \in Tx /\ k \in Nat /\ t # Null
      /\ sync[w].ref # Null => sessions[s].ref = sync[w].ref
    BY StoreAssumption DEF SyncApply, IInv, SyncOK, TypeOK, Syncer
<1>3. CASE Attaches(w)
    <2>1. d = AttachTransactionToSession(sessions, s, t, OcppId[t], k) /\ SyncTarget(w) = {s}
        BY <1>3 DEF Synced, SyncTarget
    <2>2. Attachable(sessions, s, t) /\ ~RefTaken(sessions, s, t)
        BY <1>3 DEF SyncApply, Attaches
    <2>. HIDE DEF d, s, t, k
    <2>3. TableStep(sessions, d) /\ Unique(d) /\ \A o \in SyncTarget(w) : o \in Session /\ d[o].ref # Null
        BY <1>1, <1>2, <2>1, <2>2, StoreAttach
    <2>. QED
        BY <2>3 DEF d
<1>4. CASE ~Attaches(w) /\ sync[w].ref = Null
    <2>1. d = UpdateSessionMeterValues(sessions, t, k) /\ SyncTarget(w) = Matching(sessions, t)
        BY <1>2, <1>4 DEF Synced, SyncTarget
    <2>2. \A o \in Matching(sessions, t) : o \in Session /\ sessions[o].ref # Null
        BY <1>1, <1>2 DEF Matching, Sound, RowOK
    <2>. HIDE DEF d, s, t, k
    <2>3. TableStep(sessions, d) /\ Unique(d) /\ \A o \in SyncTarget(w) : o \in Session /\ d[o].ref # Null
        BY <1>1, <1>2, <2>1, <2>2, StoreMeter
    <2>. QED
        BY <2>3 DEF d
<1>5. CASE ~Attaches(w) /\ sync[w].ref # Null
    <2>1. d = sessions /\ SyncTarget(w) \subseteq {s}
        BY <1>5 DEF Synced, SyncTarget
    <2>. QED
        BY <1>1, <1>2, <1>5, <2>1, StoreSame
<1>. QED
    BY <1>3, <1>4, <1>5

\* A sync goroutine's commit: that, and a settlement when the transaction has ended.
LEMMA SyncApplyStep ==
    ASSUME IInv, NEW w \in Worker, SyncApply(w)
    PROVE  DataStep
<1> DEFINE d == Synced(w)
           k == sync[w].kwh
<1>1. k \in Nat
    BY DEF SyncApply, IInv, TypeOK, Syncer
<1>2. /\ TableStep(sessions, d) /\ Unique(d)
      /\ \A o \in SyncTarget(w) : o \in Session /\ d[o].ref # Null
    BY SyncTargets
<1>3. PICK o \in SyncTarget(w) :
        IF sync[w].finished THEN Settle(d, o, k)
        ELSE sessions' = d /\ UNCHANGED <<balance, ledger>>
    BY DEF SyncApply
<1>4. CASE sync[w].finished
    <2>. HIDE DEF d, k
    <2>. QED
        BY <1>1, <1>2, <1>3, <1>4, SettleStep
<1>5. CASE ~sync[w].finished
    BY <1>2, <1>3, <1>5 DEF DataStep, LedgerStep
<1>. QED
    BY <1>4, <1>5

\* The steps of a request on the database.
LEMMA HandlerDataStep ==
    ASSUME IInv, NEW h \in Handler, HandlerNext(h)
    PROVE  DataStep
<1>1. Sound(sessions) /\ Unique(sessions)
    BY SoundSessions
<1>2. ASSUME NEW s \in Session, StartCreate(h, s)
      PROVE  DataStep
    <2>1. req[h].user \in User /\ req[h].conn \in Connector \cup {Null}
        BY <1>2 DEF StartCreate, IInv, ReqOK, TypeOK, Request
    <2>2. TableStep(sessions, sessions')
        BY <1>1, <1>2, <2>1, StoreCreate DEF StartCreate
    <2>3. \A o \in Session : sessions'[o].ref = sessions[o].ref
        BY <1>1, <1>2 DEF StartCreate, CreateSession, NoRow, Sound, Table, RowOK
    <2>. QED
        BY <1>2, <2>2, <2>3, StatementStep DEF StartCreate
<1>3. ASSUME StartRemoteID(h)
      PROVE  DataStep
    <2>1. req[h].sess \in Session /\ sessions[req[h].sess].status # "absent"
        BY <1>3 DEF StartRemoteID, IInv, ReqOK
    <2>2. TableStep(sessions, sessions')
        BY <1>1, <1>3, <2>1, StoreFlags, TRUE \in BOOLEAN DEF StartRemoteID
    <2>3. \A o \in Session : sessions'[o].ref = sessions[o].ref
        BY <1>1, <1>3 DEF StartRemoteID, UpdateRemoteStartID, Sound, Table, Row
    <2>. QED
        BY <1>3, <2>2, <2>3, StatementStep DEF StartRemoteID
<1>4. ASSUME StopMark(h)
      PROVE  DataStep
    <2>1. req[h].sess \in Session
        BY <1>4 DEF StopMark, IInv, ReqOK
    <2>2. TableStep(sessions, sessions')
        BY <1>1, <1>4, <2>1, StoreStopping DEF StopMark
    <2>3. \A o \in Session : sessions'[o].ref = sessions[o].ref
        BY <1>1, <1>4 DEF StopMark, UpdateSessionStopping, Sound, Table, Row
    <2>. QED
        BY <1>4, <2>2, <2>3, StatementStep DEF StopMark
<1>5. ASSUME StopReplyPoll(h)
      PROVE  DataStep
    <2>1. req[h].sess \in Session
        BY <1>5 DEF StopReplyPoll, IInv, ReqOK
    <2>2. sessions' = sessions \/ sessions' = ClaimStopPolling(sessions, req[h].sess)
        BY <1>5 DEF StopReplyPoll
    <2>3. TableStep(sessions, sessions')
        BY <1>1, <2>1, <2>2, StoreFlags, StoreSame, TRUE \in BOOLEAN
    <2>4. \A o \in Session : sessions'[o].ref = sessions[o].ref
        BY <1>1, <2>2 DEF ClaimStopPolling, Sound, Table, Row
    <2>. QED
        BY <1>5, <2>3, <2>4, StatementStep DEF StopReplyPoll
<1>6. ASSUME \/ \E u \in User, c \in Connector : StartCheckWallet(h, u, c)
             \/ StartCheckUser(h) \/ StartCheckConnector(h) \/ StartAbort(h)
             \/ \E w \in Worker : StartDispatch(h, w) \/ StopReplySync(h, w)
             \/ \E s \in Session : StopRead(h, s)
             \/ StopSend(h) \/ StopReload(h) \/ StopAbort(h)
      PROVE  DataStep
    <2>1. UNCHANGED db
        BY <1>6 DEF StartCheckWallet, StartCheckUser, StartCheckConnector, StartAbort,
            StartDispatch, StopReplySync, StopRead, StopSend, StopReload, StopAbort, db
    <2>. QED
        BY <2>1, QuietStep
<1>. QED
    BY <1>2, <1>3, <1>4, <1>5, <1>6 DEF HandlerNext

\* The steps of a poller on the database.
LEMMA PollDataStep ==
    ASSUME IInv, NEW s \in Session, PollStep(s) \/ PollFault(s)
    PROVE  DataStep
<1>1. Sound(sessions) /\ Unique(sessions)
    BY SoundSessions
<1>2. ASSUME PollCommit(s)
      PROVE  DataStep
    <2>1. sessions[s].ref # Null /\ poll[s].kwh \in Nat
        BY <1>2 DEF PollCommit, IInv, PollOK, TypeOK, Poller
    <2>2. TableStep(sessions, sessions)
        BY <1>1, StoreSame
    <2>. QED
        BY <1>1, <1>2, <2>1, <2>2, SettleStep DEF PollCommit
<1>3. ASSUME PollGiveUp(s)
      PROVE  DataStep
    <2>1. TableStep(sessions, sessions')
        BY <1>1, <1>3, StoreStopping DEF PollGiveUp
    <2>2. \A o \in Session : sessions'[o].ref = sessions[o].ref
        BY <1>1, <1>3 DEF PollGiveUp, UpdateSessionState, Sound, Table, Row
    <2>. QED
        BY <1>3, <2>1, <2>2, StatementStep DEF PollGiveUp
<1>4. ASSUME PollExit(s)
      PROVE  DataStep
    <2>1. sessions' = sessions \/ sessions' = ReleaseStopPolling(sessions, s)
        BY <1>4 DEF PollExit
    <2>2. TableStep(sessions, sessions')
        BY <1>1, <2>1, StoreFlags, StoreSame, TRUE \in BOOLEAN
    <2>3. \A o \in Session : sessions'[o].ref = sessions[o].ref
        BY <1>1, <2>1 DEF ReleaseStopPolling, Sound, Table, Row
    <2>. QED
        BY <1>4, <2>2, <2>3, StatementStep DEF PollExit
<1>5. ASSUME PollFetch(s) \/ PollBegin(s) \/ PollFault(s)
      PROVE  DataStep
    <2>1. UNCHANGED db
        BY <1>5 DEF PollFetch, PollBegin, PollFault, db
    <2>. QED
        BY <2>1, QuietStep
<1>. QED
    BY <1>2, <1>3, <1>4, <1>5 DEF PollStep, PollWork

\* Every step of the system is a step of the data.
LEMMA NextDataStep ==
    ASSUME IInv, [Next]_vars
    PROVE  DataStep
<1>1. Sound(sessions) /\ Unique(sessions)
    BY SoundSessions
<1>2. ASSUME NEW w \in Worker, SyncNext(w)
      PROVE  DataStep
    <2>1. CASE SyncApply(w)
        BY <2>1, SyncApplyStep
    <2>2. CASE ~SyncApply(w)
        <3>1. UNCHANGED db
            BY <1>2, <2>2 DEF SyncNext, SyncLoad, SyncMatch, SyncFetch, SyncApplyNothing,
                SyncFault, SyncExpire, db
        <3>. QED
            BY <3>1, QuietStep
    <2>. QED
        BY <2>1, <2>2
<1>3. ASSUME NEW s \in Session, Age(s) \/ LeaseExpire(s)
      PROVE  DataStep
    <2>1. TableStep(sessions, sessions')
        BY <1>1, <1>3, StoreFlags, TRUE \in BOOLEAN, FALSE \in BOOLEAN DEF Age, LeaseExpire
    <2>2. \A o \in Session : sessions'[o].ref = sessions[o].ref
        BY <1>1, <1>3 DEF Age, LeaseExpire, Sound, Table, Row
    <2>. QED
        BY <1>3, <2>1, <2>2, StatementStep DEF Age, LeaseExpire
<1>4. ASSUME RecoverStaleStarts
      PROVE  DataStep
    <2>1. TableStep(sessions, sessions')
        BY <1>1, <1>4, StoreFailStale DEF RecoverStaleStarts
    <2>2. \A o \in Session : sessions'[o].ref = sessions[o].ref
        BY <1>1, <1>4 DEF RecoverStaleStarts, FailStaleStartingSessions, Sound, Table, Row
    <2>. QED
        BY <1>4, <2>1, <2>2, StatementStep DEF RecoverStaleStarts
<1>5. ASSUME \/ \E s \in Session : RetryStop(s)
             \/ \E t \in Tx : CloudNext(t)
             \/ Crash
             \/ UNCHANGED vars
      PROVE  DataStep
    <2>1. UNCHANGED db
        BY <1>5 DEF RetryStop, CloudNext, TxStart, TxMeter, TxFinish, Crash, vars, db
    <2>. QED
        BY <2>1, QuietStep
<1>. QED
    BY <1>2, <1>3, <1>4, <1>5, HandlerDataStep, PollDataStep DEF Next

-----------------------------------------------------------------------------
(* Transactions.  What Hasura says of one at its start it says for good, its *)
(* energies only grow, and what the total was at its end is not rewritten.   *)

\* Only the charger and CitrineOS write what Hasura says of a transaction.
LEMMA CloudAlone ==
    ASSUME [Next]_vars, ~(\E t \in Tx : CloudNext(t))
    PROVE  UNCHANGED cloud
<1>1. ASSUME NEW h \in Handler, HandlerNext(h)
      PROVE  UNCHANGED cloud
    BY <1>1 DEF HandlerNext, StartCheckWallet, StartCheckUser, StartCheckConnector,
        StartCreate, StartRemoteID, StartDispatch, StartAbort, StopRead, StopMark, StopSend,
        StopReload, StopReplySync, StopReplyPoll, StopAbort
<1>2. ASSUME NEW w \in Worker, SyncNext(w)
      PROVE  UNCHANGED cloud
    BY <1>2 DEF SyncNext, SyncLoad, SyncMatch, SyncFetch, SyncApply, SyncApplyNothing,
        SyncFault, SyncExpire
<1>3. ASSUME NEW s \in Session,
             PollStep(s) \/ PollFault(s) \/ Age(s) \/ LeaseExpire(s) \/ RetryStop(s)
      PROVE  UNCHANGED cloud
    BY <1>3 DEF PollStep, PollWork, PollFetch, PollBegin, PollCommit, PollGiveUp, PollExit,
        PollFault,
        Age, LeaseExpire, RetryStop
<1>4. ASSUME RecoverStaleStarts \/ Crash \/ UNCHANGED vars
      PROVE  UNCHANGED cloud
    BY <1>4 DEF RecoverStaleStarts, Crash, vars
<1>. QED
    BY <1>1, <1>2, <1>3, <1>4 DEF Next

\* What each of its steps makes of a transaction.
Started(c, n, r) ==
    [phase |-> "active", conn |-> c, named |-> n, remote |-> r,
     register |-> 0, total |-> 0, ended |-> 0,
     since |-> {s \in Session : sessions[s].status # "absent"}]

Grown(c) == {[c EXCEPT !.register = @ + 1], [c EXCEPT !.total = @ + 1]}

Done(c) == [c EXCEPT !.phase = "finished", !.ended = c.total]

Bounded(c) == c.register <= MaxKwh /\ c.total <= MaxKwh

\* They write one record at a time, nothing else, and no energy past its bound.
LEMMA CloudRecord ==
    ASSUME cloud \in [Tx -> Transaction], NEW t \in Tx, CloudNext(t)
    PROVE  /\ UNCHANGED <<db, Service>>
           /\ \E q \in Transaction :
                /\ cloud' = [cloud EXCEPT ![t] = q]
                /\ Bounded(cloud[t]) => Bounded(q)
                /\ \/ /\ cloud[t].phase = "none"
                      /\ \E c \in Connector, n \in Named, r \in Session \cup {Null} :
                            /\ q = Started(c, n, r)
                            /\ r # Null => sessions[r].remote /\ sessions[r].conn = c
                   \/ cloud[t].phase \in {"active", "finished"} /\ q \in Grown(cloud[t])
                   \/ cloud[t].phase = "active" /\ q = Done(cloud[t])
<1> DEFINE x == cloud[t]
<1>1. x \in Transaction /\ MaxKwh \in Nat
    BY LifecycleAssumption
<1>2. ASSUME NEW c \in Connector, NEW r \in Session \cup {Null}, NEW n \in Named,
             TxStart(t, c, r, n)
      PROVE  /\ Started(c, n, r) \in Transaction /\ Bounded(Started(c, n, r))
             /\ cloud' = [cloud EXCEPT ![t] = Started(c, n, r)] /\ x.phase = "none"
             /\ r # Null => sessions[r].remote /\ sessions[r].conn = c
    BY <1>1, <1>2, LifecycleAssumption DEF TxStart, Started, Transaction, Bounded
<1>3. ASSUME TxMeter(t)
      PROVE  \E q \in Grown(x) :
                /\ q \in Transaction /\ cloud' = [cloud EXCEPT ![t] = q]
                /\ Bounded(x) => Bounded(q)
    <2>1. ASSUME x.register < MaxKwh, cloud' = [cloud EXCEPT ![t].register = @ + 1]
          PROVE  \E q \in Grown(x) :
                    /\ q \in Transaction /\ cloud' = [cloud EXCEPT ![t] = q]
                    /\ Bounded(x) => Bounded(q)
        <3> DEFINE q == [x EXCEPT !.register = @ + 1]
        <3>1. q \in Transaction /\ (Bounded(x) => Bounded(q))
            BY <1>1, <2>1 DEF Transaction, Bounded
        <3>2. q \in Grown(x)
            BY DEF Grown
        <3>3. cloud' = [cloud EXCEPT ![t] = q]
            BY <2>1
        <3>. HIDE DEF q, x
        <3>. QED
            BY <3>1, <3>2, <3>3
    <2>2. ASSUME x.total < MaxKwh, cloud' = [cloud EXCEPT ![t].total = @ + 1]
          PROVE  \E q \in Grown(x) :
                    /\ q \in Transaction /\ cloud' = [cloud EXCEPT ![t] = q]
                    /\ Bounded(x) => Bounded(q)
        <3> DEFINE q == [x EXCEPT !.total = @ + 1]
        <3>1. q \in Transaction /\ (Bounded(x) => Bounded(q))
            BY <1>1, <2>2 DEF Transaction, Bounded
        <3>2. q \in Grown(x)
            BY DEF Grown
        <3>3. cloud' = [cloud EXCEPT ![t] = q]
            BY <2>2
        <3>. HIDE DEF q, x
        <3>. QED
            BY <3>1, <3>2, <3>3
    <2>. QED
        BY <1>3, <2>1, <2>2 DEF TxMeter
<1>4. ASSUME TxFinish(t)
      PROVE  /\ Done(x) \in Transaction /\ cloud' = [cloud EXCEPT ![t] = Done(x)]
             /\ x.phase = "active" /\ (Bounded(x) => Bounded(Done(x)))
    <2>1. Done(x) \in Transaction /\ (Bounded(x) => Bounded(Done(x)))
        BY <1>1 DEF Transaction, Bounded, Done
    <2>2. cloud' = [cloud EXCEPT ![t] = Done(x)] /\ x.phase = "active"
        BY <1>4 DEF TxFinish, Done
    <2>. QED
        BY <2>1, <2>2
<1>5. UNCHANGED <<db, Service>>
    BY DEF CloudNext, TxStart, TxMeter, TxFinish
<1>6. TxMeter(t) => x.phase \in {"active", "finished"}
    BY DEF TxMeter
<1>. HIDE DEF x
<1>7. /\ UNCHANGED <<db, Service>>
      /\ \E q \in Transaction :
            /\ cloud' = [cloud EXCEPT ![t] = q]
            /\ Bounded(x) => Bounded(q)
            /\ \/ /\ x.phase = "none"
                  /\ \E c \in Connector, n \in Named, r \in Session \cup {Null} :
                        /\ q = Started(c, n, r)
                        /\ r # Null => sessions[r].remote /\ sessions[r].conn = c
               \/ x.phase \in {"active", "finished"} /\ q \in Grown(x)
               \/ x.phase = "active" /\ q = Done(x)
    BY <1>2, <1>3, <1>4, <1>5, <1>6 DEF CloudNext
<1>. QED
    BY <1>7 DEF x

\* What may follow a record of a transaction: the same, with larger energies or an end.
Follows(c, e) ==
    /\ e.conn = c.conn /\ e.named = c.named /\ e.remote = c.remote /\ e.since = c.since
    /\ c.register <= e.register /\ c.total <= e.total
    /\ c.phase = "none" => e.register = c.register /\ e.total = c.total
    /\ e.phase = c.phase \/ (c.phase = "active" /\ e.phase = "finished")
    /\ c.phase = "finished" => e.ended = c.ended
    /\ c.phase = "active" /\ e.phase = "finished" => e.ended = c.total

\* A transaction starts, is metered and ends.
LEMMA CloudStep ==
    ASSUME cloud \in [Tx -> Transaction], [Next]_vars, NEW t \in Tx
    PROVE  LET c == cloud[t]
               e == cloud'[t]
           IN
           \/ Follows(c, e)
           \/ /\ c.phase = "none" /\ e.phase = "active"
              /\ e.since = {s \in Session : sessions[s].status # "absent"}
              /\ e.register = 0 /\ e.total = 0 /\ e.remote \in Session \cup {Null}
              /\ e.remote # Null => sessions[e.remote].remote /\ sessions[e.remote].conn = e.conn
<1>1. cloud[t] \in Transaction /\ Follows(cloud[t], cloud[t])
    BY DEF Transaction, Follows
<1>2. CASE UNCHANGED cloud
    BY <1>1, <1>2
<1>3. CASE ~UNCHANGED cloud
    <2>1. PICK o \in Tx : CloudNext(o)
        BY <1>3, CloudAlone
    <2>2. PICK q \in Transaction :
            /\ cloud' = [cloud EXCEPT ![o] = q]
            /\ \/ /\ cloud[o].phase = "none"
                  /\ \E c \in Connector, n \in Named, r \in Session \cup {Null} :
                        /\ q = Started(c, n, r)
                        /\ r # Null => sessions[r].remote /\ sessions[r].conn = c
               \/ cloud[o].phase \in {"active", "finished"} /\ q \in Grown(cloud[o])
               \/ cloud[o].phase = "active" /\ q = Done(cloud[o])
        BY <2>1, CloudRecord
    <2>3. cloud'[t] = IF t = o THEN q ELSE cloud[t]
        BY <2>2
    <2>4. CASE t # o
        BY <1>1, <2>3, <2>4
    <2>5. CASE t = o /\ cloud[t].phase # "none" /\ q \in Grown(cloud[t])
        <3>1. Follows(cloud[t], q)
            BY <1>1, <2>5 DEF Grown, Transaction, Follows
        <3>. QED
            BY <2>3, <2>5, <3>1
    <2>6. CASE t = o /\ cloud[t].phase = "active" /\ q = Done(cloud[t])
        <3>1. Follows(cloud[t], q)
            BY <1>1, <2>6 DEF Done, Transaction, Follows
        <3>. QED
            BY <2>3, <2>6, <3>1
    <2>7. ASSUME t = o, cloud[t].phase = "none", NEW c \in Connector, NEW n \in Named,
                 NEW r \in Session \cup {Null}, q = Started(c, n, r),
                 r # Null => sessions[r].remote /\ sessions[r].conn = c
          PROVE  /\ q.phase = "active" /\ q.register = 0 /\ q.total = 0
                 /\ q.since = {s \in Session : sessions[s].status # "absent"}
                 /\ q.remote \in Session \cup {Null}
                 /\ q.remote # Null => sessions[q.remote].remote /\ sessions[q.remote].conn = q.conn
        BY <2>7 DEF Started
    <2>. QED
        BY <2>2, <2>3, <2>4, <2>5, <2>6, <2>7
<1>. QED
    BY <1>2, <1>3

-----------------------------------------------------------------------------
(* What requests and goroutines remember survives every step of the data.  *)

\* A row that exists goes on existing, and one that is bound keeps its transaction.
LEMMA RowsPersist ==
    ASSUME IInv, DataStep
    PROVE  /\ \A s \in Session :
                sessions[s].status # "absent" => sessions'[s].status # "absent"
           /\ \A s \in Session :
                sessions[s].ref # Null => sessions'[s].ref = sessions[s].ref
           /\ sessions' \in Table /\ RowsOK'
BY DEF DataStep, TableStep, RowStep, CanTransition, RowsOK

\* The debits stay those of stopped, bound sessions, one each.
LEMMA LedgerPersists ==
    ASSUME IInv, DataStep
    PROVE  /\ balance' \in [User -> Nat] /\ ledger' \subseteq Debit
           /\ LedgerOK'
<1>1. balance \in [User -> Nat] /\ ledger \subseteq Debit /\ LedgerOK
    BY DEF IInv, TypeOK
<1>2. ASSUME NEW e \in ledger
      PROVE  /\ e \in Debit /\ e.key \in Session
             /\ sessions'[e.key].status = "stopped" /\ sessions'[e.key].billed
             /\ sessions'[e.key].ref # Null /\ sessions'[e.key].user = e.user
             /\ \A f \in ledger : f.key = e.key => f = e
    <2>1. e \in Debit /\ e.key \in Session
        BY <1>1, <1>2 DEF Debit
    <2>2. RowStep(sessions[e.key], sessions'[e.key])
        BY <2>1 DEF DataStep, TableStep
    <2>. QED
        BY <1>1, <1>2, <2>1, <2>2 DEF LedgerOK, RowStep, CanTransition
<1>3. CASE UNCHANGED <<balance, ledger>>
    BY <1>1, <1>2, <1>3 DEF LedgerOK
<1>4. CASE ~UNCHANGED <<balance, ledger>>
    <2>1. PICK e \in Debit :
            /\ \A f \in ledger : f.key # e.key
            /\ e.user \in User /\ e.amount > 0 /\ e.amount <= balance[e.user]
            /\ ledger' = ledger \cup {e}
            /\ balance' = [balance EXCEPT ![e.user] = @ - e.amount]
            /\ sessions'[e.key].status = "stopped" /\ sessions'[e.key].billed
            /\ sessions'[e.key].ref # Null /\ sessions'[e.key].user = e.user
        BY <1>4 DEF DataStep, LedgerStep, Enters
    <2>2. balance' \in [User -> Nat]
        <3>1. e.amount \in Nat
            BY DEF Debit
        <3>. QED
            BY <1>1, <2>1, <3>1
    <2>3. LedgerOK'
        BY <1>2, <2>1 DEF LedgerOK
    <2>. QED
        BY <1>1, <2>1, <2>2, <2>3
<1>. QED
    BY <1>3, <1>4

\* A request ends idle, or goes on with the row or the rider it had.
LEMMA ReqGoesOn ==
    ASSUME req \in [Handler -> Request], ReqOK, [Next]_vars, DOMAIN sessions = Session,
           \A s \in Session : sessions[s].ocpp \in OcppIds \cup {Null},
           \A s \in Session : sessions[s].status # "absent" => sessions'[s].status # "absent"
    PROVE  req' \in [Handler -> Request] /\ ReqOK'
<1> DEFINE Good(r) ==
        /\ r \in Request
        /\ r.pc \in {"user", "connector", "create"} => r.user \in User
        /\ r.pc \in {"remote", "dispatch", "mark", "send", "reload", "reply"} =>
            r.sess \in Session /\ sessions'[r.sess].status # "absent"
<1>1. \A g \in Handler : Good(req[g])
    BY DEF ReqOK
<1>2. req \in [Handler -> Request]
    OBVIOUS
<1>3. IdleReq \in Request /\ Good(IdleReq)
    BY DEF IdleReq, Request, ReqPc
<1>4. ASSUME NEW h \in Handler, NEW q, req' = [req EXCEPT ![h] = q], Good(q)
      PROVE  req' \in [Handler -> Request] /\ ReqOK'
    <2>1. req' \in [Handler -> Request]
        BY <1>2, <1>4
    <2>2. \A g \in Handler : Good(req'[g])
        BY <1>1, <1>2, <1>4
    <2>. QED
        BY <2>1, <2>2 DEF ReqOK
<1>5. CASE UNCHANGED req
    BY <1>1, <1>2, <1>5 DEF ReqOK
<1>6. ASSUME NEW h \in Handler, EndReq(h)
      PROVE  req' \in [Handler -> Request] /\ ReqOK'
    BY <1>3, <1>4, <1>6 DEF EndReq
<1>7. ASSUME NEW h \in Handler, NEW pc \in ReqPc, GoReq(h, pc),
             pc \in {"connector", "create"} => req[h].pc \in {"user", "connector"},
             pc \notin {"connector", "create"} =>
                /\ pc \in {"dispatch", "send", "reload"}
                /\ req[h].pc \in {"remote", "mark", "send"}
      PROVE  req' \in [Handler -> Request] /\ ReqOK'
    <2>1. req' = [req EXCEPT ![h] = [req[h] EXCEPT !.pc = pc]]
        BY <1>7 DEF GoReq
    <2>2. Good([req[h] EXCEPT !.pc = pc])
        BY <1>1, <1>7 DEF Request
    <2>. QED
        BY <1>4, <2>1, <2>2
<1>8. ASSUME NEW h \in Handler, NEW u \in User, NEW c \in Connector, StartCheckWallet(h, u, c)
      PROVE  req' \in [Handler -> Request] /\ ReqOK'
    <2>1. Good([IdleReq EXCEPT !.pc = "user", !.user = u, !.conn = c])
        BY <1>3 DEF IdleReq, Request, ReqPc
    <2>. QED
        BY <1>4, <1>8, <2>1 DEF StartCheckWallet
<1>9. ASSUME NEW h \in Handler, NEW s \in Session, StartCreate(h, s)
      PROVE  req' \in [Handler -> Request] /\ ReqOK'
    <2>1. sessions'[s].status # "absent"
        BY <1>9 DEF StartCreate, CreateSession, NoRow
    <2>2. Good([IdleReq EXCEPT !.pc = "remote", !.sess = s])
        BY <1>3, <2>1 DEF IdleReq, Request, ReqPc
    <2>. QED
        BY <1>4, <1>9, <2>2 DEF StartCreate
<1>10. ASSUME NEW h \in Handler, NEW s \in Session, StopRead(h, s)
       PROVE  req' \in [Handler -> Request] /\ ReqOK'
    <2> DEFINE pc == IF sessions[s].status = "stopping" THEN "reply" ELSE "mark"
               q == [IdleReq EXCEPT !.pc = pc, !.sess = s, !.ocpp = sessions[s].ocpp]
    <2>1. sessions'[s].status # "absent"
        BY <1>10 DEF StopRead, Live
    <2>2. sessions[s].ocpp \in OcppIds \cup {Null} /\ pc \in {"reply", "mark"}
        OBVIOUS
    <2>3. Good(q)
        <3>. HIDE DEF pc
        <3>. QED
            BY <1>3, <2>1, <2>2 DEF IdleReq, Request, ReqPc
    <2>4. req' = [req EXCEPT ![h] = q]
        BY <1>10 DEF StopRead
    <2>. HIDE DEF q, Good
    <2>. QED
        BY <1>4, <2>3, <2>4
<1>11. ASSUME NEW h \in Handler, StopReload(h)
       PROVE  req' \in [Handler -> Request] /\ ReqOK'
    <2> DEFINE q == [req[h] EXCEPT !.pc = "reply", !.ocpp = sessions[req[h].sess].ocpp]
    <2>1. req[h].pc = "reload" /\ req[h].sess \in Session
        BY <1>11 DEF StopReload, ReqOK
    <2>2. sessions[req[h].sess].ocpp \in OcppIds \cup {Null}
        BY <2>1
    <2>3. Good(q)
        BY <1>1, <2>1, <2>2 DEF Request, ReqPc
    <2>4. req' = [req EXCEPT ![h] = q]
        BY <1>2, <1>11 DEF StopReload
    <2>. HIDE DEF q, Good
    <2>. QED
        BY <1>4, <2>3, <2>4
<1>12. ASSUME NEW h \in Handler, StartCheckUser(h) \/ StartCheckConnector(h)
       PROVE  req' \in [Handler -> Request] /\ ReqOK'
    BY <1>6, <1>7, <1>12 DEF StartCheckUser, StartCheckConnector, ReqPc
<1>13. ASSUME NEW h \in Handler, StartRemoteID(h) \/ StopMark(h) \/ StopSend(h)
       PROVE  req' \in [Handler -> Request] /\ ReqOK'
    <2>1. PICK pc \in {"dispatch", "send", "reload"} : GoReq(h, pc)
        BY <1>13 DEF StartRemoteID, StopMark, StopSend
    <2>2. req[h].pc \in {"remote", "mark", "send"}
        BY <1>13 DEF StartRemoteID, StopMark, StopSend
    <2>. QED
        BY <1>7, <2>1, <2>2 DEF ReqPc
<1>14. ASSUME NEW h \in Handler,
              \/ StartAbort(h) \/ StopAbort(h) \/ StopReplyPoll(h)
              \/ \E w \in Worker : StartDispatch(h, w) \/ StopReplySync(h, w)
       PROVE  req' \in [Handler -> Request] /\ ReqOK'
    BY <1>6, <1>14 DEF StartAbort, StopAbort, StopReplyPoll, StartDispatch, StopReplySync
<1>15. CASE Crash
    BY <1>3, <1>15 DEF Crash, ReqOK
<1>16. ASSUME \/ \E w \in Worker : SyncNext(w)
              \/ \E s \in Session :
                    PollStep(s) \/ PollFault(s) \/ Age(s) \/ LeaseExpire(s) \/ RetryStop(s)
              \/ \E t \in Tx : CloudNext(t)
              \/ RecoverStaleStarts \/ UNCHANGED vars
       PROVE  UNCHANGED req
    BY <1>16 DEF SyncNext, SyncLoad, SyncMatch, SyncFetch, SyncApply, SyncApplyNothing,
        SyncFault, SyncExpire, PollStep, PollWork, PollFetch, PollBegin, PollCommit, PollGiveUp,
        PollExit,
        PollFault, Age, LeaseExpire, RetryStop, CloudNext, TxStart, TxMeter, TxFinish,
        RecoverStaleStarts, Service, vars
<1>. QED
    <2>. HIDE DEF Good
    <2>. QED
        BY <1>5, <1>8, <1>9, <1>10, <1>11, <1>12, <1>13, <1>14, <1>15, <1>16
        DEF Next, HandlerNext

LEMMA ReqStep ==
    ASSUME IInv, [Next]_vars, DataStep
    PROVE  req' \in [Handler -> Request] /\ ReqOK'
<1>1. /\ req \in [Handler -> Request] /\ ReqOK /\ DOMAIN sessions = Session
      /\ \A s \in Session : sessions[s].ocpp \in OcppIds \cup {Null}
    BY DEF IInv, TypeOK, Row
<1>. QED
    BY <1>1, RowsPersist, ReqGoesOn

\* What Hasura answers is an energy and whether the transaction has ended.
LEMMA AnswersAreTyped ==
    ASSUME cloud \in [Tx -> Transaction], NEW id,
           NEW tx \in GetTransactionByID(id) \cup GetTransactionByOCPPTransactionID(id)
    PROVE  tx.kwh \in Nat /\ tx.finished \in BOOLEAN
<1>1. \A t \in Tx : cloud[t].total \in Nat /\ MeterReadings(t) \subseteq Nat
    BY DEF Transaction, MeterReadings
<1>2. PICK t \in Tx, k \in Nat : tx = Snapshot(t, k)
    BY <1>1 DEF GetTransactionByID, GetTransactionByOCPPTransactionID, ByID, ByOCPPTransactionID
<1>. QED
    BY <1>2 DEF Snapshot

\* A sync goroutine ends, or goes on with its row and the reference it loaded.
LEMMA SyncStep ==
    ASSUME IInv, [Next]_vars, DataStep
    PROVE  sync' \in [Worker -> Syncer] /\ SyncOK'
<1> DEFINE Good(v) ==
        /\ v \in Syncer
        /\ v.pc # "idle" => v.sess \in Session /\ sessions'[v.sess].status # "absent"
        /\ v.pc \in {"fetch", "apply"} => v.tx \in Tx
        /\ v.pc # "idle" /\ v.ref # Null => sessions'[v.sess].ref = v.ref
<1>1. \A v \in Worker : Good(sync[v])
    BY RowsPersist DEF IInv, TypeOK, SyncOK
<1>2. sync \in [Worker -> Syncer] /\ sessions \in Table /\ RowsOK
    BY DEF IInv, TypeOK, Table
<1>3. Good(IdleSync)
    BY StoreAssumption DEF IdleSync, Syncer, SyncPc, Status
<1>4. ASSUME NEW w \in Worker, NEW q, sync' = [sync EXCEPT ![w] = q], Good(q)
      PROVE  sync' \in [Worker -> Syncer] /\ SyncOK'
    <2>1. sync' \in [Worker -> Syncer]
        BY <1>2, <1>4
    <2>2. \A v \in Worker : Good(sync'[v])
        BY <1>1, <1>2, <1>4
    <2>. QED
        BY <2>1, <2>2 DEF SyncOK
<1>5. CASE UNCHANGED sync
    BY <1>1, <1>2, <1>5 DEF SyncOK
<1>6. ASSUME NEW w \in Worker, EndSync(w)
      PROVE  sync' \in [Worker -> Syncer] /\ SyncOK'
    BY <1>3, <1>4, <1>6 DEF EndSync
<1>7. ASSUME NEW s \in Session, sessions[s].status # "absent"
      PROVE  Good([IdleSync EXCEPT !.pc = "load", !.sess = s])
    <2>1. sessions'[s].status # "absent"
        BY <1>7, RowsPersist
    <2>. QED
        BY <1>3, <2>1 DEF IdleSync, Syncer, SyncPc
<1>8. ASSUME NEW w \in Worker, NextIteration(w), sync[w].pc # "idle"
      PROVE  sync' \in [Worker -> Syncer] /\ SyncOK'
    <2>1. sync[w].sess \in Session /\ sessions[sync[w].sess].status # "absent"
        BY <1>8 DEF IInv, SyncOK
    <2>. HIDE DEF Good
    <2>. QED
        BY <1>4, <1>7, <1>8, <2>1 DEF NextIteration
<1>9. ASSUME NEW w \in Worker, NEW h \in Handler, StartDispatch(h, w) \/ StopReplySync(h, w)
      PROVE  sync' \in [Worker -> Syncer] /\ SyncOK'
    <2>1. req[h].sess \in Session /\ sessions[req[h].sess].status # "absent"
        BY <1>9 DEF StartDispatch, StopReplySync, IInv, ReqOK
    <2>2. Spawn(w, req[h].sess)
        BY <1>9 DEF StartDispatch, StopReplySync
    <2>. HIDE DEF Good
    <2>. QED
        BY <1>4, <1>7, <2>1, <2>2 DEF Spawn
<1>10. ASSUME NEW w \in Worker, SyncLoad(w)
       PROVE  sync' \in [Worker -> Syncer] /\ SyncOK'
    <2> DEFINE s == sync[w].sess
               row == sessions[s]
               pc == IF ParseInt(row.ref) = Null THEN "match" ELSE "fetch"
               q == [IdleSync EXCEPT !.pc = pc, !.sess = s, !.status = row.status,
                         !.ref = row.ref, !.ocpp = row.ocpp, !.remote = row.remote,
                         !.tx = ParseInt(row.ref)]
    <2>1. s \in Session /\ row.status # "absent"
        BY <1>10 DEF SyncLoad, IInv, SyncOK
    <2>2. /\ row.status \in Status /\ row.ref \in Tx \cup {Null}
          /\ row.ocpp \in OcppIds \cup {Null} /\ row.remote \in BOOLEAN
        BY <1>2, <2>1 DEF Table, Row
    <2>3. /\ sessions'[s].status # "absent"
          /\ row.ref # Null => sessions'[s].ref = row.ref
        BY <2>1, RowsPersist
    <2>4. Good(q)
        <3>1. pc \in {"match", "fetch"} /\ ParseInt(row.ref) = row.ref
            BY <2>2, StoreAssumption DEF ParseInt
        <3>2. pc = "fetch" => row.ref \in Tx
            BY <2>2, <3>1
        <3>. HIDE DEF pc, row, s
        <3>. QED
            BY <1>3, <2>1, <2>2, <2>3, <3>1, <3>2 DEF IdleSync, Syncer, SyncPc
    <2>5. EndSync(w) \/ sync' = [sync EXCEPT ![w] = q]
        BY <1>10 DEF SyncLoad
    <2>. HIDE DEF q, Good
    <2>. QED
        BY <1>4, <1>6, <2>4, <2>5
<1>11. ASSUME NEW w \in Worker, SyncMatch(w)
       PROVE  sync' \in [Worker -> Syncer] /\ SyncOK'
    <2>1. sync[w].pc = "match"
        BY <1>11 DEF SyncMatch
    <2>2. CASE NextIteration(w)
        BY <1>8, <2>1, <2>2
    <2>3. CASE ~NextIteration(w)
        <3>1. PICK t \in Candidates(w) : sync' = [sync EXCEPT ![w].pc = "fetch", ![w].tx = t]
            BY <1>11, <2>3 DEF SyncMatch
        <3>2. t \in Tx
            BY DEF Candidates, ByRemoteStartID, Fallback
        <3> DEFINE q == [sync[w] EXCEPT !.pc = "fetch", !.tx = t]
        <3>3. Good(q)
            BY <1>1, <2>1, <3>2 DEF Syncer, SyncPc
        <3>4. sync' = [sync EXCEPT ![w] = q]
            BY <1>2, <3>1
        <3>. HIDE DEF q, Good
        <3>. QED
            BY <1>4, <3>3, <3>4
    <2>. QED
        BY <2>2, <2>3
<1>12. ASSUME NEW w \in Worker, SyncFetch(w)
       PROVE  sync' \in [Worker -> Syncer] /\ SyncOK'
    <2>1. sync[w].pc = "fetch" /\ sync[w].tx \in Tx
        BY <1>12 DEF SyncFetch, IInv, SyncOK
    <2>2. CASE NextIteration(w)
        BY <1>8, <2>1, <2>2
    <2>3. CASE ~NextIteration(w)
        <3>1. PICK tx \in GetTransactionByID(sync[w].tx) :
                sync' = [sync EXCEPT ![w].pc = "apply", ![w].kwh = tx.kwh,
                                     ![w].finished = tx.finished]
            BY <1>12, <2>3 DEF SyncFetch
        <3>2. tx.kwh \in Nat /\ tx.finished \in BOOLEAN
            BY <3>1, AnswersAreTyped DEF IInv, TypeOK
        <3> DEFINE q == [sync[w] EXCEPT !.pc = "apply", !.kwh = tx.kwh, !.finished = tx.finished]
        <3>3. Good(q)
            BY <1>1, <2>1, <3>2 DEF Syncer, SyncPc
        <3>4. sync' = [sync EXCEPT ![w] = q]
            BY <1>2, <3>1
        <3>. HIDE DEF q, Good
        <3>. QED
            BY <1>4, <3>3, <3>4
    <2>. QED
        BY <2>2, <2>3
<1>13. ASSUME NEW w \in Worker,
              SyncApply(w) \/ SyncApplyNothing(w) \/ SyncFault(w) \/ SyncExpire(w)
       PROVE  sync' \in [Worker -> Syncer] /\ SyncOK'
    <2>1. sync[w].pc # "idle"
        BY <1>13 DEF SyncApply, SyncApplyNothing, SyncFault, SyncExpire
    <2>2. EndSync(w) \/ NextIteration(w)
        BY <1>13 DEF SyncApply, SyncApplyNothing, SyncFault, SyncExpire
    <2>. QED
        BY <1>6, <1>8, <2>1, <2>2
<1>14. CASE Crash
    BY <1>3, <1>14 DEF Crash, SyncOK
<1>15. ASSUME NEW h \in Handler, HandlerNext(h),
              ~\E w \in Worker : StartDispatch(h, w) \/ StopReplySync(h, w)
       PROVE  UNCHANGED sync
    BY <1>15 DEF HandlerNext, StartCheckWallet, StartCheckUser, StartCheckConnector,
        StartCreate, StartRemoteID, StartAbort, StopRead, StopMark, StopSend, StopReload,
        StopReplyPoll, StopAbort
<1>16. ASSUME \/ \E s \in Session :
                    PollStep(s) \/ PollFault(s) \/ Age(s) \/ LeaseExpire(s) \/ RetryStop(s)
              \/ \E t \in Tx : CloudNext(t)
              \/ RecoverStaleStarts \/ UNCHANGED vars
       PROVE  UNCHANGED sync
    BY <1>16 DEF PollStep, PollWork, PollFetch, PollBegin, PollCommit, PollGiveUp, PollExit,
        PollFault, Age, LeaseExpire, RetryStop, CloudNext, TxStart, TxMeter, TxFinish,
        RecoverStaleStarts, Service, vars
<1>. QED
    <2>. HIDE DEF Good
    <2>. QED
        BY <1>5, <1>9, <1>10, <1>11, <1>12, <1>13, <1>14, <1>15, <1>16 DEF Next, SyncNext

\* A poller is started on a row that has an OCPP id, hence a transaction, and reads
\* energies from that transaction and that row.
LEMMA PollerStep ==
    ASSUME IInv, [Next]_vars, DataStep
    PROVE  poll' \in [Session -> Poller] /\ PollOK'
<1>1. /\ poll \in [Session -> Poller] /\ sessions \in Table /\ RowsOK
      /\ \A s \in Session : poll[s].pc # "off" => sessions[s].ref # Null
    BY DEF IInv, TypeOK, Table, PollOK
<1>2. \A s \in Session : sessions[s].ref # Null => sessions'[s].ref # Null
    BY RowsPersist
<1>3. NoPoll \in Poller /\ NoPoll.pc = "off"
    BY LifecycleAssumption DEF NoPoll, Poller, PollPc
<1>4. ASSUME NEW s \in Session, NEW q \in Poller, poll' = [poll EXCEPT ![s] = q],
             q.pc = "off" \/ sessions[s].ref # Null
      PROVE  poll' \in [Session -> Poller] /\ PollOK'
    <2>1. poll' \in [Session -> Poller]
        BY <1>1, <1>4
    <2>2. ASSUME NEW o \in Session, poll'[o].pc # "off"
          PROVE  sessions'[o].ref # Null
        BY <1>1, <1>2, <1>4, <2>2
    <2>. QED
        BY <2>1, <2>2 DEF PollOK
<1>5. CASE UNCHANGED poll
    BY <1>1, <1>2, <1>5 DEF PollOK
<1>6. ASSUME NEW s \in Session, NEW pc \in PollPc, GoPoll(s, pc), poll[s].pc # "off"
      PROVE  poll' \in [Session -> Poller] /\ PollOK'
    <2>1. poll' = [poll EXCEPT ![s] = [poll[s] EXCEPT !.pc = pc]]
        BY <1>6 DEF GoPoll
    <2>2. [poll[s] EXCEPT !.pc = pc] \in Poller
        BY <1>1 DEF Poller
    <2>. QED
        BY <1>1, <1>4, <1>6, <2>1, <2>2
<1>7. ASSUME NEW s \in Session, poll[s].attempt < MaxAttempts, poll[s].pc # "off",
             poll' = [poll EXCEPT ![s].attempt = @ + 1]
      PROVE  poll' \in [Session -> Poller] /\ PollOK'
    <2>1. poll' = [poll EXCEPT ![s] = [poll[s] EXCEPT !.attempt = @ + 1]]
        BY <1>7
    <2>2. [poll[s] EXCEPT !.attempt = @ + 1] \in Poller
        BY <1>1, <1>7, LifecycleAssumption DEF Poller
    <2>. QED
        BY <1>1, <1>4, <1>7, <2>1, <2>2
<1>8. ASSUME NEW s \in Session, NEW pc \in PollPc, NEW k \in Nat, poll[s].pc # "off",
             poll' = [poll EXCEPT ![s].pc = pc, ![s].kwh = k]
      PROVE  poll' \in [Session -> Poller] /\ PollOK'
    <2> DEFINE q == [poll[s] EXCEPT !.pc = pc, !.kwh = k]
    <2>1. poll' = [poll EXCEPT ![s] = q]
        BY <1>1, <1>8
    <2>2. q \in Poller
        BY <1>1 DEF Poller
    <2>. QED
        BY <1>1, <1>4, <1>8, <2>1, <2>2
<1>9. ASSUME NEW s \in Session, PollFetch(s)
      PROVE  poll' \in [Session -> Poller] /\ PollOK'
    <2>1. poll[s].pc = "fetch"
        BY <1>9 DEF PollFetch
    <2>2. \A tx \in Ended(sessions[s]) : tx.kwh \in Nat
        BY AnswersAreTyped DEF Ended, Resolved, IInv, TypeOK
    <2>3. \/ GoPoll(s, "exit") \/ GoPoll(s, "giveup")
          \/ \E tx \in Ended(sessions[s]) :
                poll' = [poll EXCEPT ![s].pc = "begin", ![s].kwh = tx.kwh]
          \/ /\ poll[s].attempt < MaxAttempts
             /\ poll' = [poll EXCEPT ![s].attempt = @ + 1]
        BY <1>9 DEF PollFetch
    <2>. QED
        BY <1>6, <1>7, <1>8, <2>1, <2>2, <2>3 DEF PollPc
<1>10. ASSUME NEW s \in Session, PollFault(s)
       PROVE  poll' \in [Session -> Poller] /\ PollOK'
    BY <1>6, <1>7, <1>10 DEF PollFault, PollPc
<1>11. ASSUME NEW s \in Session, PollBegin(s)
       PROVE  poll' \in [Session -> Poller] /\ PollOK'
    <2> DEFINE k == IF poll[s].kwh = 0 THEN sessions[s].kwh ELSE poll[s].kwh
    <2>1. k \in Nat
        BY <1>1 DEF Table, Row, Poller
    <2>2. GoPoll(s, "exit") \/ poll' = [poll EXCEPT ![s].pc = "commit", ![s].kwh = k]
        BY <1>11 DEF PollBegin
    <2>3. poll[s].pc # "off"
        BY <1>11 DEF PollBegin
    <2>. HIDE DEF k
    <2>. QED
        BY <1>6, <1>8, <2>1, <2>2, <2>3 DEF PollPc
<1>12. ASSUME NEW s \in Session, PollCommit(s) \/ PollGiveUp(s)
       PROVE  poll' \in [Session -> Poller] /\ PollOK'
    BY <1>6, <1>12 DEF PollCommit, PollGiveUp, PollPc
<1>13. ASSUME NEW s \in Session, PollExit(s)
       PROVE  poll' \in [Session -> Poller] /\ PollOK'
    BY <1>3, <1>4, <1>13 DEF PollExit
<1>14. ASSUME NEW h \in Handler, StopReplyPoll(h)
       PROVE  poll' \in [Session -> Poller] /\ PollOK'
    <2> DEFINE s == req[h].sess
               q == [pc |-> "fetch", attempt |-> 1, kwh |-> 0]
    <2>1. CASE UNCHANGED poll
        BY <1>5, <2>1
    <2>2. CASE ~UNCHANGED poll
        <3>1. s \in Session /\ sessions[s].ocpp # Null /\ poll' = [poll EXCEPT ![s] = q]
            BY <1>14, <2>2 DEF StopReplyPoll, IInv, ReqOK
        <3>2. sessions[s].ref # Null
            BY <1>1, <3>1 DEF RowsOK, RowOK
        <3>3. q \in Poller
            BY LifecycleAssumption DEF Poller, PollPc
        <3>. HIDE DEF q
        <3>. QED
            BY <1>4, <3>1, <3>2, <3>3
    <2>. QED
        BY <2>1, <2>2
<1>15. CASE Crash
    BY <1>3, <1>15 DEF Crash, PollOK
<1>16. ASSUME NEW h \in Handler, HandlerNext(h), ~StopReplyPoll(h)
       PROVE  UNCHANGED poll
    BY <1>16 DEF HandlerNext, StartCheckWallet, StartCheckUser, StartCheckConnector,
        StartCreate, StartRemoteID, StartDispatch, StartAbort, StopRead, StopMark, StopSend,
        StopReload, StopReplySync, StopAbort
<1>17. ASSUME \/ \E w \in Worker : SyncNext(w)
              \/ \E s \in Session : Age(s) \/ LeaseExpire(s) \/ RetryStop(s)
              \/ \E t \in Tx : CloudNext(t)
              \/ RecoverStaleStarts \/ UNCHANGED vars
       PROVE  UNCHANGED poll
    BY <1>17 DEF SyncNext, SyncLoad, SyncMatch, SyncFetch, SyncApply, SyncApplyNothing,
        SyncFault, SyncExpire, Age, LeaseExpire, RetryStop, CloudNext, TxStart, TxMeter,
        TxFinish, RecoverStaleStarts, Service, vars
<1>. QED
    BY <1>5, <1>9, <1>10, <1>11, <1>12, <1>13, <1>14, <1>15, <1>16, <1>17
    DEF Next, PollStep, PollWork

\* Only the sweep and a restart touch the ticker.
LEMMA TickerType ==
    ASSUME ticker \in {"running", "stalled"}, [Next]_vars
    PROVE  ticker' \in {"running", "stalled"}
<1>1. ASSUME NEW h \in Handler, HandlerNext(h)
      PROVE  UNCHANGED ticker
    BY <1>1 DEF HandlerNext, StartCheckWallet, StartCheckUser, StartCheckConnector,
        StartCreate, StartRemoteID, StartDispatch, StartAbort, StopRead, StopMark, StopSend,
        StopReload, StopReplySync, StopReplyPoll, StopAbort, process
<1>2. ASSUME NEW w \in Worker, SyncNext(w)
      PROVE  UNCHANGED ticker
    BY <1>2 DEF SyncNext, SyncLoad, SyncMatch, SyncFetch, SyncApply, SyncApplyNothing,
        SyncFault, SyncExpire, process
<1>3. ASSUME NEW s \in Session,
             PollStep(s) \/ PollFault(s) \/ Age(s) \/ LeaseExpire(s) \/ RetryStop(s)
      PROVE  UNCHANGED ticker
    BY <1>3 DEF PollStep, PollWork, PollFetch, PollBegin, PollCommit, PollGiveUp, PollExit,
        PollFault, Age, LeaseExpire, RetryStop, Service, process
<1>4. ASSUME (\E t \in Tx : CloudNext(t)) \/ UNCHANGED vars
      PROVE  UNCHANGED ticker
    BY <1>4 DEF CloudNext, TxStart, TxMeter, TxFinish, Service, process, vars
<1>5. ASSUME RecoverStaleStarts \/ Crash
      PROVE  ticker' \in {"running", "stalled"}
    BY <1>5 DEF RecoverStaleStarts, Crash
<1>. QED
    BY <1>1, <1>2, <1>3, <1>4, <1>5 DEF Next

\* The charger's records, the stop commands and the counters keep their types.
LEMMA OtherTypes ==
    ASSUME IInv, [Next]_vars
    PROVE  /\ cloud' \in [Tx -> Transaction]
           /\ stopCmd' \in [Session -> {"none", "queued", "sent", "dead"}]
           /\ ticker' \in {"running", "stalled"}
           /\ crashes' \in 0 .. MaxCrashes /\ stops' \in 0 .. MaxStops
<1> DEFINE Cmd == {"none", "queued", "sent", "dead"}
<1>1. /\ cloud \in [Tx -> Transaction] /\ stopCmd \in [Session -> Cmd]
      /\ ticker \in {"running", "stalled"} /\ crashes \in 0 .. MaxCrashes /\ stops \in 0 .. MaxStops
      /\ MaxCrashes \in Nat /\ MaxStops \in Nat
    BY LifecycleAssumption DEF IInv, TypeOK
<1>2. ASSUME NEW t \in Tx, CloudNext(t)
      PROVE  cloud' \in [Tx -> Transaction] /\ UNCHANGED <<stopCmd, crashes, stops>>
    <2>1. UNCHANGED Service /\ \E q \in Transaction : cloud' = [cloud EXCEPT ![t] = q]
        BY <1>1, <1>2, CloudRecord
    <2>. QED
        BY <1>1, <2>1 DEF Service, process
<1>3. ASSUME NEW h \in Handler, HandlerNext(h)
      PROVE  /\ UNCHANGED <<cloud, crashes>>
             /\ stopCmd' \in [Session -> Cmd] /\ stops' \in 0 .. MaxStops
    <2>1. ASSUME NEW s \in Session, StopRead(h, s)
          PROVE  UNCHANGED <<cloud, stopCmd, crashes>> /\ stops' \in 0 .. MaxStops
        BY <1>1, <2>1 DEF StopRead
    <2>2. ASSUME StopMark(h) \/ StopSend(h)
          PROVE  UNCHANGED <<cloud, crashes, stops>> /\ stopCmd' \in [Session -> Cmd]
        <3>1. UNCHANGED <<cloud, crashes, stops>>
            BY <2>2 DEF StopMark, StopSend, process
        <3>2. stopCmd' \in [Session -> Cmd]
            BY <1>1, <2>2 DEF StopMark, StopSend
        <3>. QED
            BY <3>1, <3>2
    <2>3. ASSUME ~StopMark(h), ~StopSend(h), ~\E s \in Session : StopRead(h, s)
          PROVE  UNCHANGED <<cloud, stopCmd, crashes, stops>>
        BY <1>3, <2>3 DEF HandlerNext, StartCheckWallet, StartCheckUser, StartCheckConnector,
            StartCreate, StartRemoteID, StartDispatch, StartAbort, StopReload, StopReplySync,
            StopReplyPoll, StopAbort, process
    <2>. QED
        BY <1>1, <2>1, <2>2, <2>3
<1>4. ASSUME NEW w \in Worker, SyncNext(w)
      PROVE  UNCHANGED <<cloud, crashes, stops>> /\ stopCmd' \in [Session -> Cmd]
    <2>1. UNCHANGED <<cloud, crashes, stops>>
        BY <1>4 DEF SyncNext, SyncLoad, SyncMatch, SyncFetch, SyncApply, SyncApplyNothing,
            SyncFault, SyncExpire, process
    <2>2. CASE SyncApply(w)
        <3>1. PICK o \in SyncTarget(w) :
                stopCmd' = IF OwesStop(w, o) THEN EnqueueStop(o) ELSE stopCmd
            BY <2>2 DEF SyncApply
        <3>. QED
            BY <1>1, <2>1, <3>1 DEF EnqueueStop
    <2>3. CASE ~SyncApply(w)
        BY <1>1, <1>4, <2>1, <2>3 DEF SyncNext, SyncLoad, SyncMatch, SyncFetch,
            SyncApplyNothing, SyncFault, SyncExpire
    <2>. QED
        BY <2>1, <2>2, <2>3
<1>5. ASSUME NEW s \in Session,
             PollStep(s) \/ PollFault(s) \/ Age(s) \/ LeaseExpire(s) \/ RetryStop(s)
      PROVE  UNCHANGED <<cloud, crashes, stops>> /\ stopCmd' \in [Session -> Cmd]
    <2>1. UNCHANGED <<cloud, crashes, stops>>
        BY <1>5 DEF PollStep, PollWork, PollFetch, PollBegin, PollCommit, PollGiveUp, PollExit,
            PollFault, Age, LeaseExpire, RetryStop, Service, process
    <2>2. stopCmd' \in [Session -> Cmd]
        BY <1>1, <1>5 DEF PollStep, PollWork, PollFetch, PollBegin, PollCommit, PollGiveUp, PollExit,
            PollFault, Age, LeaseExpire, RetryStop, Service
    <2>. QED
        BY <2>1, <2>2
<1>6. ASSUME Crash
      PROVE  /\ UNCHANGED <<cloud, stops>> /\ crashes' \in 0 .. MaxCrashes
             /\ stopCmd' \in [Session -> Cmd]
    BY <1>1, <1>6 DEF Crash
<1>7. ASSUME RecoverStaleStarts \/ UNCHANGED vars
      PROVE  UNCHANGED <<cloud, stopCmd, crashes, stops>>
    BY <1>7 DEF RecoverStaleStarts, Service, process, vars
<1>8. ticker' \in {"running", "stalled"}
    BY <1>1, TickerType
<1>. QED
    BY <1>1, <1>2, <1>3, <1>4, <1>5, <1>6, <1>7, <1>8 DEF Next

-----------------------------------------------------------------------------
(* The invariant and what follows from it.                                 *)

\* The empty database satisfies the invariant.
LEMMA InitIInv == Init => IInv
<1>. SUFFICES ASSUME Init PROVE IInv
    OBVIOUS
<1>1. NoRow \in Row /\ RowOK(NoRow)
    BY StoreAssumption DEF NoRow, Row, Status, RowOK
<1>2. IdleReq \in Request /\ IdleReq.pc = "idle"
    BY DEF IdleReq, Request, ReqPc
<1>3. IdleSync \in Syncer /\ IdleSync.pc = "idle"
    BY DEF IdleSync, Syncer, SyncPc, Status
<1>4. NoPoll \in Poller /\ NoPoll.pc = "off"
    BY LifecycleAssumption DEF NoPoll, Poller, PollPc
<1>5. NoTx \in Transaction
    BY DEF NoTx, Transaction
<1>6. TypeOK
    BY <1>1, <1>2, <1>3, <1>4, <1>5, LifecycleAssumption DEF Init, TypeOK
<1>7. RowsOK /\ RefsUnique
    BY <1>1 DEF Init, RowsOK, RefsUnique, NoRow
<1>8. ReqOK /\ SyncOK /\ PollOK /\ LedgerOK
    BY <1>2, <1>3, <1>4 DEF Init, ReqOK, SyncOK, PollOK, LedgerOK
<1>. QED
    BY <1>6, <1>7, <1>8 DEF IInv

\* Every step preserves it.
LEMMA NextIInv == IInv /\ [Next]_vars => IInv' /\ DataStep
<1>. SUFFICES ASSUME IInv, [Next]_vars PROVE IInv' /\ DataStep
    OBVIOUS
<1>1. DataStep
    BY NextDataStep
<1>2. sessions' \in [Session -> Row] /\ RowsOK'
    BY <1>1, RowsPersist DEF Table
<1>3. RefsUnique'
    BY <1>1 DEF DataStep, Unique, RefsUnique
<1>4. balance' \in [User -> Nat] /\ ledger' \subseteq Debit /\ LedgerOK'
    BY <1>1, LedgerPersists
<1>5. req' \in [Handler -> Request] /\ ReqOK'
    BY <1>1, ReqStep
<1>6. sync' \in [Worker -> Syncer] /\ SyncOK'
    BY <1>1, SyncStep
<1>7. poll' \in [Session -> Poller] /\ PollOK'
    BY <1>1, PollerStep
<1>8. TypeOK'
    BY <1>2, <1>4, <1>5, <1>6, <1>7, OtherTypes DEF TypeOK
<1>. QED
    BY <1>1, <1>2, <1>3, <1>4, <1>5, <1>6, <1>7, <1>8 DEF IInv

\* IInv is an invariant of the system.
THEOREM Invariance == Spec => []IInv
BY InitIInv, NextIInv, PTL DEF Spec

\* Every variable keeps its type.
THEOREM TypeCorrectness == Spec => []TypeOK
<1>1. IInv => TypeOK
    BY DEF IInv
<1>. QED
    BY <1>1, Invariance, PTL

\* One charging transaction is billed to one session only: debits are of different
\* sessions, and the references of two sessions differ.
THEOREM TransactionBilledOnce == Spec => []BilledOnce
<1>1. IInv => BilledOnce
    <2>. SUFFICES ASSUME IInv, NEW e \in ledger, NEW f \in ledger, e # f
                  PROVE  /\ sessions[e.key].ref # Null
                         /\ sessions[e.key].ref # sessions[f.key].ref
        BY DEF BilledOnce
    <2>1. e.key \in Session /\ f.key \in Session
        BY DEF IInv, TypeOK, Debit
    <2>2. e.key # f.key /\ sessions[e.key].ref # Null
        BY DEF IInv, LedgerOK
    <2>. QED
        BY <2>1, <2>2 DEF IInv, RefsUnique
<1>. QED
    BY <1>1, Invariance, PTL

\* A session the recovery sweep gave up on is never attached, metered or billed.
THEOREM FailedStaysUntouched == Spec => []FailedIsUntouched
<1>1. IInv => FailedIsUntouched
    BY DEF IInv, TypeOK, RowsOK, RowOK, LedgerOK, FailedIsUntouched
<1>. QED
    BY <1>1, Invariance, PTL

\* No step of any actor leaves the state machine.
THEOREM StatusMachine == Spec => StatusFollowsStateMachine
<1>1. IInv /\ [Next]_vars => [StatusStep]_sessions
    BY NextIInv DEF DataStep, TableStep, RowStep, StatusStep
<1>. QED
    BY <1>1, Invariance, PTL DEF Spec, StatusFollowsStateMachine

\* No step changes the transaction a row names.
THEOREM RefsWrittenOnce == Spec => RefWriteOnce
<1>1. IInv /\ [Next]_vars => [RefStep]_sessions
    BY NextIInv DEF DataStep, TableStep, RowStep, RefStep
<1>. QED
    BY <1>1, Invariance, PTL DEF Spec, RefWriteOnce

-----------------------------------------------------------------------------
(* The money.  A debit enters the ledger with the UPDATE of its wallet, and  *)
(* every entry before it is of another session, so each sum grows by what   *)
(* its wallet lost.                                                         *)

LEMMA SumIsTotal == ASSUME NEW S PROVE MapThenSumSet(AmountOf, S) = Total(S)
BY DEF MapThenSumSet, MapThenFoldSet, AmountOf, Total, Tally, IsTally, First

Conserved ==
    /\ IsFiniteSet(ledger)
    /\ \A u \in User : balance[u] + Total(DebitsOf(u)) = InitBalance

LEMMA InitConserved == Init => Conserved
<1>. SUFFICES ASSUME Init PROVE Conserved
    OBVIOUS
<1>1. IsFiniteSet(ledger) /\ \A u \in User : DebitsOf(u) = {} /\ balance[u] = InitBalance
    BY FS_EmptySet DEF Init, DebitsOf
<1>. QED
    BY <1>1, TotalOfNone, LifecycleAssumption DEF Conserved

LEMMA NextConserved ==
    ASSUME balance \in [User -> Nat], ledger \subseteq Debit, Conserved,
           UNCHANGED <<balance, ledger>> \/ \E e \in Debit : Enters(e)
    PROVE  Conserved'
<1>1. CASE UNCHANGED <<balance, ledger>>
    BY <1>1 DEF Conserved, DebitsOf, Total, Tally, IsTally, First
<1>2. CASE ~UNCHANGED <<balance, ledger>>
    <2>1. PICK e \in Debit :
            /\ \A f \in ledger : f.key # e.key
            /\ e.user \in User
            /\ ledger' = ledger \cup {e}
            /\ balance' = [balance EXCEPT ![e.user] = @ - e.amount]
        BY <1>2 DEF Enters
    <2>2. IsFiniteSet(ledger) /\ IsFiniteSet(ledger') /\ e \notin ledger /\ e.amount \in Int
        BY <2>1, FS_AddElement DEF Conserved, Debit
    <2>3. ASSUME NEW u \in User
          PROVE  balance'[u] + Total(DebitsOf(u))' = InitBalance
        <3>1. IsFiniteSet(DebitsOf(u)) /\ Amounts(DebitsOf(u)) /\ e \notin DebitsOf(u)
            BY <2>2, FS_Subset DEF DebitsOf, Amounts, Debit
        <3>2. balance[u] \in Int /\ balance[u] + Total(DebitsOf(u)) = InitBalance
            BY DEF Conserved
        <3>3. Total(DebitsOf(u)) \in Int
            BY <3>1, TotalIsInteger
        <3>4. Total(DebitsOf(u))' = Total(DebitsOf(u)')
            BY DEF Total, Tally, IsTally, First
        <3>5. CASE u = e.user
            <4>1. DebitsOf(u)' = DebitsOf(u) \cup {e}
                BY <2>1, <3>5 DEF DebitsOf
            <4>2. Total(DebitsOf(u) \cup {e}) = Total(DebitsOf(u)) + e.amount
                BY <2>2, <3>1, TotalOfOneMore
            <4>3. balance'[u] = balance[u] - e.amount
                BY <2>1, <3>5
            <4>. QED
                BY <2>2, <3>2, <3>3, <3>4, <4>1, <4>2, <4>3
        <3>6. CASE u # e.user
            <4>1. DebitsOf(u)' = DebitsOf(u)
                BY <2>1, <3>6 DEF DebitsOf
            <4>2. balance'[u] = balance[u]
                BY <2>1, <3>6
            <4>. QED
                BY <3>2, <3>4, <4>1, <4>2
        <3>. QED
            BY <3>5, <3>6
    <2>. QED
        BY <2>2, <2>3 DEF Conserved
<1>. QED
    BY <1>1, <1>2

\* No rider pays twice for a session or anything the ledger does not show, whoever settles
\* it: each wallet holds what it held first less its debits, and those are one a session
\* (service.go, finalizeStoppedSessionFromTransaction; wallet_repo.go, DebitWalletForSessionTx).
THEOREM RidersPayOnce == Spec => []WalletConserved
<1>1. Spec => []Conserved
    <2>1. IInv /\ Conserved /\ [Next]_vars => Conserved'
        BY NextIInv, NextConserved DEF IInv, TypeOK, DataStep, LedgerStep
    <2>. QED
        BY <2>1, InitConserved, Invariance, PTL DEF Spec
<1>2. IInv /\ Conserved => WalletConserved
    <2>. SUFFICES ASSUME IInv, Conserved PROVE WalletConserved
        OBVIOUS
    <2>1. \A e, f \in ledger : e.key = f.key => e = f
        BY DEF IInv, LedgerOK
    <2>2. \A u \in User : balance[u] + MapThenSumSet(AmountOf, DebitsOf(u)) = InitBalance
        BY SumIsTotal DEF Conserved
    <2>. QED
        BY <2>1, <2>2 DEF WalletConserved
<1>. QED
    BY <1>1, <1>2, Invariance, PTL
=============================================================================
