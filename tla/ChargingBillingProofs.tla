------------------------ MODULE ChargingBillingProofs ------------------------
(***************************************************************************)
(* What a session is billed, for every value of the constants.              *)
(*                                                                         *)
(* The lifecycle implements the billing contract: the initial states map to *)
(* initial states of the contract, and each step that writes the database   *)
(* maps to opening, binding, voiding or closing a session, or to a stutter. *)
(* IInv is needed because the contract asks what no single statement of the *)
(* code checks: that a row being finalised is open or closed already and    *)
(* bound, that the key of a new debit is its own rider's, and that what the *)
(* recovery sweep gives up on was never bound.                              *)
(*                                                                         *)
(* A session is attached to a transaction of its own, and pays for what that *)
(* transaction metered.  Both follow what a goroutine has read of a row and  *)
(* of Hasura to the commit that writes it: what it remembers was true when   *)
(* it was read, and the facts kept here are those that stay true.           *)
(***************************************************************************)
EXTENDS ChargingLifecycleProofs

-----------------------------------------------------------------------------
(* The billing contract.                                                   *)

\* What the contract sees of a row.
SameView(r, q) == Phase(q.status) = Phase(r.status) /\ q.user = r.user /\ q.ref = r.ref

\* A step that leaves the money alone, and every row as the contract sees it, stutters.
LEMMA Stutter ==
    ASSUME UNCHANGED <<balance, ledger>>,
           \A s \in Session : SameView(sessions[s], sessions'[s])
    PROVE  UNCHANGED Contract!contract
BY DEF Contract!contract, SameView

\* Inserting a row opens a session of its rider.
LEMMA CreateOpens ==
    ASSUME IInv, NEW s \in Session, NEW u \in User, NEW c,
           sessions[s].status = "absent", sessions' = CreateSession(sessions, s, u, c),
           UNCHANGED <<balance, ledger>>
    PROVE  Contract!Next
<1>1. sessions \in Table /\ sessions[s].ref = Null
    BY DEF IInv, TypeOK, RowsOK, RowOK, Table
<1>2. sessions'[s].status = "starting" /\ sessions'[s].user = u /\ sessions'[s].ref = Null
    BY <1>1 DEF CreateSession, NoRow, Table
<1>3. \A o \in Session \ {s} : sessions'[o] = sessions[o]
    BY <1>1 DEF CreateSession, Table
<1>4. Contract!Open(s, u)
    BY <1>1, <1>2, <1>3 DEF Contract!Open, Phase
<1>. QED
    BY <1>4 DEF Contract!Next

\* Attaching binds an open session, or finds it bound to the same transaction.
LEMMA AttachBinds ==
    ASSUME IInv, NEW s \in Session, NEW t \in Tx, NEW k \in Nat,
           Attachable(sessions, s, t), ~RefTaken(sessions, s, t),
           sessions' = AttachTransactionToSession(sessions, s, t, OcppId[t], k),
           UNCHANGED <<balance, ledger>>
    PROVE  [Contract!Next]_(Contract!contract)
<1>1. sessions \in Table /\ sessions[s].status \in {"starting", "stopping"}
      /\ sessions[s].ref \in {Null, t}
    BY DEF IInv, TypeOK, Table, Attachable
<1>2. /\ sessions'[s].status \in {"charging", "stopping"} /\ sessions'[s].ref = t
      /\ sessions'[s].user = sessions[s].user
      /\ \A o \in Session \ {s} : sessions'[o] = sessions[o]
    BY <1>1 DEF AttachTransactionToSession, Table, Row
<1>3. CASE sessions[s].ref = Null
    <2>1. Contract!Bind(s, t)
        BY <1>1, <1>2, <1>3 DEF Contract!Bind, Contract!Unbound, Phase, RefTaken
    <2>. QED
        BY <2>1 DEF Contract!Next
<1>4. CASE sessions[s].ref = t
    BY <1>1, <1>2, <1>4, Stutter DEF SameView, Phase
<1>. QED
    BY <1>1, <1>3, <1>4

\* The sweep voids what it gives up on.
LEMMA SweepVoids ==
    ASSUME IInv, sessions' = FailStaleStartingSessions(sessions),
           UNCHANGED <<balance, ledger>>
    PROVE  Contract!Next
<1> DEFINE S == StaleStarts(sessions)
<1>1. sessions \in Table /\ \A s \in S : sessions[s].ref = Null
    BY DEF IInv, TypeOK, RowsOK, RowOK, Table, StaleStarts
<1>2. \A s \in Session :
        /\ sessions'[s].user = sessions[s].user /\ sessions'[s].ref = sessions[s].ref
        /\ sessions'[s].status = IF s \in S THEN "failed" ELSE sessions[s].status
    BY <1>1 DEF FailStaleStartingSessions, Table, Row
<1>3. S \in SUBSET Session /\ \A s \in S : sessions[s].status = "starting"
    BY DEF StaleStarts
<1>4. Contract!Void(S)
    <2>. HIDE DEF S
    <2>. QED
        BY <1>1, <1>2, <1>3 DEF Contract!Void, Phase
<1>. QED
    BY <1>3, <1>4 DEF Contract!Next

\* A settlement of a table the contract cannot tell from the current one, but for the
\* settled row's binding, closes the session.
LEMMA SettleCloses ==
    ASSUME IInv, NEW d \in Table, NEW s \in Session, NEW t \in Tx, NEW k \in Nat,
           Settle(d, s, k), d[s].ref = t, d[s].user = sessions[s].user,
           \A o \in Session \ {s} : SameView(sessions[o], d[o]),
           Phase(sessions[s].status) \in {"open", "closed"},
           \/ sessions[s].ref = t
           \/ /\ sessions[s].ref = Null /\ Phase(sessions[s].status) = "open"
              /\ \A o \in Session \ {s} : sessions[o].ref # t
    PROVE  Contract!Next
<1> DEFINE u == d[s].user
           c == Cost(k)
           b == DebitInserted(balance, ledger, u, c, s)
           x == DebitRefused(balance, u, c)
<1>1. sessions' = FinalizeStoppedSession(d, s, k, b, x)
    BY DEF Settle
<1>2. /\ sessions'[s].status = "stopped" /\ sessions'[s].ref = t
      /\ sessions'[s].user = sessions[s].user
      /\ \A o \in Session \ {s} : SameView(sessions[o], sessions'[o])
    <2>. HIDE DEF b, x
    <2>. QED
        BY <1>1 DEF FinalizeStoppedSession, Table, Row
<1>3. u \in User
    BY DEF IInv, RowsOK, RowOK, Phase
<1>4. Contract!Charge(s) \/ UNCHANGED <<ledger, balance>>
    <2>1. CASE b
        <3> DEFINE e == [key |-> s, user |-> u, amount |-> c]
        <3>1. c > 0 /\ c \in Nat /\ balance[u] \in Nat /\ balance[u] >= c
              /\ \A f \in ledger : f.key # s
            BY <2>1, <1>3, CostIsNat DEF DebitInserted, IInv, TypeOK
        <3>2. ledger' = ledger \cup {e} /\ balance' = [balance EXCEPT ![u] = @ - c]
            BY <2>1 DEF Settle, DebitLedger, DebitBalance
        <3>3. e.key = s /\ e.user = u /\ e.amount = c
            OBVIOUS
        <3>4. [o \in Session |-> sessions[o].user][s] = u
            OBVIOUS
        <3>. HIDE DEF e, c, u
        <3>. QED
            BY <3>1, <3>2, <3>3, <3>4 DEF Contract!Charge
    <2>2. CASE ~b
        BY <2>2 DEF Settle, DebitLedger, DebitBalance
    <2>. QED
        BY <2>1, <2>2
<1>5. Contract!Close(s, t)
    <2> DEFINE P(f) == [o \in Session |-> Phase(f[o].status)]
               T(f) == [o \in Session |-> f[o].ref]
               O(f) == [o \in Session |-> f[o].user]
    <2>1. P(sessions') = [P(sessions) EXCEPT ![s] = "closed"]
        BY <1>2 DEF SameView, Phase
    <2>2. T(sessions') = [T(sessions) EXCEPT ![s] = t]
        BY <1>2 DEF SameView
    <2>3. O(sessions') = O(sessions)
        BY <1>2 DEF SameView
    <2>4. T(sessions)[s] = t \/ (P(sessions)[s] = "open" /\ T(sessions)[s] = Null
                                 /\ \A o \in Session \ {s} : T(sessions)[o] # t)
        OBVIOUS
    <2>5. P(sessions)[s] \in {"open", "closed"}
        OBVIOUS
    <2>. QED
        BY <1>4, <2>1, <2>2, <2>3, <2>4, <2>5 DEF Contract!Close, Contract!Unbound
<1>. QED
    BY <1>5 DEF Contract!Next

\* A sync goroutine's commit.
LEMMA SyncContract ==
    ASSUME IInv, NEW w \in Worker, SyncApply(w)
    PROVE  [Contract!Next]_(Contract!contract)
<1> DEFINE d == Synced(w)
           s == sync[w].sess
           t == sync[w].tx
           k == sync[w].kwh
<1>1. Sound(sessions) /\ Unique(sessions)
    BY SoundSessions
<1>2. /\ s \in Session /\ t \in Tx /\ k \in Nat /\ t # Null
      /\ sync[w].ref # Null => sessions[s].ref = sync[w].ref
    BY StoreAssumption DEF SyncApply, IInv, SyncOK, TypeOK, Syncer
<1>3. PICK o \in SyncTarget(w) :
        IF sync[w].finished THEN Settle(d, o, k)
        ELSE sessions' = d /\ UNCHANGED <<balance, ledger>>
    BY DEF SyncApply
<1>4. ASSUME NEW r \in Session, sessions[r].ref # Null
      PROVE  Phase(sessions[r].status) \in {"open", "closed"} /\ sessions[r].ref \in Tx
    BY <1>1, <1>4 DEF Sound, Table, Row, RowOK, Phase, Status
<1>5. CASE Attaches(w)
    <2>1. d = AttachTransactionToSession(sessions, s, t, OcppId[t], k) /\ o = s
        BY <1>3, <1>5 DEF Synced, SyncTarget
    <2>2. Attachable(sessions, s, t) /\ ~RefTaken(sessions, s, t)
        BY <1>5 DEF SyncApply, Attaches
    <2>3. CASE ~sync[w].finished
        <3>. HIDE DEF d, s, t, k
        <3>. QED
            BY <1>2, <1>3, <2>1, <2>2, <2>3, AttachBinds
    <2>4. CASE sync[w].finished
        <3>1. d \in Table /\ d[s].ref = t /\ \A p \in Session \ {s} : d[p] = sessions[p]
            <4>. HIDE DEF d, s, t, k
            <4>. QED
                BY <1>1, <1>2, <2>1, <2>2, StoreAttach DEF TableStep
        <3>2. d[s].user = sessions[s].user
            <4>. HIDE DEF s, t, k
            <4>. QED
                BY <1>1, <1>2, <2>1 DEF AttachTransactionToSession, Sound, Table, Row
        <3>3. Phase(sessions[s].status) = "open" /\ sessions[s].ref \in {Null, t}
            BY <2>2 DEF Attachable, Phase
        <3>4. \A p \in Session \ {s} : sessions[p].ref # t
            BY <2>2 DEF RefTaken
        <3>5. Settle(d, s, k)
            BY <1>3, <2>1, <2>4
        <3>6. \A p \in Session \ {s} : SameView(sessions[p], d[p])
            BY <3>1 DEF SameView
        <3>7. Contract!Next
            <4>. HIDE DEF d, s, t, k
            <4>. QED
                BY <1>2, <3>1, <3>2, <3>3, <3>4, <3>5, <3>6, SettleCloses
        <3>. QED
            BY <3>7
    <2>. QED
        BY <2>3, <2>4
<1>6. CASE ~Attaches(w)
    <2>1. /\ d \in Table /\ o \in Session /\ sessions[o].ref # Null
          /\ \A r \in Session : SameView(sessions[r], d[r])
        <3>1. CASE sync[w].ref = Null
            <4>1. d = UpdateSessionMeterValues(sessions, t, k) /\ o \in Matching(sessions, t)
                BY <1>2, <1>3, <1>6, <3>1 DEF Synced, SyncTarget
            <4>2. o \in Session /\ sessions[o].ref # Null
                BY <1>1, <1>2, <4>1 DEF Matching, Sound, RowOK
            <4>3. d \in Table
                <5>. HIDE DEF d, t, k
                <5>. QED
                    BY <1>1, <1>2, <4>1, StoreMeter DEF TableStep
            <4>4. ASSUME NEW r \in Session
                  PROVE  SameView(sessions[r], d[r])
                <5> DEFINE q == [sessions[r] EXCEPT !.kwh = k, !.cost = Cost(k),
                                    !.status = IF @ = "starting" THEN "charging" ELSE @]
                <5>1. sessions[r] \in Row
                    BY <1>1 DEF Sound, Table
                <5>2. SameView(sessions[r], q) /\ SameView(sessions[r], sessions[r])
                    BY <5>1 DEF SameView, Phase, Row
                <5>3. d[r] = q \/ d[r] = sessions[r]
                    BY <4>1 DEF UpdateSessionMeterValues
                <5>. HIDE DEF d, q
                <5>. QED
                    BY <5>2, <5>3
            <4>. QED
                BY <4>2, <4>3, <4>4
        <3>2. CASE sync[w].ref # Null
            BY <1>1, <1>2, <1>3, <1>6, <3>2 DEF Synced, SyncTarget, SameView, Sound
        <3>. QED
            BY <3>1, <3>2
    <2>2. CASE ~sync[w].finished
        BY <1>3, <2>1, <2>2, Stutter
    <2>3. CASE sync[w].finished
        <3>1. Settle(d, o, k)
            BY <1>3, <2>3
        <3>2. sessions[o].ref \in Tx /\ Phase(sessions[o].status) \in {"open", "closed"}
            BY <1>4, <2>1
        <3>3. d[o].ref = sessions[o].ref /\ d[o].user = sessions[o].user
            BY <2>1 DEF SameView
        <3>. HIDE DEF d, s, t, k
        <3>. QED
            BY <1>2, <2>1, <3>1, <3>2, <3>3, SettleCloses
    <2>. QED
        BY <2>2, <2>3
<1>. QED
    BY <1>5, <1>6

\* Every step is a step of the contract or a stutter.
LEMMA ContractStep ==
    ASSUME IInv, [Next]_vars
    PROVE  [Contract!Next]_(Contract!contract)
<1>1. Sound(sessions)
    BY SoundSessions
<1>2. CASE UNCHANGED db
    BY <1>2, Stutter DEF db, SameView
<1>3. ASSUME NEW h \in Handler, NEW s \in Session, StartCreate(h, s)
      PROVE  Contract!Next
    <2>1. req[h].user \in User
        BY <1>3 DEF StartCreate, IInv, ReqOK
    <2>. QED
        BY <1>3, <2>1, CreateOpens DEF StartCreate
<1>4. ASSUME NEW h \in Handler,
             StartRemoteID(h) \/ StopMark(h) \/ StopReplyPoll(h)
      PROVE  UNCHANGED Contract!contract
    <2>1. UNCHANGED <<balance, ledger>>
        BY <1>4 DEF StartRemoteID, StopMark, StopReplyPoll
    <2>2. \A s \in Session : SameView(sessions[s], sessions'[s])
        BY <1>1, <1>4 DEF StartRemoteID, StopMark, StopReplyPoll, UpdateRemoteStartID,
            UpdateSessionStopping, ClaimStopPolling, SameView, Phase, Sound, Table, Row
    <2>. QED
        BY <2>1, <2>2, Stutter
<1>5. ASSUME NEW s \in Session, PollCommit(s)
      PROVE  Contract!Next
    <2>1. sessions[s].ref # Null /\ poll[s].kwh \in Nat /\ sessions \in Table
        BY <1>5 DEF PollCommit, IInv, PollOK, TypeOK, Poller, Table
    <2>2. sessions[s].ref \in Tx /\ Phase(sessions[s].status) \in {"open", "closed"}
        BY <1>1, <2>1 DEF Sound, Table, Row, RowOK, Phase, Status
    <2>3. Settle(sessions, s, poll[s].kwh)
        BY <1>5 DEF PollCommit
    <2>4. \A o \in Session \ {s} : SameView(sessions[o], sessions[o])
        BY DEF SameView
    <2>. QED
        BY <2>1, <2>2, <2>3, <2>4, SettleCloses
<1>6. ASSUME NEW s \in Session, PollGiveUp(s) \/ PollExit(s) \/ Age(s) \/ LeaseExpire(s)
      PROVE  UNCHANGED Contract!contract
    <2>1. UNCHANGED <<balance, ledger>>
        BY <1>6 DEF PollGiveUp, PollExit, Age, LeaseExpire
    <2>2. \A o \in Session : SameView(sessions[o], sessions'[o])
        BY <1>1, <1>6 DEF PollGiveUp, PollExit, Age, LeaseExpire, UpdateSessionState,
            ReleaseStopPolling, SameView, Phase, Sound, Table, Row
    <2>. QED
        BY <2>1, <2>2, Stutter
<1>7. ASSUME RecoverStaleStarts
      PROVE  Contract!Next
    BY <1>7, SweepVoids DEF RecoverStaleStarts
<1>8. CASE \E w \in Worker : SyncApply(w)
    BY <1>8, SyncContract
<1>9. ASSUME NEW h \in Handler, HandlerNext(h), ~\E s \in Session : StartCreate(h, s),
             ~StartRemoteID(h), ~StopMark(h), ~StopReplyPoll(h)
      PROVE  UNCHANGED db
    BY <1>9 DEF HandlerNext, StartCheckWallet, StartCheckUser, StartCheckConnector,
        StartAbort, StartDispatch, StopReplySync, StopRead, StopSend, StopReload, StopAbort, db
<1>10. ASSUME NEW w \in Worker, SyncNext(w), ~SyncApply(w)
       PROVE  UNCHANGED db
    BY <1>10 DEF SyncNext, SyncLoad, SyncMatch, SyncFetch, SyncApplyNothing, SyncFault,
        SyncExpire, db
<1>11. ASSUME \/ \E s \in Session :
                    PollFetch(s) \/ PollBegin(s) \/ PollFault(s) \/ RetryStop(s)
              \/ \E t \in Tx : CloudNext(t)
              \/ Crash
              \/ UNCHANGED vars
       PROVE  UNCHANGED db
    BY <1>11 DEF PollFetch, PollBegin, PollFault, RetryStop, CloudNext, TxStart, TxMeter,
        TxFinish, Crash, vars, db
<1>. QED
    BY <1>2, <1>3, <1>4, <1>5, <1>6, <1>7, <1>8, <1>9, <1>10, <1>11 DEF Next, PollStep, PollWork

\* The empty database is an initial state of the contract.
LEMMA ContractInit == Init => Contract!Init
BY LifecycleAssumption DEF Init, Contract!Init, NoRow, Phase

\* The lifecycle implements the billing contract.
THEOREM BillingContractKept == Spec => KeepsBillingContract
<1>1. Init => Contract!Init
    BY ContractInit
<1>2. IInv /\ [Next]_vars => [Contract!Next]_(Contract!contract)
    BY ContractStep
<1>. QED
    BY <1>1, <1>2, Invariance, PTL DEF Spec, KeepsBillingContract, Contract!Spec

-----------------------------------------------------------------------------
(* Meters.                                                                 *)

\* What a statement that settles nothing may do to a row.
QuietRow(r, q) ==
    /\ q.ref = r.ref /\ q.ocpp = r.ocpp /\ q.kwh = r.kwh
    /\ q.status = "stopped" <=> r.status = "stopped"
    /\ r.status = "stopped" => (q.billed <=> r.billed) /\ (q.unpaid <=> r.unpaid)

QuietRows(d, e) == \A s \in Session : QuietRow(d[s], e[s])

QuietData == UNCHANGED <<balance, ledger>> /\ QuietRows(sessions, sessions')

-----------------------------------------------------------------------------
(* Energy, money and references are written by two commits: that of a sync  *)
(* goroutine and that of a poller.                                          *)

LEMMA QuietStatements ==
    ASSUME NEW d, Sound(d), NEW s \in Session, NEW b \in BOOLEAN
    PROVE  /\ \A u, c : d[s].status = "absent" => QuietRows(d, CreateSession(d, s, u, c))
           /\ QuietRows(d, UpdateRemoteStartID(d, s))
           /\ QuietRows(d, UpdateSessionStopping(d, s))
           /\ QuietRows(d, UpdateSessionState(d, s, {"stopping"}, "charging"))
           /\ QuietRows(d, ClaimStopPolling(d, s))
           /\ QuietRows(d, ReleaseStopPolling(d, s))
           /\ QuietRows(d, FailStaleStartingSessions(d))
           /\ QuietRows(d, [d EXCEPT ![s].old = b])
           /\ QuietRows(d, [d EXCEPT ![s].claimed = b])
<1>. DEFINE r == d[s]
<1>1. d \in Table /\ \A o \in Session : d[o] \in Row /\ RowOK(d[o])
    BY DEF Sound, Table
<1>2. QuietRows(d, d)
    BY DEF QuietRows, QuietRow
<1>3. ASSUME NEW q, QuietRow(r, q)
      PROVE  QuietRows(d, [d EXCEPT ![s] = q])
    BY <1>1, <1>3 DEF QuietRows, QuietRow, Table
<1>4. ASSUME NEW u, NEW c, r.status = "absent"
      PROVE  QuietRows(d, CreateSession(d, s, u, c))
    <2>1. QuietRow(r, [NoRow EXCEPT !.status = "starting", !.user = u, !.conn = c])
        BY <1>1, <1>4 DEF QuietRow, NoRow, RowOK
    <2>. QED
        BY <1>3, <2>1, Zenon DEF CreateSession
<1>5. ASSUME NEW q \in {[r EXCEPT !.remote = TRUE], [r EXCEPT !.claimed = TRUE],
                        [r EXCEPT !.claimed = FALSE], [r EXCEPT !.claimed = b],
                        [r EXCEPT !.old = b]}
      PROVE  QuietRows(d, [d EXCEPT ![s] = q])
    <2>1. QuietRow(r, q)
        BY <1>1, <1>5 DEF QuietRow, Row
    <2>. QED
        BY <1>3, <2>1
<1>6. /\ QuietRows(d, UpdateRemoteStartID(d, s))
      /\ QuietRows(d, ClaimStopPolling(d, s)) /\ QuietRows(d, ReleaseStopPolling(d, s))
      /\ QuietRows(d, [d EXCEPT ![s].old = b]) /\ QuietRows(d, [d EXCEPT ![s].claimed = b])
    BY <1>5, Zenon DEF UpdateRemoteStartID, ClaimStopPolling, ReleaseStopPolling
<1>7. QuietRows(d, UpdateSessionStopping(d, s))
    <2>1. ASSUME r.status \in {"starting", "charging"}
          PROVE  QuietRows(d, UpdateSessionStopping(d, s))
        <3>. DEFINE q == [r EXCEPT !.status = "stopping", !.claimed = FALSE]
        <3>1. QuietRow(r, q)
            BY <1>1, <2>1 DEF QuietRow, Row
        <3>2. UpdateSessionStopping(d, s) = [d EXCEPT ![s] = q]
            BY <1>1, <2>1 DEF UpdateSessionStopping, Table
        <3>. QED
            BY <1>3, <3>1, <3>2
    <2>. QED
        BY <1>2, <2>1 DEF UpdateSessionStopping
<1>8. QuietRows(d, UpdateSessionState(d, s, {"stopping"}, "charging"))
    <2>1. ASSUME r.status = "stopping"
          PROVE  QuietRows(d, UpdateSessionState(d, s, {"stopping"}, "charging"))
        <3>. DEFINE q == [r EXCEPT !.status = "charging"]
        <3>1. QuietRow(r, q)
            BY <1>1, <2>1 DEF QuietRow, Row
        <3>2. UpdateSessionState(d, s, {"stopping"}, "charging") = [d EXCEPT ![s] = q]
            BY <1>1, <2>1 DEF UpdateSessionState, Table
        <3>. QED
            BY <1>3, <3>1, <3>2
    <2>. QED
        BY <1>2, <2>1 DEF UpdateSessionState
<1>9. QuietRows(d, FailStaleStartingSessions(d))
    BY <1>1 DEF QuietRows, QuietRow, FailStaleStartingSessions, StaleStarts, Row
<1>. QED
    BY <1>4, <1>6, <1>7, <1>8, <1>9

LEMMA QuietHandler ==
    ASSUME IInv, NEW h \in Handler, HandlerNext(h)
    PROVE  QuietData
<1>1. Sound(sessions) /\ TRUE \in BOOLEAN
    BY SoundSessions
<1>2. ASSUME NEW s \in Session, StartCreate(h, s)
      PROVE  QuietData
    BY <1>1, <1>2, QuietStatements DEF StartCreate, QuietData
<1>3. ASSUME StartRemoteID(h)
      PROVE  QuietData
    BY <1>1, <1>3, QuietStatements DEF StartRemoteID, QuietData, IInv, ReqOK
<1>4. ASSUME StopMark(h)
      PROVE  QuietData
    BY <1>1, <1>4, QuietStatements DEF StopMark, QuietData, IInv, ReqOK
<1>5. ASSUME UNCHANGED db
      PROVE  QuietData
    BY <1>5 DEF db, QuietData, QuietRows, QuietRow
<1>6. ASSUME StopReplyPoll(h)
      PROVE  QuietData
    <2>1. req[h].sess \in Session /\ UNCHANGED <<balance, ledger>>
        BY <1>6 DEF StopReplyPoll, IInv, ReqOK
    <2>2. sessions' = sessions \/ sessions' = ClaimStopPolling(sessions, req[h].sess)
        BY <1>6 DEF StopReplyPoll
    <2>. QED
        BY <1>1, <1>5, <2>1, <2>2, QuietStatements DEF QuietData, db
<1>7. ASSUME \/ \E u \in User, c \in Connector : StartCheckWallet(h, u, c)
             \/ StartCheckUser(h) \/ StartCheckConnector(h) \/ StartAbort(h)
             \/ \E w \in Worker : StartDispatch(h, w) \/ StopReplySync(h, w)
             \/ \E s \in Session : StopRead(h, s)
             \/ StopSend(h) \/ StopReload(h) \/ StopAbort(h)
      PROVE  QuietData
    <2>1. UNCHANGED db
        BY <1>7 DEF StartCheckWallet, StartCheckUser, StartCheckConnector, StartAbort,
            StartDispatch, StopReplySync, StopRead, StopSend, StopReload, StopAbort, db
    <2>. QED
        BY <1>5, <2>1
<1>. QED
    BY <1>2, <1>3, <1>4, <1>6, <1>7 DEF HandlerNext

\* Every other step leaves references, energy and money alone.
LEMMA TwoCommits ==
    ASSUME IInv, [Next]_vars,
           ~(\E w \in Worker : SyncApply(w)), ~(\E s \in Session : PollCommit(s))
    PROVE  QuietData
<1>1. Sound(sessions) /\ TRUE \in BOOLEAN /\ FALSE \in BOOLEAN
    BY SoundSessions
<1>2. ASSUME UNCHANGED db
      PROVE  QuietData
    BY <1>2 DEF db, QuietData, QuietRows, QuietRow
<1>3. ASSUME NEW s \in Session, Age(s) \/ LeaseExpire(s)
      PROVE  QuietData
    <2>1. \A b \in BOOLEAN : /\ QuietRows(sessions, [sessions EXCEPT ![s].old = b])
                             /\ QuietRows(sessions, [sessions EXCEPT ![s].claimed = b])
        BY <1>1, QuietStatements
    <2>2. \/ sessions' = [sessions EXCEPT ![s].old = TRUE]
          \/ sessions' = [sessions EXCEPT ![s].claimed = FALSE]
        BY <1>3 DEF Age, LeaseExpire
    <2>3. UNCHANGED <<balance, ledger>>
        BY <1>3 DEF Age, LeaseExpire
    <2>. QED
        BY <1>1, <2>1, <2>2, <2>3 DEF QuietData
<1>4. ASSUME RecoverStaleStarts
      PROVE  QuietData
    <2>1. PICK s \in Session : TRUE
        BY <1>4 DEF RecoverStaleStarts, StaleStarts
    <2>. QED
        BY <1>1, <1>4, <2>1, QuietStatements DEF RecoverStaleStarts, QuietData
<1>5. ASSUME NEW s \in Session, PollGiveUp(s)
      PROVE  QuietData
    BY <1>1, <1>5, QuietStatements DEF PollGiveUp, QuietData
<1>6. ASSUME NEW s \in Session, PollExit(s)
      PROVE  QuietData
    <2>1. sessions' = sessions \/ sessions' = ReleaseStopPolling(sessions, s)
        BY <1>6 DEF PollExit
    <2>2. UNCHANGED <<balance, ledger>>
        BY <1>6 DEF PollExit
    <2>. QED
        BY <1>1, <1>2, <2>1, <2>2, QuietStatements DEF QuietData, db
<1>7. ASSUME NEW s \in Session, PollFetch(s) \/ PollBegin(s) \/ PollFault(s) \/ RetryStop(s)
      PROVE  UNCHANGED db
    BY <1>7 DEF PollFetch, PollBegin, PollFault, RetryStop, db
<1>8. ASSUME NEW w \in Worker, SyncNext(w)
      PROVE  UNCHANGED db
    BY <1>8 DEF SyncNext, SyncLoad, SyncMatch, SyncFetch, SyncApplyNothing, SyncFault,
        SyncExpire, db
<1>9. ASSUME (\E t \in Tx : CloudNext(t)) \/ Crash \/ UNCHANGED vars
      PROVE  UNCHANGED db
    BY <1>9 DEF CloudNext, TxStart, TxMeter, TxFinish, Crash, vars, db
<1>. QED
    BY <1>2, <1>3, <1>4, <1>5, <1>6, <1>7, <1>8, <1>9, QuietHandler
DEF Next, PollStep, PollWork

\* A settlement closes one row for the energy it is given and enters at most one debit.
LEMMA SettleWrites ==
    ASSUME NEW d, Sound(d), NEW o \in Session, d[o].ref # Null, NEW k \in Nat, Settle(d, o, k)
    PROVE  LET u == d[o].user
               q == sessions'[o]
           IN
           /\ \A s \in Session \ {o} : sessions'[s] = d[s]
           /\ q.status = "stopped" /\ q.ref = d[o].ref /\ q.ocpp = d[o].ocpp
           /\ q.kwh = k /\ q.user = u
           /\ q.billed <=> (d[o].billed \/ DebitInserted(balance, ledger, u, Cost(k), o))
           /\ q.unpaid <=> (d[o].unpaid \/ DebitRefused(balance, u, Cost(k)))
           /\ ledger' = DebitLedger(balance, ledger, u, Cost(k), o)
<1>. DEFINE r == d[o]
            b == DebitInserted(balance, ledger, r.user, Cost(k), o)
            x == DebitRefused(balance, r.user, Cost(k))
            q == [r EXCEPT !.status = "stopped", !.kwh = k, !.cost = Cost(k),
                           !.billed = @ \/ b, !.unpaid = @ \/ x]
<1>1. d \in Table /\ r \in Row
    BY DEF Sound, Table
<1>2. sessions' = FinalizeStoppedSession(d, o, k, b, x)
      /\ ledger' = DebitLedger(balance, ledger, r.user, Cost(k), o)
    BY DEF Settle
<1>3. FinalizeStoppedSession(d, o, k, b, x) = [d EXCEPT ![o] = q]
    <2>. HIDE DEF b, x
    <2>. QED
        BY <1>1 DEF FinalizeStoppedSession, Table
<1>4. /\ q.status = "stopped" /\ q.ref = r.ref /\ q.ocpp = r.ocpp
      /\ q.kwh = k /\ q.user = r.user
      /\ q.billed <=> (r.billed \/ b)
      /\ q.unpaid <=> (r.unpaid \/ x)
    <2>. HIDE DEF b, x
    <2>. QED
        BY <1>1 DEF Row
<1>. HIDE DEF q, b, x
<1>5. sessions'[o] = q /\ \A s \in Session \ {o} : sessions'[s] = d[s]
    BY <1>1, <1>2, <1>3 DEF Table
<1>. QED
    BY <1>2, <1>4, <1>5 DEF b, x

\* What the commit of a sync goroutine writes before it settles anything.
LEMMA SyncWrites ==
    ASSUME IInv, NEW w \in Worker, SyncApply(w)
    PROVE  LET d == Synced(w)
               t == sync[w].tx
           IN
           /\ t \in Tx /\ sync[w].kwh \in Nat /\ sync[w].sess \in Session
           /\ Sound(d)
           /\ \A s \in Session :
                /\ \/ d[s].ref = sessions[s].ref
                   \/ s = sync[w].sess /\ d[s].ref = t /\ d[s].ocpp = OcppId[t]
                /\ d[s].kwh = sessions[s].kwh
                        \/ (d[s].kwh = sync[w].kwh /\ (d[s].ref = t \/ d[s].ocpp = t))
                /\ d[s].status = "stopped" <=> sessions[s].status = "stopped"
                /\ sessions[s].status = "stopped" =>
                    (d[s].billed <=> sessions[s].billed) /\ (d[s].unpaid <=> sessions[s].unpaid)
                /\ sessions[s].status # "absent" => d[s].user = sessions[s].user
<1>. DEFINE d == Synced(w)
            s == sync[w].sess
            t == sync[w].tx
            k == sync[w].kwh
<1>1. Sound(sessions) /\ sessions \in Table
    BY SoundSessions DEF Sound
<1>2. s \in Session /\ t \in Tx /\ k \in Nat
    BY DEF SyncApply, IInv, SyncOK, TypeOK, Syncer
<1>3. CASE Attaches(w)
    <2>1. d = AttachTransactionToSession(sessions, s, t, OcppId[t], k) /\ Attachable(sessions, s, t)
        BY <1>3 DEF Synced, Attaches
    <2>2. Sound(d)
        <3>. HIDE DEF d, s, t, k
        <3>. QED
            BY <1>1, <1>2, <2>1, StoreAttach DEF TableStep, RowStep, Sound
    <2>3. /\ d[s].ref = t /\ d[s].kwh = k /\ d[s].status \in {"charging", "stopping"}
          /\ sessions[s].ref = Null => d[s].ocpp = OcppId[t]
          /\ d[s].user = sessions[s].user
          /\ \A o \in Session \ {s} : d[o] = sessions[o]
        <3>. HIDE DEF d, s, t, k
        <3>. QED
            BY <1>1, <1>2, <2>1 DEF AttachTransactionToSession, Attachable, Table, Row
    <2>. HIDE DEF d, s, t, k
    <2>. QED
        BY <1>2, <2>1, <2>2, <2>3 DEF d, s, t, k, Attachable
<1>4. CASE ~Attaches(w) /\ sync[w].ref = Null
    <2>1. d = UpdateSessionMeterValues(sessions, t, k)
        BY <1>4 DEF Synced
    <2>2. Sound(d)
        <3>. HIDE DEF d, s, t, k
        <3>. QED
            BY <1>1, <1>2, <2>1, StoreMeter DEF TableStep, RowStep, Sound
    <2>3. ASSUME NEW o \in Session
          PROVE  /\ d[o].ref = sessions[o].ref /\ d[o].ocpp = sessions[o].ocpp
                 /\ d[o].kwh = sessions[o].kwh
                        \/ (d[o].kwh = k /\ (sessions[o].ref = t \/ sessions[o].ocpp = t))
                 /\ d[o].status = "stopped" <=> sessions[o].status = "stopped"
                 /\ (d[o].billed <=> sessions[o].billed) /\ (d[o].unpaid <=> sessions[o].unpaid)
                 /\ d[o].user = sessions[o].user
        <3>. DEFINE r == sessions[o]
                    q == [r EXCEPT !.kwh = k, !.cost = Cost(k),
                                   !.status = IF @ = "starting" THEN "charging" ELSE @]
        <3>1. r \in Row
            BY <1>1 DEF Table
        <3>2. /\ q.ref = r.ref /\ q.ocpp = r.ocpp /\ q.kwh = k /\ q.user = r.user
              /\ q.status = IF r.status = "starting" THEN "charging" ELSE r.status
              /\ (q.billed <=> r.billed) /\ (q.unpaid <=> r.unpaid)
            BY <3>1 DEF Row
        <3>. HIDE DEF q, k, t
        <3>3. IF r.ref = t \/ r.ocpp = t THEN d[o] = q ELSE d[o] = r
            BY <2>1 DEF UpdateSessionMeterValues, Matching, q
        <3>. QED
            BY <3>2, <3>3
    <2>. HIDE DEF d, s, t, k
    <2>. QED
        BY <1>2, <2>2, <2>3 DEF d, s, t, k
<1>5. CASE ~Attaches(w) /\ sync[w].ref # Null
    BY <1>1, <1>2, <1>5 DEF Synced
<1>. QED
    BY <1>3, <1>4, <1>5

\* A reference comes from the transaction that a sync goroutine has read for its session.
LEMMA RefsFromSync ==
    ASSUME IInv, [Next]_vars, NEW s \in Session, sessions'[s].ref # sessions[s].ref
    PROVE  \E w \in Worker :
            /\ sync[w].pc = "apply" /\ sync[w].sess = s
            /\ sessions'[s].ref = sync[w].tx /\ sessions'[s].ocpp = OcppId[sync[w].tx]
<1>1. Sound(sessions) /\ DataStep
    BY SoundSessions, NextDataStep
<1>2. ASSUME NEW o \in Session, PollCommit(o)
      PROVE  FALSE
    <2>1. Settle(sessions, o, poll[o].kwh) /\ sessions[o].ref # Null /\ poll[o].kwh \in Nat
        BY <1>2 DEF PollCommit, IInv, PollOK, TypeOK, Poller
    <2>2. sessions'[s].ref = sessions[s].ref
        BY <1>1, <2>1, SettleWrites
    <2>. QED
        BY <2>2
<1>3. PICK w \in Worker : SyncApply(w)
    BY <1>2, TwoCommits DEF QuietData, QuietRows, QuietRow
<1>. DEFINE d == Synced(w)
<1>4. /\ Sound(d)
      /\ \/ d[s].ref = sessions[s].ref
         \/ s = sync[w].sess /\ d[s].ref = sync[w].tx /\ d[s].ocpp = OcppId[sync[w].tx]
    BY <1>3, SyncWrites
<1>5. sync[w].pc = "apply" /\ sync[w].kwh \in Nat
    BY <1>3, SyncWrites DEF SyncApply
<1>6. PICK o \in SyncTarget(w) :
        IF sync[w].finished THEN Settle(d, o, sync[w].kwh) ELSE sessions' = d
    BY <1>3 DEF SyncApply
<1>7. o \in Session /\ d[o].ref # Null
    BY <1>3, SyncTargets
<1>8. sessions'[s].ref = d[s].ref /\ sessions'[s].ocpp = d[s].ocpp
    <2>. HIDE DEF d
    <2>. QED
        BY <1>4, <1>5, <1>6, <1>7, SettleWrites
<1>. QED
    BY <1>4, <1>5, <1>8

-----------------------------------------------------------------------------
(* What a sync goroutine remembers.                                        *)

\* It comes from its row, from the match on what it loaded, or from the transaction.
SyncFrom(w) ==
    LET v == sync[w]
        n == sync'[w]
        row == sessions[v.sess]
    IN
    \/ n = v
    \/ v.pc = "load" /\ n.sess = v.sess /\ n.ref = row.ref /\ n.tx = row.ref
        /\ n.pc = IF row.ref = Null THEN "match" ELSE "fetch"
    \/ v.pc = "match" /\ n.sess = v.sess /\ n.ref = v.ref /\ n.pc = "fetch"
        /\ n.tx \in Candidates(w)
    \/ v.pc = "fetch" /\ n.sess = v.sess /\ n.ref = v.ref /\ n.pc = "apply" /\ n.tx = v.tx
        /\ \E tx \in GetTransactionByID(v.tx) : n.kwh = tx.kwh /\ (n.finished <=> tx.finished)
        /\ UNCHANGED cloud

LEMMA SyncOrigin ==
    ASSUME IInv, [Next]_vars, NEW w \in Worker, sync'[w].pc \in {"match", "fetch", "apply"}
    PROVE  SyncFrom(w)
<1>1. sync \in [Worker -> Syncer] /\ IdleSync.pc = "idle"
    BY DEF IInv, TypeOK, IdleSync
<1>2. CASE UNCHANGED sync
    BY <1>2 DEF SyncFrom
<1>3. ASSUME NEW v \in Worker, EndSync(v) \/ NextIteration(v) \/ \E s : Spawn(v, s)
      PROVE  SyncFrom(w)
    <2>1. \A q : sync' = [sync EXCEPT ![v] = q] /\ q.pc \in {"idle", "load"} => sync'[w] = sync[w]
        BY <1>1
    <2>2. \A s : [IdleSync EXCEPT !.pc = "load", !.sess = s].pc = "load"
        BY DEF IdleSync
    <2>3. \E q : sync' = [sync EXCEPT ![v] = q] /\ q.pc \in {"idle", "load"}
        BY <1>1, <1>3, <2>2 DEF EndSync, NextIteration, Spawn
    <2>. QED
        BY <2>1, <2>3 DEF SyncFrom
<1>4. ASSUME NEW v \in Worker, SyncLoad(v)
      PROVE  SyncFrom(w)
    <2>. DEFINE row == sessions[sync[v].sess]
                q == [IdleSync EXCEPT
                        !.pc = IF ParseInt(row.ref) = Null THEN "match" ELSE "fetch",
                        !.sess = sync[v].sess, !.status = row.status, !.ref = row.ref,
                        !.ocpp = row.ocpp, !.remote = row.remote, !.tx = ParseInt(row.ref)]
    <2>1. sync[v].pc = "load" /\ (EndSync(v) \/ sync' = [sync EXCEPT ![v] = q])
        BY <1>4 DEF SyncLoad
    <2>3. ParseInt(row.ref) = row.ref
        <3>1. sync[v].sess \in Session
            BY <2>1 DEF IInv, SyncOK
        <3>2. row.ref \in Tx \cup {Null}
            BY <3>1 DEF IInv, TypeOK, Row
        <3>. QED
            BY <3>2, StoreAssumption DEF ParseInt
    <2>2. /\ q.sess = sync[v].sess /\ q.ref = row.ref /\ q.tx = row.ref
          /\ q.pc = IF row.ref = Null THEN "match" ELSE "fetch"
        BY <2>3 DEF IdleSync
    <2>. HIDE DEF q
    <2>. QED
        BY <1>1, <1>3, <2>1, <2>2 DEF SyncFrom
<1>5. ASSUME NEW v \in Worker, SyncMatch(v)
      PROVE  SyncFrom(w)
    <2>1. sync[v].pc = "match"
          /\ (NextIteration(v)
                \/ \E t \in Candidates(v) : sync' = [sync EXCEPT ![v].pc = "fetch", ![v].tx = t])
        BY <1>5 DEF SyncMatch
    <2>2. ASSUME NEW t \in Candidates(v), sync' = [sync EXCEPT ![v].pc = "fetch", ![v].tx = t]
          PROVE  SyncFrom(w)
        <3>1. CASE w = v
            <4>1. /\ sync'[w].sess = sync[w].sess /\ sync'[w].ref = sync[w].ref
                  /\ sync'[w].pc = "fetch" /\ sync'[w].tx = t
                BY <1>1, <2>2, <3>1 DEF Syncer
            <4>. QED
                BY <2>1, <3>1, <4>1 DEF SyncFrom
        <3>2. CASE w # v
            BY <1>1, <2>2, <3>2 DEF SyncFrom
        <3>. QED
            BY <3>1, <3>2
    <2>. QED
        BY <1>3, <2>1, <2>2
<1>6. ASSUME NEW v \in Worker, SyncFetch(v)
      PROVE  SyncFrom(w)
    <2>1. sync[v].pc = "fetch" /\ UNCHANGED cloud
        BY <1>6 DEF SyncFetch
    <2>2. ASSUME NEW tx \in GetTransactionByID(sync[v].tx),
                 sync' = [sync EXCEPT ![v].pc = "apply", ![v].kwh = tx.kwh,
                                      ![v].finished = tx.finished]
          PROVE  SyncFrom(w)
        <3>1. CASE w = v
            <4>1. /\ sync'[w].sess = sync[w].sess /\ sync'[w].ref = sync[w].ref
                  /\ sync'[w].pc = "apply" /\ sync'[w].tx = sync[w].tx
                  /\ sync'[w].kwh = tx.kwh /\ (sync'[w].finished <=> tx.finished)
                BY <1>1, <2>2, <3>1 DEF Syncer
            <4>. QED
                BY <2>1, <2>2, <3>1, <4>1 DEF SyncFrom
        <3>2. CASE w # v
            BY <1>1, <2>2, <3>2 DEF SyncFrom
        <3>. QED
            BY <3>1, <3>2
    <2>. QED
        BY <1>3, <1>6, <2>2 DEF SyncFetch
<1>7. ASSUME NEW v \in Worker, SyncApply(v) \/ SyncApplyNothing(v) \/ SyncFault(v) \/ SyncExpire(v)
      PROVE  EndSync(v) \/ NextIteration(v)
    BY <1>7 DEF SyncApply, SyncApplyNothing, SyncFault, SyncExpire
<1>8. ASSUME NEW h \in Handler, HandlerNext(h)
      PROVE  UNCHANGED sync \/ \E v \in Worker : \E s : Spawn(v, s)
    BY <1>8 DEF HandlerNext, StartCheckWallet, StartCheckUser, StartCheckConnector,
        StartCreate, StartRemoteID, StartDispatch, StartAbort, StopRead, StopMark, StopSend,
        StopReload, StopReplySync, StopReplyPoll, StopAbort
<1>9. ASSUME Crash
      PROVE  FALSE
    BY <1>1, <1>9 DEF Crash
<1>10. ASSUME \/ \E s \in Session :
                    PollStep(s) \/ PollFault(s) \/ Age(s) \/ LeaseExpire(s) \/ RetryStop(s)
              \/ \E t \in Tx : CloudNext(t)
              \/ RecoverStaleStarts \/ UNCHANGED vars
       PROVE  UNCHANGED sync
    BY <1>10 DEF PollStep, PollWork, PollFetch, PollBegin, PollCommit, PollGiveUp, PollExit, PollFault, Age,
        LeaseExpire, RetryStop, CloudNext, TxStart, TxMeter, TxFinish, RecoverStaleStarts,
        Service, vars
<1>. QED
    BY <1>2, <1>3, <1>4, <1>5, <1>6, <1>7, <1>8, <1>9, <1>10 DEF Next, SyncNext

-----------------------------------------------------------------------------
(* A session's transaction is its own.                                     *)

\* The transaction began after the session did, and on its connector as far as Hasura knows.
Began(s, t) ==
    cloud[t].phase # "none" /\ s \in cloud[t].since /\ MayBeOn(t, sessions[s].conn)

\* A remote start id is that of a session which asked for it, on that session's connector.
RemotesOK ==
    \A t \in Tx : LET r == cloud[t].remote IN
        r # Null => /\ r \in Session /\ sessions[r].status # "absent"
                    /\ cloud[t].conn = sessions[r].conn /\ r \in cloud[t].since
                    /\ cloud[t].phase # "none"

RefsBelong ==
    \A s \in Session : LET t == sessions[s].ref IN
        t # Null => Began(s, t) /\ sessions[s].ocpp = OcppId[t]

SyncBelongs ==
    \A w \in Worker : sync[w].pc \in {"fetch", "apply"} => Began(sync[w].sess, sync[w].tx)

Belonging == RemotesOK /\ RefsBelong /\ SyncBelongs

LEMMA InitBelonging == Init => Belonging
BY DEF Init, Belonging, RemotesOK, RefsBelong, SyncBelongs, NoTx, NoRow, IdleSync

LEMMA NextBelonging ==
    ASSUME IInv, Belonging, [Next]_vars
    PROVE  Belonging'
<1>1. IInv' /\ DataStep
    BY NextIInv
<1>2. ASSUME NEW s \in Session, sessions[s].status # "absent"
      PROVE  sessions'[s].status # "absent" /\ sessions'[s].conn = sessions[s].conn
    BY <1>1, <1>2, RowsPersist DEF DataStep, TableStep, RowStep
<1>3. ASSUME NEW s \in Session, NEW t \in Tx, sessions[s].status # "absent", Began(s, t)
      PROVE  Began(s, t)'
    BY <1>2, <1>3, CloudStep DEF Follows, Began, MayBeOn, IInv, TypeOK
<1>4. RefsBelong'
    <2>. SUFFICES ASSUME NEW s \in Session, NEW t, t = sessions'[s].ref, t # Null
                  PROVE  Began(s, t)' /\ sessions'[s].ocpp = OcppId[t]
        BY DEF RefsBelong, Began, MayBeOn
    <2>1. CASE t = sessions[s].ref
        <3>1. Began(s, t) /\ sessions[s].status # "absent" /\ t \in Tx
            BY <2>1 DEF Belonging, RefsBelong, Began, MayBeOn, IInv, RowsOK, RowOK, TypeOK, Row
        <3>2. sessions'[s].ocpp = OcppId[t]
            BY <1>1, <2>1 DEF Belonging, RefsBelong, DataStep, TableStep, RowStep
        <3>. QED
            BY <1>3, <3>1, <3>2
    <2>2. CASE t # sessions[s].ref
        <3>1. PICK w \in Worker :
                /\ sync[w].pc = "apply" /\ sync[w].sess = s /\ t = sync[w].tx
                /\ sessions'[s].ocpp = OcppId[t]
            BY <2>2, RefsFromSync
        <3>2. Began(s, t) /\ sessions[s].status # "absent" /\ t \in Tx
            BY <3>1 DEF Belonging, SyncBelongs, Began, MayBeOn, IInv, SyncOK
        <3>. QED
            BY <1>3, <3>1, <3>2
    <2>. QED
        BY <2>1, <2>2
<1>5. RemotesOK'
    <2>. SUFFICES ASSUME NEW t \in Tx, cloud'[t].remote # Null
                  PROVE  LET r == cloud'[t].remote IN
                         /\ r \in Session /\ sessions'[r].status # "absent"
                         /\ cloud'[t].conn = sessions'[r].conn /\ r \in cloud'[t].since
                         /\ cloud'[t].phase # "none"
        BY DEF RemotesOK
    <2>. DEFINE r == cloud'[t].remote
    <2>1. CASE r = cloud[t].remote /\ cloud[t].phase # "none"
        <3>1. /\ r \in Session /\ sessions[r].status # "absent"
              /\ cloud[t].conn = sessions[r].conn /\ r \in cloud[t].since
            BY <2>1 DEF Belonging, RemotesOK
        <3>. QED
            BY <1>2, <2>1, <3>1, CloudStep DEF Follows, IInv, TypeOK
    <2>2. CASE ~(r = cloud[t].remote /\ cloud[t].phase # "none")
        <3>1. /\ cloud'[t].since = {s \in Session : sessions[s].status # "absent"}
              /\ r \in Session /\ sessions[r].remote /\ sessions[r].conn = cloud'[t].conn
              /\ cloud'[t].phase # "none"
            BY <2>2, CloudStep DEF Follows, Belonging, RemotesOK, IInv, TypeOK
        <3>2. sessions[r].status # "absent"
            BY <3>1 DEF IInv, RowsOK, RowOK
        <3>. QED
            BY <1>2, <3>1, <3>2
    <2>. QED
        BY <2>1, <2>2
<1>6. SyncBelongs'
    <2>. SUFFICES ASSUME NEW w \in Worker, sync'[w].pc \in {"fetch", "apply"},
                         NEW s, NEW t, s = sync'[w].sess, t = sync'[w].tx
                  PROVE  Began(s, t)'
        BY DEF SyncBelongs, Began, MayBeOn
    <2>1. SyncFrom(w) /\ t \in Tx
        BY <1>1, SyncOrigin DEF IInv, SyncOK
    <2>2. sync[w].pc # "idle" /\ sync[w].sess = s
        BY <2>1 DEF SyncFrom
    <2>3. s \in Session /\ sessions[s].status # "absent"
        BY <2>2 DEF IInv, SyncOK
    <2>4. CASE t \in Candidates(w)
        <3>1. cloud[t].phase # "none" /\ s \in cloud[t].since /\ MayBeOn(t, sessions[s].conn)
            BY <2>2, <2>3, <2>4, StoreAssumption
            DEF Candidates, ByRemoteStartID, Fallback, MayBeOn, Belonging, RemotesOK
        <3>. QED
            BY <1>3, <2>1, <2>2, <2>3, <3>1 DEF Began
    <2>5. CASE t \notin Candidates(w)
        <3>1. Began(s, t)
            BY <2>1, <2>2, <2>3, <2>5
            DEF SyncFrom, Belonging, SyncBelongs, RefsBelong, Began, MayBeOn
        <3>. QED
            BY <1>3, <2>1, <2>2, <2>3, <3>1
    <2>. QED
        BY <2>4, <2>5
<1>. QED
    BY <1>4, <1>5, <1>6 DEF Belonging

LEMMA BelongingAlways == Spec => []Belonging
BY InitBelonging, NextBelonging, Invariance, PTL DEF Spec

\* A row is only ever attached to a transaction that began after the row was inserted and,
\* as far as Hasura knows, on its connector: the match a goroutine found may be old when it
\* commits, but it does not become wrong (station_status_client.go, service.go).
THEOREM OwnTransaction == Spec => []AttachedBelongs
<1>1. Belonging => AttachedBelongs
    BY DEF Belonging, RefsBelong, Began, AttachedBelongs
<1>. QED
    BY <1>1, BelongingAlways, PTL

-----------------------------------------------------------------------------
(* A stopped session is settled for the end of a transaction it names.  What a *)
(* goroutine has read of an ended transaction is between the total it ended   *)
(* with and the total it has when the goroutine settles, if there was a total *)
(* at its end; and a meter update writes only rows that name its transaction. *)

\* An energy that may be billed for the end of t, and one that may be billed to a row.
Final(t, k) ==
    /\ cloud[t].phase = "finished" /\ k \in Reported(t)
    /\ cloud[t].ended > 0 => k \in cloud[t].ended .. cloud[t].total

Due(r, k) == \E t \in NamedBy(r) : cloud[t].phase = "finished" /\ k \in BillFor(r, t)

Within(r, k) == \E t \in NamedBy(r) : k \in Reported(t)

MeterBounds(r) == r.ref # Null => Within(r, r.kwh)

RowsMetered == \A s \in Session : MeterBounds(sessions[s])

SyncMetered ==
    \A w \in Worker : LET v == sync[w] IN
        /\ v.pc = "match" => v.ref = Null
        /\ v.pc \in {"fetch", "apply"} /\ v.ref # Null => v.tx = v.ref
        /\ v.pc = "apply" => v.kwh \in Reported(v.tx)
        /\ v.pc = "apply" /\ v.finished => Final(v.tx, v.kwh)

PollMetered ==
    \A s \in Session :
        /\ poll[s].pc = "begin" => Final(sessions[s].ref, poll[s].kwh)
        /\ poll[s].pc = "commit" => Due(sessions[s], poll[s].kwh)

CloudMetered ==
    \A t \in Tx :
        /\ cloud[t].phase = "none" => cloud[t].register = 0 /\ cloud[t].total = 0
        /\ cloud[t].phase = "finished" => cloud[t].ended <= cloud[t].total

Metered == RowsMetered /\ SyncMetered /\ PollMetered /\ CloudMetered

\* A transaction ends with its total, and its energies grow from zero.
LEMMA CloudMeteredNext ==
    ASSUME IInv, CloudMetered, [Next]_vars
    PROVE  CloudMetered'
<1>. SUFFICES ASSUME NEW t \in Tx
              PROVE  LET e == cloud'[t] IN
                     /\ e.phase = "none" => e.register = 0 /\ e.total = 0
                     /\ e.phase = "finished" => e.ended <= e.total
    BY DEF CloudMetered
<1>1. cloud[t] \in Transaction /\ cloud'[t] \in Transaction
    BY NextIInv DEF IInv, TypeOK
<1>2. CASE Follows(cloud[t], cloud'[t])
    BY <1>1, <1>2 DEF CloudMetered, Follows, Transaction
<1>3. CASE cloud'[t].phase = "active"
    BY <1>3
<1>. QED
    BY <1>2, <1>3, CloudStep DEF IInv, TypeOK

\* The energies and ends that were read stay true of the transaction.
LEMMA ReadingsLast ==
    ASSUME IInv, CloudMetered, [Next]_vars, NEW t \in Tx
    PROVE  /\ Reported(t) \subseteq Reported(t)'
           /\ \A k \in Int : Final(t, k) => Final(t, k)'
           /\ cloud[t].phase = "finished" =>
                /\ cloud'[t].phase = "finished" /\ cloud'[t].ended = cloud[t].ended
                /\ cloud[t].total <= cloud'[t].total
<1>1. cloud[t] \in Transaction /\ cloud'[t] \in Transaction
    BY NextIInv DEF IInv, TypeOK
<1>2. CASE Follows(cloud[t], cloud'[t])
    <2>1. Reported(t) \subseteq Reported(t)'
        BY <1>1, <1>2 DEF Reported, Follows, Transaction
    <2>2. cloud[t].phase = "finished" =>
            /\ cloud'[t].phase = "finished" /\ cloud'[t].ended = cloud[t].ended
            /\ cloud[t].total <= cloud'[t].total
        BY <1>2 DEF Follows
    <2>3. ASSUME NEW k \in Int, Final(t, k)
          PROVE  Final(t, k)'
        <3>1. k \in Reported(t)'
            BY <2>1, <2>3 DEF Final
        <3>2. cloud'[t].ended > 0 => k \in cloud'[t].ended .. cloud'[t].total
            BY <1>1, <2>2, <2>3 DEF Final, Transaction
        <3>. QED
            BY <2>2, <2>3, <3>1, <3>2 DEF Final
    <2>. QED
        BY <2>1, <2>2, <2>3
<1>3. CASE cloud[t].phase = "none" /\ cloud'[t].register = 0 /\ cloud'[t].total = 0
    <2>1. cloud[t].register = 0 /\ cloud[t].total = 0
        BY <1>3 DEF CloudMetered
    <2>2. Reported(t) \subseteq Reported(t)'
        BY <1>3, <2>1 DEF Reported
    <2>. QED
        BY <1>3, <2>2 DEF Final
<1>. QED
    BY <1>2, <1>3, CloudStep DEF IInv, TypeOK

\* So what may be billed to a row goes on being what may be billed to it.
LEMMA DueLasts ==
    ASSUME IInv, CloudMetered, [Next]_vars, NEW CONSTANT r, NEW CONSTANT k \in Nat
    PROVE  (Due(r, k) => Due(r, k)') /\ (Within(r, k) => Within(r, k)')
<1>1. \A t \in Tx : Reported(t) \subseteq Reported(t)'
    BY ReadingsLast
<1>2. NamedBy(r) \subseteq Tx
    BY DEF NamedBy
<1>3. ASSUME Due(r, k)
      PROVE  Due(r, k)'
    <2>1. PICK t \in NamedBy(r) : cloud[t].phase = "finished" /\ k \in BillFor(r, t)
        BY <1>3 DEF Due
    <2>2. /\ cloud'[t].phase = "finished" /\ cloud'[t].ended = cloud[t].ended
          /\ cloud[t].total <= cloud'[t].total
        BY <1>2, <2>1, ReadingsLast
    <2>3. cloud[t] \in Transaction /\ cloud'[t] \in Transaction
        BY <1>2, NextIInv DEF IInv, TypeOK
    <2>4. k \in BillFor(r, t)'
        <3>1. CASE cloud[t].ended > 0
            BY <2>1, <2>2, <2>3, <3>1 DEF BillFor, Transaction
        <3>2. CASE ~(cloud[t].ended > 0)
            <4>1. PICK o \in NamedBy(r) : k \in Reported(o)
                BY <2>1, <3>2 DEF BillFor
            <4>2. k \in Reported(o)'
                BY <1>1, <1>2, <4>1
            <4>. QED
                BY <2>2, <3>2, <4>2 DEF BillFor, NamedBy
        <3>. QED
            BY <3>1, <3>2
    <2>. QED
        BY <2>2, <2>4 DEF Due, NamedBy
<1>4. ASSUME Within(r, k)
      PROVE  Within(r, k)'
    BY <1>1, <1>2, <1>4 DEF Within, NamedBy
<1>. QED
    BY <1>3, <1>4

\* The final reading of a transaction that a row names is due from it, and what is due is
\* within its meters.
LEMMA FinalIsDue ==
    ASSUME IInv, NEW r, NEW k \in Nat
    PROVE  /\ \A t \in NamedBy(r) : Final(t, k) => Due(r, k)
           /\ Due(r, k) => Within(r, k)
<1>1. \A t \in NamedBy(r) : t \in Tx /\ cloud[t] \in Transaction
    BY DEF NamedBy, IInv, TypeOK
<1>2. ASSUME NEW t \in NamedBy(r), Final(t, k)
      PROVE  Due(r, k)
    BY <1>1, <1>2 DEF Due, Final, BillFor
<1>3. ASSUME Due(r, k)
      PROVE  Within(r, k)
    <2>1. PICK t \in NamedBy(r) : k \in BillFor(r, t)
        BY <1>3 DEF Due
    <2>2. cloud[t].ended \in Nat /\ cloud[t].total \in Nat
        BY <1>1 DEF Transaction
    <2>3. CASE cloud[t].ended > 0
        <3>1. k \in 0 .. cloud[t].total
            BY <2>1, <2>2, <2>3 DEF BillFor
        <3>. QED
            BY <3>1 DEF Within, Reported
    <2>4. CASE ~(cloud[t].ended > 0)
        BY <2>1, <2>4 DEF BillFor, Within
    <2>. QED
        BY <2>3, <2>4
<1>. QED
    BY <1>2, <1>3

\* What a lookup answers of an ended transaction is final, by the one id or the other.
LEMMA AnswersAreFinal ==
    ASSUME cloud \in [Tx -> Transaction], CloudMetered, NEW t \in Tx,
           NEW tx, \E k \in MeterReadings(t) \cup {cloud[t].total} : tx = Snapshot(t, k)
    PROVE  /\ tx.kwh \in Nat /\ tx.kwh \in Reported(t)
           /\ (tx.finished <=> cloud[t].phase = "finished")
           /\ tx.finished => Final(t, tx.kwh)
<1>1. cloud[t] \in Transaction
    OBVIOUS
<1>2. PICK k \in MeterReadings(t) \cup {cloud[t].total} : tx = Snapshot(t, k)
    OBVIOUS
<1>3. tx.kwh = k /\ (tx.finished <=> cloud[t].phase = "finished")
    BY <1>2 DEF Snapshot
<1>4. /\ k \in Nat /\ k \in Reported(t)
      /\ cloud[t].total > 0 => k = cloud[t].total
    BY <1>1 DEF MeterReadings, Reported, Transaction
<1>5. ASSUME cloud[t].phase = "finished"
      PROVE  Final(t, k)
    <2>1. cloud[t].ended <= cloud[t].total
        BY <1>5 DEF CloudMetered
    <2>. QED
        BY <1>1, <1>4, <1>5, <2>1 DEF Final, Transaction
<1>. QED
    BY <1>3, <1>4, <1>5

\* The row a sync goroutine goes on with names the transaction it has read, and what it
\* writes is within the meters.
LEMMA SyncKeepsMeters ==
    ASSUME IInv, Metered, NEW w \in Worker, SyncApply(w)
    PROVE  /\ \A o \in SyncTarget(w) : sync[w].tx \in NamedBy(Synced(w)[o])
           /\ \A s \in Session : MeterBounds(Synced(w)[s])
<1>. DEFINE d == Synced(w)
            t == sync[w].tx
<1>1. /\ sync[w].pc = "apply" /\ t \in Tx /\ t # Null
      /\ sync[w].sess \in Session /\ Sound(d)
    BY SyncWrites, StoreAssumption DEF SyncApply
<1>2. \A s \in Session : sessions[s].ref # Null =>
        d[s].ref = sessions[s].ref /\ d[s].ocpp = sessions[s].ocpp
    BY SyncTargets DEF TableStep, RowStep
<1>3. \A s \in Session :
        /\ d[s].ref = sessions[s].ref \/ (s = sync[w].sess /\ d[s].ref = t)
        /\ d[s].kwh = sessions[s].kwh
            \/ (d[s].kwh = sync[w].kwh /\ (d[s].ref = t \/ d[s].ocpp = t))
    BY SyncWrites
<1>4. ASSUME NEW o \in SyncTarget(w)
      PROVE  d[o].ref = t \/ d[o].ocpp = t
    <2>1. CASE Attaches(w)
        <3>1. /\ d = AttachTransactionToSession(sessions, sync[w].sess, t, OcppId[t], sync[w].kwh)
              /\ o = sync[w].sess
            BY <1>4, <2>1 DEF Synced, SyncTarget
        <3>2. Attachable(sessions, sync[w].sess, t) /\ Sound(sessions) /\ sync[w].kwh \in Nat
            BY <2>1, SoundSessions, SyncWrites DEF Attaches
        <3>. HIDE DEF d, t
        <3>. QED
            BY <1>1, <3>1, <3>2, StoreAttach
    <2>2. CASE ~Attaches(w) /\ sync[w].ref = Null
        <3>1. o \in Matching(sessions, t)
            BY <1>1, <1>4, <2>2 DEF SyncTarget
        <3>2. o \in Session /\ (sessions[o].ref = t \/ sessions[o].ocpp = t)
            BY <3>1 DEF Matching
        <3>3. sessions[o].ref # Null
            BY <1>1, <3>2 DEF IInv, RowsOK, RowOK
        <3>. QED
            BY <1>2, <3>2, <3>3
    <2>3. CASE ~Attaches(w) /\ sync[w].ref # Null
        <3>1. d = sessions /\ o = sync[w].sess /\ sync[w].ref = t
            BY <1>4, <2>3 DEF Synced, SyncTarget
        <3>2. sessions[sync[w].sess].ref = sync[w].ref
            BY <1>1, <2>3 DEF IInv, SyncOK
        <3>. QED
            BY <3>1, <3>2
    <2>. QED
        BY <2>1, <2>2, <2>3
<1>5. ASSUME NEW s \in Session
      PROVE  MeterBounds(d[s])
    <2>1. CASE d[s].kwh = sync[w].kwh /\ (d[s].ref = t \/ d[s].ocpp = t)
        <3>1. sync[w].kwh \in Reported(t)
            BY <1>1 DEF Metered, SyncMetered
        <3>2. t \in NamedBy(d[s])
            BY <1>1, <2>1 DEF NamedBy
        <3>. QED
            BY <2>1, <3>1, <3>2 DEF MeterBounds, Within
    <2>2. CASE d[s].kwh = sessions[s].kwh /\ sessions[s].ref # Null
        <3>1. NamedBy(d[s]) = NamedBy(sessions[s])
            BY <1>2, <2>2 DEF NamedBy
        <3>2. Within(sessions[s], sessions[s].kwh)
            BY <2>2 DEF MeterBounds, Metered, RowsMetered
        <3>. QED
            BY <2>2, <3>1, <3>2 DEF MeterBounds, Within
    <2>3. CASE d[s].kwh = sessions[s].kwh /\ sessions[s].ref = Null
        <3>1. d[s].kwh = 0 /\ (d[s].ref = Null \/ d[s].ref = t)
            BY <1>3, <2>3 DEF IInv, RowsOK, RowOK
        <3>2. 0 \in Reported(t)
            BY <1>1 DEF Reported, IInv, TypeOK, Transaction
        <3>. QED
            BY <1>1, <3>1, <3>2 DEF MeterBounds, Within, NamedBy
    <2>. QED
        BY <1>3, <2>1, <2>2, <2>3
<1>6. \A o \in SyncTarget(w) : t \in NamedBy(d[o])
    BY <1>1, <1>4 DEF NamedBy
<1>. QED
    BY <1>5, <1>6

DebitsFor(s) == {e \in ledger : e.key = s}

\* What a step does to the bill of a session: nothing, or it settles it for what is due
\* from it.
BillKept(s) ==
    /\ sessions'[s].status = "stopped" <=> sessions[s].status = "stopped"
    /\ sessions[s].status = "stopped" =>
        /\ sessions'[s].billed <=> sessions[s].billed
        /\ sessions'[s].unpaid <=> sessions[s].unpaid
    /\ DebitsFor(s)' = DebitsFor(s)

BillSettled(s, k) ==
    LET u == sessions'[s].user IN
    /\ k \in Nat /\ sessions'[s].ref # Null /\ Due(sessions'[s], k)
    /\ sessions'[s].status = "stopped"
    /\ sessions[s].status = "stopped" =>
        /\ sessions[s].billed => sessions'[s].billed
        /\ sessions[s].unpaid => sessions'[s].unpaid
    /\ DebitInserted(balance, ledger, u, Cost(k), s) => sessions'[s].billed
    /\ DebitRefused(balance, u, Cost(k)) => sessions'[s].unpaid
    /\ ledger' = DebitLedger(balance, ledger, u, Cost(k), s)

BillStep ==
    /\ \A s \in Session : BillKept(s) \/ \E k : BillSettled(s, k)
    /\ \A s \in Session : MeterBounds(sessions'[s])

LEMMA SettleBills ==
    ASSUME IInv, NEW d, Sound(d), NEW o \in Session, d[o].ref # Null, NEW k \in Nat,
           Settle(d, o, k), Due(d[o], k),
           \A s \in Session :
                /\ d[s].status = "stopped" <=> sessions[s].status = "stopped"
                /\ sessions[s].status = "stopped" =>
                    (d[s].billed <=> sessions[s].billed) /\ (d[s].unpaid <=> sessions[s].unpaid)
                /\ MeterBounds(d[s])
    PROVE  BillStep
<1>. DEFINE u == d[o].user
            q == sessions'[o]
<1>1. /\ \A s \in Session \ {o} : sessions'[s] = d[s]
      /\ q.status = "stopped" /\ q.ref = d[o].ref /\ q.ocpp = d[o].ocpp /\ q.kwh = k /\ q.user = u
      /\ q.billed <=> (d[o].billed \/ DebitInserted(balance, ledger, u, Cost(k), o))
      /\ q.unpaid <=> (d[o].unpaid \/ DebitRefused(balance, u, Cost(k)))
      /\ ledger' = DebitLedger(balance, ledger, u, Cost(k), o)
    BY SettleWrites
<1>2. NamedBy(q) = NamedBy(d[o])
    BY <1>1 DEF NamedBy
<1>3. Due(q, k)
    BY <1>2 DEF Due, BillFor
<1>4. BillSettled(o, k)
    <2>. HIDE DEF q, u
    <2>1. /\ q.ref # Null /\ q.status = "stopped"
          /\ sessions[o].status = "stopped" => (sessions[o].billed => q.billed)
                                               /\ (sessions[o].unpaid => q.unpaid)
          /\ DebitInserted(balance, ledger, q.user, Cost(k), o) => q.billed
          /\ DebitRefused(balance, q.user, Cost(k)) => q.unpaid
          /\ ledger' = DebitLedger(balance, ledger, q.user, Cost(k), o)
        BY <1>1
    <2>. QED
        BY <1>3, <2>1 DEF BillSettled, q
<1>5. ASSUME NEW s \in Session, s # o
      PROVE  BillKept(s)
    <2>1. DebitsFor(s)' = DebitsFor(s)
        BY <1>1, <1>5 DEF DebitsFor, DebitLedger
    <2>. QED
        BY <1>1, <1>5, <2>1 DEF BillKept
<1>6. MeterBounds(q)
    BY <1>1, <1>3, FinalIsDue DEF MeterBounds
<1>7. \A s \in Session : MeterBounds(sessions'[s])
    BY <1>1, <1>6
<1>. QED
    BY <1>4, <1>5, <1>7 DEF BillStep

LEMMA EveryStepBills ==
    ASSUME IInv, Metered, [Next]_vars
    PROVE  BillStep
<1>1. ASSUME NEW w \in Worker, SyncApply(w)
      PROVE  BillStep
    <2>. DEFINE d == Synced(w)
                k == sync[w].kwh
    <2>1. PICK o \in SyncTarget(w) :
            IF sync[w].finished THEN Settle(d, o, k)
            ELSE sessions' = d /\ UNCHANGED <<balance, ledger>>
        BY <1>1 DEF SyncApply
    <2>2. /\ o \in Session /\ d[o].ref # Null /\ sync[w].tx \in NamedBy(d[o])
          /\ k \in Nat /\ Sound(d)
          /\ \A s \in Session :
                /\ d[s].status = "stopped" <=> sessions[s].status = "stopped"
                /\ sessions[s].status = "stopped" =>
                    (d[s].billed <=> sessions[s].billed) /\ (d[s].unpaid <=> sessions[s].unpaid)
                /\ MeterBounds(d[s])
        BY <1>1, SyncTargets, SyncWrites, SyncKeepsMeters
    <2>3. CASE sync[w].finished
        <3>1. Final(sync[w].tx, k)
            BY <1>1, <2>3 DEF SyncApply, Metered, SyncMetered
        <3>2. Due(d[o], k)
            <4>. HIDE DEF d, k
            <4>. QED
                BY <2>2, <3>1, FinalIsDue
        <3>. HIDE DEF d, k
        <3>. QED
            BY <2>1, <2>2, <2>3, <3>2, SettleBills
    <2>4. CASE ~sync[w].finished
        BY <2>1, <2>2, <2>4 DEF BillStep, BillKept, DebitsFor
    <2>. QED
        BY <2>3, <2>4
<1>2. ASSUME NEW o \in Session, PollCommit(o)
      PROVE  BillStep
    <2>1. /\ Settle(sessions, o, poll[o].kwh) /\ sessions[o].ref # Null /\ poll[o].kwh \in Nat
          /\ Due(sessions[o], poll[o].kwh)
        BY <1>2 DEF PollCommit, IInv, PollOK, TypeOK, Poller, Metered, PollMetered
    <2>. QED
        BY <2>1, SoundSessions, SettleBills DEF Metered, RowsMetered
<1>3. CASE QuietData
    <2>1. \A s \in Session : BillKept(s)
        BY <1>3 DEF QuietData, QuietRows, QuietRow, BillKept, DebitsFor
    <2>2. ASSUME NEW s \in Session
          PROVE  MeterBounds(sessions'[s])
        <3>1. /\ sessions'[s].ref = sessions[s].ref /\ sessions'[s].kwh = sessions[s].kwh
              /\ NamedBy(sessions'[s]) = NamedBy(sessions[s])
            BY <1>3 DEF QuietData, QuietRows, QuietRow, NamedBy
        <3>. QED
            BY <3>1 DEF MeterBounds, Within, Metered, RowsMetered
    <2>. QED
        BY <2>1, <2>2 DEF BillStep
<1>. QED
    BY <1>1, <1>2, <1>3, TwoCommits

\* What a poller remembers comes from an ended transaction of its row, or from the row when
\* that transaction metered nothing.
PollFrom(s) ==
    \/ poll'[s] = poll[s]
    \/ /\ poll[s].pc # "off" /\ poll'[s].pc = "begin" /\ UNCHANGED <<sessions, cloud>>
       /\ \E tx \in Ended(sessions[s]) : poll'[s].kwh = tx.kwh
    \/ /\ poll[s].pc = "begin" /\ poll'[s].pc = "commit" /\ UNCHANGED <<sessions, cloud>>
       /\ poll'[s].kwh = IF poll[s].kwh = 0 THEN sessions[s].kwh ELSE poll[s].kwh

LEMMA PollOrigin ==
    ASSUME IInv, [Next]_vars, NEW s \in Session, poll'[s].pc \in {"begin", "commit"}
    PROVE  PollFrom(s)
<1>1. poll \in [Session -> Poller]
    BY DEF IInv, TypeOK
<1>2. CASE UNCHANGED poll
    BY <1>2 DEF PollFrom
<1>3. ASSUME NEW o \in Session, NEW pc \in {"exit", "giveup"}, GoPoll(o, pc)
      PROVE  PollFrom(s)
    <2>1. CASE o = s
        <3>1. poll'[s].pc = pc
            BY <1>1, <1>3, <2>1 DEF GoPoll, Poller
        <3>. QED
            BY <3>1
    <2>2. CASE o # s
        BY <1>1, <1>3, <2>2 DEF GoPoll, PollFrom
    <2>. QED
        BY <2>1, <2>2
<1>4. ASSUME NEW o \in Session, poll[o].pc = "fetch", poll' = [poll EXCEPT ![o].attempt = @ + 1]
      PROVE  PollFrom(s)
    <2>1. CASE o = s
        <3>1. poll'[s].pc = "fetch"
            BY <1>1, <1>4, <2>1 DEF Poller
        <3>. QED
            BY <3>1
    <2>2. CASE o # s
        BY <1>1, <1>4, <2>2 DEF PollFrom
    <2>. QED
        BY <2>1, <2>2
<1>5. ASSUME NEW o \in Session, NEW pc, NEW k,
             poll' = [poll EXCEPT ![o].pc = pc, ![o].kwh = k]
      PROVE  IF o = s THEN poll'[s].pc = pc /\ poll'[s].kwh = k ELSE poll'[s] = poll[s]
    BY <1>1, <1>5 DEF Poller
<1>6. ASSUME NEW o \in Session, PollFetch(o)
      PROVE  PollFrom(s)
    <2>1. /\ poll[o].pc = "fetch" /\ UNCHANGED <<sessions, cloud>>
          /\ \/ GoPoll(o, "exit") \/ GoPoll(o, "giveup")
             \/ poll' = [poll EXCEPT ![o].attempt = @ + 1]
             \/ \E tx \in Ended(sessions[o]) :
                    poll' = [poll EXCEPT ![o].pc = "begin", ![o].kwh = tx.kwh]
        BY <1>6 DEF PollFetch, db
    <2>2. ASSUME NEW tx \in Ended(sessions[o]),
                 poll' = [poll EXCEPT ![o].pc = "begin", ![o].kwh = tx.kwh]
          PROVE  PollFrom(s)
        <3>1. IF o = s THEN poll'[s].pc = "begin" /\ poll'[s].kwh = tx.kwh ELSE poll'[s] = poll[s]
            BY <1>5, <2>2
        <3>. QED
            BY <2>1, <3>1 DEF PollFrom
    <2>. QED
        BY <1>3, <1>4, <2>1, <2>2
<1>7. ASSUME NEW o \in Session, PollBegin(o)
      PROVE  PollFrom(s)
    <2>. DEFINE k == IF poll[o].kwh = 0 THEN sessions[o].kwh ELSE poll[o].kwh
    <2>1. /\ poll[o].pc = "begin" /\ UNCHANGED <<sessions, cloud>>
          /\ GoPoll(o, "exit") \/ poll' = [poll EXCEPT ![o].pc = "commit", ![o].kwh = k]
        BY <1>7 DEF PollBegin, db
    <2>2. ASSUME poll' = [poll EXCEPT ![o].pc = "commit", ![o].kwh = k]
          PROVE  PollFrom(s)
        <3>1. IF o = s THEN poll'[s].pc = "commit" /\ poll'[s].kwh = k ELSE poll'[s] = poll[s]
            <4>. HIDE DEF k
            <4>. QED
                BY <1>5, <2>2
        <3>. QED
            BY <2>1, <3>1 DEF PollFrom
    <2>. QED
        BY <1>3, <2>1, <2>2
<1>8. ASSUME NEW o \in Session, PollFault(o) \/ PollCommit(o) \/ PollGiveUp(o)
      PROVE  PollFrom(s)
    BY <1>3, <1>4, <1>8 DEF PollFault, PollCommit, PollGiveUp
<1>9. ASSUME NEW o \in Session, NEW q, q.pc \in {"off", "fetch"}, poll' = [poll EXCEPT ![o] = q]
      PROVE  PollFrom(s)
    <2>1. poll'[s] = IF o = s THEN q ELSE poll[s]
        BY <1>1, <1>9
    <2>. QED
        BY <1>9, <2>1 DEF PollFrom
<1>10. ASSUME NEW o \in Session, PollExit(o)
       PROVE  PollFrom(s)
    <2>1. NoPoll.pc = "off"
        BY DEF NoPoll
    <2>2. poll'[s] = IF o = s THEN NoPoll ELSE poll[s]
        BY <1>1, <1>10 DEF PollExit
    <2>. QED
        BY <2>1, <2>2 DEF PollFrom
<1>11. ASSUME NEW h \in Handler, HandlerNext(h)
       PROVE  PollFrom(s)
    <2>1. CASE StopReplyPoll(h)
        <3>. DEFINE q == [pc |-> "fetch", attempt |-> 1, kwh |-> 0]
        <3>1. UNCHANGED poll \/ poll' = [poll EXCEPT ![req[h].sess] = q]
            BY <2>1 DEF StopReplyPoll
        <3>2. req[h].sess \in Session /\ q.pc = "fetch"
            BY <2>1 DEF StopReplyPoll, IInv, ReqOK
        <3>. HIDE DEF q
        <3>. QED
            BY <1>2, <1>9, <3>1, <3>2
    <2>2. CASE ~StopReplyPoll(h)
        BY <1>2, <1>11, <2>2 DEF HandlerNext, StartCheckWallet, StartCheckUser, StartCheckConnector,
            StartCreate, StartRemoteID, StartDispatch, StartAbort, StopRead, StopMark, StopSend,
            StopReload, StopReplySync, StopAbort
    <2>. QED
        BY <2>1, <2>2
<1>12. ASSUME Crash
       PROVE  FALSE
    BY <1>12 DEF Crash, NoPoll
<1>13. ASSUME \/ \E w \in Worker : SyncNext(w)
              \/ \E o \in Session : Age(o) \/ LeaseExpire(o) \/ RetryStop(o)
              \/ \E t \in Tx : CloudNext(t)
              \/ RecoverStaleStarts \/ UNCHANGED vars
       PROVE  UNCHANGED poll
    BY <1>13 DEF SyncNext, SyncLoad, SyncMatch, SyncFetch, SyncApply, SyncApplyNothing,
        SyncFault, SyncExpire, Age, LeaseExpire, RetryStop, CloudNext, TxStart, TxMeter,
        TxFinish, RecoverStaleStarts, Service, vars
<1>. QED
    BY <1>2, <1>6, <1>7, <1>8, <1>10, <1>11, <1>12, <1>13 DEF Next, PollStep, PollWork

LEMMA InitMetered == Init => Metered
<1>. SUFFICES ASSUME Init PROVE Metered
    OBVIOUS
<1>1. \A s \in Session : sessions[s].ref = Null /\ poll[s].pc = "off"
    BY DEF Init, NoRow, NoPoll
<1>2. \A w \in Worker : sync[w].pc = "idle"
    BY DEF Init, IdleSync
<1>3. \A t \in Tx : cloud[t].phase = "none" /\ cloud[t].register = 0 /\ cloud[t].total = 0
    BY DEF Init, NoTx
<1>. QED
    BY <1>1, <1>2, <1>3 DEF Metered, RowsMetered, SyncMetered, PollMetered, CloudMetered, MeterBounds

LEMMA NextSyncMetered ==
    ASSUME IInv, Belonging, Metered, [Next]_vars
    PROVE  SyncMetered'
<1>. SUFFICES ASSUME NEW w \in Worker, sync'[w].pc \in {"match", "fetch", "apply"},
                     NEW CONSTANT v, v = sync'[w]
              PROVE  /\ v.pc = "match" => v.ref = Null
                     /\ v.pc \in {"fetch", "apply"} /\ v.ref # Null => v.tx = v.ref
                     /\ v.pc = "apply" => (v.kwh \in Reported(v.tx))'
                     /\ v.pc = "apply" /\ v.finished => Final(v.tx, v.kwh)'
    BY DEF SyncMetered, Final, Reported
<1>1. SyncFrom(w) /\ IInv'
    BY SyncOrigin, NextIInv
<1>2. v.pc = "apply" => v.tx \in Tx /\ v.kwh \in Nat
    BY <1>1 DEF IInv, SyncOK, TypeOK, Syncer
<1>3. CASE v = sync[w]
    <2>1. /\ v.pc = "match" => v.ref = Null
          /\ v.pc \in {"fetch", "apply"} /\ v.ref # Null => v.tx = v.ref
          /\ v.pc = "apply" => v.kwh \in Reported(v.tx)
          /\ v.pc = "apply" /\ v.finished => Final(v.tx, v.kwh)
        BY <1>3 DEF Metered, SyncMetered
    <2>2. v.pc = "apply" => (v.kwh \in Reported(v.tx))'
        BY <1>2, <2>1, ReadingsLast DEF Metered
    <2>3. v.pc = "apply" /\ v.finished => Final(v.tx, v.kwh)'
        BY <1>2, <2>1, ReadingsLast DEF Metered
    <2>. QED
        BY <2>1, <2>2, <2>3
<1>4. CASE sync[w].pc = "fetch" /\ v # sync[w]
    <2>1. PICK tx \in GetTransactionByID(sync[w].tx) :
            /\ v.ref = sync[w].ref /\ v.pc = "apply" /\ v.tx = sync[w].tx /\ UNCHANGED cloud
            /\ v.kwh = tx.kwh /\ (v.finished <=> tx.finished)
        BY <1>1, <1>4 DEF SyncFrom
    <2>2. \E k \in MeterReadings(v.tx) : tx = Snapshot(v.tx, k)
        BY <2>1 DEF GetTransactionByID, ByID
    <2>3. v.kwh \in Reported(v.tx) /\ (v.finished => Final(v.tx, v.kwh))
        BY <1>2, <2>1, <2>2, AnswersAreFinal DEF Metered, IInv, TypeOK
    <2>4. v.ref # Null => v.tx = v.ref
        BY <1>4, <2>1 DEF Metered, SyncMetered
    <2>5. (v.kwh \in Reported(v.tx))' /\ (v.finished => Final(v.tx, v.kwh)')
        BY <2>1, <2>3 DEF Reported, Final
    <2>. QED
        BY <2>1, <2>4, <2>5
<1>5. CASE sync[w].pc \in {"load", "match"} /\ v # sync[w]
    BY <1>1, <1>5 DEF SyncFrom, Metered, SyncMetered
<1>. QED
    BY <1>1, <1>3, <1>4, <1>5 DEF SyncFrom

\* An ended transaction that a lookup of the row's ids reports is the one it references: the
\* lookup by primary key finds it, and its OCPP id finds it alone or not at all.
LEMMA EndedIsOwn ==
    ASSUME IInv, Belonging, CloudMetered, NEW s \in Session, sessions[s].ref # Null,
           NEW tx \in Ended(sessions[s])
    PROVE  Final(sessions[s].ref, tx.kwh)
<1>. DEFINE t == sessions[s].ref
<1>1. t \in Tx /\ cloud[t].phase # "none" /\ sessions[s].ocpp = OcppId[t]
    BY DEF IInv, TypeOK, Row, Belonging, RefsBelong, Began
<1>2. ParseInt(t) = t
    BY <1>1, StoreAssumption DEF ParseInt
<1>3. ASSUME tx \in GetTransactionByID(t)
      PROVE  \E k \in MeterReadings(t) : tx = Snapshot(t, k)
    BY <1>3 DEF GetTransactionByID, ByID
<1>4. ASSUME tx \in GetTransactionByOCPPTransactionID(sessions[s].ocpp)
      PROVE  tx = Snapshot(t, cloud[t].total)
    <2>1. PICK o \in ByOCPPTransactionID(sessions[s].ocpp) : tx = Snapshot(o, cloud[o].total)
        BY <1>4 DEF GetTransactionByOCPPTransactionID
    <2>2. o = t
        BY <1>1, <2>1 DEF ByOCPPTransactionID
    <2>. QED
        BY <2>1, <2>2
<1>5. \E k \in MeterReadings(t) \cup {cloud[t].total} : tx = Snapshot(t, k)
    BY <1>2, <1>3, <1>4 DEF Ended, Resolved
<1>6. tx.finished
    BY DEF Ended
<1>. QED
    BY <1>1, <1>5, <1>6, AnswersAreFinal DEF IInv, TypeOK

LEMMA NextPollMetered ==
    ASSUME IInv, Belonging, Metered, [Next]_vars
    PROVE  PollMetered'
<1>. SUFFICES ASSUME NEW s \in Session
              PROVE  /\ (poll[s].pc = "begin" => Final(sessions[s].ref, poll[s].kwh))'
                     /\ (poll[s].pc = "commit" => Due(sessions[s], poll[s].kwh))'
    BY DEF PollMetered
<1>. SUFFICES ASSUME poll'[s].pc \in {"begin", "commit"},
                     NEW CONSTANT p, p = poll'[s], NEW CONSTANT r, r = sessions'[s]
              PROVE  /\ p.pc = "begin" => Final(r.ref, p.kwh)'
                     /\ p.pc = "commit" => Due(r, p.kwh)'
    <2>1. PICK p : p = poll'[s]
        OBVIOUS
    <2>2. PICK r : r = sessions'[s]
        OBVIOUS
    <2>3. p.pc = "begin" => (Final(r.ref, p.kwh)' <=> Final(sessions[s].ref, poll[s].kwh)')
        BY <2>1, <2>2 DEF Final
    <2>4. p.pc = "commit" => (Due(r, p.kwh)' <=> Due(sessions[s], poll[s].kwh)')
        BY <2>1, <2>2 DEF Due, NamedBy, BillFor, Reported
    <2>. QED
        BY <2>1, <2>2, <2>3, <2>4
<1>1. IInv' /\ DataStep /\ PollFrom(s)
    BY NextIInv, PollOrigin
<1>2. r.ref \in Tx /\ p.kwh \in Nat
    BY <1>1 DEF IInv, PollOK, TypeOK, Row, Poller
<1>3. CASE p = poll[s]
    <2>1. sessions[s].ref # Null
        BY <1>3 DEF IInv, PollOK
    <2>2. r.ref = sessions[s].ref /\ r.ocpp = sessions[s].ocpp
        BY <1>1, <2>1 DEF DataStep, TableStep, RowStep
    <2>3. NamedBy(r) = NamedBy(sessions[s])
        BY <2>2 DEF NamedBy
    <2>4. (p.pc = "begin" => Final(r.ref, p.kwh)) /\ (p.pc = "commit" => Due(r, p.kwh))
        BY <1>3, <2>2, <2>3 DEF Metered, PollMetered, Due, BillFor
    <2>5. p.pc = "begin" => Final(r.ref, p.kwh)'
        BY <1>2, <2>4, ReadingsLast DEF Metered
    <2>6. p.pc = "commit" => Due(r, p.kwh)'
        BY <1>2, <2>4, DueLasts DEF Metered
    <2>. QED
        BY <2>5, <2>6
<1>4. CASE poll[s].pc # "off" /\ p.pc = "begin" /\ UNCHANGED <<sessions, cloud>>
            /\ \E tx \in Ended(sessions[s]) : p.kwh = tx.kwh
    <2>1. sessions[s].ref # Null /\ r = sessions[s]
        BY <1>4 DEF IInv, PollOK
    <2>2. Final(r.ref, p.kwh)
        BY <1>4, <2>1, EndedIsOwn DEF Metered
    <2>3. Final(r.ref, p.kwh)'
        BY <1>2, <2>2, ReadingsLast DEF Metered
    <2>. QED
        BY <1>4, <2>3
<1>5. CASE poll[s].pc = "begin" /\ p.pc = "commit" /\ UNCHANGED <<sessions, cloud>>
            /\ p.kwh = IF poll[s].kwh = 0 THEN sessions[s].kwh ELSE poll[s].kwh
    <2>1. r = sessions[s] /\ Final(r.ref, poll[s].kwh) /\ r.ref \in NamedBy(r)
        BY <1>2, <1>5 DEF Metered, PollMetered, NamedBy
    <2>2. ASSUME poll[s].kwh # 0
          PROVE  Due(r, p.kwh)
        BY <1>2, <1>5, <2>1, <2>2, FinalIsDue
    <2>3. ASSUME poll[s].kwh = 0
          PROVE  Due(r, p.kwh)
        <3>1. cloud[r.ref].ended \in Nat /\ cloud[r.ref].total \in Nat
            BY <1>2 DEF IInv, TypeOK, Transaction
        <3>2. cloud[r.ref].phase = "finished" /\ ~(cloud[r.ref].ended > 0)
            BY <2>1, <2>3, <3>1 DEF Final
        <3>3. Within(r, r.kwh) /\ p.kwh = r.kwh
            BY <1>2, <1>5, <2>1, <2>3, StoreAssumption DEF Metered, RowsMetered, MeterBounds
        <3>. QED
            BY <2>1, <3>2, <3>3 DEF Due, Within, BillFor
    <2>4. Due(r, p.kwh)
        BY <2>2, <2>3
    <2>. QED
        BY <1>2, <1>5, <2>4, DueLasts DEF Metered
<1>. QED
    BY <1>1, <1>3, <1>4, <1>5 DEF PollFrom

LEMMA NextMetered ==
    ASSUME IInv, Belonging, Metered, [Next]_vars
    PROVE  Metered'
<1>1. IInv' /\ BillStep /\ CloudMetered'
    BY NextIInv, EveryStepBills, CloudMeteredNext DEF Metered
<1>2. RowsMetered'
    <2>. SUFFICES ASSUME NEW s \in Session, NEW CONSTANT r, r = sessions'[s], r.ref # Null
                  PROVE  Within(r, r.kwh)'
        BY DEF RowsMetered, MeterBounds, Within, NamedBy, Reported
    <2>1. Within(r, r.kwh) /\ r.kwh \in Nat
        BY <1>1 DEF BillStep, MeterBounds, IInv, TypeOK, Row
    <2>. QED
        BY <2>1, DueLasts DEF Metered
<1>. QED
    BY <1>1, <1>2, NextSyncMetered, NextPollMetered DEF Metered

\* PaysItsMeter, for one session.
Paid(s, r, k) ==
    \/ DebitsFor(s) = {[key |-> s, user |-> r.user, amount |-> Cost(k)]} /\ r.billed
    \/ DebitsFor(s) = {} /\ (r.unpaid \/ k = 0)

Pays(s) ==
    IF sessions[s].status = "stopped"
    THEN \E k \in Nat : Due(sessions[s], k) /\ Paid(s, sessions[s], k)
    ELSE DebitsFor(s) = {}

AllPay == \A s \in Session : Pays(s)

LEMMA PaysEach == IInv => (PaysItsMeter <=> \A s \in Session : Pays(s))
<1>. SUFFICES ASSUME IInv PROVE PaysItsMeter <=> \A s \in Session : Pays(s)
    OBVIOUS
<1>1. ASSUME NEW r, NEW t \in NamedBy(r)
      PROVE  BillFor(r, t) \subseteq Nat
    <2>1. \A o \in NamedBy(r) : cloud[o] \in Transaction
        BY DEF NamedBy, IInv, TypeOK
    <2>2. \A o \in NamedBy(r) : Reported(o) \subseteq Nat
        BY <2>1 DEF Reported, Transaction
    <2>. QED
        BY <2>1, <2>2 DEF BillFor, Transaction
<1>2. ASSUME NEW s \in Session
      PROVE  (\E k \in Nat : Due(sessions[s], k) /\ Paid(s, sessions[s], k))
             <=> \E t \in NamedBy(sessions[s]) :
                    /\ cloud[t].phase = "finished"
                    /\ \E k \in BillFor(sessions[s], t) : Paid(s, sessions[s], k)
    <2>. DEFINE r == sessions[s]
    <2>. HIDE DEF r
    <2>1. (\E k \in Nat : Due(r, k) /\ Paid(s, r, k))
             <=> \E t \in NamedBy(r) :
                    /\ cloud[t].phase = "finished"
                    /\ \E k \in BillFor(r, t) : Paid(s, r, k)
        BY <1>1 DEF Due
    <2>. QED
        BY <2>1 DEF r
<1>. QED
    BY <1>2 DEF PaysItsMeter, Pays, Paid, DebitsFor

\* Only nothing costs nothing.
LEMMA CostOfNone ==
    ASSUME NEW k \in Nat, Cost(k) = 0
    PROVE  k = 0
BY StoreAssumption DEF Cost

\* A stopped row, and one with a debit, names a transaction.
LEMMA StoppedIsBound ==
    ASSUME IInv, NEW s \in Session
    PROVE  Pays(s) /\ sessions[s].status = "stopped" => sessions[s].ref # Null
BY StoreAssumption DEF Pays, Due, NamedBy, IInv, RowsOK, RowOK

\* A settlement for what is due leaves the debit of that, the one that was there, or a
\* reason for none.
LEMMA SettledPays ==
    ASSUME IInv, CloudMetered, [Next]_vars, NEW s \in Session, Pays(s), NEW k, BillSettled(s, k)
    PROVE  Pays(s)'
<1>1. PICK r \in Row : r = sessions'[s]
    BY NextIInv DEF IInv, TypeOK
<1>. DEFINE u == r.user
            c == Cost(k)
            e == [key |-> s, user |-> u, amount |-> c]
<1>2. /\ k \in Nat /\ r.ref # Null /\ Due(r, k) /\ r.status = "stopped"
      /\ sessions[s].status = "stopped" => (sessions[s].billed => r.billed)
      /\ DebitInserted(balance, ledger, u, c, s) => r.billed
      /\ DebitRefused(balance, u, c) => r.unpaid
      /\ ledger' = DebitLedger(balance, ledger, u, c, s)
    BY <1>1 DEF BillSettled
<1>3. c \in Nat /\ u \in User /\ balance[u] \in Nat /\ (c = 0 => k = 0)
    <2>1. u \in User
        BY <1>1, <1>2, NextIInv DEF IInv, RowsOK, RowOK
    <2>. QED
        BY <1>2, <2>1, CostIsNat, CostOfNone DEF IInv, TypeOK
<1>4. SUFFICES \E j \in Nat : Due(r, j)' /\ Paid(s, r, j)'
    BY <1>1, <1>2 DEF Pays, Paid, Due, NamedBy, BillFor, Reported, DebitsFor
<1>5. CASE DebitInserted(balance, ledger, u, c, s)
    <2>1. ledger' = ledger \cup {e} /\ DebitsFor(s) = {} /\ r.billed
        BY <1>2, <1>5 DEF DebitLedger, DebitInserted, DebitsFor
    <2>2. DebitsFor(s)' = {e}
        BY <2>1 DEF DebitsFor
    <2>. QED
        BY <1>2, <2>1, <2>2, DueLasts DEF Paid
<1>6. CASE ~DebitInserted(balance, ledger, u, c, s)
    <2>1. DebitsFor(s)' = DebitsFor(s)
        BY <1>2, <1>6 DEF DebitLedger, DebitsFor
    <2>2. CASE DebitsFor(s) = {}
        <3>1. c = 0 \/ balance[u] < c
            BY <1>3, <1>6, <2>2 DEF DebitInserted, DebitsFor
        <3>2. k = 0 \/ r.unpaid
            BY <1>2, <1>3, <3>1 DEF DebitRefused
        <3>. QED
            BY <1>2, <2>1, <2>2, <3>2, DueLasts DEF Paid
    <2>3. CASE DebitsFor(s) # {}
        <3>1. sessions[s].status = "stopped"
            BY <2>3 DEF Pays
        <3>2. PICK j \in Nat : Due(sessions[s], j) /\ Paid(s, sessions[s], j)
            BY <3>1 DEF Pays
        <3>3. sessions[s].ref # Null /\ sessions[s].billed
              /\ DebitsFor(s) = {[key |-> s, user |-> sessions[s].user, amount |-> Cost(j)]}
            BY <2>3, <3>1, <3>2, StoppedIsBound DEF Paid
        <3>4. r.ref = sessions[s].ref /\ r.ocpp = sessions[s].ocpp /\ r.user = sessions[s].user
            BY <1>1, <3>1, <3>3, NextIInv DEF DataStep, TableStep, RowStep
        <3>5. Due(r, j)
            BY <3>2, <3>4 DEF Due, NamedBy, BillFor
        <3>6. Paid(s, r, j)'
            BY <1>2, <2>1, <3>1, <3>3, <3>4 DEF Paid
        <3>. QED
            BY <3>5, <3>6, DueLasts
    <2>. QED
        BY <2>2, <2>3
<1>. QED
    BY <1>5, <1>6

LEMMA PaysNext == IInv' /\ AllPay' => PaysItsMeter'
<1>1. IInv /\ AllPay => PaysItsMeter
    BY PaysEach DEF AllPay
<1>. QED
    BY <1>1, PTL

LEMMA NextPays ==
    ASSUME IInv, Belonging, Metered, PaysItsMeter, [Next]_vars
    PROVE  PaysItsMeter'
<1>1. IInv' /\ DataStep /\ BillStep /\ CloudMetered
    BY NextIInv, EveryStepBills DEF Metered
<1>2. ASSUME NEW s \in Session
      PROVE  Pays(s)'
    <2>1. Pays(s)
        BY PaysEach
    <2>2. CASE sessions'[s].status # "stopped"
        BY <1>1, <2>2 DEF IInv, LedgerOK, Pays, DebitsFor
    <2>3. CASE sessions'[s].status = "stopped" /\ BillKept(s)
        <3>1. PICK r \in Row : r = sessions'[s]
            BY <1>1 DEF IInv, TypeOK
        <3>2. sessions[s].status = "stopped" /\ sessions[s].ref # Null
            BY <2>1, <2>3, StoppedIsBound DEF BillKept
        <3>3. PICK k \in Nat : Due(sessions[s], k) /\ Paid(s, sessions[s], k)
            BY <2>1, <3>2 DEF Pays
        <3>4. /\ r.ref = sessions[s].ref /\ r.ocpp = sessions[s].ocpp
              /\ r.user = sessions[s].user
              /\ (r.billed <=> sessions[s].billed) /\ (r.unpaid <=> sessions[s].unpaid)
              /\ DebitsFor(s)' = DebitsFor(s)
            BY <1>1, <2>3, <3>1, <3>2 DEF BillKept, DataStep, TableStep, RowStep
        <3>5. Due(r, k)
            BY <3>3, <3>4 DEF Due, NamedBy, BillFor
        <3>6. Due(r, k)' /\ Paid(s, r, k)'
            BY <1>1, <3>3, <3>4, <3>5, DueLasts DEF Paid
        <3>. QED
            BY <2>3, <3>1, <3>6 DEF Pays, Paid, Due, NamedBy, BillFor, Reported, DebitsFor
    <2>4. CASE \E k : BillSettled(s, k)
        BY <1>1, <2>1, <2>4, SettledPays
    <2>. QED
        BY <1>1, <2>2, <2>3, <2>4 DEF BillStep
<1>3. AllPay'
    BY <1>2 DEF AllPay
<1>. QED
    BY <1>1, <1>3, PaysNext

\* Each stopped session is settled for the end of a transaction it names, by whichever of the
\* pollers and sync goroutines, and however often: whatever the two lookups answer, also when
\* one fails, when samples come late, and when an OCPP id reads like a primary key
\* (service.go 500-517, 817-820, 889-902; station_status_client.go 425-521).
THEOREM MeterIsPaid == Spec => []PaysItsMeter
<1>. DEFINE J == Belonging /\ Metered /\ PaysItsMeter
<1>1. Init => J
    <2>1. Init => PaysItsMeter
        BY DEF Init, PaysItsMeter, NoRow
    <2>. QED
        BY <2>1, InitBelonging, InitMetered
<1>2. IInv /\ J /\ [Next]_vars => J'
    BY NextBelonging, NextMetered, NextPays
<1>3. J => PaysItsMeter
    OBVIOUS
<1>. HIDE DEF J
<1>. QED
    BY <1>1, <1>2, <1>3, Invariance, PTL DEF Spec
=============================================================================
