-------------------------- MODULE CommandQueueProofs --------------------------
(***************************************************************************)
(* Proofs about CommandQueue, for every set of commands and of goroutines   *)
(* and every limit.                                                        *)
(*                                                                         *)
(* What the queue promises needs what its goroutines are about to do: one   *)
(* that sleeps has attempts left, and one that is about to free its key has *)
(* settled the task's fate, which only a new task can reopen.                *)
(***************************************************************************)
EXTENDS CommandQueue, TLAPS

SleepersGoOn ==
    \A w \in Worker : At(w, "sleep") => worker[w].retry /\ worker[w].attempt < MaxAttempts

DoneIsSettled ==
    \A w \in Worker : At(w, "done") => worker[w].retry /\ fate[worker[w].key] # "open"

QueueInv ==
    /\ TypeOK
    /\ OneRunner
    /\ TaskHasFate
    /\ SleepersGoOn
    /\ DoneIsSettled

\* The steps of a goroutine between its first and its last.
Moves(w) ==
    /\ ~At(w, "idle") /\ worker'[w].pc # "idle"
    /\ worker'[w].key = worker[w].key /\ worker'[w].retry = worker[w].retry
    /\ \A v \in Worker : v # w => worker'[v] = worker[v]

-----------------------------------------------------------------------------
\* Limits are positive numbers, and Idle is a state of a goroutine.
LEMMA Constants ==
    /\ MaxAttempts \in Nat /\ MaxAttempts > 0
    /\ MaxRetries \in Nat /\ MaxRetries > 0
    /\ Threshold \in Nat /\ Threshold > 0
    /\ (CHOOSE k \in Key : TRUE) \in Key
BY QueueAssumption DEF Limit


LEMMA IdleIsGoroutine == Idle \in Goroutine
BY Constants DEF Idle, Goroutine, Pc

\* The process starts in the invariant.
LEMMA InitQueueInv == Init => QueueInv
<1>. SUFFICES ASSUME Init PROVE QueueInv
    OBVIOUS
<1>1. TypeOK
    <2>1. openedAt \in Time
        BY DEF Init, Time, ZeroTime
    <2>2. failures \in 0 .. Threshold
        BY Constants DEF Init
    <2>. QED
        BY <2>1, <2>2, IdleIsGoroutine DEF Init, TypeOK
<1>2. \A k \in Key : Runners(k) = {}
    BY DEF Init, Runners, Idle, At
<1>. QED
    BY <1>1, <1>2 DEF Init, QueueInv, OneRunner, TaskHasFate, SleepersGoOn, DoneIsSettled, At, Idle

-----------------------------------------------------------------------------
(* Types.                                                                  *)

\* A goroutine keeps its type under the assignments that the steps make.
LEMMA Assigned ==
    ASSUME NEW g \in Goroutine, NEW p \in Pc, NEW a \in {"send", "ok", "failed"},
           NEW n \in 0 .. MaxRetries, NEW f \in 0 .. Threshold
    PROVE  /\ [g EXCEPT !.pc = p] \in Goroutine
           /\ [g EXCEPT !.pc = p, !.after = a] \in Goroutine
           /\ [g EXCEPT !.pc = p, !.sends = n] \in Goroutine
           /\ [g EXCEPT !.pc = p, !.seen = f] \in Goroutine
BY DEF Goroutine

\* Changing one goroutine keeps the table's type.
LEMMA BecomesTypes ==
    ASSUME worker \in [Worker -> Goroutine], NEW w \in Worker, NEW g \in Goroutine, Becomes(w, g)
    PROVE  worker' \in [Worker -> Goroutine]
BY DEF Becomes

LEMMA GoTypes ==
    ASSUME worker \in [Worker -> Goroutine], NEW w \in Worker, NEW p \in Pc, Go(w, p)
    PROVE  worker' \in [Worker -> Goroutine]
<1>1. [worker[w] EXCEPT !.pc = p] \in Goroutine
    BY DEF Goroutine
<1>. QED
    BY <1>1, BecomesTypes DEF Go

LEMMA ClientTypes ==
    ASSUME QueueInv, NEW w \in Worker, ClientStep(w)
    PROVE  TypeOK'
<1>. DEFINE g == worker[w]
<1>0. /\ TypeOK /\ g \in Goroutine
      /\ g.after \in {"send", "ok", "failed"} /\ g.after \in Pc /\ g.sends \in 0 .. MaxRetries
      /\ 0 \in 0 .. Threshold
    BY Constants DEF QueueInv, TypeOK, Goroutine, Pc
<1>. USE <1>0 DEF TypeOK, queue, breaker
<1>a. \A p \in {"reset", "clear", "send", "store", "trip", "stamp", "wall", "ext", "again",
                "ok", "failed", "open"} : p \in Pc
    BY DEF Pc
<1>1. CASE Open(w)
    <2>1. CASE Cooled
        BY <1>1, <1>a, <2>1, Assigned, BecomesTypes DEF Open
    <2>2. CASE ~Cooled
        BY <1>1, <1>a, <2>2, GoTypes DEF Open
    <2>. QED
        BY <2>1, <2>2
<1>2. CASE ResetFailures(w)
    BY <1>2, <1>a, GoTypes DEF ResetFailures
<1>3. CASE ClearOpenedAt(w)
    <2>1. openedAt' \in Time
        BY <1>3 DEF ClearOpenedAt, Time, ZeroTime
    <2>2. [g EXCEPT !.pc = g.after, !.after = "ok"] \in Goroutine
        BY Assigned
    <2>. QED
        BY <1>3, <2>1, <2>2, BecomesTypes DEF ClearOpenedAt
<1>4. CASE Answered(w, "ok") \/ Answered(w, "failed")
    BY <1>4, <1>a, Assigned, BecomesTypes DEF Answered
<1>5. CASE NotAnswered(w)
    BY <1>5, <1>a, Assigned, BecomesTypes DEF NotAnswered
<1>6. CASE StoreFailures(w)
    <2>1. failures' \in 0 .. Threshold
        BY <1>6, Constants DEF StoreFailures, Goroutine
    <2>2. [g EXCEPT !.pc = "trip", !.seen = 0] \in Goroutine
        BY <1>a, Assigned
    <2>. QED
        BY <1>6, <2>1, <2>2, BecomesTypes DEF StoreFailures
<1>7. CASE Trip(w)
    BY <1>7, <1>a, GoTypes DEF Trip
<1>8. CASE Stamp(w)
    BY <1>8, <1>a, GoTypes DEF Stamp
<1>9. CASE StampWall(w) \/ StampExt(w)
    <2>1. openedAt' \in Time
        BY <1>9 DEF StampWall, StampExt, Time
    <2>. QED
        BY <1>9, <1>a, <2>1, GoTypes DEF StampWall, StampExt
<1>10. CASE Again(w)
    <2>1. g.sends + 1 \in 0 .. MaxRetries
        BY <1>10, Constants DEF Again, TriesLeft
    <2>2. [g EXCEPT !.pc = "send", !.sends = g.sends + 1] \in Goroutine
        BY <1>a, <2>1, Assigned
    <2>. QED
        BY <1>10, <2>2, BecomesTypes DEF Again
<1>11. CASE GiveUp(w)
    BY <1>11, <1>a, GoTypes DEF GiveUp
<1>. QED
    BY <1>1, <1>2, <1>3, <1>4, <1>5, <1>6, <1>7, <1>8, <1>9, <1>10, <1>11 DEF ClientStep

LEMMA QueueTypes ==
    ASSUME QueueInv, NEW w \in Worker, NEW k \in Key,
           Dispatch(w, k) \/ QueueStep(w) \/ AskRetry(w, k)
    PROVE  TypeOK'
<1>. DEFINE g == worker[w]
<1>0. TypeOK /\ g \in Goroutine /\ g.key \in Key /\ g.attempt \in 0 .. MaxAttempts
    BY DEF QueueInv, TypeOK, Goroutine
<1>. USE <1>0 DEF TypeOK, queue, breaker
<1>a. BeforeRequest \in Pc /\ "sleep" \in Pc /\ "done" \in Pc /\ 1 \in 0 .. MaxRetries
    BY Constants DEF Pc, BeforeRequest
<1>b. ASSUME NEW h \in Key, Enqueue(w, h)
      PROVE  worker' \in [Worker -> Goroutine] /\ scheduled' \subseteq Key
             /\ fate' \in [Key -> {"none", "open", "accepted", "dead"}]
    <2>1. [Idle EXCEPT !.pc = "sleep", !.key = h, !.retry = TRUE] \in Goroutine
        BY <1>a, IdleIsGoroutine DEF Goroutine
    <2>2. Idle \in Goroutine
        BY IdleIsGoroutine
    <2>. QED
        BY <1>b, <2>1, <2>2, BecomesTypes DEF Enqueue
<1>1. CASE Dispatch(w, k)
    <2>1. [Idle EXCEPT !.pc = BeforeRequest, !.key = k, !.sends = 1] \in Goroutine
        BY <1>a, IdleIsGoroutine DEF Goroutine
    <2>. QED
        BY <1>1, <2>1, BecomesTypes DEF Dispatch
<1>2. CASE RequestOk(w)
    BY <1>2, IdleIsGoroutine, BecomesTypes DEF RequestOk
<1>3. CASE RequestFailed(w)
    BY <1>3, <1>b DEF RequestFailed, Enqueue
<1>4. CASE AskRetry(w, k)
    BY <1>4, <1>b DEF AskRetry, Enqueue
<1>5. CASE Attempt(w)
    <2>1. g.attempt + 1 \in 0 .. MaxAttempts
        BY <1>5, Constants DEF Attempt, SleepersGoOn, QueueInv
    <2>2. [g EXCEPT !.pc = BeforeRequest, !.attempt = g.attempt + 1, !.sends = 1] \in Goroutine
        BY <1>a, <2>1 DEF Goroutine
    <2>. QED
        BY <1>5, <2>2, BecomesTypes DEF Attempt
<1>6. CASE TaskSucceeded(w)
    BY <1>6, <1>a, GoTypes DEF TaskSucceeded
<1>7. CASE AttemptFailed(w)
    BY <1>7, <1>a, GoTypes DEF AttemptFailed
<1>8. CASE TaskDone(w)
    BY <1>8, IdleIsGoroutine, BecomesTypes DEF TaskDone
<1>. QED
    BY <1>1, <1>2, <1>3, <1>4, <1>5, <1>6, <1>7, <1>8 DEF QueueStep

-----------------------------------------------------------------------------
(* Goroutines and the queue.                                               *)

\* What a goroutine that was given the state g is.
LEMMA Became ==
    ASSUME TypeOK, NEW w \in Worker, NEW g, Becomes(w, g)
    PROVE  worker'[w] = g /\ \A v \in Worker : v # w => worker'[v] = worker[v]
BY DEF Becomes, TypeOK

\* A step in the middle of a command leaves the runners of every key as they are.
LEMMA MovesKeepRunners ==
    ASSUME NEW w \in Worker, Moves(w), NEW k \in Key
    PROVE  Runners(k)' = Runners(k)
BY DEF Moves, Runners, At

\* It is one of those when it does not end and keeps its command and its kind.
LEMMA BecameMoves ==
    ASSUME TypeOK, NEW w \in Worker, NEW g, Becomes(w, g), ~At(w, "idle"),
           g.pc # "idle", g.key = worker[w].key, g.retry = worker[w].retry
    PROVE  Moves(w) /\ worker'[w] = g
BY Became DEF Moves

\* What Go does to a goroutine.
LEMMA GoMoves ==
    ASSUME TypeOK, NEW w \in Worker, NEW p, Go(w, p), ~At(w, "idle"), p # "idle"
    PROVE  Moves(w) /\ worker'[w].pc = p
<1>. DEFINE h == [worker[w] EXCEPT !.pc = p]
<1>1. h.pc = p /\ h.key = worker[w].key /\ h.retry = worker[w].retry
    BY DEF TypeOK, Goroutine
<1>2. Becomes(w, h)
    BY DEF Go
<1>. HIDE DEF h
<1>. QED
    BY <1>1, <1>2, BecameMoves

\* A step of the client is one, and its goroutine neither sleeps nor is done after it.
LEMMA ClientMoves ==
    ASSUME QueueInv, NEW w \in Worker, ClientStep(w)
    PROVE  Moves(w) /\ worker'[w].pc \notin {"sleep", "done"} /\ UNCHANGED queue
<1>. DEFINE g == worker[w]
<1>0. TypeOK /\ g \in Goroutine /\ g.after \in {"send", "ok", "failed"}
    BY DEF QueueInv, TypeOK, Goroutine
<1>. USE <1>0
<1>a. ASSUME NEW h, Becomes(w, h), ~At(w, "idle"), UNCHANGED queue,
             h.pc \notin {"idle", "sleep", "done"}, h.key = g.key, h.retry = g.retry
      PROVE  Moves(w) /\ worker'[w].pc \notin {"sleep", "done"} /\ UNCHANGED queue
    BY <1>a, BecameMoves
<1>b. ASSUME NEW p, Go(w, p), ~At(w, "idle"), UNCHANGED queue,
             p \notin {"idle", "sleep", "done"}
      PROVE  Moves(w) /\ worker'[w].pc \notin {"sleep", "done"} /\ UNCHANGED queue
    BY <1>b, GoMoves
<1>1. CASE Open(w)
    <2>. DEFINE h == [g EXCEPT !.pc = "reset", !.after = "send"]
    <2>1. h.pc = "reset" /\ h.key = g.key /\ h.retry = g.retry
        BY DEF Goroutine
    <2>2. ~At(w, "idle") /\ UNCHANGED queue /\ (Becomes(w, h) \/ Go(w, "failed"))
        BY <1>1 DEF Open, At
    <2>. HIDE DEF h
    <2>. QED
        BY <2>1, <2>2, <1>a, <1>b
<1>2. CASE ResetFailures(w)
    <2>1. Go(w, "clear") /\ ~At(w, "idle") /\ UNCHANGED queue
        BY <1>2 DEF ResetFailures, At
    <2>. QED
        BY <2>1, <1>b
<1>3. CASE ClearOpenedAt(w)
    <2>. DEFINE h == [g EXCEPT !.pc = g.after, !.after = "ok"]
    <2>1. h.pc \notin {"idle", "sleep", "done"} /\ h.key = g.key /\ h.retry = g.retry
        BY DEF Goroutine
    <2>2. Becomes(w, h) /\ ~At(w, "idle") /\ UNCHANGED queue
        BY <1>3 DEF ClearOpenedAt, At
    <2>. HIDE DEF h
    <2>. QED
        BY <2>1, <2>2, <1>a
<1>4. ASSUME NEW a \in {"ok", "failed"}, Answered(w, a)
      PROVE  Moves(w) /\ worker'[w].pc \notin {"sleep", "done"} /\ UNCHANGED queue
    <2>. DEFINE h == [g EXCEPT !.pc = "reset", !.after = a]
    <2>1. h.pc \notin {"idle", "sleep", "done"} /\ h.key = g.key /\ h.retry = g.retry
        BY DEF Goroutine
    <2>2. Becomes(w, h) /\ ~At(w, "idle") /\ UNCHANGED queue
        BY <1>4 DEF Answered, At
    <2>. HIDE DEF h
    <2>. QED
        BY <2>1, <2>2, <1>a
<1>5. CASE NotAnswered(w)
    <2>. DEFINE h == [g EXCEPT !.pc = "store", !.seen = failures]
    <2>1. h.pc \notin {"idle", "sleep", "done"} /\ h.key = g.key /\ h.retry = g.retry
        BY DEF Goroutine
    <2>2. Becomes(w, h) /\ ~At(w, "idle") /\ UNCHANGED queue
        BY <1>5 DEF NotAnswered, At
    <2>. HIDE DEF h
    <2>. QED
        BY <2>1, <2>2, <1>a
<1>6. CASE StoreFailures(w)
    <2>. DEFINE h == [g EXCEPT !.pc = "trip", !.seen = 0]
    <2>1. h.pc \notin {"idle", "sleep", "done"} /\ h.key = g.key /\ h.retry = g.retry
        BY DEF Goroutine
    <2>2. Becomes(w, h) /\ ~At(w, "idle") /\ UNCHANGED queue
        BY <1>6 DEF StoreFailures, At
    <2>. HIDE DEF h
    <2>. QED
        BY <2>1, <2>2, <1>a
<1>7. CASE Trip(w) \/ Stamp(w) \/ StampWall(w) \/ StampExt(w) \/ GiveUp(w)
    <2>1. ~At(w, "idle") /\ UNCHANGED queue
        BY <1>7 DEF Trip, Stamp, StampWall, StampExt, GiveUp, At
    <2>2. \E p \in {"again", "stamp", "wall", "ext", "failed"} : Go(w, p)
        BY <1>7 DEF Trip, Stamp, StampWall, StampExt, GiveUp
    <2>. QED
        BY <2>1, <2>2, <1>b
<1>8. CASE Again(w)
    <2>. DEFINE h == [g EXCEPT !.pc = "send", !.sends = @ + 1]
    <2>1. h.pc \notin {"idle", "sleep", "done"} /\ h.key = g.key /\ h.retry = g.retry
        BY DEF Goroutine
    <2>2. Becomes(w, h) /\ ~At(w, "idle") /\ UNCHANGED queue
        BY <1>8 DEF Again, At
    <2>. HIDE DEF h
    <2>. QED
        BY <2>1, <2>2, <1>a
<1>. QED
    BY <1>1, <1>2, <1>3, <1>4, <1>5, <1>6, <1>7, <1>8 DEF ClientStep

\* The promises of the queue, without the types.
Promises == OneRunner /\ TaskHasFate /\ SleepersGoOn /\ DoneIsSettled

\* A step in the middle of a command keeps them if a goroutine that begins to sleep
\* has attempts left, one that becomes done has settled its task, and nothing reopens.
LEMMA MovesKeepPromises ==
    ASSUME QueueInv, NEW w \in Worker, Moves(w), UNCHANGED scheduled,
           \A k \in Key : fate'[k] = "open" => fate[k] = "open",
           At(w, "sleep")' => worker'[w].retry /\ worker'[w].attempt < MaxAttempts,
           At(w, "done")' => worker'[w].retry /\ fate'[worker'[w].key] # "open"
    PROVE  Promises'
<1>0. \A v \in Worker : worker[v].key \in Key
    BY DEF QueueInv, TypeOK, Goroutine
<1>1. OneRunner'
    BY MovesKeepRunners DEF QueueInv, OneRunner
<1>2. TaskHasFate'
    BY DEF QueueInv, TaskHasFate
<1>3. SleepersGoOn' /\ DoneIsSettled'
    BY <1>0 DEF QueueInv, Moves, SleepersGoOn, DoneIsSettled, At
<1>. QED
    BY <1>1, <1>2, <1>3 DEF Promises

\* A request begins, or ends without the queue.
LEMMA RequestPromises ==
    ASSUME QueueInv, NEW w \in Worker, NEW g, Becomes(w, g), UNCHANGED <<scheduled, fate>>,
           At(w, "idle") \/ ~worker[w].retry, g.retry = FALSE, g.pc \notin {"sleep", "done"}
    PROVE  Promises'
<1>1. worker'[w] = g /\ \A v \in Worker : v # w => worker'[v] = worker[v]
    BY Became DEF QueueInv
<1>2. \A k \in Key : Runners(k)' = Runners(k)
    BY <1>1 DEF Runners, At
<1>. QED
    BY <1>1, <1>2 DEF QueueInv, Promises, OneRunner, TaskHasFate, SleepersGoOn, DoneIsSettled, At

\* A task begins when its key has no goroutine, and is the key's only one.
LEMMA EnqueuePromises ==
    ASSUME QueueInv, NEW w \in Worker, NEW k \in Key, Enqueue(w, k),
           At(w, "idle") \/ ~worker[w].retry
    PROVE  Promises'
<1>1. CASE Accepts(k)
    <2>. DEFINE g == [Idle EXCEPT !.pc = "sleep", !.key = k, !.retry = TRUE]
    <2>1. g.pc = "sleep" /\ g.key = k /\ g.retry /\ g.attempt < MaxAttempts
        BY Constants DEF Idle
    <2>2. /\ Becomes(w, g) /\ scheduled' = scheduled \cup {k}
          /\ fate' = [fate EXCEPT ![k] = "open"]
        BY <1>1 DEF Enqueue
    <2>. HIDE DEF g
    <2>3. worker'[w] = g /\ \A v \in Worker : v # w => worker'[v] = worker[v]
        BY <2>2, Became DEF QueueInv
    <2>4. Runners(k) = {}
        BY <1>1 DEF QueueInv, OneRunner, Accepts
    <2>5. Runners(k)' = {w}
        BY <2>1, <2>3, <2>4 DEF Runners, At
    <2>6. \A j \in Key : j # k => Runners(j)' = Runners(j)
        BY <2>1, <2>3 DEF Runners, At
    <2>7. OneRunner'
        BY <2>2, <2>5, <2>6 DEF QueueInv, OneRunner
    <2>8. TaskHasFate'
        BY <2>2 DEF QueueInv, TypeOK, TaskHasFate
    <2>9. SleepersGoOn'
        BY <2>1, <2>3 DEF QueueInv, SleepersGoOn, At
    <2>10. DoneIsSettled'
        <3>1. \A v \in Worker : At(v, "done")' => v # w /\ worker'[v] = worker[v] /\ At(v, "done")
            BY <2>1, <2>3 DEF At
        <3>2. \A v \in Worker : At(v, "done") => worker[v].retry /\ worker[v].key # k
            BY <2>4 DEF QueueInv, DoneIsSettled, Runners, At
        <3>3. \A j \in Key : j # k => fate'[j] = fate[j]
            BY <2>2 DEF QueueInv, TypeOK
        <3>4. \A v \in Worker : worker[v].key \in Key
            BY DEF QueueInv, TypeOK, Goroutine
        <3>. QED
            BY <3>1, <3>2, <3>3, <3>4 DEF QueueInv, DoneIsSettled
    <2>. QED
        BY <2>7, <2>8, <2>9, <2>10 DEF Promises
<1>2. CASE ~Accepts(k)
    <2>1. Becomes(w, Idle) /\ UNCHANGED <<scheduled, fate>>
        BY <1>2 DEF Enqueue
    <2>2. Idle.retry = FALSE /\ Idle.pc \notin {"sleep", "done"}
        BY DEF Idle
    <2>. QED
        BY <2>1, <2>2, RequestPromises
<1>. QED
    BY <1>1, <1>2

\* A goroutine between two attempts, or after the last one.
LEMMA TaskPromises ==
    ASSUME QueueInv, NEW w \in Worker, Attempt(w) \/ TaskSucceeded(w) \/ AttemptFailed(w)
    PROVE  Promises'
<1>. DEFINE g == worker[w]
<1>0. /\ TypeOK /\ g \in Goroutine /\ g.key \in Key /\ g.attempt \in 0 .. MaxAttempts
      /\ MaxAttempts \in Nat
    BY Constants DEF QueueInv, TypeOK, Goroutine
<1>1. CASE Attempt(w)
    <2>. DEFINE h == [g EXCEPT !.pc = BeforeRequest, !.attempt = @ + 1, !.sends = 1]
    <2>1. h.pc \in {"send", "open"} /\ h.key = g.key /\ h.retry = g.retry
        BY <1>0 DEF Goroutine, BeforeRequest
    <2>2. Becomes(w, h) /\ ~At(w, "idle") /\ UNCHANGED <<scheduled, fate>>
        BY <1>1 DEF Attempt, At, queue
    <2>. HIDE DEF h
    <2>3. Moves(w) /\ worker'[w] = h
        BY <1>0, <2>1, <2>2, BecameMoves
    <2>. QED
        BY <2>1, <2>2, <2>3, MovesKeepPromises DEF At
<1>2. CASE TaskSucceeded(w)
    <2>1. /\ Go(w, "done") /\ ~At(w, "idle") /\ g.retry /\ UNCHANGED scheduled
          /\ fate' = [fate EXCEPT ![g.key] = "accepted"]
        BY <1>2 DEF TaskSucceeded, At
    <2>2. Moves(w) /\ worker'[w].pc = "done"
        BY <1>0, <2>1, GoMoves
    <2>3. \A k \in Key : fate'[k] = IF k = g.key THEN "accepted" ELSE fate[k]
        BY <1>0, <2>1 DEF TypeOK
    <2>4. worker'[w].retry /\ worker'[w].key = g.key
        BY <2>1, <2>2 DEF Moves
    <2>. QED
        BY <1>0, <2>1, <2>2, <2>3, <2>4, MovesKeepPromises DEF At
<1>3. CASE AttemptFailed(w)
    <2>0. ~At(w, "idle") /\ g.retry /\ UNCHANGED scheduled
        BY <1>3 DEF AttemptFailed, At
    <2>1. CASE g.attempt = MaxAttempts
        <3>1. Go(w, "done") /\ fate' = [fate EXCEPT ![g.key] = "dead"]
            BY <1>3, <2>1 DEF AttemptFailed
        <3>2. Moves(w) /\ worker'[w].pc = "done"
            BY <1>0, <2>0, <3>1, GoMoves
        <3>3. \A k \in Key : fate'[k] = IF k = g.key THEN "dead" ELSE fate[k]
            BY <1>0, <3>1 DEF TypeOK
        <3>4. worker'[w].retry /\ worker'[w].key = g.key
            BY <2>0, <3>2 DEF Moves
        <3>. QED
            BY <1>0, <2>0, <3>2, <3>3, <3>4, MovesKeepPromises DEF At
    <2>2. CASE g.attempt # MaxAttempts
        <3>. DEFINE h == [g EXCEPT !.pc = "sleep"]
        <3>1. /\ h.pc = "sleep" /\ h.key = g.key /\ h.retry = g.retry
              /\ h.attempt < MaxAttempts
            BY <1>0, <2>2 DEF Goroutine
        <3>2. Becomes(w, h) /\ UNCHANGED fate
            BY <1>3, <2>2 DEF AttemptFailed, Go
        <3>. HIDE DEF h
        <3>3. Moves(w) /\ worker'[w] = h
            BY <1>0, <2>0, <3>1, <3>2, BecameMoves
        <3>. QED
            BY <2>0, <3>1, <3>2, <3>3, MovesKeepPromises DEF At
    <2>. QED
        BY <2>1, <2>2
<1>. QED
    BY <1>1, <1>2, <1>3

\* The key of a task becomes free with its only goroutine.
LEMMA TaskDonePromises ==
    ASSUME QueueInv, NEW w \in Worker, TaskDone(w), NEW k \in Key, k = worker[w].key
    PROVE  Promises'
<1>1. /\ At(w, "done") /\ worker[w].retry /\ fate[k] # "open"
      /\ Becomes(w, Idle) /\ scheduled' = scheduled \ {k} /\ UNCHANGED fate
    BY DEF TaskDone, QueueInv, DoneIsSettled, TypeOK, Goroutine, breaker
<1>2. worker'[w] = Idle /\ \A v \in Worker : v # w => worker'[v] = worker[v]
    BY <1>1, Became DEF QueueInv
<1>3. Idle.pc = "idle"
    BY DEF Idle
<1>4. \A v \in Runners(k) : v = w
    BY <1>1 DEF QueueInv, OneRunner, Runners, At
<1>5. Runners(k)' = {}
    BY <1>2, <1>3, <1>4 DEF Runners, At
<1>6. \A j \in Key : j # k => Runners(j)' = Runners(j)
    BY <1>2, <1>3 DEF Runners, At
<1>7. OneRunner'
    BY <1>1, <1>5, <1>6 DEF QueueInv, OneRunner
<1>8. TaskHasFate'
    BY <1>1 DEF QueueInv, TaskHasFate
<1>9. SleepersGoOn' /\ DoneIsSettled'
    BY <1>1, <1>2, <1>3 DEF QueueInv, SleepersGoOn, DoneIsSettled, At
<1>. QED
    BY <1>7, <1>8, <1>9 DEF Promises

-----------------------------------------------------------------------------
\* Every step keeps the invariant.
LEMMA NextQueueInv == QueueInv /\ [Next]_vars => QueueInv'
<1>. SUFFICES ASSUME QueueInv, [Next]_vars PROVE TypeOK' /\ Promises'
    BY DEF QueueInv, Promises
<1>1. ASSUME NEW w \in Worker, ClientStep(w)
      PROVE  TypeOK' /\ Promises'
    <2>1. Moves(w) /\ worker'[w].pc \notin {"sleep", "done"} /\ UNCHANGED queue
        BY <1>1, ClientMoves
    <2>. QED
        BY <1>1, <2>1, ClientTypes, MovesKeepPromises DEF queue, At
<1>2. ASSUME NEW w \in Worker, NEW k \in Key, Dispatch(w, k)
      PROVE  TypeOK' /\ Promises'
    <2>. DEFINE g == [Idle EXCEPT !.pc = BeforeRequest, !.key = k, !.sends = 1]
    <2>1. g.retry = FALSE /\ g.pc \notin {"sleep", "done"}
        BY DEF Idle, BeforeRequest
    <2>2. Becomes(w, g) /\ At(w, "idle") /\ UNCHANGED <<scheduled, fate>>
        BY <1>2 DEF Dispatch, queue
    <2>. HIDE DEF g
    <2>. QED
        BY <1>2, <2>1, <2>2, QueueTypes, RequestPromises
<1>3. ASSUME NEW w \in Worker, RequestOk(w)
      PROVE  Promises'
    <2>1. Becomes(w, Idle) /\ ~worker[w].retry /\ UNCHANGED <<scheduled, fate>>
        BY <1>3 DEF RequestOk, queue
    <2>2. Idle.retry = FALSE /\ Idle.pc \notin {"sleep", "done"}
        BY DEF Idle
    <2>. QED
        BY <2>1, <2>2, RequestPromises
<1>4. ASSUME NEW w \in Worker, RequestFailed(w)
      PROVE  Promises'
    <2>1. worker[w].key \in Key
        BY DEF QueueInv, TypeOK, Goroutine
    <2>. QED
        BY <1>4, <2>1, EnqueuePromises DEF RequestFailed
<1>5. ASSUME NEW w \in Worker, NEW k \in Key, AskRetry(w, k)
      PROVE  TypeOK' /\ Promises'
    BY <1>5, QueueTypes, EnqueuePromises DEF AskRetry
<1>6. ASSUME NEW w \in Worker, QueueStep(w)
      PROVE  TypeOK' /\ Promises'
    <2>1. TypeOK'
        BY <1>6, QueueTypes, QueueAssumption
    <2>2. worker[w].key \in Key
        BY DEF QueueInv, TypeOK, Goroutine
    <2>3. Promises'
        BY <1>3, <1>4, <1>6, <2>2, TaskPromises, TaskDonePromises DEF QueueStep
    <2>. QED
        BY <2>1, <2>3
<1>7. CASE CooldownPasses
    <2>1. TypeOK'
        BY <1>7 DEF CooldownPasses, QueueInv, TypeOK, queue, Time
    <2>2. Promises'
        BY <1>7 DEF CooldownPasses, QueueInv, Promises, OneRunner, Runners, TaskHasFate,
            SleepersGoOn, DoneIsSettled, At, queue
    <2>. QED
        BY <2>1, <2>2
<1>8. CASE UNCHANGED vars
    <2>1. TypeOK'
        BY <1>8 DEF vars, QueueInv, TypeOK
    <2>2. Promises'
        BY <1>8 DEF vars, QueueInv, Promises, OneRunner, Runners, TaskHasFate,
            SleepersGoOn, DoneIsSettled, At
    <2>. QED
        BY <2>1, <2>2
<1>. QED
    BY <1>1, <1>2, <1>5, <1>6, <1>7, <1>8 DEF Next, Ask

\* QueueInv is an invariant of the queue.
THEOREM QueueInvariance == Spec => []QueueInv
BY InitQueueInv, NextQueueInv, PTL DEF Spec

\* The breaker's count stays within its threshold, its opening time one the two unlocked
\* writes can make, and a goroutine within its attempts and tries (citrine_client.go).
THEOREM LimitsKept == Spec => []TypeOK
<1>1. QueueInv => TypeOK
    BY DEF QueueInv
<1>. QED
    BY <1>1, QueueInvariance, PTL

\* At most one goroutine repeats a command, and a key is scheduled exactly as long as it
\* has one: Enqueue refuses a task for no other reason.
THEOREM OneGoroutinePerCommand == Spec => []OneRunner
<1>1. QueueInv => OneRunner
    BY DEF QueueInv
<1>. QED
    BY <1>1, QueueInvariance, PTL

\* No task leaves the queue without having been accepted or become a dead letter.
THEOREM NoTaskIsLost == Spec => []TaskHasFate
<1>1. QueueInv => TaskHasFate
    BY DEF QueueInv
<1>. QED
    BY <1>1, QueueInvariance, PTL
=============================================================================
