----------------------------- MODULE CommandQueue -----------------------------
(***************************************************************************)
(* How a start or stop command gets to CitrineOS: a request sends it, the    *)
(* retry queue repeats it in a goroutine of its own, and both go through one *)
(* HTTP client with a circuit breaker.  The queue has a mutex.  The breaker  *)
(* has none: its failure count and its opening time are read and written by  *)
(* every goroutine, one memory access at a time.                             *)
(***************************************************************************)
EXTENDS Integers

CONSTANTS
    Key,            \* commands, by the key of their retry task
    Worker,         \* goroutines that may be sending commands at once
    MaxAttempts,    \* RetryQueue.maxAttempts
    MaxRetries,     \* HTTPCitrineClient.maxRetries
    Threshold       \* HTTPCitrineClient.circuitThreshold

\* A limit that is not positive in the configuration is replaced by a default.
Limit == Nat \ {0}

ASSUME QueueAssumption == Key # {} /\ {MaxAttempts, MaxRetries, Threshold} \subseteq Limit

VARIABLES
    scheduled,      \* RetryQueue.scheduled
    failures,       \* consecutiveFailures
    openedAt,       \* circuitOpenedAt
    worker,
    fate            \* what became of the last task of a key: "dead" is one in deadLetter

vars == <<scheduled, failures, openedAt, worker, fate>>

\* Two words of a time.Time.  A monotonic reading in ext means nothing without the
\* flag in wall.
Time == [wall : BOOLEAN, ext : {"zero", "recent", "past"}]

ZeroTime == [wall |-> FALSE, ext |-> "zero"]

Pc == {"idle", "open", "reset", "clear", "send", "store", "trip",
       "stamp", "wall", "ext", "again", "ok", "failed", "sleep", "done"}

\* retry: the goroutine of a task, not a request.  after: where resetFailures returns to.
Idle == [pc |-> "idle", key |-> CHOOSE k \in Key : TRUE, retry |-> FALSE,
         attempt |-> 0, sends |-> 0, seen |-> 0, after |-> "ok"]

Goroutine == [pc : Pc, key : Key, retry : BOOLEAN, attempt : 0..MaxAttempts,
              sends : 0..MaxRetries, seen : 0..Threshold, after : {"send", "ok", "failed"}]

TypeOK ==
    /\ scheduled \subseteq Key
    /\ failures \in 0..Threshold
    /\ openedAt \in Time
    /\ worker \in [Worker -> Goroutine]
    /\ fate \in [Key -> {"none", "open", "accepted", "dead"}]

Init ==
    /\ scheduled = {}
    /\ failures = 0
    /\ openedAt = ZeroTime
    /\ worker = [w \in Worker |-> Idle]
    /\ fate = [k \in Key |-> "none"]

At(w, pc) == worker[w].pc = pc
Becomes(w, g) == worker' = [worker EXCEPT ![w] = g]
Go(w, pc)     == Becomes(w, [worker[w] EXCEPT !.pc = pc])

queue   == <<scheduled, fate>>
breaker == <<failures, openedAt>>

Closed == failures < Threshold

\* Whether the breaker has to be asked for its time.
BeforeRequest == IF Closed THEN "send" ELSE "open"

-----------------------------------------------------------------------------
(* Requests.                                                               *)

\* StartCharging or StopCharging sends a command.
Dispatch(w, k) ==
    /\ At(w, "idle")
    /\ Becomes(w, [Idle EXCEPT !.pc = BeforeRequest, !.key = k, !.sends = 1])
    /\ UNCHANGED <<queue, breaker>>

RequestOk(w) ==
    /\ At(w, "ok") /\ ~worker[w].retry
    /\ Becomes(w, Idle)
    /\ UNCHANGED <<queue, breaker>>

-----------------------------------------------------------------------------
(* The retry queue.                                                        *)

\* Mutant: a key that is scheduled already is scheduled again.
AcceptsAny(k) == TRUE

Accepts(k) == k \notin scheduled

\* The caller has nothing more to do with the queue: its worker stands for the
\* goroutine that Enqueue starts.
Enqueue(w, k) ==
    /\ IF Accepts(k)
       THEN /\ scheduled' = scheduled \cup {k}
            /\ fate' = [fate EXCEPT ![k] = "open"]
            /\ Becomes(w, [Idle EXCEPT !.pc = "sleep", !.key = k, !.retry = TRUE])
       ELSE /\ Becomes(w, Idle)
            /\ UNCHANGED <<scheduled, fate>>
    /\ UNCHANGED breaker

\* A request failed.
RequestFailed(w) ==
    /\ At(w, "failed") /\ ~worker[w].retry
    /\ Enqueue(w, worker[w].key)

\* A sync goroutine found the stop pending and leaves it to the queue at once.
AskRetry(w, k) ==
    /\ At(w, "idle")
    /\ Enqueue(w, k)

\* The sleep between two attempts is over, or the first attempt begins.
Attempt(w) ==
    /\ At(w, "sleep")
    /\ Becomes(w, [worker[w] EXCEPT !.pc = BeforeRequest, !.attempt = @ + 1, !.sends = 1])
    /\ UNCHANGED <<queue, breaker>>

TaskSucceeded(w) ==
    /\ At(w, "ok") /\ worker[w].retry
    /\ fate' = [fate EXCEPT ![worker[w].key] = "accepted"]
    /\ Go(w, "done")
    /\ UNCHANGED <<scheduled, breaker>>

\* Mutant: the attempts are not counted to their end.
AttemptFailedForever(w) ==
    /\ At(w, "failed") /\ worker[w].retry
    /\ Becomes(w, [worker[w] EXCEPT !.pc = "sleep", !.attempt = 0])
    /\ UNCHANGED <<queue, breaker>>

\* Mutant: the loop is left after the last attempt without a dead letter.
AttemptFailedNoLetter(w) ==
    /\ At(w, "failed") /\ worker[w].retry
    /\ Go(w, IF worker[w].attempt = MaxAttempts THEN "done" ELSE "sleep")
    /\ UNCHANGED <<queue, breaker>>

AttemptFailed(w) ==
    LET k == worker[w].key IN
    /\ At(w, "failed") /\ worker[w].retry
    /\ IF worker[w].attempt = MaxAttempts
       THEN /\ fate' = [fate EXCEPT ![k] = "dead"]
            /\ Go(w, "done")
       ELSE Go(w, "sleep") /\ UNCHANGED fate
    /\ UNCHANGED <<scheduled, breaker>>

\* The deferred delete.
TaskDone(w) ==
    /\ At(w, "done")
    /\ scheduled' = scheduled \ {worker[w].key}
    /\ Becomes(w, Idle)
    /\ UNCHANGED <<fate, breaker>>

-----------------------------------------------------------------------------
(* The HTTP client: doJSON with beforeRequest, recordFailure, resetFailures. *)

IsZero == openedAt = ZeroTime

\* A time whose flag alone is written reads as the start of the process, one whose
\* reading alone is written as a date far in the future.
Torn   == ~openedAt.wall /\ openedAt.ext # "zero"
Cooled == ~Torn /\ openedAt.ext # "recent"

\* Mutant: after the cooldown requests pass, and the count stays.
OpenPasses(w) ==
    /\ At(w, "open")
    /\ IF Cooled
       THEN Go(w, "send")
       ELSE Go(w, "failed")
    /\ UNCHANGED <<queue, breaker>>

Open(w) ==
    /\ At(w, "open")
    /\ IF Cooled
       THEN Becomes(w, [worker[w] EXCEPT !.pc = "reset", !.after = "send"])
       ELSE Go(w, "failed")
    /\ UNCHANGED <<queue, breaker>>

ResetFailures(w) ==
    /\ At(w, "reset")
    /\ failures' = 0
    /\ Go(w, "clear")
    /\ UNCHANGED <<queue, openedAt>>

ClearOpenedAt(w) ==
    /\ At(w, "clear")
    /\ openedAt' = ZeroTime
    /\ Becomes(w, [worker[w] EXCEPT !.pc = worker[w].after, !.after = "ok"])
    /\ UNCHANGED <<queue, failures>>

\* CitrineOS takes the command, or turns it down with an answer below 500.
Answered(w, after) ==
    /\ At(w, "send")
    /\ Becomes(w, [worker[w] EXCEPT !.pc = "reset", !.after = after])
    /\ UNCHANGED <<queue, breaker>>

\* A status of 500 or more, no answer, or an answer that cannot be read.
\* recordFailure begins its increment with a load.
NotAnswered(w) ==
    /\ At(w, "send")
    /\ Becomes(w, [worker[w] EXCEPT !.pc = "store", !.seen = failures])
    /\ UNCHANGED <<queue, breaker>>

\* The count is only compared with the threshold: it stops there.
StoreFailures(w) ==
    /\ At(w, "store")
    /\ failures' = IF worker[w].seen < Threshold THEN worker[w].seen + 1 ELSE Threshold
    /\ Becomes(w, [worker[w] EXCEPT !.pc = "trip", !.seen = 0])
    /\ UNCHANGED <<queue, openedAt>>

Trip(w) ==
    /\ At(w, "trip")
    /\ Go(w, IF Closed THEN "again" ELSE "stamp")
    /\ UNCHANGED <<queue, breaker>>

Stamp(w) ==
    /\ At(w, "stamp")
    /\ Go(w, IF IsZero THEN "wall" ELSE "again")
    /\ UNCHANGED <<queue, breaker>>

StampWall(w) ==
    /\ At(w, "wall")
    /\ openedAt' = [openedAt EXCEPT !.wall = TRUE]
    /\ Go(w, "ext")
    /\ UNCHANGED <<queue, failures>>

StampExt(w) ==
    /\ At(w, "ext")
    /\ openedAt' = [openedAt EXCEPT !.ext = "recent"]
    /\ Go(w, "again")
    /\ UNCHANGED <<queue, failures>>

\* Mutant: one request too many.
TriesLeftOneMore(w) == worker[w].sends <= MaxRetries

TriesLeft(w) == worker[w].sends < MaxRetries

Again(w) ==
    /\ At(w, "again") /\ TriesLeft(w)
    /\ Becomes(w, [worker[w] EXCEPT !.pc = "send", !.sends = @ + 1])
    /\ UNCHANGED <<queue, breaker>>

\* The last try failed, the answer broke off, or the context ended during the backoff.
GiveUp(w) ==
    /\ At(w, "again")
    /\ Go(w, "failed")
    /\ UNCHANGED <<queue, breaker>>

\* The cooldown passes.
CooldownPasses ==
    /\ openedAt.ext = "recent"
    /\ openedAt' = [openedAt EXCEPT !.ext = "past"]
    /\ UNCHANGED <<queue, failures, worker>>

-----------------------------------------------------------------------------
ClientStep(w) ==
    \/ Open(w) \/ ResetFailures(w) \/ ClearOpenedAt(w)
    \/ Answered(w, "ok") \/ Answered(w, "failed") \/ NotAnswered(w)
    \/ StoreFailures(w) \/ Trip(w) \/ Stamp(w)
    \/ StampWall(w) \/ StampExt(w) \/ Again(w) \/ GiveUp(w)

QueueStep(w) ==
    \/ RequestOk(w) \/ RequestFailed(w)
    \/ Attempt(w) \/ TaskSucceeded(w) \/ AttemptFailed(w) \/ TaskDone(w)

Ask == \E w \in Worker, k \in Key : Dispatch(w, k)

Next ==
    \/ Ask
    \/ \E w \in Worker : ClientStep(w) \/ QueueStep(w) \/ \E k \in Key : AskRetry(w, k)
    \/ CooldownPasses

Spec == Init /\ [][Next]_vars

\* Goroutines run, requests and sleeps are bounded by timeouts, time passes, and riders
\* keep asking.
Fairness ==
    /\ \A w \in Worker : WF_vars(ClientStep(w) \/ QueueStep(w))
    /\ WF_vars(CooldownPasses)
    /\ SF_vars(Ask)

FairSpec == Spec /\ Fairness

-----------------------------------------------------------------------------
(* What the queue and the breaker promise.                                 *)

Runners(k) ==
    {w \in Worker : worker[w].retry /\ worker[w].key = k /\ ~At(w, "idle")}

\* One goroutine at a time repeats a command, and scheduled says whether there is one.
OneRunner ==
    \A k \in Key :
        /\ \A v, w \in Runners(k) : v = w
        /\ k \in scheduled <=> Runners(k) # {}

\* A task that has left the queue was accepted by CitrineOS or is a dead letter.
TaskHasFate ==
    \A k \in Key : fate[k] = "open" => k \in scheduled

\* A task does not stay in the queue, whatever the client and the breaker do.
TasksEnd == \A k \in Key : (k \in scheduled) ~> (k \notin scheduled)

\* While riders keep asking, the breaker does not stay open, however the unlocked
\* accesses interleave, except with an opening time that two goroutines wrote halves of.
BreakerCloses == ~Closed ~> (Closed \/ Torn)
=============================================================================
