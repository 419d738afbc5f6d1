----------------------------- MODULE LiveUpdates -----------------------------
(***************************************************************************)
(* The websockets of one session.  A goroutine that has changed the row      *)
(* publishes what it knows to every connection of the hub, under the read    *)
(* half of the hub's lock; a rider's connection is added and removed under   *)
(* the write half, and is sent the row once in between, under none.  Writes  *)
(* have no deadline, so a rider who does not read holds up the writer; and a *)
(* connection stands one writer at a time.                                  *)
(*                                                                         *)
(* Of the row only one thing is kept, whether the session is over (stopped  *)
(* or failed), which it stays; a message says either that or not.           *)
(***************************************************************************)
EXTENDS Naturals

CONSTANTS
    Handler,    \* requests to stop the session, which publish as they answer
    Webhook,    \* deliveries of webhooks, requests too, which publish after their commit
    Goroutine,  \* the service's own publishers: a poller, a sync goroutine, the sweep
    Sub,        \* websocket connections, one life each
    Null,
    Buffer      \* how many messages a connection takes while nobody reads

Pub == Handler \cup Webhook \cup Goroutine

ASSUME LiveAssumption ==
    /\ Buffer \in Nat \ {0}
    /\ (Handler \cup Webhook) \cap Goroutine = {}
    /\ Pub \cap Sub = {} /\ Null \notin Pub \cup Sub

VARIABLES
    endedBy,    \* who ended the session in the database
    pub,        \* the publications under way
    sub,        \* the handlers of the connections
    conns,      \* the hub's connections
    pending,    \* the handler that has asked for the write lock
    writing,    \* who is writing to a connection
    inbox,      \* how many messages it holds that nobody has read
    told,       \* the live connections that have been written that the session is over
    untold      \* those it was to be written to when the webhook that ended it panicked

vars == <<endedBy, pub, sub, conns, pending, writing, inbox, told, untold>>
wires == <<writing, inbox, told, untold>>

State == {"open", "over"}

\* What the database says of the session.
row == IF endedBy = Null THEN "open" ELSE "over"

SubPc == {"off", "add", "adding", "load", "snapshot", "reading", "remove", "removing", "done"}

Fresh == [pc |-> "off", says |-> Null, up |-> FALSE]
Gone == [pc |-> "done", says |-> Null, up |-> FALSE]
Idle == [pc |-> "idle", says |-> Null, todo |-> {}]
Over == [pc |-> "over", says |-> Null, todo |-> {}]

TypeOK ==
    /\ endedBy \in Pub \cup {Null}
    /\ pub \in [Pub -> [pc : {"idle", "publish", "iterate", "over"},
                        says : State \cup {Null}, todo : SUBSET Sub]]
    /\ sub \in [Sub -> [pc : SubPc, says : State \cup {Null}, up : BOOLEAN]]
    /\ conns \subseteq Sub
    /\ pending \in Sub \cup {Null}
    /\ writing \in [Sub -> Pub \cup Sub \cup {Null}]
    /\ inbox \in [Sub -> 0 .. Buffer]
    /\ told \subseteq Sub /\ untold \subseteq Sub

Init ==
    /\ endedBy = Null
    /\ pub = [p \in Pub |-> Idle]
    /\ sub = [s \in Sub |-> Fresh]
    /\ conns = {}
    /\ pending = Null
    /\ writing = [s \in Sub |-> Null]
    /\ inbox = [s \in Sub |-> 0]
    /\ told = {} /\ untold = {}

-----------------------------------------------------------------------------
(* The hub's lock.  A handler that asks for the write half keeps new readers *)
(* out, and has it when the last reader has gone; what it does with it takes *)
(* one step.                                                                *)

Readers == {p \in Pub : pub[p].pc = "iterate"}

CanRLock == pending = Null

\* Mutant: the map is changed without waiting for those who iterate over it.
HasLockAtOnce(s) == pending = s

HasLock(s) == pending = s /\ Readers = {}

Goto(s, pc) == sub' = [sub EXCEPT ![s].pc = pc]
Leave(s) == sub' = [sub EXCEPT ![s].pc = "remove", ![s].says = Null]

-----------------------------------------------------------------------------
(* Changes of the row, and their publication.                               *)

Announce(p, says) ==
    /\ pub[p].pc = "idle"
    /\ pub' = [pub EXCEPT ![p] = [pc |-> "publish", says |-> says, todo |-> {}]]
    /\ UNCHANGED <<sub, conns, pending, wires>>

\* StopCharging answers with the row as it reads it at the end.
StopReply(p) == p \in Handler /\ Announce(p, row) /\ UNCHANGED endedBy

\* A sync goroutine that saw a live transaction, a poller that gives up, an event.
Progress(p) == p \in Goroutine \cup Webhook /\ Announce(p, "open") /\ UNCHANGED endedBy

\* A poller or a sync goroutine that settles the session, the sweep, a stop_transaction.
Finish(p) == p \in Goroutine \cup Webhook /\ Announce(p, "over")
             /\ endedBy' = IF endedBy = Null THEN p ELSE endedBy

\* A remote_start_result that refuses: published also when the UPDATE found the session in
\* another state and left it alone.
Refusal(p) == p \in Webhook /\ Announce(p, "over") /\ UNCHANGED endedBy

RLock(p) ==
    /\ pub[p].pc = "publish"
    /\ CanRLock
    /\ pub' = [pub EXCEPT ![p].pc = "iterate", ![p].todo = conns]
    /\ UNCHANGED <<endedBy, sub, conns, pending, wires>>

RUnlock(p) ==
    /\ pub[p].pc = "iterate" /\ pub[p].todo = {}
    /\ pub' = [pub EXCEPT ![p] = Over]
    /\ UNCHANGED <<endedBy, sub, conns, pending, wires>>

-----------------------------------------------------------------------------
(* Writing to a connection.                                                *)

\* A goroutine writes to one connection at a time; a publication takes them in the map's
\* order, which is any.
Wants(x, s) ==
    /\ IF x \in Pub THEN s \in pub[x].todo ELSE x = s /\ sub[s].pc = "snapshot"
    /\ \A t \in Sub : writing[t] # x

Says(x) == IF x \in Pub THEN pub[x].says ELSE sub[x].says

BeginWrite(x, s) ==
    /\ Wants(x, s)
    /\ writing[s] = Null
    /\ writing' = [writing EXCEPT ![s] = x]
    /\ UNCHANGED <<endedBy, pub, sub, conns, pending, inbox, told, untold>>

\* Mutant: a write does not wait.
CanWriteAlways(s) == TRUE

\* A write waits for the rider to read, unless the connection is gone: then it fails.
CanWrite(s) == ~sub[s].up \/ inbox[s] < Buffer

EndWrite(x, s) ==
    /\ writing[s] = x
    /\ CanWrite(s)
    /\ writing' = [writing EXCEPT ![s] = Null]
    /\ IF sub[s].up
       THEN /\ inbox' = [inbox EXCEPT ![s] = @ + 1]
            /\ told' = IF Says(x) = "over" THEN told \cup {s} ELSE told
       ELSE UNCHANGED <<inbox, told>>
    /\ IF x \in Pub
       THEN pub' = [pub EXCEPT ![x].todo = @ \ {s}] /\ UNCHANGED sub
       ELSE Goto(s, "reading") /\ UNCHANGED pub
    /\ UNCHANGED <<endedBy, conns, pending, untold>>

Collision(x, s) == Wants(x, s) /\ writing[s] # Null

\* A panic nobody recovers ends the process; what starts in its place has no connections.
ProcessEnds ==
    /\ pub' = [p \in Pub |-> IF pub[p] = Idle THEN Idle ELSE Over]
    /\ sub' = [s \in Sub |-> IF sub[s].pc = "off" THEN sub[s] ELSE Gone]
    /\ conns' = {} /\ pending' = Null
    /\ writing' = [s \in Sub |-> Null] /\ inbox' = [s \in Sub |-> 0] /\ told' = {}
    /\ UNCHANGED <<endedBy, untold>>

\* gorilla/websocket panics when it notices a second writer.  The recovery of a request
\* runs what was deferred, and the connections it had still to write to get nothing, the
\* end of the session included if a webhook brought it; in a goroutine of the service
\* nothing recovers.
Panic(x, s) ==
    /\ Collision(x, s)
    /\ \/ x \in Goroutine /\ ProcessEnds
       \/ /\ x \in Handler \cup Webhook
          /\ pub' = [pub EXCEPT ![x] = Over]
          /\ untold' = IF endedBy = x THEN untold \cup pub[x].todo ELSE untold
          /\ UNCHANGED <<endedBy, sub, conns, pending, writing, inbox, told>>
       \/ x \in Sub /\ Leave(s) /\ UNCHANGED <<endedBy, pub, conns, pending, wires>>

\* It may not notice: the frames are mixed up, and the rider's end breaks the connection.
Garble(x, s) ==
    /\ Collision(x, s)
    /\ sub' = [sub EXCEPT ![s].up = FALSE,
                          ![s].pc = IF x = s THEN "reading" ELSE @]
    /\ inbox' = [inbox EXCEPT ![s] = 0] /\ told' = told \ {s}
    /\ pub' = IF x \in Pub THEN [pub EXCEPT ![x].todo = @ \ {s}] ELSE pub
    /\ UNCHANGED <<endedBy, conns, pending, writing, untold>>

-----------------------------------------------------------------------------
(* Connections (LiveUpdatesWS).                                            *)

Upgrade(s) ==
    /\ sub[s].pc = "off"
    /\ sub' = [sub EXCEPT ![s].pc = "add", ![s].up = TRUE]
    /\ UNCHANGED <<endedBy, pub, conns, pending, wires>>

\* Lock, in Add or in Remove: one handler at a time waits for the readers.
AskLock(s) ==
    /\ pending = Null
    /\ \/ sub[s].pc = "add" /\ Goto(s, "adding")
       \/ sub[s].pc = "remove" /\ Goto(s, "removing")
    /\ pending' = s
    /\ UNCHANGED <<endedBy, pub, conns, wires>>

Add(s) ==
    /\ sub[s].pc = "adding" /\ HasLock(s)
    /\ conns' = conns \cup {s}
    /\ pending' = Null
    /\ Goto(s, "load")
    /\ UNCHANGED <<endedBy, pub, wires>>

\* Mutant: the row is read before the connection is added.
LoadFirst(s) ==
    \/ /\ sub[s].pc = "add" /\ sub[s].says = Null
       /\ sub' = [sub EXCEPT ![s].says = row]
       /\ UNCHANGED <<endedBy, pub, conns, pending, wires>>
    \/ /\ sub[s].pc = "load"
       /\ sub' = [sub EXCEPT ![s].pc = "snapshot"]
       /\ UNCHANGED <<endedBy, pub, conns, pending, wires>>

\* GetSessionByID for the snapshot; when it fails there is none.
Load(s) ==
    /\ sub[s].pc = "load"
    /\ \/ sub' = [sub EXCEPT ![s].pc = "snapshot", ![s].says = row]
       \/ Goto(s, "reading")
    /\ UNCHANGED <<endedBy, pub, conns, pending, wires>>

\* ReadMessage returns an error once the rider's end is gone.
ReadFails(s) ==
    /\ sub[s].pc = "reading" /\ ~sub[s].up
    /\ Leave(s)
    /\ UNCHANGED <<endedBy, pub, conns, pending, wires>>

\* Mutant: a removal keeps the lock.
RemoveKeepsLock(s) ==
    /\ sub[s].pc = "removing" /\ HasLock(s)
    /\ conns' = conns \ {s}
    /\ sub' = [sub EXCEPT ![s] = Gone]
    /\ inbox' = [inbox EXCEPT ![s] = 0] /\ told' = told \ {s}
    /\ UNCHANGED <<endedBy, pub, pending, writing, untold>>

\* Remove, and then Close.
Remove(s) ==
    /\ sub[s].pc = "removing" /\ HasLock(s)
    /\ conns' = conns \ {s}
    /\ pending' = Null
    /\ sub' = [sub EXCEPT ![s] = Gone]
    /\ inbox' = [inbox EXCEPT ![s] = 0] /\ told' = told \ {s}
    /\ UNCHANGED <<endedBy, pub, writing, untold>>

(* The rider's end.                                                        *)

Receive(s) ==
    /\ sub[s].up /\ inbox[s] > 0
    /\ inbox' = [inbox EXCEPT ![s] = @ - 1]
    /\ UNCHANGED <<endedBy, pub, sub, conns, pending, writing, told, untold>>

Disconnect(s) ==
    /\ sub[s].up
    /\ sub' = [sub EXCEPT ![s].up = FALSE]
    /\ inbox' = [inbox EXCEPT ![s] = 0] /\ told' = told \ {s}
    /\ UNCHANGED <<endedBy, pub, conns, pending, writing, untold>>

-----------------------------------------------------------------------------
Change(p) == StopReply(p) \/ Progress(p) \/ Finish(p) \/ Refusal(p)

\* What the process does by itself.
Step(x) ==
    \/ x \in Pub /\ (RLock(x) \/ RUnlock(x))
    \/ x \in Sub /\ (AskLock(x) \/ Add(x) \/ Load(x) \/ ReadFails(x) \/ Remove(x))
    \/ \E s \in Sub : BeginWrite(x, s) \/ EndWrite(x, s) \/ Panic(x, s) \/ Garble(x, s)

Next ==
    \/ \E p \in Pub : Change(p)
    \/ \E x \in Pub \cup Sub : Step(x)
    \/ \E s \in Sub : Upgrade(s) \/ Receive(s) \/ Disconnect(s)

Spec == Init /\ [][Next]_vars

\* Every goroutine runs.  Nothing is assumed of the riders: one may never read, and never
\* leave.
FairSpec == Spec /\ \A x \in Pub \cup Sub : WF_vars(Step(x))

-----------------------------------------------------------------------------
(* What the hub promises.                                                  *)

OnItsWay(s) ==
    \/ s \in told
    \/ \E p \in Pub : /\ pub[p].says = "over"
                      /\ pub[p].pc = "publish" \/ s \in pub[p].todo

\* Every rider who is connected and was sent a first snapshot learns that the session is
\* over, even if it ends while the connection is being added: the row is read after Add,
\* and published after the commit.  One case is excepted, and in it the rider is never
\* told: it was a webhook that ended the session, and its request panicked before it was
\* this connection's turn, and was recovered.
EndIsSeen ==
    \A s \in Sub :
        row = "over" /\ sub[s].pc = "reading" /\ sub[s].up /\ sub[s].says # Null
            => OnItsWay(s) \/ s \in untold

\* No publication writes to a connection its handler has closed: Remove waits for the
\* publications that have seen it, and comes before Close.
NoWriteAfterClose ==
    \A p \in Pub, s \in Sub : s \in pub[p].todo => sub[s].pc # "done"

Stalled == \E s \in Sub : sub[s].up /\ writing[s] # Null /\ inbox[s] = Buffer

Waiting(x) ==
    IF x \in Pub THEN pub[x].pc \in {"publish", "iterate"}
    ELSE sub[x].pc \in {"add", "adding", "remove", "removing"}

\* A publication ends, and a connection is added or removed, unless some rider has
\* stopped reading: the hub's lock is never left behind, whoever panics, and its two
\* halves do not wait for each other.
HubMoves == \A x \in Pub \cup Sub : Waiting(x) ~> (~Waiting(x) \/ Stalled)
=============================================================================
