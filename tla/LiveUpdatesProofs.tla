--------------------------- MODULE LiveUpdatesProofs ---------------------------
(***************************************************************************)
(* What the hub promises, for any number of publishers and connections and   *)
(* any buffer.  The invariant says whose connection is in the hub, who may   *)
(* be writing to it, and where the news of the session's end is.            *)
(***************************************************************************)
EXTENDS LiveUpdates, TLAPS

-----------------------------------------------------------------------------
(* The invariant.                                                          *)

Linked == {"load", "snapshot", "reading", "remove", "removing"}

\* The hub has the connections of the handlers that are between Add and Remove.
MembersOK == \A s \in Sub : s \in conns <=> sub[s].pc \in Linked

\* Only who holds the read lock has connections still to write to, all of them the hub's.
TodoOK ==
    \A p \in Pub : /\ pub[p].todo \subseteq conns
                   /\ pub[p].todo # {} => pub[p].pc = "iterate"

\* Who writes to a connection still has it to do.
WritersOK ==
    \A s \in Sub : writing[s] # Null =>
        \/ writing[s] \in Pub /\ s \in pub[writing[s]].todo
        \/ writing[s] = s /\ sub[s].pc = "snapshot"

\* Who ended the session has it still to tell s.
Coming(s) ==
    /\ endedBy # Null
    /\ pub[endedBy].says = "over"
    /\ pub[endedBy].pc = "publish" \/ s \in pub[endedBy].todo

\* A handler that has read the row is at its snapshot or past it.  What it read decides
\* who tells the rider: the snapshot, or a publication that began after it was added.
NewsOK ==
    \A s \in Sub : sub[s].says # Null =>
        /\ sub[s].pc \in {"snapshot", "reading"}
        /\ sub[s].up /\ sub[s].pc = "reading" /\ sub[s].says = "over" => s \in told
        /\ sub[s].up /\ sub[s].says = "open" /\ row = "over" =>
                s \in told \/ Coming(s) \/ s \in untold

IInv == TypeOK /\ MembersOK /\ TodoOK /\ WritersOK /\ NewsOK

-----------------------------------------------------------------------------
(* It holds at first, and every step keeps it.                              *)

LEMMA PubsAndSubs ==
    /\ Idle \in [pc : {"idle", "publish", "iterate", "over"},
                 says : State \cup {Null}, todo : SUBSET Sub]
    /\ Over \in [pc : {"idle", "publish", "iterate", "over"},
                 says : State \cup {Null}, todo : SUBSET Sub]
    /\ Fresh \in [pc : SubPc, says : State \cup {Null}, up : BOOLEAN]
    /\ Gone \in [pc : SubPc, says : State \cup {Null}, up : BOOLEAN]
BY DEF Idle, Over, Fresh, Gone, SubPc

LEMMA RowIsState == row \in State
BY DEF row, State

\* How the steps change the record of one handler; those of the others stay.
ElseKept(s) == \A t \in Sub : t # s => sub'[t] = sub[t]

Handlers == [Sub -> [pc : SubPc, says : State \cup {Null}, up : BOOLEAN]]

LEMMA Assigned ==
    ASSUME NEW r \in [pc : SubPc, says : State \cup {Null}, up : BOOLEAN],
           NEW pc \in SubPc, NEW up \in BOOLEAN
    PROVE  /\ [r EXCEPT !.pc = pc] \in [pc : SubPc, says : State \cup {Null}, up : BOOLEAN]
           /\ [r EXCEPT !.up = up] \in [pc : SubPc, says : State \cup {Null}, up : BOOLEAN]
           /\ [r EXCEPT !.up = up, !.pc = pc]
                \in [pc : SubPc, says : State \cup {Null}, up : BOOLEAN]
OBVIOUS

LEMMA HandlerSteps ==
    ASSUME TypeOK, NEW s \in Sub
    PROVE  /\ \A pc \in SubPc : Goto(s, pc) =>
                /\ sub' \in Handlers /\ ElseKept(s)
                /\ sub'[s].pc = pc /\ sub'[s].says = sub[s].says /\ (sub'[s].up <=> sub[s].up)
           /\ Leave(s) =>
                /\ sub' \in Handlers /\ ElseKept(s)
                /\ sub'[s].pc = "remove" /\ sub'[s].says = Null
           /\ Load(s) =>
                /\ sub' \in Handlers /\ ElseKept(s)
                /\ \/ sub'[s].pc = "snapshot" /\ sub'[s].says = row
                   \/ sub'[s].pc = "reading" /\ sub'[s].says = sub[s].says
           /\ Upgrade(s) =>
                /\ sub' \in Handlers /\ ElseKept(s)
                /\ sub'[s].pc = "add" /\ sub'[s].says = sub[s].says
           /\ Disconnect(s) =>
                /\ sub' \in Handlers /\ ElseKept(s)
                /\ sub'[s].pc = sub[s].pc /\ sub'[s].says = sub[s].says /\ ~sub'[s].up
           /\ \A x \in Pub \cup Sub : Garble(x, s) =>
                /\ sub' \in Handlers /\ ElseKept(s)
                /\ sub'[s].pc = IF x = s THEN "reading" ELSE sub[s].pc
                /\ sub'[s].says = sub[s].says /\ ~sub'[s].up
<1>1. sub \in Handlers
    BY DEF TypeOK, Handlers
<1>2. ASSUME NEW pc \in SubPc, Goto(s, pc)
      PROVE  /\ sub' \in Handlers /\ ElseKept(s)
             /\ sub'[s].pc = pc /\ sub'[s].says = sub[s].says /\ (sub'[s].up <=> sub[s].up)
    BY <1>1, <1>2 DEF Handlers, Goto, ElseKept
<1>3. ASSUME Leave(s)
      PROVE  /\ sub' \in Handlers /\ ElseKept(s)
             /\ sub'[s].pc = "remove" /\ sub'[s].says = Null
    BY <1>1, <1>3 DEF Handlers, Leave, ElseKept, SubPc
<1>4. ASSUME Load(s)
      PROVE  /\ sub' \in Handlers /\ ElseKept(s)
             /\ \/ sub'[s].pc = "snapshot" /\ sub'[s].says = row
                \/ sub'[s].pc = "reading" /\ sub'[s].says = sub[s].says
    BY <1>1, <1>4, RowIsState DEF Handlers, Load, Goto, ElseKept, SubPc, TypeOK
<1>5. ASSUME Upgrade(s)
      PROVE  /\ sub' \in Handlers /\ ElseKept(s)
             /\ sub'[s].pc = "add" /\ sub'[s].says = sub[s].says
    <2>. DEFINE r == [sub[s] EXCEPT !.up = TRUE, !.pc = "add"]
    <2>1. r \in [pc : SubPc, says : State \cup {Null}, up : BOOLEAN]
        <3>1. "add" \in SubPc /\ sub[s] \in [pc : SubPc, says : State \cup {Null}, up : BOOLEAN]
            BY <1>1 DEF Handlers, SubPc
        <3>. QED
            BY <3>1, Assigned
    <2>2. r.pc = "add" /\ r.says = sub[s].says
        BY <1>1 DEF Handlers
    <2>3. sub' = [sub EXCEPT ![s] = r]
        BY <1>1, <1>5 DEF Upgrade, Handlers
    <2>. HIDE DEF r
    <2>. QED
        BY <1>1, <2>1, <2>2, <2>3 DEF Handlers, ElseKept
<1>6. ASSUME Disconnect(s)
      PROVE  /\ sub' \in Handlers /\ ElseKept(s)
             /\ sub'[s].pc = sub[s].pc /\ sub'[s].says = sub[s].says /\ ~sub'[s].up
    <2>. DEFINE r == [sub[s] EXCEPT !.up = FALSE]
    <2>1. r \in [pc : SubPc, says : State \cup {Null}, up : BOOLEAN]
        BY <1>1, Assigned DEF Handlers
    <2>2. r.pc = sub[s].pc /\ r.says = sub[s].says /\ ~r.up
        BY <1>1 DEF Handlers
    <2>3. sub' = [sub EXCEPT ![s] = r]
        BY <1>1, <1>6 DEF Disconnect, Handlers
    <2>. HIDE DEF r
    <2>. QED
        BY <1>1, <2>1, <2>2, <2>3 DEF Handlers, ElseKept
<1>7. ASSUME NEW x \in Pub \cup Sub, Garble(x, s)
      PROVE  /\ sub' \in Handlers /\ ElseKept(s)
             /\ sub'[s].pc = IF x = s THEN "reading" ELSE sub[s].pc
             /\ sub'[s].says = sub[s].says /\ ~sub'[s].up
    <2>. DEFINE pc == IF x = s THEN "reading" ELSE sub[s].pc
                r == [sub[s] EXCEPT !.up = FALSE, !.pc = pc]
    <2>0. pc \in SubPc
        BY <1>1 DEF Handlers, SubPc
    <2>1. r \in [pc : SubPc, says : State \cup {Null}, up : BOOLEAN]
        BY <1>1, <2>0, Assigned DEF Handlers
    <2>2. r.pc = pc /\ r.says = sub[s].says /\ ~r.up
        BY <1>1, <2>0 DEF Handlers
    <2>3. sub' = [sub EXCEPT ![s] = r]
        BY <1>1, <1>7 DEF Garble, Handlers
    <2>. HIDE DEF r
    <2>. QED
        BY <1>1, <2>1, <2>2, <2>3 DEF Handlers, ElseKept
<1>. QED
    BY <1>2, <1>3, <1>4, <1>5, <1>6, <1>7

LEMMA Initially == Init => IInv
<1>. SUFFICES ASSUME Init
              PROVE  IInv
    OBVIOUS
<1>1. TypeOK
    BY PubsAndSubs, LiveAssumption DEF Init, TypeOK, State
<1>2. MembersOK
    BY DEF Init, MembersOK, Linked, Fresh
<1>3. TodoOK
    BY DEF Init, TodoOK, Idle
<1>4. WritersOK
    BY DEF Init, WritersOK
<1>5. NewsOK
    BY DEF Init, NewsOK, Fresh
<1>. QED
    BY <1>1, <1>2, <1>3, <1>4, <1>5 DEF IInv

LEMMA KeepsType == ASSUME TypeOK, [Next]_vars PROVE TypeOK'
<1>. USE DEF wires
<1>1. ASSUME NEW p \in Pub, Change(p)
      PROVE  TypeOK'
    <2>1. PICK says \in State : Announce(p, says) /\ endedBy' \in Pub \cup {Null}
        BY <1>1 DEF TypeOK, Change, StopReply, Progress, Finish, Refusal, State, row
    <2>2. pub' \in [Pub -> [pc : {"idle", "publish", "iterate", "over"},
                           says : State \cup {Null}, todo : SUBSET Sub]]
        BY <2>1 DEF TypeOK, Announce
    <2>. QED
        BY <2>1, <2>2 DEF TypeOK, Announce
<1>2. ASSUME NEW p \in Pub, RLock(p) \/ RUnlock(p)
      PROVE  TypeOK'
    <2>1. pub' \in [Pub -> [pc : {"idle", "publish", "iterate", "over"},
                           says : State \cup {Null}, todo : SUBSET Sub]]
        <3>1. CASE RLock(p)
            <4>. DEFINE q == [pub[p] EXCEPT !.pc = "iterate", !.todo = conns]
            <4>1. pub' = [pub EXCEPT ![p] = q]
                BY <3>1 DEF TypeOK, RLock
            <4>2. q \in [pc : {"idle", "publish", "iterate", "over"},
                         says : State \cup {Null}, todo : SUBSET Sub]
                BY DEF TypeOK
            <4>. HIDE DEF q
            <4>. QED
                BY <4>1, <4>2 DEF TypeOK
        <3>2. CASE RUnlock(p)
            BY <3>2, PubsAndSubs DEF TypeOK, RUnlock
        <3>. QED
            BY <1>2, <3>1, <3>2
    <2>. QED
        <3>1. UNCHANGED <<endedBy, sub, conns, pending, wires>>
            BY <1>2 DEF RLock, RUnlock
        <3>. QED
            BY <2>1, <3>1 DEF TypeOK
<1>3. ASSUME NEW s \in Sub, AskLock(s)
      PROVE  TypeOK'
    BY <1>3 DEF TypeOK, AskLock, Goto, SubPc
<1>4. ASSUME NEW s \in Sub, Add(s) \/ Load(s) \/ ReadFails(s)
      PROVE  TypeOK'
    <2>1. CASE Add(s) \/ ReadFails(s)
        BY <2>1 DEF TypeOK, Add, ReadFails, Goto, Leave, SubPc
    <2>2. CASE Load(s)
        BY <2>2, HandlerSteps DEF Handlers, TypeOK, Load
    <2>. QED
        BY <1>4, <2>1, <2>2
<1>5. ASSUME NEW s \in Sub, Remove(s)
      PROVE  TypeOK'
    BY <1>5, PubsAndSubs, LiveAssumption DEF TypeOK, Remove
<1>6. ASSUME NEW x \in Pub \cup Sub, NEW s \in Sub, BeginWrite(x, s)
      PROVE  TypeOK'
    BY <1>6 DEF TypeOK, BeginWrite
<1>7. ASSUME NEW x \in Pub \cup Sub, NEW s \in Sub, EndWrite(x, s)
      PROVE  TypeOK'
    <2>1. inbox' \in [Sub -> 0 .. Buffer] /\ told' \subseteq Sub
        <3>1. CASE sub[s].up
            <4>1. inbox[s] \in 0 .. Buffer /\ inbox[s] < Buffer
                BY <1>7, <3>1 DEF TypeOK, EndWrite, CanWrite
            <4>2. inbox[s] + 1 \in 0 .. Buffer
                BY <4>1, LiveAssumption
            <4>. QED
                BY <1>7, <3>1, <4>2 DEF TypeOK, EndWrite
        <3>2. CASE ~sub[s].up
            BY <1>7, <3>2 DEF TypeOK, EndWrite
        <3>. QED
            BY <3>1, <3>2
    <2>2. /\ pub' \in [Pub -> [pc : {"idle", "publish", "iterate", "over"},
                              says : State \cup {Null}, todo : SUBSET Sub]]
          /\ sub' \in [Sub -> [pc : SubPc, says : State \cup {Null}, up : BOOLEAN]]
        <3>1. CASE x \in Pub
            <4>1. pub' = [pub EXCEPT ![x].todo = @ \ {s}] /\ sub' = sub
                BY <1>7, <3>1 DEF EndWrite
            <4>. QED
                BY <3>1, <4>1 DEF TypeOK
        <3>2. CASE x \notin Pub
            BY <1>7, <3>2, HandlerSteps DEF Handlers, TypeOK, EndWrite, SubPc
        <3>. QED
            BY <3>1, <3>2
    <2>3. writing' \in [Sub -> Pub \cup Sub \cup {Null}]
        BY <1>7 DEF TypeOK, EndWrite
    <2>. QED
        BY <1>7, <2>1, <2>2, <2>3 DEF TypeOK, EndWrite
<1>8. ASSUME NEW x \in Pub \cup Sub, NEW s \in Sub, Panic(x, s)
      PROVE  TypeOK'
    <2>1. CASE ProcessEnds
        BY <2>1, PubsAndSubs, LiveAssumption DEF TypeOK, ProcessEnds
    <2>2. CASE /\ x \in Pub /\ pub' = [pub EXCEPT ![x] = Over]
               /\ untold' = IF endedBy = x THEN untold \cup pub[x].todo ELSE untold
               /\ UNCHANGED <<endedBy, sub, conns, pending, writing, inbox, told>>
        <3>1. untold' \subseteq Sub
            BY <2>2 DEF TypeOK
        <3>2. pub' \in [Pub -> [pc : {"idle", "publish", "iterate", "over"},
                               says : State \cup {Null}, todo : SUBSET Sub]]
            BY <2>2, PubsAndSubs DEF TypeOK
        <3>3. UNCHANGED <<endedBy, sub, conns, pending, writing, inbox, told>>
            BY <2>2
        <3>4. endedBy' \in Pub \cup {Null} /\ pending' \in Sub \cup {Null}
            BY <3>3 DEF TypeOK
        <3>5. /\ sub' \in [Sub -> [pc : SubPc, says : State \cup {Null}, up : BOOLEAN]]
              /\ conns' \subseteq Sub /\ told' \subseteq Sub
            BY <3>3 DEF TypeOK
        <3>6. /\ writing' \in [Sub -> Pub \cup Sub \cup {Null}]
              /\ inbox' \in [Sub -> 0 .. Buffer]
            BY <3>3 DEF TypeOK
        <3>. QED
            BY <3>1, <3>2, <3>4, <3>5, <3>6 DEF TypeOK
    <2>3. CASE Leave(s) /\ UNCHANGED <<endedBy, pub, conns, pending, wires>>
        BY <2>3, HandlerSteps DEF Handlers, TypeOK
    <2>. QED
        BY <1>8, <2>1, <2>2, <2>3 DEF Panic, Pub
<1>9. ASSUME NEW x \in Pub \cup Sub, NEW s \in Sub, Garble(x, s)
      PROVE  TypeOK'
    <2>1. sub' \in [Sub -> [pc : SubPc, says : State \cup {Null}, up : BOOLEAN]]
        BY <1>9, HandlerSteps DEF Handlers
    <2>2. pub' \in [Pub -> [pc : {"idle", "publish", "iterate", "over"},
                           says : State \cup {Null}, todo : SUBSET Sub]]
        BY <1>9 DEF TypeOK, Garble
    <2>3. inbox' \in [Sub -> 0 .. Buffer] /\ told' \subseteq Sub
        BY <1>9, LiveAssumption DEF TypeOK, Garble
    <2>. QED
        BY <1>9, <2>1, <2>2, <2>3 DEF TypeOK, Garble
<1>10. ASSUME NEW s \in Sub, Upgrade(s) \/ Receive(s) \/ Disconnect(s)
      PROVE  TypeOK'
    <2>1. CASE Upgrade(s)
        BY <2>1, HandlerSteps DEF Handlers, TypeOK, Upgrade
    <2>2. CASE Receive(s)
        <3>1. inbox[s] \in 0 .. Buffer /\ inbox[s] > 0
            BY <2>2 DEF TypeOK, Receive
        <3>2. inbox[s] - 1 \in 0 .. Buffer
            BY <3>1, LiveAssumption
        <3>. QED
            BY <2>2, <3>2 DEF TypeOK, Receive
    <2>3. CASE Disconnect(s)
        <3>1. inbox' \in [Sub -> 0 .. Buffer]
            BY <2>3, LiveAssumption DEF TypeOK, Disconnect
        <3>2. sub' \in [Sub -> [pc : SubPc, says : State \cup {Null}, up : BOOLEAN]]
            BY <2>3, HandlerSteps DEF Handlers
        <3>. QED
            BY <2>3, <3>1, <3>2 DEF TypeOK, Disconnect
    <2>. QED
        BY <1>10, <2>1, <2>2, <2>3
<1>11. CASE UNCHANGED vars
    BY <1>11 DEF TypeOK, vars
<1>. QED
    BY <1>1, <1>2, <1>3, <1>4, <1>5, <1>6, <1>7, <1>8, <1>9, <1>10, <1>11 DEF Next, Step

\* How the steps of a publisher change its record; those of the others stay.
PubElseKept(p) == \A q \in Pub : q # p => pub'[q] = pub[q]

LEMMA PublisherSteps ==
    ASSUME TypeOK, NEW p \in Pub
    PROVE  /\ Change(p) =>
                /\ PubElseKept(p) /\ pub[p].pc = "idle"
                /\ pub'[p].pc = "publish" /\ pub'[p].todo = {}
                /\ Finish(p) => pub'[p].says = "over"
           /\ RLock(p) =>
                /\ PubElseKept(p) /\ pub[p].pc = "publish"
                /\ pub'[p].pc = "iterate" /\ pub'[p].todo = conns /\ pub'[p].says = pub[p].says
           /\ RUnlock(p) =>
                /\ PubElseKept(p) /\ pub[p].pc = "iterate" /\ pub[p].todo = {} /\ pub'[p].todo = {}
           /\ \A s \in Sub : EndWrite(p, s) \/ Garble(p, s) =>
                /\ PubElseKept(p)
                /\ pub'[p].pc = pub[p].pc /\ pub'[p].says = pub[p].says
                /\ pub'[p].todo = pub[p].todo \ {s}
<1>1. ASSUME Change(p)
      PROVE  /\ PubElseKept(p) /\ pub[p].pc = "idle"
             /\ pub'[p].pc = "publish" /\ pub'[p].todo = {}
             /\ Finish(p) => pub'[p].says = "over"
    BY <1>1 DEF TypeOK, Change, StopReply, Progress, Finish, Refusal, Announce, PubElseKept
<1>2. ASSUME RLock(p)
      PROVE  /\ PubElseKept(p) /\ pub[p].pc = "publish"
             /\ pub'[p].pc = "iterate" /\ pub'[p].todo = conns /\ pub'[p].says = pub[p].says
    BY <1>2 DEF TypeOK, RLock, PubElseKept
<1>3. ASSUME RUnlock(p)
      PROVE  /\ PubElseKept(p) /\ pub[p].pc = "iterate" /\ pub[p].todo = {} /\ pub'[p].todo = {}
    BY <1>3 DEF TypeOK, RUnlock, PubElseKept, Over
<1>4. ASSUME NEW s \in Sub, EndWrite(p, s) \/ Garble(p, s)
      PROVE  /\ PubElseKept(p)
             /\ pub'[p].pc = pub[p].pc /\ pub'[p].says = pub[p].says
             /\ pub'[p].todo = pub[p].todo \ {s}
    <2>1. pub' = [pub EXCEPT ![p].todo = @ \ {s}]
        BY <1>4 DEF EndWrite, Garble
    <2>. QED
        BY <2>1 DEF TypeOK, PubElseKept
<1>. QED
    BY <1>1, <1>2, <1>3, <1>4

LEMMA KeepsMembers == ASSUME IInv, [Next]_vars PROVE MembersOK'
<1>. USE DEF IInv, wires
<1>1. ASSUME NEW p \in Pub, Change(p) \/ RLock(p) \/ RUnlock(p)
      PROVE  MembersOK'
    BY <1>1 DEF MembersOK, Change, StopReply, Progress, Finish, Refusal, Announce, RLock, RUnlock
<1>2. ASSUME NEW s \in Sub, AskLock(s)
      PROVE  MembersOK'
    BY <1>2, HandlerSteps DEF MembersOK, AskLock, ElseKept, Linked, SubPc
<1>3. ASSUME NEW s \in Sub, Add(s)
      PROVE  MembersOK'
    BY <1>3, HandlerSteps DEF MembersOK, Add, ElseKept, Linked, SubPc
<1>4. ASSUME NEW s \in Sub, Load(s)
      PROVE  MembersOK'
    BY <1>4, HandlerSteps DEF MembersOK, Load, ElseKept, Linked
<1>5. ASSUME NEW s \in Sub, ReadFails(s)
      PROVE  MembersOK'
    BY <1>5, HandlerSteps DEF MembersOK, ReadFails, ElseKept, Linked
<1>6. ASSUME NEW s \in Sub, Remove(s)
      PROVE  MembersOK'
    BY <1>6 DEF TypeOK, MembersOK, Remove, Gone, Linked
<1>7. ASSUME NEW x \in Pub \cup Sub, NEW s \in Sub, BeginWrite(x, s)
      PROVE  MembersOK'
    BY <1>7 DEF MembersOK, BeginWrite
<1>8. ASSUME NEW x \in Pub \cup Sub, NEW s \in Sub, EndWrite(x, s)
      PROVE  MembersOK'
    <2>1. CASE x \in Pub
        BY <1>8, <2>1 DEF MembersOK, EndWrite
    <2>2. CASE x \notin Pub
        <3>1. writing[s] = x /\ x # Null /\ sub[s].pc = "snapshot"
            BY <1>8, <2>2, LiveAssumption DEF WritersOK, EndWrite
        <3>. QED
            BY <1>8, <2>2, <3>1, HandlerSteps DEF MembersOK, EndWrite, ElseKept, Linked, SubPc
    <2>. QED
        BY <2>1, <2>2
<1>9. ASSUME NEW x \in Pub \cup Sub, NEW s \in Sub, Panic(x, s)
      PROVE  MembersOK'
    <2>1. CASE ProcessEnds
        BY <2>1 DEF TypeOK, MembersOK, ProcessEnds, Gone, Linked
    <2>2. CASE UNCHANGED <<sub, conns>>
        BY <2>2 DEF MembersOK
    <2>3. CASE x \in Sub /\ Leave(s) /\ UNCHANGED conns
        <3>1. sub[s].pc = "snapshot"
            BY <1>9, <2>3, LiveAssumption DEF Panic, Collision, Wants
        <3>. QED
            BY <2>3, <3>1, HandlerSteps DEF MembersOK, ElseKept, Linked
    <2>. QED
        BY <1>9, <2>1, <2>2, <2>3 DEF Panic
<1>10. ASSUME NEW x \in Pub \cup Sub, NEW s \in Sub, Garble(x, s)
       PROVE  MembersOK'
    <2>1. x = s => sub[s].pc = "snapshot"
        BY <1>10, LiveAssumption DEF Garble, Collision, Wants
    <2>. QED
        <3>1. /\ ElseKept(s)
              /\ sub'[s].pc = IF x = s THEN "reading" ELSE sub[s].pc
              /\ conns' = conns
            BY <1>10, HandlerSteps DEF Garble
        <3>. QED
            BY <2>1, <3>1 DEF MembersOK, ElseKept, Linked
<1>11. ASSUME NEW s \in Sub, Upgrade(s)
       PROVE  MembersOK'
    BY <1>11, HandlerSteps DEF MembersOK, Upgrade, ElseKept, Linked
<1>12. ASSUME NEW s \in Sub, Receive(s)
       PROVE  MembersOK'
    BY <1>12 DEF MembersOK, Receive
<1>13. ASSUME NEW s \in Sub, Disconnect(s)
       PROVE  MembersOK'
    BY <1>13, HandlerSteps DEF MembersOK, Disconnect, ElseKept
<1>14. CASE UNCHANGED vars
    BY <1>14 DEF MembersOK, vars
<1>. QED
    BY <1>1, <1>2, <1>3, <1>4, <1>5, <1>6, <1>7, <1>8, <1>9, <1>10, <1>11, <1>12, <1>13, <1>14
       DEF Next, Step

LEMMA KeepsTodo == ASSUME IInv, [Next]_vars PROVE TodoOK'
<1>. USE DEF IInv, wires
<1>1. ASSUME NEW p \in Pub, Change(p)
      PROVE  TodoOK'
    BY <1>1, PublisherSteps DEF TodoOK, PubElseKept, Change, StopReply, Progress, Finish, Refusal, Announce
<1>2. ASSUME NEW p \in Pub, RLock(p)
      PROVE  TodoOK'
    BY <1>2, PublisherSteps DEF TodoOK, PubElseKept, RLock
<1>3. ASSUME NEW p \in Pub, RUnlock(p)
      PROVE  TodoOK'
    <2>1. PubElseKept(p) /\ pub'[p].todo = {} /\ conns' = conns
        BY <1>3, PublisherSteps DEF RUnlock
    <2>. QED
        BY <2>1 DEF TodoOK, PubElseKept
<1>4. ASSUME NEW s \in Sub, AskLock(s) \/ Load(s) \/ ReadFails(s)
      PROVE  TodoOK'
    BY <1>4 DEF TodoOK, AskLock, Load, ReadFails
<1>5. ASSUME NEW s \in Sub, Add(s)
      PROVE  TodoOK'
    BY <1>5 DEF TodoOK, Add
<1>6. ASSUME NEW s \in Sub, Remove(s)
      PROVE  TodoOK'
    <2>1. \A p \in Pub : pub[p].todo = {}
        BY <1>6 DEF TodoOK, Remove, HasLock, Readers
    <2>. QED
        BY <1>6, <2>1 DEF TodoOK, Remove
<1>7. ASSUME NEW x \in Pub \cup Sub, NEW s \in Sub, BeginWrite(x, s)
      PROVE  TodoOK'
    BY <1>7 DEF TodoOK, BeginWrite
<1>8. ASSUME NEW x \in Pub \cup Sub, NEW s \in Sub, EndWrite(x, s)
      PROVE  TodoOK'
    <2>1. CASE x \in Pub
        <3>1. conns' = conns
            BY <1>8 DEF EndWrite
        <3>. QED
            BY <1>8, <2>1, <3>1, PublisherSteps DEF TodoOK, PubElseKept
    <2>2. CASE x \notin Pub
        BY <1>8, <2>2 DEF TodoOK, EndWrite
    <2>. QED
        BY <2>1, <2>2
<1>9. ASSUME NEW x \in Pub \cup Sub, NEW s \in Sub, Panic(x, s)
      PROVE  TodoOK'
    <2>1. CASE ProcessEnds
        BY <2>1 DEF TypeOK, TodoOK, ProcessEnds, Idle, Over
    <2>2. CASE x \in Pub /\ pub' = [pub EXCEPT ![x] = Over] /\ UNCHANGED conns
        BY <2>2 DEF TypeOK, TodoOK, Over
    <2>3. CASE UNCHANGED <<pub, conns>>
        BY <2>3 DEF TodoOK
    <2>. QED
        BY <1>9, <2>1, <2>2, <2>3 DEF Panic, Pub
<1>10. ASSUME NEW x \in Pub \cup Sub, NEW s \in Sub, Garble(x, s)
       PROVE  TodoOK'
    <2>1. conns' = conns
        BY <1>10 DEF Garble
    <2>2. CASE x \in Pub
        BY <1>10, <2>1, <2>2, PublisherSteps DEF TodoOK, PubElseKept
    <2>3. CASE x \notin Pub
        BY <1>10, <2>1, <2>3 DEF TodoOK, Garble
    <2>. QED
        BY <2>2, <2>3
<1>11. ASSUME NEW s \in Sub, Upgrade(s) \/ Receive(s) \/ Disconnect(s)
       PROVE  TodoOK'
    BY <1>11 DEF TodoOK, Upgrade, Receive, Disconnect
<1>12. CASE UNCHANGED vars
    BY <1>12 DEF TodoOK, vars
<1>. QED
    BY <1>1, <1>2, <1>3, <1>4, <1>5, <1>6, <1>7, <1>8, <1>9, <1>10, <1>11, <1>12 DEF Next, Step

LEMMA KeepsWriters == ASSUME IInv, [Next]_vars PROVE WritersOK'
<1>. USE LiveAssumption DEF IInv, wires
<1>1. ASSUME NEW p \in Pub, Change(p)
      PROVE  WritersOK'
    <2>1. UNCHANGED <<writing, sub>>
        BY <1>1 DEF Change, StopReply, Progress, Finish, Refusal, Announce
    <2>2. PubElseKept(p) /\ pub[p].todo = {}
        BY <1>1, PublisherSteps DEF TodoOK
    <2>. QED
        BY <2>1, <2>2 DEF WritersOK, PubElseKept
<1>2. ASSUME NEW p \in Pub, RLock(p)
      PROVE  WritersOK'
    <2>1. UNCHANGED <<writing, sub>>
        BY <1>2 DEF RLock
    <2>2. PubElseKept(p) /\ pub[p].todo = {}
        BY <1>2, PublisherSteps DEF TodoOK
    <2>. QED
        BY <2>1, <2>2 DEF WritersOK, PubElseKept
<1>3. ASSUME NEW p \in Pub, RUnlock(p)
      PROVE  WritersOK'
    <2>1. UNCHANGED <<writing, sub>>
        BY <1>3 DEF RUnlock
    <2>2. PubElseKept(p) /\ pub[p].todo = {}
        BY <1>3, PublisherSteps
    <2>. QED
        BY <2>1, <2>2 DEF WritersOK, PubElseKept
<1>4. ASSUME NEW s \in Sub, AskLock(s) \/ Add(s) \/ Load(s) \/ ReadFails(s)
      PROVE  WritersOK'
    <2>1. UNCHANGED <<writing, pub>> /\ sub[s].pc # "snapshot"
        BY <1>4 DEF AskLock, Add, Load, ReadFails
    <2>2. ElseKept(s)
        BY <1>4, HandlerSteps DEF AskLock, Add, Load, ReadFails, SubPc
    <2>. QED
        BY <2>1, <2>2 DEF WritersOK, ElseKept
<1>5. ASSUME NEW s \in Sub, Remove(s)
      PROVE  WritersOK'
    <2>1. UNCHANGED <<writing, pub>> /\ sub[s].pc # "snapshot"
        BY <1>5 DEF Remove
    <2>2. ElseKept(s)
        BY <1>5 DEF TypeOK, Remove, ElseKept
    <2>. QED
        BY <2>1, <2>2 DEF WritersOK, ElseKept
<1>6. ASSUME NEW x \in Pub \cup Sub, NEW s \in Sub, BeginWrite(x, s)
      PROVE  WritersOK'
    BY <1>6 DEF TypeOK, WritersOK, BeginWrite, Wants
<1>7. ASSUME NEW x \in Pub \cup Sub, NEW s \in Sub, EndWrite(x, s)
      PROVE  WritersOK'
    <2>1. writing[s] = x /\ writing' = [writing EXCEPT ![s] = Null]
        BY <1>7 DEF EndWrite
    <2>2. CASE x \in Pub
        <3>1. sub' = sub
            BY <1>7, <2>2 DEF EndWrite
        <3>2. PubElseKept(x) /\ pub'[x].todo = pub[x].todo \ {s}
            BY <1>7, <2>2, PublisherSteps
        <3>. QED
            BY <2>1, <3>1, <3>2 DEF TypeOK, WritersOK, PubElseKept
    <2>3. CASE x \notin Pub
        <3>1. x = s /\ pub' = pub /\ Goto(s, "reading")
            BY <1>7, <2>3 DEF EndWrite, WritersOK
        <3>2. ElseKept(s)
            BY <3>1, HandlerSteps DEF SubPc
        <3>. QED
            BY <2>1, <3>1, <3>2 DEF TypeOK, WritersOK, ElseKept
    <2>. QED
        BY <2>2, <2>3
<1>8. ASSUME NEW x \in Pub \cup Sub, NEW s \in Sub, Panic(x, s)
      PROVE  WritersOK'
    <2>0. \A t \in Sub : writing[t] # x
        BY <1>8 DEF Panic, Collision, Wants
    <2>1. CASE ProcessEnds
        BY <2>1 DEF WritersOK, ProcessEnds
    <2>2. CASE x \in Pub /\ pub' = [pub EXCEPT ![x] = Over] /\ UNCHANGED <<writing, sub>>
        BY <2>0, <2>2 DEF TypeOK, WritersOK
    <2>3. CASE x \in Sub /\ Leave(s) /\ UNCHANGED <<writing, pub>>
        <3>1. x = s
            BY <1>8, <2>3 DEF Panic, Collision, Wants
        <3>2. ElseKept(s)
            BY <2>3, HandlerSteps
        <3>. QED
            BY <2>0, <2>3, <3>1, <3>2 DEF WritersOK, ElseKept
    <2>. QED
        BY <1>8, <2>1, <2>2, <2>3 DEF Panic, Pub
<1>9. ASSUME NEW x \in Pub \cup Sub, NEW s \in Sub, Garble(x, s)
      PROVE  WritersOK'
    <2>0. (\A t \in Sub : writing[t] # x) /\ writing' = writing
        BY <1>9 DEF Garble, Collision, Wants
    <2>1. ElseKept(s) /\ (x # s => sub'[s].pc = sub[s].pc)
        BY <1>9, HandlerSteps
    <2>2. CASE x \in Pub
        <3>1. PubElseKept(x) /\ x # s
            BY <1>9, <2>2, PublisherSteps
        <3>. QED
            BY <2>0, <2>1, <3>1 DEF WritersOK, ElseKept, PubElseKept
    <2>3. CASE x \notin Pub
        <3>1. pub' = pub
            BY <1>9, <2>3 DEF Garble
        <3>. QED
            BY <1>9, <2>0, <2>1, <2>3, <3>1 DEF WritersOK, ElseKept, Garble, Collision, Wants
    <2>. QED
        BY <2>2, <2>3
<1>10. ASSUME NEW s \in Sub, Upgrade(s) \/ Disconnect(s)
       PROVE  WritersOK'
    <2>1. UNCHANGED <<writing, pub>> /\ ElseKept(s)
        BY <1>10, HandlerSteps DEF Upgrade, Disconnect
    <2>2. sub[s].pc = "snapshot" => sub'[s].pc = "snapshot"
        BY <1>10, HandlerSteps DEF Upgrade
    <2>. QED
        BY <2>1, <2>2 DEF WritersOK, ElseKept
<1>11. ASSUME NEW s \in Sub, Receive(s)
       PROVE  WritersOK'
    BY <1>11 DEF WritersOK, Receive
<1>12. CASE UNCHANGED vars
    BY <1>12 DEF WritersOK, vars
<1>. QED
    BY <1>1, <1>2, <1>3, <1>4, <1>5, <1>6, <1>7, <1>8, <1>9, <1>10, <1>11, <1>12 DEF Next, Step

LEMMA KeepsNews == ASSUME IInv, [Next]_vars PROVE NewsOK'
<1>. USE LiveAssumption DEF IInv, wires
<1>1. ASSUME NEW p \in Pub, Change(p)
      PROVE  NewsOK'
    <2>1. UNCHANGED <<sub, told, untold>>
        BY <1>1 DEF Change, StopReply, Progress, Finish, Refusal, Announce
    <2>2. /\ PubElseKept(p) /\ pub[p].pc = "idle" /\ pub[p].todo = {}
          /\ pub'[p].pc = "publish" /\ (Finish(p) => pub'[p].says = "over")
        BY <1>1, PublisherSteps DEF TodoOK
    <2>3. CASE Finish(p) /\ endedBy = Null
        <3>1. \A s \in Sub : Coming(s)'
            BY <2>2, <2>3 DEF Finish, Coming
        <3>. QED
            BY <2>1, <3>1 DEF NewsOK
    <2>4. CASE endedBy' = endedBy
        <3>1. \A s \in Sub : Coming(s) => Coming(s)'
            BY <2>2, <2>4 DEF Coming, PubElseKept, TypeOK
        <3>. QED
            BY <2>1, <2>4, <3>1 DEF NewsOK, row
    <2>. QED
        BY <1>1, <2>3, <2>4 DEF Change, StopReply, Progress, Refusal, Finish
<1>2. ASSUME NEW p \in Pub, RLock(p)
      PROVE  NewsOK'
    <2>1. UNCHANGED <<endedBy, row, sub, told, untold>>
        BY <1>2 DEF RLock, row
    <2>2. /\ PubElseKept(p) /\ pub'[p].todo = conns /\ pub'[p].says = pub[p].says
          /\ pub[p].todo = {}
        BY <1>2, PublisherSteps DEF TodoOK
    <2>3. \A s \in conns : Coming(s) => Coming(s)'
        BY <2>1, <2>2 DEF Coming, PubElseKept, TypeOK
    <2>4. \A s \in Sub : sub[s].says # Null => s \in conns
        BY DEF NewsOK, MembersOK, Linked
    <2>. QED
        BY <2>1, <2>3, <2>4 DEF NewsOK
<1>3. ASSUME NEW p \in Pub, RUnlock(p)
      PROVE  NewsOK'
    <2>1. UNCHANGED <<endedBy, row, sub, told, untold>>
        BY <1>3 DEF RUnlock, row
    <2>2. PubElseKept(p) /\ pub[p].todo = {} /\ pub[p].pc = "iterate"
        BY <1>3, PublisherSteps
    <2>3. \A s \in Sub : Coming(s) => Coming(s)'
        BY <2>1, <2>2 DEF Coming, PubElseKept, TypeOK
    <2>. QED
        BY <2>1, <2>3 DEF NewsOK
<1>4. ASSUME NEW s \in Sub, AskLock(s) \/ Add(s)
      PROVE  NewsOK'
    <2>1. UNCHANGED <<endedBy, row, pub, told, untold>> /\ sub[s].says = Null
        BY <1>4 DEF AskLock, Add, NewsOK, row
    <2>2. ElseKept(s) /\ sub'[s].says = Null
        BY <1>4, <2>1, HandlerSteps DEF AskLock, Add, SubPc
    <2>. QED
        BY <2>1, <2>2 DEF NewsOK, ElseKept, Coming
<1>5. ASSUME NEW s \in Sub, Load(s)
      PROVE  NewsOK'
    <2>1. UNCHANGED <<endedBy, row, pub, told, untold>> /\ sub[s].says = Null
        BY <1>5 DEF Load, NewsOK, row
    <2>2. /\ ElseKept(s)
          /\ \/ sub'[s].pc = "snapshot" /\ sub'[s].says = row
             \/ sub'[s].says = Null
        BY <1>5, <2>1, HandlerSteps
    <2>. QED
        BY <2>1, <2>2 DEF NewsOK, ElseKept, Coming
<1>6. ASSUME NEW s \in Sub, ReadFails(s)
      PROVE  NewsOK'
    <2>1. UNCHANGED <<endedBy, row, pub, told, untold>>
        BY <1>6 DEF ReadFails, row
    <2>2. ElseKept(s) /\ sub'[s].says = Null
        BY <1>6, HandlerSteps DEF ReadFails
    <2>. QED
        BY <2>1, <2>2 DEF NewsOK, ElseKept, Coming
<1>7. ASSUME NEW s \in Sub, Remove(s)
      PROVE  NewsOK'
    <2>1. UNCHANGED <<endedBy, row, pub, untold>> /\ told' = told \ {s}
        BY <1>7 DEF Remove, row
    <2>2. ElseKept(s) /\ sub'[s].says = Null
        BY <1>7 DEF TypeOK, Remove, ElseKept, Gone
    <2>. QED
        BY <2>1, <2>2 DEF NewsOK, ElseKept, Coming
<1>8. ASSUME NEW x \in Pub \cup Sub, NEW s \in Sub, BeginWrite(x, s)
      PROVE  NewsOK'
    BY <1>8 DEF NewsOK, BeginWrite, Coming, row
<1>9. ASSUME NEW x \in Pub \cup Sub, NEW s \in Sub, EndWrite(x, s)
      PROVE  NewsOK'
    <2>1. /\ endedBy' = endedBy /\ row' = row /\ untold' = untold /\ writing[s] = x
          /\ told' = IF sub[s].up /\ Says(x) = "over" THEN told \cup {s} ELSE told
        BY <1>9 DEF EndWrite, row
    <2>2. CASE x \in Pub
        <3>1. sub' = sub
            BY <1>9, <2>2 DEF EndWrite
        <3>2. /\ PubElseKept(x) /\ pub'[x].pc = pub[x].pc /\ pub'[x].says = pub[x].says
              /\ pub'[x].todo = pub[x].todo \ {s}
            BY <1>9, <2>2, PublisherSteps
        <3>3. \A t \in Sub : Coming(t) => Coming(t)' \/ (t = s /\ pub[x].says = "over")
            <4>. SUFFICES ASSUME NEW t \in Sub, Coming(t)
                          PROVE  Coming(t)' \/ (t = s /\ pub[x].says = "over")
                OBVIOUS
            <4>1. CASE endedBy = x
                BY <2>1, <3>2, <4>1 DEF Coming
            <4>2. CASE endedBy # x
                BY <2>1, <3>2, <4>2 DEF Coming, PubElseKept, TypeOK
            <4>. QED
                BY <4>1, <4>2
        <3>. QED
            BY <2>1, <2>2, <3>1, <3>3 DEF NewsOK, Says
    <2>3. CASE x \notin Pub
        <3>1. x = s /\ pub' = pub /\ Goto(s, "reading") /\ sub[s].pc = "snapshot"
            BY <1>9, <2>3 DEF EndWrite, WritersOK
        <3>2. ElseKept(s) /\ sub'[s].pc = "reading" /\ sub'[s].says = sub[s].says
                /\ (sub'[s].up <=> sub[s].up)
            BY <3>1, HandlerSteps DEF SubPc
        <3>3. sub[s].up /\ sub[s].says = "over" => s \in told'
            BY <2>1, <2>3, <3>1 DEF Says
        <3>4. told \subseteq told'
            BY <2>1
        <3>. QED
            BY <2>1, <3>1, <3>2, <3>3, <3>4 DEF NewsOK, ElseKept, Coming
    <2>. QED
        BY <2>2, <2>3
<1>10. ASSUME NEW x \in Pub \cup Sub, NEW s \in Sub, Panic(x, s)
       PROVE  NewsOK'
    <2>1. CASE ProcessEnds
        <3>1. \A t \in Sub : sub'[t].says = Null
            BY <2>1 DEF TypeOK, NewsOK, ProcessEnds, Gone
        <3>. QED
            BY <3>1 DEF NewsOK
    <2>2. CASE /\ x \in Pub /\ pub' = [pub EXCEPT ![x] = Over]
               /\ untold' = IF endedBy = x THEN untold \cup pub[x].todo ELSE untold
               /\ UNCHANGED <<endedBy, sub, conns, pending, writing, inbox, told>>
        <3>1. pub[x].pc # "publish" /\ s \in pub[x].todo
            BY <1>10, <2>2 DEF Panic, Collision, Wants, TodoOK
        <3>2. \A t \in Sub : Coming(t) => Coming(t)' \/ t \in untold'
            BY <2>2, <3>1 DEF TypeOK, Coming
        <3>. QED
            BY <2>2, <3>2 DEF NewsOK, row
    <2>3. CASE Leave(s) /\ UNCHANGED <<endedBy, pub, conns, pending, wires>>
        <3>1. ElseKept(s) /\ sub'[s].says = Null
            BY <2>3, HandlerSteps
        <3>. QED
            BY <2>3, <3>1 DEF NewsOK, ElseKept, Coming, row
    <2>. QED
        BY <1>10, <2>1, <2>2, <2>3 DEF Panic, Pub
<1>11. ASSUME NEW x \in Pub \cup Sub, NEW s \in Sub, Garble(x, s)
       PROVE  NewsOK'
    <2>1. /\ endedBy' = endedBy /\ row' = row /\ untold' = untold
          /\ told' = told \ {s} /\ (x = s => sub[s].pc = "snapshot")
        BY <1>11 DEF Garble, Collision, Wants, row
    <2>2. /\ ElseKept(s) /\ sub'[s].says = sub[s].says /\ ~sub'[s].up
          /\ sub'[s].pc = IF x = s THEN "reading" ELSE sub[s].pc
        BY <1>11, HandlerSteps
    <2>3. \A t \in Sub : t # s /\ Coming(t) => Coming(t)'
        <3>1. CASE x \in Pub
            <4>1. /\ PubElseKept(x) /\ pub'[x].pc = pub[x].pc /\ pub'[x].says = pub[x].says
                  /\ pub'[x].todo = pub[x].todo \ {s}
                BY <1>11, <3>1, PublisherSteps
            <4>. QED
                BY <2>1, <3>1, <4>1 DEF Coming, PubElseKept, TypeOK
        <3>2. CASE x \notin Pub
            BY <1>11, <2>1, <3>2 DEF Garble, Coming
        <3>. QED
            BY <3>1, <3>2
    <2>. QED
        BY <2>1, <2>2, <2>3 DEF NewsOK, ElseKept
<1>12. ASSUME NEW s \in Sub, Upgrade(s)
       PROVE  NewsOK'
    <2>1. UNCHANGED <<endedBy, row, pub, told, untold>> /\ sub[s].says = Null
        BY <1>12 DEF Upgrade, NewsOK, row
    <2>2. ElseKept(s) /\ sub'[s].says = Null
        BY <1>12, <2>1, HandlerSteps
    <2>. QED
        BY <2>1, <2>2 DEF NewsOK, ElseKept, Coming
<1>13. ASSUME NEW s \in Sub, Receive(s)
       PROVE  NewsOK'
    BY <1>13 DEF NewsOK, Receive, Coming, row
<1>14. ASSUME NEW s \in Sub, Disconnect(s)
       PROVE  NewsOK'
    <2>1. UNCHANGED <<endedBy, row, pub, untold>> /\ told' = told \ {s}
        BY <1>14 DEF Disconnect, row
    <2>2. ElseKept(s) /\ sub'[s].pc = sub[s].pc /\ sub'[s].says = sub[s].says /\ ~sub'[s].up
        BY <1>14, HandlerSteps
    <2>. QED
        BY <2>1, <2>2 DEF NewsOK, ElseKept, Coming
<1>15. CASE UNCHANGED vars
    BY <1>15 DEF NewsOK, vars, Coming, row
<1>. QED
    BY <1>1, <1>2, <1>3, <1>4, <1>5, <1>6, <1>7, <1>8, <1>9, <1>10, <1>11, <1>12, <1>13, <1>14,
       <1>15 DEF Next, Step

LEMMA Invariance == Spec => []IInv
<1>1. IInv /\ [Next]_vars => IInv'
    BY KeepsType, KeepsMembers, KeepsTodo, KeepsWriters, KeepsNews DEF IInv
<1>. QED
    BY <1>1, Initially, PTL DEF Spec

-----------------------------------------------------------------------------
(* What follows from it.                                                   *)

\* The state keeps its shape; above all a connection never holds more unread messages than
\* its buffer takes, because EndWrite waits for the rider (charging_handler.go, Publish).
THEOREM TypeCorrect == Spec => []TypeOK
BY Invariance, PTL DEF IInv

\* A rider who is connected and was sent a snapshot has been told that the session is over
\* or will be: LiveUpdatesWS reads the row after Add, and the service publishes after its
\* commit, so one of the two is late enough.  A stop request that panics does not take the
\* news with it, since whoever ended the session publishes it too; a webhook that panics
\* while it publishes the end does, and those are the riders excepted (ProcessWebhook).
THEOREM EndSeen == Spec => []EndIsSeen
<1>1. IInv => EndIsSeen
    <2>. SUFFICES ASSUME IInv, NEW s \in Sub,
                         row = "over", sub[s].pc = "reading", sub[s].up, sub[s].says # Null
                  PROVE  OnItsWay(s) \/ s \in untold
        BY DEF EndIsSeen
    <2>1. sub[s].says \in State
        BY DEF IInv, TypeOK
    <2>2. s \in told \/ Coming(s) \/ s \in untold
        BY <2>1 DEF IInv, NewsOK, State
    <2>. QED
        BY <2>2 DEF IInv, TypeOK, OnItsWay, Coming
<1>. QED
    BY <1>1, Invariance, PTL

\* No publication writes to a connection after its handler has closed it: Remove waits for
\* the hub's write lock, so whoever iterates has finished with the connection
\* (charging_handler.go).
THEOREM NoLateWrite == Spec => []NoWriteAfterClose
<1>1. IInv => NoWriteAfterClose
    BY DEF IInv, TodoOK, MembersOK, NoWriteAfterClose, Linked
<1>. QED
    BY <1>1, Invariance, PTL
=============================================================================
