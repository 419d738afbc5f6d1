--------------------------- MODULE BillingContract ---------------------------
(***************************************************************************)
(* What the charging backend owes its riders, whatever polls, retries,      *)
(* races or crashes inside it: a session is opened for a rider, bound to at *)
(* most one charging transaction that no other session has, and then closed *)
(* or voided for good.  Money moves only from the wallet of the session's   *)
(* own rider, only with a bound transaction, at most once per session, and  *)
(* never beyond what the wallet holds.                                      *)
(***************************************************************************)
EXTENDS Integers

CONSTANTS Session, User, Tx, Null

VARIABLES
    phase,      \* of each session: "none", "open", "closed" or "void"
    owner,      \* its rider
    tx,         \* its charging transaction
    ledger,     \* the debits, [key, user, amount]
    balance     \* of each rider's wallet

contract == <<phase, owner, tx, ledger, balance>>

Init ==
    /\ phase = [s \in Session |-> "none"]
    /\ owner = [s \in Session |-> Null]
    /\ tx = [s \in Session |-> Null]
    /\ ledger = {}
    /\ balance \in [User -> Nat]

Unbound(s, t) == \A o \in Session \ {s} : tx[o] # t

Open(s, u) ==
    /\ phase[s] = "none"
    /\ phase' = [phase EXCEPT ![s] = "open"]
    /\ owner' = [owner EXCEPT ![s] = u]
    /\ UNCHANGED <<tx, ledger, balance>>

Bind(s, t) ==
    /\ phase[s] = "open" /\ tx[s] = Null /\ Unbound(s, t)
    /\ tx' = [tx EXCEPT ![s] = t]
    /\ UNCHANGED <<phase, owner, ledger, balance>>

\* Sessions that never got a transaction are given up, several at a time.
Void(S) ==
    /\ \A s \in S : phase[s] = "open" /\ tx[s] = Null
    /\ phase' = [s \in Session |-> IF s \in S THEN "void" ELSE phase[s]]
    /\ UNCHANGED <<owner, tx, ledger, balance>>

Charge(s) ==
    /\ \A e \in ledger : e.key # s
    /\ \E e \in ledger' :
        /\ e.key = s /\ e.user = owner[s]
        /\ e.amount > 0 /\ e.amount <= balance[owner[s]]
        /\ ledger' = ledger \cup {e}
        /\ balance' = [balance EXCEPT ![owner[s]] = @ - e.amount]

\* Closing may bind the session too, may be repeated, and may leave the session unpaid.
Close(s, t) ==
    /\ phase[s] \in {"open", "closed"}
    /\ tx[s] = t \/ (phase[s] = "open" /\ tx[s] = Null /\ Unbound(s, t))
    /\ phase' = [phase EXCEPT ![s] = "closed"]
    /\ tx' = [tx EXCEPT ![s] = t]
    /\ Charge(s) \/ UNCHANGED <<ledger, balance>>
    /\ UNCHANGED owner

Next ==
    \/ \E s \in Session :
        \/ \E u \in User : Open(s, u)
        \/ \E t \in Tx : Bind(s, t) \/ Close(s, t)
    \/ \E S \in SUBSET Session : Void(S)

Spec == Init /\ [][Next]_contract
=============================================================================
