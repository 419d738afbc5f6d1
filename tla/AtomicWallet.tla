----------------------------- MODULE AtomicWallet -----------------------------
(***************************************************************************)
(* The wallet as its callers think of it: a captured payment credits its    *)
(* order once, a session is settled by one look at the balance and the      *)
(* ledger, and each of these happens at one instant.                        *)
(***************************************************************************)
EXTENDS Integers

CONSTANTS Rider, Order, Payment, Session, Null,
          OrderOf,      \* the order a payment is for
          WalletOf,     \* the rider of an order or a session
          Amount,       \* what an order is worth
          Price         \* what a session costs

VARIABLES balance, ledger, topup, session, active

wallet == <<balance, ledger, topup, session, active>>

Entry == [key : Payment \cup Session, rider : Rider, amount : Int]

Posted(key) == \E e \in ledger : e.key = key

\* The key is new: the entry is written and the balance moves with it.
Post(key, amount) ==
    LET r == WalletOf[IF key \in Session THEN key ELSE OrderOf[key]] IN
    /\ ledger' = ledger \cup {[key |-> key, rider |-> r, amount |-> amount]}
    /\ balance' = [balance EXCEPT ![r] = @ + amount]

Init ==
    /\ balance \in [Rider -> Nat]
    /\ ledger = {}
    /\ topup = [o \in Order |-> [status |-> "absent", payment |-> Null]]
    /\ session = [s \in Session |-> [stopped |-> FALSE, billed |-> FALSE, unpaid |-> FALSE]]
    /\ active = Rider

Initiate(o) ==
    /\ topup[o].status = "absent"
    /\ topup' = [topup EXCEPT ![o].status = "pending"]
    /\ UNCHANGED <<balance, ledger, session, active>>

Miss(p) ==
    LET o == OrderOf[p] IN
    /\ topup[o].status \in {"pending", "failed"}
    /\ topup' = [topup EXCEPT ![o] = [status |-> "failed", payment |-> p]]
    /\ UNCHANGED <<balance, ledger, session, active>>

Capture(p) ==
    LET o == OrderOf[p] IN
    /\ topup[o].status \in {"pending", "failed"}
    /\ ~Posted(p) /\ WalletOf[o] \in active
    /\ Post(p, Amount[o])
    /\ topup' = [topup EXCEPT ![o] = [status |-> "captured", payment |-> p]]
    /\ UNCHANGED <<session, active>>

Settle(s) ==
    LET r     == WalletOf[s]
        broke == Price[s] > 0 /\ (r \notin active \/ balance[r] < Price[s])
        paid  == Price[s] > 0 /\ ~broke /\ ~Posted(s)
    IN
    /\ IF paid THEN Post(s, -Price[s]) ELSE UNCHANGED <<balance, ledger>>
    /\ session' = [session EXCEPT ![s] = [stopped |-> TRUE, billed |-> @.billed \/ paid,
                                         unpaid |-> @.unpaid \/ broke]]
    /\ UNCHANGED <<topup, active>>

\* A wallet is blocked or freed; one that is blocked is neither credited nor debited.
SetStatus(r) ==
    /\ active' \in {active \ {r}, active \cup {r}}
    /\ UNCHANGED <<balance, ledger, topup, session>>

Next ==
    \/ \E o \in Order : Initiate(o)
    \/ \E p \in Payment : Miss(p) \/ Capture(p)
    \/ \E s \in Session : Settle(s)
    \/ \E r \in Rider : SetStatus(r)

Spec == Init /\ [][Next]_wallet
=============================================================================
