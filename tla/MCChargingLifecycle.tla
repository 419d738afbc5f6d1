------------------------- MODULE MCChargingLifecycle -------------------------
(* Small instances of ChargingLifecycle for TLC.                            *)
EXTENDS ChargingLifecycle, TLC

MCOcppId  == [t \in Tx |-> <<"ocpp", t>>]
MCNumeric == Tx \cup {<<"ocpp", t>> : t \in Tx}

\* Of two transactions, the OCPP id of each reads like the other's primary key.
MCSwapped == [t \in Tx |-> CHOOSE o \in Tx : o # t]
MCKeys    == Tx

Symmetry ==
    Permutations(Session) \cup Permutations(Worker) \cup Permutations(Handler)
        \cup Permutations(User) \cup Permutations(Connector) \cup Permutations(Tx)
=============================================================================
