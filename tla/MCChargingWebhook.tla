-------------------------- MODULE MCChargingWebhook --------------------------
(* Small instances of ChargingWebhook for TLC.                              *)
EXTENDS ChargingWebhook, TLC

MCOcppId  == [t \in Tx |-> <<"ocpp", t>>]
MCNumeric == Tx \cup {<<"ocpp", t>> : t \in Tx}

\* No OCPP id is a number.
MCKeys    == Tx

Symmetry  == Permutations(Connector)

\* States whose twin is explored instead: nothing reads the age of a row that has left
\* "starting", and a stalled ticker does nothing that a running one must do.
NoTwins ==
    /\ ticker = "running"
    /\ \A s \in Session : sessions[s].old => sessions[s].status \in {"starting", "failed"}
=============================================================================
