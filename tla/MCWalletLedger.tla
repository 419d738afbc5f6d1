---------------------------- MODULE MCWalletLedger ----------------------------
(* Small instances of WalletLedger for TLC.                                 *)
EXTENDS WalletLedger

MCOrderOf  == [p \in Payment |-> CHOOSE o \in Order : TRUE]
MCWalletOf == [x \in Order \cup Session |-> CHOOSE r \in Rider : TRUE]
MCAmount   == [o \in Order |-> 2]

\* One session that used no energy, and whose bill is therefore zero.
Free       == CHOOSE s \in Session : TRUE
MCOneFree  == [s \in Session |-> IF s = Free THEN 0 ELSE 1]
=============================================================================
