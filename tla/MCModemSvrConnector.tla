------------------------- MODULE MCModemSvrConnector -------------------------
(* Small instances of ModemSvrConnector for TLC. *)
EXTENDS ModemSvrConnector, TLC

LinkSymmetry == Permutations(Links)
=============================================================================
