------------------------------- MODULE MCTxQueue -------------------------------
(***************************************************************************)
(* The instance of TxQueue TLC checks: copies of one packet and of another *)
(* at two priorities, more of them than the queue holds.                   *)
(***************************************************************************)
EXTENDS TxQueue

CONSTANTS k1, k2
KeySymmetry == Permutations(Keys)
===============================================================================
