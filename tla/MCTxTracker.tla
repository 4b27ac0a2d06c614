---------------------------- MODULE MCTxTracker -----------------------------
(***************************************************************************)
(* TxTracker with up to three abandoned blocks: enough for a failure, a    *)
(* success and another failure on three forks before finality.             *)
(***************************************************************************)
EXTENDS TxTracker
=============================================================================
