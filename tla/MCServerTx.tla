------------------------------ MODULE MCServerTx ------------------------------
(* TLC instances of ServerTx. *)
EXTENDS ServerTxInv, TLC

\* Requests differ only by their names.
RequestSymmetry == Permutations(Request)
=============================================================================
