------------------------------ MODULE MCCliRetry ------------------------------
(* TLC instances of CliRetry. *)
EXTENDS CliRetry, TLC

\* Commands differ only by their names.
CommandSymmetry == Permutations(Command)
=============================================================================
