---------------------------- MODULE MCMemoryIndex ----------------------------
(* TLC instances of MemoryIndex. *)
EXTENDS MemoryIndex, TLC

\* Requests differ only by their names.
RequestSymmetry == Permutations(Request)
=============================================================================
