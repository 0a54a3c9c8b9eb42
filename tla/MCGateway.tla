------------------------------- MODULE MCGateway -------------------------------
EXTENDS Gateway, TLC

CONSTANTS s1, s2

\* A session that may work on branches and look at sync, and one that may do all.
MCScopesOf == (s1 :> {<<"branch", "*">>, <<"sync", "read">>}) @@ (s2 :> {<<"*", "*">>})

RequestSymmetry == Permutations(Request)
=============================================================================
