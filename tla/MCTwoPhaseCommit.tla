--------------------------- MODULE MCTwoPhaseCommit ---------------------------
EXTENDS TwoPhaseCommit, TLC

\* All components, and claw-vector alone: without claw-core transactions overlap.
MCDeployments == {{"core", "vector", "branch"}, {"vector"}}

MCSymmetry == Permutations(Tx) \cup Permutations(Call) \cup Permutations(Key)
=============================================================================
