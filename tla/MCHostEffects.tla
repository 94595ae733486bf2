---------------------------- MODULE MCHostEffects ----------------------------
EXTENDS HostEffects, TLC
CONSTANTS c0, c1
\* A commit and its parent.
MCCommits == {c0, c1}
MCBefore  == [c \in MCCommits |-> IF c = c0 THEN {} ELSE {c0}]
MCSymmetry == Permutations(Sessions)
=============================================================================
