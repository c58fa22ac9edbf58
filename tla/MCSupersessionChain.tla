---- MODULE MCSupersessionChain ----
\* Small instance of SupersessionChain: the requests are interchangeable.
EXTENDS SupersessionChain, TLC
CONSTANTS p1, p2
MCWriter == {p1, p2}
Symmetry == Permutations(MCWriter)
====
