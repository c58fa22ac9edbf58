---- MODULE MCBeliefFlow ----
\* Small instance of BeliefFlow.
EXTENDS BeliefFlow
CONSTANTS f1, f2, m1, b1, b2
MCFact == {f1, f2}
MCMemory == {m1}
MCBelief == {b1, b2}
MCTarget == {f1, f2, m1, b1, b2}
MCDerives == {<<f1, m1>>, <<f2, f1>>}
====
