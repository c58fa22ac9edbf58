---------------------------- MODULE MCPromotion ----------------------------
EXTENDS Promotion

\* A claim that comes with its source text rests on one piece of evidence,
\* any other on that one, or on that one and another.
MCEvidence ==
  [c \in Claim |-> IF c \in Sourced THEN {Memory}
                   ELSE {Memory, Memory \cup Uri}]

=============================================================================
