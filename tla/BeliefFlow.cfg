SPECIFICATION Spec
CONSTANTS
  f1 = f1
  f2 = f2
  m1 = m1
  b1 = b1
  b2 = b2
  Fact <- MCFact
  Memory <- MCMemory
  Belief <- MCBelief
  Target <- MCTarget
  First = b1
  Derives <- MCDerives
  Worker = {w1, w2}
  Reviser = {r1}
  Threshold = 1
  MaxDepth = 2
  MaxRetries = 2
  MaxLeaves = 1
  MaxFaults = 1
INVARIANTS TypeOK StalenessAccounted MessagesConserved
PROPERTY ReactionsSettle
CHECK_DEADLOCK FALSE
