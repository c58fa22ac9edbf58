SPECIFICATION Spec
CONSTANTS
  Claim = {c1, c2}
  NoClaim = NoClaim
  Memory = {m1}
  Uri = {u1, u2}
  Evidence <- MCEvidence
  Sourced = {c1}
  Threshold = 2
  BatchSize = 1
  Run = {r1, r2}
  Base = 9
  MaxFaults = 1
INVARIANTS TypeOK FactsCorroborated SourceLossAccounted
PROPERTIES BoostedOnce PromotionComes
CHECK_DEADLOCK FALSE
