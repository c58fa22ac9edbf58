SPECIFICATION Spec
CONSTANTS
  Claim = {c1, c2}
  Commitment = {k1, k2}
  NoNode = NoNode
  Session = {s1, s2}
  MaxMarkers = 1
  RowLimit = 1
  Threshold = 2
  MaxFaults = 2
INVARIANTS IndexAccounted BlockedByPending EvidenceAccounted
CONSTRAINT OneHalf
SYMMETRY Symmetry
CHECK_DEADLOCK FALSE
