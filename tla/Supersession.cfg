SPECIFICATION ChainSpec
CONSTANTS
  p1 = p1
  p2 = p2
  Writer <- MCWriter
  MaxNodes = 4
  MaxLength = 1
SYMMETRY Symmetry
INVARIANTS NewerSupersedesOlder PointersAgree HeadsCurrent
  StubsAreHistory
CHECK_DEADLOCK FALSE
