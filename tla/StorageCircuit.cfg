CONSTANTS
  Call = {c1, c2, c3, c4}
  Threshold = 3
  WindowS = 3
  Cooldown = 2
SYMMETRY CallSymmetry
SPECIFICATION CircuitSpec
INVARIANTS NeverSilentlyOpen FailuresBounded
