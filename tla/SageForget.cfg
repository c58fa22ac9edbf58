CONSTANTS
  Memory = {m1}
  Claim = {c1}
  Agent = {a1, a2}
  Object = {o1}
  NoObject = NoObject
  NoNode = NoNode
  LinkTypes = {"DERIVED_FROM"}
  Enforce = TRUE
  PgReliable = FALSE
  Window = 1
  MaxTime = 2
  MaxCalls = 5
SYMMETRY Symmetry
SPECIFICATION Spec
INVARIANT LiveProvenance
PROPERTY LiveEdgesKept
CHECK_DEADLOCK FALSE
