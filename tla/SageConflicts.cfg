CONSTANTS
  Memory = {m1}
  Claim = {c1, c2}
  Agent = {a1, a2}
  Object = {o1, o2}
  NoObject = NoObject
  NoNode = NoNode
  LinkTypes = {"CONTRADICTS"}
  Enforce = FALSE
  PgReliable = TRUE
  Window = 1
  MaxTime = 0
  MaxCalls = 4
SYMMETRY Symmetry
SPECIFICATION Spec
INVARIANTS ConflictsFlagged ReplacedStaysReplaced
CHECK_DEADLOCK FALSE
