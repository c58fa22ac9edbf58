CONSTANTS
  Item = {i1, i2, i3}
  BatchSize = 2
  Timer = Timer
  Closer = Closer
  Nobody = Nobody
SPECIFICATION Spec
INVARIANTS TypeOK NoStranded CloseDrains
PROPERTIES CallersReturn ImplementsOutbox
