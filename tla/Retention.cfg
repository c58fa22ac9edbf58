SPECIFICATION Spec
CONSTANTS
  Memories = 1
  Reflections = 2
  KeepCount = 1
  BatchSize = 2
  MaxFaults = 2
INVARIANTS TypeOK VectorsAccounted NewestReflectionsKept
PROPERTY TombstonedLeave
CHECK_DEADLOCK FALSE
