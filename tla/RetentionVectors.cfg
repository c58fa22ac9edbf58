SPECIFICATION Spec
CONSTANTS
  Memories = 1
  Reflections = 2
  KeepCount = 1
  BatchSize = 2
  MaxFaults = 2
INVARIANT HardDeleteReachesQdrant
CHECK_DEADLOCK FALSE
