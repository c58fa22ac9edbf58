SPECIFICATION Spec
CONSTANTS
  Request = {r1, r2}
  NoRequest = NoRequest
  Batch <- MCBatch
  Extracted = {x1}
  x1 = x1
  age = age
  city = city
  Topic = {age, city}
  NoTopic = NoTopic
  Object = {1, 2, 3}
  About <- MCAbout
  ChunkSize = 2
  MaxFaults = 2
INVARIANTS TypeOK InsideUnderLock SupersededForAReason NeighboursLinked AnswersTrue
SYMMETRY Symmetry
CHECK_DEADLOCK FALSE
