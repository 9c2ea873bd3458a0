SPECIFICATION SFairSpec
CONSTANTS
  Tid = {1}
  BufferSize = 136
  MapSize = 152
  Modulus = 100000
  BodySizes = {0}
  MaxHead = 240
  MaxCount = 2
  NumGroups = 3
  MaxHw = 1
  Watched = 1
  MaxFailures = 0
INVARIANTS
  CountedOnce
PROPERTIES
  QueueOfSamples
  ReadEnds
  GroupsTakeTurns
CHECK_DEADLOCK FALSE
