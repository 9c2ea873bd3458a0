SPECIFICATION MCSpec
CONSTANTS
  TOTAL_KEYS_LOG_2 = 5
  MAX_KEY_LOG_2 = 4
  NUM_BUCKETS_LOG_2 = 3
  MAX_ITERATIONS = 2
  HalfBits = 5
  multiplier = 293
  test_index_array <- TestPlaces
  OmpSeeds <- FewSeeds
  MpiSeeds <- SomeSeeds
  Teams = {1, 2, 3}
  Started = {1, 2, 3, 4}
  Traffics <- SomeTraffics
  Asked <- SomeClasses
  MaxEdits = 1
INVARIANTS
  SortsTheKeys
  SortsEverywhere
  WaitsLeadToWork
  ResultsAreFlow
  BinaryIsItsClass
  HeaderIsRight
