SPECIFICATION MCSpec
CONSTANTS
  measbound = 31415
  Inputs <- SomeInputs
  Memories <- SomeMemories
  StaleChunks <- SomeStaleChunks
  MAX_NUM_OF_CHUNKS = 5
  Runs <- SomeRuns
  MAX_NUMBER_OF_TASKS = 2
  SSA_BUFFER_SIZE = 100
INVARIANTS
  TreeIsBalanced
  EachViewOnce
  LastViewIsGroupBy
  VerifiedWhenComplete
PROPERTIES
  IsGroupBy
  LoopsEnd
