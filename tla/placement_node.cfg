SPECIFICATION Spec
CONSTANTS
  Tid = {1, 2, 3}
  Root = 1
  Cpu <- TwoCpus
  Node = {0, 1}
  NodeOf <- TwoCpusNode
  Distance <- TwoNodes
  MigrateToNodes = TRUE
INVARIANTS
  TreeIsConnected
  OnlyListedTids
  NodeMapMatchesRecord
  CountedThreadsAreConfined

PROPERTIES
  PlaceChangesWithMask
