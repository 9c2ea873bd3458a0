SPECIFICATION FairSpec
CONSTANTS
  Tid = {1, 2}
  Root = 1
  Cpu <- ThreeCpus
  Node = {0, 1}
  NodeOf <- ThreeCpusNode
  Distance <- TwoNodes
  MigrateToNodes = TRUE
PROPERTIES
  BalanceEnds
  ThreadsGetPinned
  DeadAreForgotten
