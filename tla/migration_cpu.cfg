SPECIFICATION MFairSpec
CONSTANTS
  Tid = {1, 2}
  Root = 1
  Cpu <- TwoCpus
  Node = {0, 1}
  NodeOf <- TwoCpusNode
  Distance <- TwoNodes
  MigrateToNodes = FALSE
  Strategy = {"CIMAR", "IMAR2", "LBMA", "RANDOM"}
  MaxMigrations = 2
INVARIANTS
  CpuMapMatchesRecord
  SwapsAreReal
PROPERTIES
  RoundEnds
ACTION_CONSTRAINT SteadyButForImar2
