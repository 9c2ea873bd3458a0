SPECIFICATION SettledSpec
CONSTANTS
  Tid = {1, 2, 3}
  Root = 1
  Cpu <- ThreeCpus
  Node = {0, 1}
  NodeOf <- ThreeCpusNode
  Distance <- TwoNodes
  MigrateToNodes = TRUE
  Strategy = {"NIMAR", "RM3D", "ANNEALING"}
  MaxMigrations = 2
INVARIANTS
  EachThreadOnce
PROPERTIES
  RoundEndsAsRecorded
  StepsOfPlacement
ACTION_CONSTRAINT SteadyProgram
