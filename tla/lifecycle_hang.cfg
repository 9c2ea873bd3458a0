SPECIFICATION FairSpec
CONSTANTS
  UserSignal = {}
  MaxUserSignals = 0
  Buffer = {0, 1}
PROPERTY EndOfProgramIsSeen
