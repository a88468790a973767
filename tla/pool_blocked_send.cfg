SPECIFICATION FairSpec
CONSTANTS
  Requested = 1
  NumGroups = 2
  Size <- SizeOnes
  MaxFail = 0
  HasProcessFixtures = FALSE
  TaskFits = FALSE
  PipeCap = 1
  MaxTailLines = 1
  MaxDiags = 2
  RunOutcomes = {"passed"}
  Prints = {}
  Faults = {}
PROPERTIES PhaseReturns
CHECK_DEADLOCK FALSE
