SPECIFICATION FairSpec
CONSTANTS
  Requested = 2
  NumGroups = 2
  Size <- SizeOnes
  MaxFail = 0
  HasProcessFixtures = FALSE
  TaskFits = TRUE
  PipeCap = 1
  MaxTailLines = 1
  MaxDiags = 0
  RunOutcomes = {"passed"}
  Prints = {"noise"}
  Faults = {"crash", "wedge", "die", "spawn"}
PROPERTIES PhaseReturns
