SPECIFICATION Spec
CONSTANTS
  Requested = 2
  NumGroups = 3
  Size <- SizeThree
  MaxFail = 0
  HasProcessFixtures = FALSE
  TaskFits = TRUE
  PipeCap = 2
  MaxTailLines = 1
  MaxDiags = 0
  RunOutcomes = {"passed"}
  Prints = {}
  Faults = {"crash", "wedge", "die", "spawn"}
INVARIANTS TypeOK ReportedAtMostOnce EveryItemReported
  NothingLeftInFlight NoSubprocessLeft
