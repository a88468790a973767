SPECIFICATION Spec
CONSTANTS
  Requested = 2
  NumGroups = 2
  Size <- SizeTwo
  MaxFail = 2
  HasProcessFixtures = FALSE
  TaskFits = TRUE
  PipeCap = 2
  MaxTailLines = 1
  MaxDiags = 0
  RunOutcomes = {"passed", "failed"}
  Prints = {}
  Faults = {"crash", "wedge", "spawn"}
INVARIANTS StopsAtMaxFail
PROPERTIES NothingAfterStop ImplementsContract
