SPECIFICATION Spec
CONSTANTS
  Requested = 1
  NumGroups = 2
  Size <- SizeTwo
  MaxFail = 0
  HasProcessFixtures = TRUE
  TaskFits = TRUE
  PipeCap = 2
  MaxTailLines = 2
  MaxDiags = 2
  RunOutcomes = {"passed"}
  Prints = {"noise", "trace"}
  Faults = {"crash", "stall", "garble"}
INVARIANT DiagnosticsRecorded
CHECK_DEADLOCK FALSE
