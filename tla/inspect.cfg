SPECIFICATION Spec
CONSTANTS
  Projects <- MCProjects
  Invocations <- MCInvocations
  RootDir <- MCRoot
  Words <- MCWords
  Typed = {"slow", "("}
  Visible = 4
  Widths = {79, 80, 133}
  MaxLoads = 2
  MaxKeys = 3
  MaxScroll = 1
INVARIANTS
  GraphWhole
  ScreenTrue
  FixtureDataCurrent
PROPERTIES
  NodesStay
  LoadingEnds
