SPECIFICATION Spec
CONSTANTS
  Fixtures <- AllFixtures
  Tier <- TierOf
  IsAsync <- AsyncOf
  Name <- NameOf
  Deps <- DepsOf
  Anchor <- AnchorOf
  Modules <- AllModules
  MayFail = {"mod"}
  Interrupts = TRUE
  Requests <- Mixed
  MaxFail = 2
  Plans <- FourPlans
  Tasks <- TwoTasks
INVARIANTS TypeOK TornOnce  NoStaleValue  OnePerScope WideNeverLost 
  BoundaryAhead DisposedOnTime
PROPERTIES SerialContract RetriesSettle
