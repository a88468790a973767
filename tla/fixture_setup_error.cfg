SPECIFICATION Spec
CONSTANTS
  Fixtures <- FnFixtures
  Tier <- FnTier
  IsAsync <- FnAsync
  Name <- FnName
  Deps <- FnDeps
  Anchor <- FnAnchor
  Modules <- AllModules
  MayFail = {"bad"}
  Interrupts = FALSE
  Requests <- BothParams
  MaxFail = 2
  Plans <- OnePlan
  Tasks <- TwoTasks
INVARIANT NeverLost
