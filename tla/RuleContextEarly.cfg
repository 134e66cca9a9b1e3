SPECIFICATION TrackedSpec
CONSTANTS
  FirstNode = "first"
  Relations <- Rels
  Nodes <- PairNodes
  Routes <- PairRoutes
  Scripts <- PairScripts
  MayReject = FALSE
  Lists <- SwitchLists
  MaxItems = 1
  Registered <- SomeFunctions
INVARIANT ReturnsAfterAllNodes
CHECK_DEADLOCK FALSE
