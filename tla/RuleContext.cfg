SPECIFICATION TrackedSpec
CONSTANTS
  FirstNode = "filter"
  Relations <- Rels
  Nodes <- MixedNodes
  Routes <- MixedRoutes
  Scripts <- MixedScripts
  MayReject = TRUE
  Lists <- SwitchLists
  MaxItems = 1
  Registered <- SomeFunctions
INVARIANTS NoLostCompletion ReportedAfterOnEnd CompletionExact BranchesExact
PROPERTY CallerReturns
CHECK_DEADLOCK FALSE
