CONSTANTS
  MaxFrames = 7
  MaxBranches = 2
  MaxSteps = 3
  MaxDepth = 2
  DispatchLimit = 2
  Workflows = {"main", "w"}
  EntryName = "main"
  Script = "script"
  Programs <- MCPrograms
  Routes <- MCRoutes
  RecoverLimit <- MCRecoverLimit
SPECIFICATION Spec
INVARIANT EntryContextAtBottom
INVARIANT RoutedReachEntry
INVARIANT ConsumersRunAlone
 
PROPERTY JoinKeepsFailures
PROPERTY RunEnds
