CONSTANTS
  MaxFrames = 6
  MaxBranches = 2
  MaxSteps = 3
  MaxDepth = 2
  DispatchLimit = 2
  Workflows = {"main", "v", "w"}
  EntryName = "main"
  Script = "script"
  Programs <- MCSenderPrograms
  Routes <- MCRoutes
  RecoverLimit <- MCRecoverLimit
SPECIFICATION SafeSpec
INVARIANT SenderRanTheSend
