CONSTANTS
  Path <- MCPath
  Alias <- MCAlias
  NoPath = "none"
  Entry = "main"
  Imports <- MCImports
  MaxChanges = 1
  Key = {"backend", "flags"}
  EntryOnly = {"backend"}
  Here = "here"
  NoTarget = "nowhere"
  MaxNesting = 3
  PathOrder <- MCPathOrder
  RecoverLimit = 1
  MaxFrames = 6
  MaxLines = 2
  MaxText = 6
  MaxItems = 4
  MaxFormats = 2
SPECIFICATION Spec
INVARIANTS SettingsFollowModules GraphIsClosure AcceptedResolves BindingsReachTheirReaders NeverRebound ScriptsRunAsWritten FormatRoundTrips BracesDecide
\* A program or a formatting that has ended does nothing more.
CHECK_DEADLOCK FALSE
