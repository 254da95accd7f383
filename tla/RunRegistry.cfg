CONSTANTS
  MaxRuns = 3
  Requests <- MCRequests
  NoKey = NoKey
  NoRequest = NoRequest
  Configs <- MCConfigs
SPECIFICATION Spec
\* Everything MaxRuns allows has been created: an idle server waits for ever.
CHECK_DEADLOCK FALSE
INVARIANT IndexAnswersNewest
INVARIANT CapBoundsProcesses
INVARIANT RecordsKeepOrigin
INVARIANT CancelDecides
PROPERTY RecordsWrittenOnce
PROPERTY ImplementsService
PROPERTY CancelledRunsEnd
