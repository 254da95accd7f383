CONSTANTS
  MaxCalls = 3
  MaxSteps = 2
  Clients = {"ann", "bob"}
  Ids = {1, 2, 3}
  NoCall = NoCall
  Sessions <- MCSessions
SPECIFICATION Spec
\* Every call MaxCalls allows was made and has settled: the engine waits for input.
CHECK_DEADLOCK FALSE
PROPERTY ImplementsRequests
INVARIANT CancelsFindTheirCalls
PROPERTY KilledCallsSettle
