CONSTANTS
  MaxCalls = 2
  MaxSteps = 0
  Clients = {"ann", "bob"}
  Ids = {1, 2}
  NoCall = NoCall
  Sessions <- Shared
SPECIFICATION SafeSpec
CHECK_DEADLOCK FALSE
INVARIANT OthersUntouched
