CONSTANTS
  MaxRuns = 3
  Requests <- MCRequests
  NoKey = NoKey
  NoRequest = NoRequest
  Configs <- MCConfigs
SPECIFICATION SafeSpec
CHECK_DEADLOCK FALSE
PROPERTY RetryNeverDoubles
