CONSTANTS
  Calls = {c1, c2}
  MaxGen = 1
  Transports = {"http"}
SPECIFICATION SafeSpec
INVARIANT LeaseKeepsScripts
