CONSTANTS
  Calls = {c1, c2, c3}
  MaxGen = 2
  Transports = {"stdio", "http"}
SPECIFICATION Spec
INVARIANT ScriptsOutliveCall
INVARIANT SupersededDirsAreLeased
PROPERTY SecondSignalFinishes
