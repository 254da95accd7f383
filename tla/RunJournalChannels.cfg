CONSTANTS
  MaxLines = 3
  MaxDamage = 0
  Postures = {"host"}
  ChannelUse = {TRUE}
SPECIFICATION Spec
INVARIANT EveryLineChained
