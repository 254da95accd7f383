CONSTANTS
  MaxLines = 5
  MaxDamage = 2
  Postures = {"host", "docker"}
  ChannelUse = {TRUE, FALSE}
SPECIFICATION EventsSpec
INVARIANTS VerifiedIsGenuine IntactVerifies WholeLinesOnce EndIsComplete
PROPERTY NoDowngrade
