\* Two processes, an accepted and a rejected configuration.
SPECIFICATION FairSpec
CONSTANTS
  Configs = {good, bad}
  Accepted = {good}
  None = none
  Torn = torn
  MaxStarts = 2
INVARIANTS NoOrphan FailedRestartIsDown DriverInv
PROPERTIES ImplementsSingbox CallsReturn
