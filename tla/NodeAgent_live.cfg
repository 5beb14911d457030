\* Two accepted configurations and a rejected one, one command, one of each
\* fault.
SPECIFICATION FairSpec
CONSTANTS
  Configs = {good1, good2, bad}
  Accepted = {good1, good2}
  None = none
  Torn = torn
  Commands = {c1}
  MaxChanges = 1
  MaxFaults = 1
  MaxDown = 1
  MaxWrites = 1
PROPERTIES CommandsComplete DesiredIsApplied KeepsRunning
