\* Two accepted configurations and a rejected one, two commands, one of each
\* fault.
SPECIFICATION Spec
CONSTANTS
  Configs = {good1, good2, bad}
  Accepted = {good1, good2}
  None = none
  Torn = torn
  Commands = {c1, c2}
  MaxChanges = 1
  MaxFaults = 1
  MaxDown = 1
  MaxWrites = 1
SYMMETRY AgentSymmetry
INVARIANTS FileIsKnownGood NeverRunsRejected Recoverable AgentInv
PROPERTY ImplementsCommandQueue
