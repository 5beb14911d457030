\* A deleted user's record keeps the usage of the others from the ledger.
SPECIFICATION FairSpec
CONSTANTS
  Users = {u1, u2}
  Directions = {up}
  MaxBytes = 1
  MaxResets = 0
  MaxFaults = 0
  MaxBadSaves = 0
  MaxDeletes = 1
PROPERTY UsageIsReported
