\* Two users, a restart of sing-box, a crash or timeout, a failed write, a
\* deleted user.
SPECIFICATION FairSpec
CONSTANTS
  Users = {u1, u2}
  Directions = {up}
  MaxBytes = 2
  MaxResets = 1
  MaxFaults = 1
  MaxBadSaves = 1
  MaxDeletes = 1
INVARIANTS TypeOK NoUsageLost OverchargeBounded ExactUntilReset SeenWasServed
PROPERTY SavedIsCredited
