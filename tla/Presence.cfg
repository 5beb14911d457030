\* Two users, two pushes at a time, a fault, a user deleted.
SPECIFICATION FairSpec
CONSTANTS
  Users = {u1, u2}
  Slots = {p1, p2}
  Fresh = 1
  MaxLate = 1
  MaxFaults = 1
  MaxDeletes = 1
INVARIANTS ShownWasActive SnapshotIsWhole
PROPERTIES GoneDisappears StayerIsShown
