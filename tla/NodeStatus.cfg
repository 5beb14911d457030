\* Two requests at a time, an edit, an expiry while the agent runs, a failed
\* statement.
SPECIFICATION FairSpec
CONSTANTS
  Handlers = {h1, h2}
  MaxPatches = 1
  MaxStale = 1
  MaxFaults = 1
INVARIANTS StatusInv RestoredBounded ShownOnlineWasSeen LogTellsStatus
PROPERTY LiveIsShown
