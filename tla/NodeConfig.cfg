\* Two requests at a time, two saves, two bodies and two overrides.
SPECIFICATION NodeSpec
CONSTANTS
  Handlers = {h1, h2}
  Bodies <- MCBodies
  Default <- MCDefault
  MergeNested <- MCMergeNested
  Null = null
  Broken = broken
  None = none
  MaxSaves = 2
  Overrides <- MCOverrides
SYMMETRY ConfigSymmetry
INVARIANTS SaveSticks NodeGetsSaved OneInboundPerKey
