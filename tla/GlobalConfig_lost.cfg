\* A read puts back what a save has replaced.
SPECIFICATION FairSpec
CONSTANTS
  Handlers = {h1, h2}
  Bodies = {b1, b2}
  Default = default
  Null = null
  Broken = broken
  None = none
  MaxSaves = 1
PROPERTY SavedIsServed
