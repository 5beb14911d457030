\* Two handlers, three identified devices and an anonymous one, limits -1 to 2.
SPECIFICATION Spec
CONSTANTS
  Handlers = {h1, h2}
  Identified = {d1, d2, d3}
  Anonymous = {a1}
  Limits <- EnteredLimits
SYMMETRY DeviceSymmetry
INVARIANTS OvershootBounded RegisteredNeverDenied ServedIsRegistered AdmittedInv
