SPECIFICATION Spec
CONSTANTS
  Builds = {b1}
  Builders = {d1, d2}
  Digests = {g1, g2}
  Jobs = {j1}
  None = None
  MaxCancels = 2
  MaxFaults = 2
SYMMETRY BuilderSymmetry
INVARIANTS TypeOK BuildAgreesWithAssignment RailpackHasPlan JobImageIsThere
PROPERTY ResultIsFinal
CHECK_DEADLOCK FALSE
