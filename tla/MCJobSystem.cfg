\* Crashes, a stale mark, a stop, a failing call and a rerun on any node.
SPECIFICATION Spec
CONSTANTS
  Nodes = {a1, a2}
  NoNode = NoNode
  MaxAttempts = 2
  MaxFailures = 1
  MaxExits = 1
  MaxSweeps = 1
  MaxStops = 1
SYMMETRY NodeSymmetry
INVARIANTS
  IInv
  StartedOnce
  ResultMeansEndedIfUndisturbed
  RunningIsJournaled
CHECK_DEADLOCK FALSE
