\* A stop of a job whose agent works, nothing fails.
SPECIFICATION FairSpec
CONSTANTS
  Nodes = {a1}
  NoNode = NoNode
  MaxAttempts = 1
  MaxFailures = 0
  MaxExits = 0
  MaxSweeps = 0
  MaxStops = 1
PROPERTY StopEnds
CHECK_DEADLOCK FALSE
