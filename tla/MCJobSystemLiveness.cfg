\* The agent dies and restarts and its node is declared stale.
SPECIFICATION FairSpec
CONSTANTS
  Nodes = {a1}
  NoNode = NoNode
  MaxAttempts = 2
  MaxFailures = 0
  MaxExits = 3
  MaxSweeps = 2
  MaxStops = 0
PROPERTY RunningEnds
CHECK_DEADLOCK FALSE
