\* An agent dies between the creation and the start of a container.
SPECIFICATION Spec
CONSTANTS
  Nodes = {a1}
  NoNode = NoNode
  MaxAttempts = 1
  MaxFailures = 0
  MaxExits = 1
  MaxSweeps = 0
  MaxStops = 0
INVARIANT SuccessWasExecuted
CHECK_DEADLOCK FALSE
