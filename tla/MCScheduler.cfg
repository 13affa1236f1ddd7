CONSTANTS
  Jobs = {1, 2, 3}
  Nodes = {1, 2}
  GPUs = {1, 2, 3}
  Labels <- MCLabels
  NoNode = NoNode
  NoPackage = "none"
  Request <- MCRequest
  Total <- MCTotal
  Sizes <- MCSizes
  Inventory <- MCInventory
  Vram <- MCVram
  MaxChanges = 2
SPECIFICATION Spec
INVARIANTS IInv GpuExclusiveUnlessResurrected
PROPERTIES NeverOversubscribed LighterIsNotOvertaken QueuedIsPlaced
CHECK_DEADLOCK FALSE
