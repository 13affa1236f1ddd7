SPECIFICATION Spec
CONSTANTS
  Jobs = {j1}
  Nodes = {n1}
  NoNode = NoNode
  NoJob = NoJob
  Handlers = {h1}
  Events = {"PULLING_IMAGE", "STARTING", "RUNNING", "SUCCEEDED", "FAILED", "CANCELLED"}
  MaxAttempts = 2
  MaxReruns = 1
INVARIANT IInv
PROPERTY IsLifecycle
