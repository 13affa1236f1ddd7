SPECIFICATION Spec
CONSTANTS
  Jobs = {j1}
  Nodes = {n1}
  NoNode = NoNode
  NoJob = NoJob
  Handlers = {h1, h2}
  Events = {"RUNNING", "FAILED"}
  MaxAttempts = 2
  MaxReruns = 1
SYMMETRY HandlerSymmetry
INVARIANT CurrentAttempt
INVARIANT CredentialSafety
INVARIANT NoAutomaticRetry
PROPERTY ResultLeftOnlyByUser
