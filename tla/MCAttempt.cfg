SPECIFICATION Spec
CONSTANTS
  t1 = t1
  t2 = t2
  n1 = n1
  n2 = n2
  n3 = n3
  Nobody = Nobody
  Revoked = Revoked
  Tokens <- MCTokens
  NodeIds <- MCNodeIds
  MaxIssued = 4
  Bytes = {1, 2}
  Mask = 0
  SecretsOfJobs <- MCSecretsOfJobs
  MaxLog = 6
  MaxFrames = 3
  OutputFiles = {1, 2, 3}
  MaxLength = 2
  Syncs = {1, 2}
  CheckpointFiles = {1, 2}
  MaxWrites = 2
  MaxServerEvents = 1
  Requests = {1, 2, 3}
  Other = {3}
  InputParts <- MCInputParts
  InputContents <- MCInputContents
  MaxInputs = 2
  Limit <- MCLimit
  Faults <- MCFaults
  Crashes <- MCCrashes
INVARIANTS
  AccessIsKept OnlySecretsAreHidden LogIsTheContainers
  ManifestListsTheOutputs CheckpointIsWhole EventsAreLoggedOnce
  KeyGivesOneJob JobRunsOnItsInputs
PROPERTIES
  PromotedIsFinal
CHECK_DEADLOCK FALSE
