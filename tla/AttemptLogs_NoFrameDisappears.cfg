SPECIFICATION Spec
CONSTANTS
  MaxFrames = 3
  MaxSize = 9
  MaxFaults = 1
  MaxCrashes = 0
INVARIANT NoFrameDisappears
CHECK_DEADLOCK FALSE
