SPECIFICATION FairSpec
CONSTANTS
  Debugger = {"frames"}
  MayQuit = FALSE
  MaxFrames = 3
PROPERTIES
  WaitEnds
CHECK_DEADLOCK FALSE
