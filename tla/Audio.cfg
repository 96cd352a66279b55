SPECIFICATION FairSpec
CONSTANTS
  Debugger = {"key", "access", "inst", "frames", "vpos"}
  MayQuit = TRUE
  MaxFrames = 5
INVARIANTS EachFrameOnce InOrderUntilUnderrun
PROPERTIES WaitEndsUnlessPaused
CHECK_DEADLOCK FALSE
