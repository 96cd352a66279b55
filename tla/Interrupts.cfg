SPECIFICATION FairSpec
CONSTANTS
  Cias = {"A"}
  IcrBits = {"TA"}
  Ints = {"PORTS", "BLIT"}
  Masks = {0}
  EClock = 2
  CiaDelay = 3
  BlitDelay = 1
  IplDelay = 1
INVARIANTS IplSettles AtMostOneSpurious
PROPERTIES CiaReachesIntreq EventuallyTaken
