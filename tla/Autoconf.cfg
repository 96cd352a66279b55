SPECIFICATION Spec
CONSTANTS
  Boards <- MCBoards
  Size <- MCSize
  LoPages = 4
  HiPages = 3
  Expansion <- MCExpansion
  RomBase = 10
  RomLen = 2
  AutoBase = 9
  CiaBase = 8
  MayShutup = TRUE
  SaveMidWrite = FALSE
INVARIANTS MapFollowsBoards BoardsKeepOrder
PROPERTIES OnlyShutupFails LoadRestores
CHECK_DEADLOCK FALSE
