SPECIFICATION HostSpec
CONSTANTS
  Sizes = {0, 8}
  Files = {"x", "y"}
  Delay = 2
  Drives = {0, 1}
  Inserted <- MCInserted
  cpu_scale = 2
  FrameCycles = 2
  MaxEvents = 1
  MaxChosen = 2
  MaxDebugged = 1
  Scale = 3
  Line = 6
  EClock = 5
  Ready = 3
  MaxTodo = 9
  MaxSlack = 30
  buffer_count = 3
  MaxPlayed = 7
  MaxPrompts = 3
  EscapeSize = 3
  MaxSent = 5
  Levels = {3}
  Statuses <- MCStatuses
  OddTables <- MCOddTables
  RoutineLength = 1
  MaxDepth = 2
  HunkTables <- MCTables
  ChipStart = 4
  ChipEnd = 20
  FastStart = 40
  MemoryEnd = 60
  HunkPage = 4
  PredefinedHunks = {2}
  BlockLengths = {0, 3}
  RelocOffsets = {0, 1}
  MaxBlocks = 2
INVARIANT
  FilesKept
CHECK_DEADLOCK FALSE
