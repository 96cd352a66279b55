SPECIFICATION MachineSpec
CONSTANTS
  Digit = 2
  BufferSize = 2
  IndexMod = 4
  Keys = {1, 2}
  MaxKeys = 6
  Program <- MCProgram
  Lines = 5
  LinesCompared = 4
  Lists = {0, 4}
  LineLength = 4
  Drives = {0}
  Disks = {"x", "y"}
  Cylinders <- MCCylinders
  Extended = {"x"}
  Sectors = 2
  Speed = 2
  SyncWait = 1
  Lengths = {2, 5}
  Image = 1
  PortValues <- MCPorts
  Locations = {0, 8}
  SampleLengths = {0, 1, 2}
  LenMod = 4
  Periods = {1, 3}
  MinPeriod = 2
  PerMod = 4
  MinStart = 4
  MaxStop = 28
  LineEnd = 46
  Starts = {0, 8, 12}
  Stops = {16, 20, 24, 36}
  PlaneCounts = {0, 1, 4, 6, 7}
  Scrolls = {0, 5, 15}
  Modulo = 40
  SpriteCount = 2
  FirstLine = 1
  FieldLines = 5
  FirstSlot = 0
  LinePixels = 15
  CheckAhead = 2
  LowLines = 4
  Positions = {2, 4, 6}
  MaxWrites = 2
INVARIANTS CiaKeepsOrder DiskDataKept LineShown WholeSprites
PROPERTIES TimerOnTime ListSpec BlocksHeard
CHECK_DEADLOCK FALSE
