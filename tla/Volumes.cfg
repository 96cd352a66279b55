SPECIFICATION Spec
CONSTANTS
  a = a
  b = b
  Names = {a, b}
  Dots = Dots
  PacketNames <- MCPacketNames
  NewNames <- MCNewNames
  InitialHost <- MCHost
  MaxDepth = 2
  MaxId = 4
  MaxLocks = 2
  MaxHandles = 1
  MaxHeld = 2
  MaxEntries = 3
  ScanSlots = {1}
INVARIANTS HoldersMatch LiveTree ScanSeesAll
CHECK_DEADLOCK FALSE
