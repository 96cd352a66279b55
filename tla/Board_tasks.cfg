SPECIFICATION HarddiskSpec
CONSTANTS
  local_ram_size = 24
  NameBytes <- MCNameBytes
  fl_Sizeof = 20
  Tasks = {t1, t2}
  Disks <- MCDisks
  Resources <- MCResources
  DiskRequests <- MCDiskRequests
INVARIANTS
  RepliedIsServed
CHECK_DEADLOCK FALSE
