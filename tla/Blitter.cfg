SPECIFICATION Spec
CONSTANTS
  Uses <- SomeUses
  Modes = {"area", "fill", "line", "onedot"}
  Sizes <- SmallSizes
  Mod <- MCMod
  DmaBits = {"MASTER", "BLITHOG"}
  Discipline = "stopped"
  MaxBlits = 2
  Slots = 1
  Contended = {0}
INVARIANTS EachOnce CpuLosesAtMostTwo
PROPERTIES PointersAtEnd CopySpec
