SPECIFICATION FairSpec
CONSTANTS
  Uses <- AllUses
  Modes = {"area", "fill", "line"}
  Sizes <- SmallSizes
  Mod <- MCMod
  DmaBits = {"BLITHOG"}
  Discipline = "stopped"
  MaxBlits = 1
  Slots = 2
  Contended = {0}
PROPERTIES BothGetOn
