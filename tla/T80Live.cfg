SPECIFICATION FairSpec
CONSTANTS
  PCSpan = 2
  JumpTargets <- OneTarget
  NMIVector = 1
  IM1Vector = 1
  Opcodes <- NoPrefixes
  FlagTested <- Flags
  IntAckOps = {"RST"}
  MayRequestBus = TRUE
  MayNMI = TRUE
  MayReset = TRUE
  ROMCycle <- CycleOf
  ROMCount <- CountOf
  ROMPrefix <- PrefixOf
PROPERTIES NMIServed ResumesFetching
