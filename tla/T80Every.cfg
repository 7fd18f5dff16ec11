SPECIFICATION ArchSpec
CONSTANTS
  PCSpan = 4
  JumpTargets <- OneTarget
  NMIVector = 1
  IM1Vector = 3
  Opcodes <- Every
  FlagTested <- Flags
  IntAckOps = {"RST"}
  MayRequestBus = FALSE
  MayNMI = FALSE
  MayReset = FALSE
  ROMCycle <- CycleOf
  ROMCount <- CountOf
  ROMPrefix <- PrefixOf
INVARIANTS TypeOK ReadsAtPC
PROPERTY ImplementsZ80
