SPECIFICATION ArchSpec
CONSTANTS
  PCSpan = 4
  JumpTargets <- OneTarget
  NMIVector = 1
  IM1Vector = 3
  Opcodes <- Delicate
  FlagTested <- Flags
  IntAckOps = {"RST"}
  MayRequestBus = TRUE
  MayNMI = TRUE
  MayReset = TRUE
  ROMCycle <- CycleOf
  ROMCount <- CountOf
  ROMPrefix <- PrefixOf
INVARIANTS InterruptsShutOut ReadsAtPC M1MarksFetch
PROPERTIES GrantFreezes ImplementsZ80
