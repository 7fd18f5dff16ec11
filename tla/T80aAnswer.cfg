SPECIFICATION SpecBus
CONSTANTS
  PCSpan = 1
  JumpTargets <- OneTarget
  NMIVector = 0
  IM1Vector = 0
  Opcodes <- Few
  FlagTested <- Flags
  IntAckOps = {"RST"}
  MayRequestBus = TRUE
  MayNMI = FALSE
  MayReset = FALSE
  ROMCycle <- CycleOf
  ROMCount <- CountOf
  ROMPrefix <- PrefixOf
INVARIANT AnswerUnderIORQ
