SPECIFICATION SpecBus
CONSTANTS
  PCSpan = 1
  JumpTargets <- OneTarget
  NMIVector = 0
  IM1Vector = 0
  Opcodes <- BusShapes
  FlagTested <- Flags
  IntAckOps = {"RST"}
  MayRequestBus = TRUE
  MayNMI = TRUE
  MayReset = TRUE
  ROMCycle <- CycleOf
  ROMCount <- CountOf
  ROMPrefix <- PrefixOf
INVARIANTS TypeOKBus OneTransfer QuietGrant WriteDataValid OpcodeFromMemory ByteRead AcknowledgeTiming
PROPERTIES DataHeld AddressStable
