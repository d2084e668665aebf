CONSTANTS
  Blocks <- SendBlocks
  Cb <- SendCb
  Tbds <- SendTbds
  Td <- SendTd
  Heads <- SendHeads
  Pulses <- StartOnly
  ResetStates <- NoResets
  Medium <- AnyMedium
  McSlots = 1
  RamBytes = 32
  LbDepth = 2
  DeferLimit = 1
  RetryLimit = 1
  Ratio = 2
  Null = Null
SPECIFICATION Spec
INVARIANTS
  StagedWhole
  ReportedSent
  LoopbackFraming
