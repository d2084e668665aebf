CONSTANTS
  Blocks <- SetupBlocks
  Cb <- SetupCb
  Tbds <- NoTbds
  Td <- NoTd
  Heads <- SetupHeads
  Pulses <- AnyPulse
  ResetStates <- ResetAtSetup
  Medium <- QuietMedium
  McSlots = 2
  RamBytes = 1
  LbDepth = 1
  DeferLimit = 1
  RetryLimit = 0
  Ratio = 1
  Null = Null
SPECIFICATION FairSpec
INVARIANTS
  ListOrder
  SetupApplied
PROPERTIES
  UnitPromise
  AbortHonoured
  ListEnds
