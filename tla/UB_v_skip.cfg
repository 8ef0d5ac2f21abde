SPECIFICATION Spec
CONSTANTS
  Blocks <- SkipBlocks
  Slot <- SkipSlot
  Parent <- SkipParent
  Anc <- SkipAnc
  None = None
  Unavailable = Unavailable
  Failed = Failed
  LongTermSlots = {}
  TreatLongTermStorageSkipAsSkipped = TRUE
  Threshold = 5
  AsyncFinality = FALSE
  MaxQueue = 0
  Kills = FALSE
  Supervised = FALSE
  Undefined = Undefined
  Null = Null
INVARIANT NoExit
CHECK_DEADLOCK FALSE
