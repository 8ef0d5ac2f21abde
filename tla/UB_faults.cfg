SPECIFICATION Spec
CONSTANTS
  Blocks <- TwinBlocks
  Slot <- TwinSlot
  Parent <- TwinParent
  Anc <- TwinAnc
  None = None
  Unavailable = Unavailable
  Failed = Failed
  LongTermSlots = {5}
  TreatLongTermStorageSkipAsSkipped = FALSE
  Threshold = 1
  AsyncFinality = TRUE
  MaxQueue = 1
  Kills = TRUE
  Supervised = TRUE
  Undefined = Undefined
  Null = Null
INVARIANTS TypeOK ListChained Sequential LastCheckedFinal
PROPERTY OnlyKnownExits
CHECK_DEADLOCK FALSE
