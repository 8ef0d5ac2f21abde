SPECIFICATION Spec
CONSTANTS
  Blocks <- ForkBlocks
  Slot <- ForkSlot
  Parent <- ForkParent
  Anc <- ForkAnc
  None = None
  Unavailable = Unavailable
  Failed = Failed
  LongTermSlots = {}
  TreatLongTermStorageSkipAsSkipped = TRUE
  Threshold = 1
  AsyncFinality = TRUE
  MaxQueue = 0
  Kills = FALSE
  Supervised = FALSE
  Undefined = Undefined
  Null = Null
PROPERTY DroppedAreFinal
CHECK_DEADLOCK FALSE
