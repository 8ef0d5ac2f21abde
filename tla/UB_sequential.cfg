SPECIFICATION FairSpec
CONSTANTS
  Blocks <- WideBlocks
  Slot <- WideSlot
  Parent <- WideParent
  Anc <- WideAnc
  None = None
  Unavailable = Unavailable
  Failed = Failed
  LongTermSlots = {}
  TreatLongTermStorageSkipAsSkipped = TRUE
  Threshold = 1
  AsyncFinality = FALSE
  MaxQueue = 0
  Kills = FALSE
  Supervised = FALSE
  Undefined = Undefined
  Null = Null
INVARIANTS ForkYieldsRewind NoExit
PROPERTIES ForkResolved CatchesUp
CHECK_DEADLOCK FALSE
