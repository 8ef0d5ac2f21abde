SPECIFICATION HarmlessSpec
CONSTANTS
  Blocks <- TwinBlocks
  Slot <- TwinSlot
  Parent <- TwinParent
  Anc <- TwinAnc
  None = None
  Unavailable = Unavailable
  Failed = Failed
  LongTermSlots = {}
  TreatLongTermStorageSkipAsSkipped = TRUE
  Threshold = 1
  AsyncFinality = TRUE
  MaxQueue = 1
  Kills = TRUE
  Supervised = TRUE
  Undefined = Undefined
  Null = Null
INVARIANTS Tracked RewindSafe TargetFinal
PROPERTIES DroppedAreFinal ImplementsReorgSafeIndex
CHECK_DEADLOCK FALSE
