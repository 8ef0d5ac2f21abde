SPECIFICATION FairSpec
CONSTANTS
  Blocks <- ForkBlocks
  Slot <- ForkSlot
  Parent <- ForkParent
  Anc <- ForkAnc
  None = None
  Unavailable = Unavailable
  Failed = Failed
  LongTermSlots = {1}
  TreatLongTermStorageSkipAsSkipped = TRUE
  Endpoints <- EndpointSet
  GenesisOf <- Genesis
  Nodes = {n1, n2}
  Batches <- BatchSet
  Unparsable = {"b4"}
  MaxAttempts = 2
INVARIANTS TypeOK OneChain NoFalseSkip BatchComplete CauseRecognised
PROPERTIES FinalizedAnswer NothingHangs
CHECK_DEADLOCK FALSE
