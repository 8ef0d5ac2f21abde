CONSTANTS
  Slots <- MCSlots
  ParentSlot <- MCParentSlot
  None = None
  StartBlock = 2
  MaxSlot = 9
  Limit = 2
  QuerySize = 3
  BatchSize = 2
SPECIFICATION FairSpec
PROPERTY Advances
CHECK_DEADLOCK FALSE
