CONSTANTS
  Programs = {p, q}
  Undefined = Undefined
  MaxLines = 6
  MaxDepth = 3
SPECIFICATION Spec
INVARIANTS TypeOK Attributed
CHECK_DEADLOCK FALSE
