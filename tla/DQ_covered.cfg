CONSTANTS
  Undef = Undef
  Thrown = Thrown
  p1 = p1
  p2 = p2
  a1 = a1
  a2 = a2
  Hex <- MCHex
  Idls <- MCIdls
  Base58 <- MCBase58
  Manifests <- MCManifests
  Templates <- MCTemplates
  Args <- SomeArgs
  Items <- MCItems
  MaxHandlers = 3
SPECIFICATION Spec
INVARIANTS TypeOK Covered ValidatedBeforeQuery
CHECK_DEADLOCK FALSE
