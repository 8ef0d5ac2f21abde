CONSTANTS
  None = None
  Projects <- MCProjects
  Files = {"a", "b"}
  Idls <- MCIdls
  CamelCase <- MCCamelCase
  HexNotation = {"0x74"}
  MaxEdits = 2
SPECIFICATION Spec
INVARIANTS TypeOK ResolvesAtRuntime TypesFitRuntime OutputCurrent
CHECK_DEADLOCK FALSE
