CONSTANTS
  p = p
  q = q
  r = r
  Undefined = Undefined
  Null = Null
  Programs = {p, q, r}
  Inputs <- MCInputs
  Histories <- MCHistories
  Content <- MCContent
  Bytes <- MCBytes
  Hex <- MCHex
  Base58 <- MCBase58
  Block <- MCBlock
  MaxBlocks = 2
  MaxDynamic = 2
SPECIFICATION Spec
INVARIANTS TypeOK FilterFindsIdl DecodedWithFirst CachesCurrent InChainOrder NoneLeftOut
CHECK_DEADLOCK FALSE
