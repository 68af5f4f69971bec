SPECIFICATION Spec
CONSTANTS
  None = None
  Handles <- OneHandle
  Paths <- OnePath
  Parts <- SmallParts
  Ranges <- JustAll
  BlockSize = 2
  HEADER_LEN = 2
  BLOCK_OVERHEAD = 1
  MaxLen = 5
  MaxKeys = 2
  MaxDamages = 1
  MaxFaults = 0
INVARIANT TruncationNoticed
