SPECIFICATION Spec
CONSTANTS
  None = None
  Handles <- OneHandle
  Paths <- OnePath
  Parts <- SmallParts
  Ranges <- SomeRanges
  BlockSize = 2
  HEADER_LEN = 2
  BLOCK_OVERHEAD = 1
  MaxLen = 6
  MaxKeys = 2
  MaxDamages = 1
  MaxFaults = 1
INVARIANTS TypeOK StreamedIsSealed SizesAreTrue ReadsAreAuthentic ReadsSucceed
