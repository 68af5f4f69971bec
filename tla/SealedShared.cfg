SPECIFICATION Spec
CONSTANTS
  None = None
  Handles = {h1, h2}
  Paths = {a, b}
  Parts <- WholeBlocks
  Ranges <- TwoRanges
  BlockSize = 2
  HEADER_LEN = 2
  BLOCK_OVERHEAD = 1
  MaxLen = 4
  MaxKeys = 2
  MaxDamages = 0
  MaxFaults = 0
SYMMETRY Interchangeable
INVARIANTS KeysKept ReadsAreAuthentic
