SPECIFICATION FairSpec
CONSTANTS
  Threads <- TwoThreads
  Texts <- SomeTexts
  TOKEN_LIMIT = 8
  BUCKETS <- TwoBuckets
  PassagePrefix = 1
  QueryPrefix = 1
  Special = 2
  Drift = 1
  Nobody = Nobody
  MaxFaults = 1
INVARIANTS TypeOK EmbeddedWhole CompiledOnce
PROPERTY CallsReturn
