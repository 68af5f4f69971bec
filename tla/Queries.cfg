SPECIFICATION QuerySpec
CONSTANTS
  Handles <- OnlyH1
  Tasks <- OneTask
  HandleOf <- TaskOnFirst
  Tables <- JustDocs
  AutoTables <- JustDocs
  Texts <- TwoTexts
  Calls <- SomeCalls
  Grants <- AllGranted
  Embeds <- OnlyH1
  Audited <- OnlyH1
  Encrypted = FALSE
  Nobody = Nobody
  MaxIds = 2
  MaxFaults = 1
  None = None
  Readers <- OneReader
  ReaderOf <- ReaderOnFirst
  Requests <- AllKinds
  ChunksOf <- TwoChunksOfA
  DEFAULT_K = 2
  SMALL_CORPUS_K = 1
  SMALL_CORPUS_THRESHOLD = 2
INVARIANT QueryTypeOK
PROPERTIES OneQuestion SearchFindsAll HitsAreTrue FusedByFormula BothBeatOne
