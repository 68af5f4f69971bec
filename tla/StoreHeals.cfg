SPECIFICATION FairSpec
CONSTANTS
  Handles <- TwoHandles
  Tasks <- TwoTasks
  HandleOf <- OneTaskEach
  Tables <- JustDocs
  AutoTables <- JustDocs
  Texts <- TwoTexts
  Calls <- DocsCalls
  Grants <- AllGranted
  Embeds <- OnlyH1
  Audited <- OnlyH1
  Encrypted = FALSE
  Nobody = Nobody
  MaxIds = 2
  MaxFaults = 2
  None = None
PROPERTY Heals
