SPECIFICATION Spec
CONSTANTS
  Handles <- OneHandle
  Tasks <- OneTask
  HandleOf <- AllOnOne
  Tables <- JustDocs
  AutoTables <- JustDocs
  Texts <- TwoTexts
  Calls <- DropCalls
  Grants <- AllGranted
  Embeds <- OneHandle
  Audited <- OneHandle
  Encrypted = FALSE
  Nobody = Nobody
  MaxIds = 2
  MaxFaults = 0
  None = None
INVARIANT SettledAgree
