SPECIFICATION Spec
CONSTANTS
  Handles <- TwoHandles
  Tasks <- TwoTasks
  HandleOf <- OneTaskEach
  Tables <- DocsAndNotes
  AutoTables <- JustDocs
  Texts <- TwoTexts
  Calls <- UsualCalls
  Grants <- OneGranted
  Embeds <- TwoHandles
  Audited <- TwoHandles
  Encrypted = FALSE
  Nobody = Nobody
  MaxIds = 2
  MaxFaults = 1
  None = None
INVARIANTS TypeOK VectorsAreTrue SettledAgree LogAccountsForRows
PROPERTIES AnnouncedIsDeleted OnlyTheWriterChanges TokenCoversChange
