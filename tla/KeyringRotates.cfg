SPECIFICATION Spec
CONSTANTS
  Owners <- TwoOwners
  Rotators <- OneOwner
  Passphrases <- TwoPassphrases
  None = None
  LastId = 3
  LastCount = 2
  MaxRandom = 9
  MaxFailures = 1
  MaxDamages = 1
INVARIANTS TypeOK Reopens SealedStayReadable NonceNeverReused TokensFollowPassphrase
CHECK_DEADLOCK FALSE
