SPECIFICATION FairSpec
CONSTANTS
  r1 = r1
  r2 = r2
  r3 = r3
  None = None
  First = First
  Requests <- Three
  Revocable = TRUE
  Ambiguous = TRUE
  MaxCrashes = 1
INVARIANTS TypeOK LeaseProtectsExecution ReadyIsCertified GrantsAccountedFor ReceiptsAreEvidence
PROPERTIES DisconnectSticks LeasesEnd
CHECK_DEADLOCK FALSE
