SPECIFICATION Spec
CONSTANTS
  a = a
  b = b
  c = c
  stranger = stranger
  None = None
  Agents <- ThreeAgents
  Outsider = stranger
  MaxItems = 2
  RejectionsMax = 1
  RawOwners <- NoneSecondOrStranger
  RawVerifiers <- OnlyNone
  RawRejections <- Zero
  MaxCopies = 1
  AgentOrder <- ThreeOrder
  TurnsMax = 4
  RepromptsMax = 0
  NoProgressHalt = 2
  MaxRecoveries = 1
  MailMayBlock = FALSE
  MaxNotes = 1
  MaxCommands = 0
  MaxCrashes = 0
INVARIANTS TypeOK IndependentVerification HandoffIsForTurnHolder
PROPERTIES CustodyIsGranted ImplementsVerifiedWork
