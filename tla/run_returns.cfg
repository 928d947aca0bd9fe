SPECIFICATION FairSpec
CONSTANTS
  a = a
  b = b
  c = c
  stranger = stranger
  None = None
  Agents <- TwoAgents
  Outsider = stranger
  MaxItems = 1
  RejectionsMax = 1
  RawOwners <- NoOwnerOrAgents
  RawVerifiers <- OnlyNone
  RawRejections <- Zero
  MaxCopies = 1
  AgentOrder <- TwoOrder
  TurnsMax = 3
  RepromptsMax = 1
  NoProgressHalt = 2
  MaxRecoveries = 1
  MailMayBlock = TRUE
  MaxNotes = 1
  MaxCommands = 1
  MaxCrashes = 1
PROPERTY RunReturns
