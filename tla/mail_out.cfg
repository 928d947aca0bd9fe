SPECIFICATION FairSpec
CONSTANTS
  run = run
  task = task
  guidance = guidance
  stop = stop
  None = None
  Serve = Serve
  Cli = Cli
  Runs <- OneRun
  Mails <- TaskAndReplies
  Commissions <- Task
  Stops <- Stop
  RunOf <- AboutRun
  TurnsMax = 1
  PerRun = 1
  PerHour = 1
  PerDay = 2
  Hour = 1
  Day = 2
  MaxReplies = 1
  MaxCommands = 1
  MaxFaults = 1
INVARIANTS TypeOK CeilingsHold DeliveredIsMailed
PROPERTY MailsAnswered
