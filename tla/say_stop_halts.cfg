SPECIFICATION Spec
CONSTANTS
  run = run
  task = task
  guidance = guidance
  stop = stop
  None = None
  Serve = Serve
  Cli = Cli
  Runs <- OneRun
  Mails <- TaskAndReplies
  Commissions <- Task
  Stops <- Stop
  RunOf <- AboutRun
  TurnsMax = 2
  PerRun = 4
  PerHour = 4
  PerDay = 4
  Hour = 1
  Day = 2
  MaxReplies = 1
  MaxCommands = 0
  MaxFaults = 0
PROPERTY StopRefusesNextTurn
