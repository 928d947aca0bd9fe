SPECIFICATION FairSpec
CONSTANTS
  task = task
  reply = reply
  stop = stop
  None = None
  Commission = task
  Notes <- ReplyAndStop
  Stops <- OneStop
  MaxDeliveries = 2
  MaxFaults = 2
INVARIANTS TypeOK OneRunPerCommission KeyNamesOneReport
PROPERTIES AcknowledgedIsAnswered QueueDrains
