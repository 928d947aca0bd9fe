SPECIFICATION Spec
CONSTANTS
  task = task
  reply = reply
  stop = stop
  None = None
  Commission = task
  Notes <- OneReply
  Stops <- NoStop
  MaxDeliveries = 1
  MaxFaults = 0
INVARIANT FailsClosed
