SPECIFICATION Spec
CONSTANTS
  p1 = p1
  p2 = p2
  i1 = i1
  i2 = i2
  i3 = i3
  write = write
  send = send
  None = None
  Processes <- TwoProcesses
  Ids <- ThreeIds
  Calls <- TwoCalls
  Ttl = 1
  MaxRecords = 2
  MaxTime = 2
SYMMETRY Interchangeable
INVARIANTS TypeOK ExecutedOnceAsApproved SpentInTime
PROPERTY ActiveRecordsStay
