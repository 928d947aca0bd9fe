SPECIFICATION Spec
CONSTANTS
  r1 = r1
  r2 = r2
  r3 = r3
  r4 = r4
  s1 = s1
  s2 = s2
  None = None
  Requests <- FourRequests
  Tasks <- TwoTasks
SYMMETRY Interchangeable
INVARIANTS TypeOK ReadyAnswersAgree
PROPERTIES OneCoordinatorPerLease ImplementsHandoff
