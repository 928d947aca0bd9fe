SPECIFICATION Spec
CONSTANTS
  k = k
  j1 = j1
  j2 = j2
  old = old
  t1 = t1
  t2 = t2
  t3 = t3
  Tries <- AllTries
  Serve = Serve
  Cli = Cli
  None = None
  Refused = Refused
  Keys <- OneKey
  Jobs <- TwoJobs
  Legible <- OnlyFirst
  Posts <- ThreePosts
  Legacy <- NoOld
  MaxFiles = 2
  MaxCalls = 2
  MaxFaults = 1
SYMMETRY SameTries
INVARIANT QueuedIsWaiting
CHECK_DEADLOCK FALSE
