SPECIFICATION FairSpec
CONSTANTS
  l1 = l1
  e1 = e1
  h1 = h1
  h2 = h2
  t1 = t1
  t2 = t2
  t3 = t3
  None = None
  Links <- OneLink
  Emails <- OneEmail
  Handlers <- TwoHandlers
  Tabs <- ThreeTabs
  EmailRateLimit = 1
  MaxFaults = 2
  MaxWindows = 1
INVARIANTS TypeOK OneLoginPerLink UsableWasMailed SettledLinkWorks
PROPERTY RequestSettles
CHECK_DEADLOCK FALSE
