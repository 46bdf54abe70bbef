SPECIFICATION FairSpec
CONSTANTS
  p1 = p1
  p2 = p2
  c1 = c1
  c2 = c2
  s = s
  Threads = {p1, p2, c1, c2, s}
  Values = {v1}
  Nothing = Nothing
  Settings <- BlockingSettings
  Limits <- Limit
  Quota <- BlockingQuota
INVARIANTS
  NoMutualSleep
PROPERTIES
  PopReturns
  PushReturns
CHECK_DEADLOCK FALSE
