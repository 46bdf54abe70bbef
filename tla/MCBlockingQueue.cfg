SPECIFICATION FairSpec
CONSTANTS
  p1 = p1
  p2 = p2
  c1 = c1
  c2 = c2
  s = s
  Threads = {p1, p2, c1, c2, s}
  Values = {v1, v2}
  Nothing = Nothing
  Settings <- AllSettings
  Limits <- Limit
  Quota <- AllQuota
INVARIANTS
  TypeOK
  NoLostElement
  NoLostPlace
PROPERTIES
  ImplementsBoundedFifo
CHECK_DEADLOCK FALSE
