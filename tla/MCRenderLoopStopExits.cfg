SPECIFICATION FairSpec
CONSTANTS
  Surfaces = {s1}
  Handles = {h1}
  Null = Null
  App = {Main, U}
  Main = Main
  U = U
  Render = Render
  CreateMayFail = FALSE
  Silent = {}
  Quotas <- StopExitsQuotas
PROPERTIES
  StopExitsLoop
CHECK_DEADLOCK FALSE
