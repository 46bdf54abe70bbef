SPECIFICATION FairSpec
CONSTANTS
  Surfaces = {s1}
  Handles = {h1}
  Null = Null
  App = {Main, U}
  Main = Main
  U = U
  Render = Render
  CreateMayFail = FALSE
  Silent = {}
  Quotas <- StopQuotas
PROPERTIES
  StopEnds
  WaitReturns
  CloseRemoves
CHECK_DEADLOCK FALSE
