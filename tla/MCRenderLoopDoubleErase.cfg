SPECIFICATION Spec
CONSTANTS
  Surfaces = {s1}
  Handles = {h1}
  Null = Null
  App = {Main, U}
  Main = Main
  U = U
  Render = Render
  CreateMayFail = FALSE
  Silent = {}
  Quotas <- CloseFirstQuotas
INVARIANTS
  NoDoubleErase
CHECK_DEADLOCK FALSE
