SPECIFICATION Spec
CONSTANTS
  Surfaces = {s1, s2}
  Handles = {h1}
  Null = Null
  App = {Main, U}
  Main = Main
  U = U
  Render = Render
  CreateMayFail = FALSE
  Silent = {}
  Quotas <- DanglingQuotas
INVARIANTS
  NoDanglingTask
CHECK_DEADLOCK FALSE
