SPECIFICATION Spec
CONSTANTS
  Surfaces = {s1, s2}
  Handles = {h1, h2}
  Null = Null
  App = {Main, U}
  Main = Main
  U = U
  Render = Render
  CreateMayFail = TRUE
  Silent = {s1, s2}
  Quotas <- LifeQuotas
SYMMETRY Symmetry
INVARIANTS
  TypeOK
  ContextOwnership
  GateBalanced
  ClosedOnce
CHECK_DEADLOCK FALSE
