SPECIFICATION Spec
CONSTANTS
  Surfaces = {s1}
  Handles = {h1, h2}
  Null = Null
  App = {Main, U}
  Main = Main
  U = U
  Render = Render
  CreateMayFail = FALSE
  Silent = {}
  Quotas <- QuiescentQuotas
INVARIANTS
  NoStrandedEvent
  ContextFollowsHandle
CHECK_DEADLOCK FALSE
