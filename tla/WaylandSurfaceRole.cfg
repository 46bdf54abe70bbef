SPECIFICATION WLSpec
CONSTANTS
  Dispatchers = {Main, Render}
  None = None
  MaxNews = 2
INVARIANT RoleDestroyedFirst
CHECK_DEADLOCK FALSE
