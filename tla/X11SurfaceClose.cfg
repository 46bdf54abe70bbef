SPECIFICATION X11Spec
CONSTANTS
  Windows = {x1, x2}
  NoWindow = NoWindow
  Pumps = {Main, Render}
  Waiter = Main
  Sizes = {0, 1}
  FirstSize = 0
  MaxRequests = 2
INVARIANT CloseOwnWindow
CHECK_DEADLOCK FALSE
