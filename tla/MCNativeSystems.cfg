SPECIFICATION NativeFairSpec
CONSTANTS
  Buffers = {b1, b2, b3}
  NoBo = NoBo
  Windows = {x1, x2}
  NoWindow = NoWindow
  Pumps = {Main, Render}
  Waiter = Main
  Sizes = {0, 1}
  FirstSize = 0
  MaxRequests = 2
  Dispatchers = {Main, Render}
  None = None
  MaxNews = 2
  Own = own
  Foreign = {f1, f2}
  NoHwnd = NoHwnd
  MaxMessages = 2
  MaxResets = 2
  Cores = {c1}
  Panels = {p1, p2}
  WinUIPanels = {q1}
  Others = {o1}
  NoObject = NoObject
  MaxAttach = 3
  MaxHandles = 3
  Views = {v1, v2}
  Layers = {y1}
  NoNative = NoNative
  Contexts = {k1, k2, k3}
  Displays = {d1, d2}
  NoContext = NoContext
  NoDisplay = NoDisplay
  Addresses = {a1, a2}
  NoAddress = NoAddress
  ClientSizes = {0, 1, 2}
  MaxDevices = 3
INVARIANTS
  ScanoutStable
  OneFrameKept
  SizeFollows
  BlocksOnlyWhenRobbed
  
  OwnWindowSafe
  HandlerTakenBack
  OneReference
  DrawsInFront
  CurrentIsAlive
  ViewportFits
  OwnShaders
  NothingElseLost
PROPERTIES
  CloseAnswered
  WaylandCloseAnswered
  CallReturns
  NotificationReturns
CHECK_DEADLOCK FALSE
