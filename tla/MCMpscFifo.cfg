SPECIFICATION FairSpec
CONSTANTS
  Producers = {p1, p2}
  Nodes = {n1, n2, n3, n4}
  Null = Null
  MaxPush = 2
INVARIANTS
  TypeOK
  NoUseAfterFree
  NoLostLink
  NoLeak
PROPERTIES
  ImplementsFifo
  EventuallyPopped
CHECK_DEADLOCK FALSE
