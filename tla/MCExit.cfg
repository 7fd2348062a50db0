CONSTANTS
  a = a
  b = b
  y = y
  p1 = p1
  p2 = p2
  p3 = p3
  p4 = p4
  none = none
  noname = noname
  Words <- TwoNamesWords
  Names <- TwoNames
  Yes = y
  NoName = noname
  Peers <- TwoPeers
  NoPeer = none
  Lines <- ExitScript
  Faults = {"partial"}
  AC_CLIENTS_MAX = 4
  FirstFd = 4

SPECIFICATION Spec
CONSTRAINT ExitBounds
CHECK_DEADLOCK FALSE

INVARIANTS
  StreamInv
  QuietOutsideChat
  GoodbyeIsLast

PROPERTIES
  IsChatRoom
