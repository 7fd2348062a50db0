CONSTANTS
  a = a
  b = b
  y = y
  p1 = p1
  p2 = p2
  p3 = p3
  p4 = p4
  none = none
  noname = noname
  Words <- TwoNamesWords
  Names <- TwoNames
  Yes = y
  NoName = noname
  Peers <- FourPeers
  NoPeer = none
  Lines <- WatchScript
  Faults = {"reset"}
  AC_CLIENTS_MAX = 3
  FirstFd = 4

SPECIFICATION Spec
SYMMETRY WatchSwap
CONSTRAINT WatchBounds
CHECK_DEADLOCK FALSE

INVARIANTS
  UserHasClient
  ClientHasUser
  NamesExact
  SocketsAccounted
  PresenceCoherent

PROPERTIES
  NameHeld
