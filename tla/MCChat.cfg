CONSTANTS
  a = a
  b = b
  c = c
  y = y
  p1 = p1
  p2 = p2
  p3 = p3
  none = none
  noname = noname
  Words <- AllWords
  Names <- AllNames
  Yes = y
  NoName = noname
  Peers <- AllPeers
  NoPeer = none
  Lines <- TalkScript
  Faults = {}
  AC_CLIENTS_MAX = 6
  FirstFd = 4

SPECIFICATION ChronicleSpec
CONSTRAINT TalkBounds
CHECK_DEADLOCK FALSE

INVARIANTS
  TypeOK
  EveryLineAnswered
  ChronicleInv
  SameOrder
  NothingMissed

PROPERTIES
  IsChatRoom
