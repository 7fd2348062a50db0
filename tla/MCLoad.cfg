CONSTANTS
  a = a
  b = b
  y = y
  p1 = p1
  p2 = p2
  p3 = p3
  p4 = p4
  none = none
  noname = noname
  Words <- OneNameWords
  Names <- OneName
  Yes = y
  NoName = noname
  Peers <- ThreePeers
  NoPeer = none
  Lines <- RushScript
  Faults = {}
  AC_CLIENTS_MAX = 4
  FirstFd = 4

SPECIFICATION Spec
CHECK_DEADLOCK FALSE

INVARIANTS
  SurvivesLoad
