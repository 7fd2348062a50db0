CONSTANTS
  a = a
  b = b
  y = y
  p1 = p1
  p2 = p2
  p3 = p3
  p4 = p4
  none = none
  noname = noname
  Words <- TwoNamesWords
  Names <- TwoNames
  Yes = y
  NoName = noname
  Peers <- TwoPeers
  NoPeer = none
  Lines <- LeaveScript
  Faults = {"eagain", "reset", "abort"}
  AC_CLIENTS_MAX = 4
  FirstFd = 4

SPECIFICATION FairSpec
CHECK_DEADLOCK FALSE

PROPERTIES
  LinesTaken
  OutputFlushed
  DeadForgotten
  GoodbyeKept
