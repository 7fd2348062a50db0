CONSTANTS
  Keys <- MCKeys
  Values = {v, w}
  Absent = absent
  Hash <- MCHash
  InitCap = 4
  MaxCap = 8

SPECIFICATION Spec

CHECK_DEADLOCK FALSE

INVARIANTS
  TypeOK
  CountsExact
  Housed
  VisitsAllOnce

PROPERTIES
  IsDictionary
