CONSTANTS
  Garbage = garbage
  WordBytes = 3
  BigEndian = FALSE
  UsernameMin = 1
  UsernameMax = 2
  Streams <- LongStreams
  MaxLen = 3
  Buf = 3
  Reserve = 4
  UserName <- MCUserName
  Others <- MCOthers
  MaxIncidents = 1

SPECIFICATION Spec
CHECK_DEADLOCK FALSE

INVARIANTS
  SentAsTold
