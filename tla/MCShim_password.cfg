\* A client that connects with a password.
SPECIFICATION Spec
CONSTANTS
  Part = {"calls"}
  Byte = {0, 1, 2, 3}
  TimeRange = 100000
  System = {1, 2}
  Own = 3
  Slot = {0, 1}
  HostLength = {0, 16, 17, 32}
  MaxCalls = 2
  MaxAccepts = 2
  Channel = {0, 1}
  Length = {1, 8, 17}
  WordSize = 16
  Forced = {0, 7}
  MaxMessages = 2
  MaxLeaves = 1
  U32 = 32
  MessageLength = {20, 21, 33}
  MaxMade = 5
  MaxGenerated = 4
  MaxTotal = 5
\* The programs end; a program may stop calling.
CHECK_DEADLOCK FALSE
INVARIANTS
  PasswordArrives
