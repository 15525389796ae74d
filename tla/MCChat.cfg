\* Two systems compete for two indexes of the server's list while the user
\* types up to three lines.
SPECIFICATION Spec
CONSTANTS
  r1 = r1
  r2 = r2
  Remote = {r1, r2}
  Slots = 2
  NoRemote = NoRemote
  NoAddress = NoAddress
  MaxPackets = 4
  MaxLines = 3
INVARIANT TypeOK
INVARIANT NoCallAfterShutdown
INVARIANT PrintedInOrder
PROPERTY QuitEnds
PROPERTY EveryPacketPrinted
CHECK_DEADLOCK FALSE
