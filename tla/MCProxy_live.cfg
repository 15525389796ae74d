\* Progress of the program's thread, one client that sends and gets replies.
SPECIFICATION FairSpec
CONSTANTS
  c1 = c1
  Client = {c1}
  i0 = i0
  Slot = {i0}
  NoClient = NoClient
  NoSlot = NoSlot
  AddrOf <- OwnAddress
  ClientId <- UserMessages
  ClosingId <- Leaves
  RemoteId <- UserMessages
  MaxPackets = 4
  MaxRemote = 1
  OfflineArrive = FALSE
  StartMayFail = FALSE
PROPERTIES
  EverythingHandled
  NextPacketFlushes
  RepliesServed
