\* A packet saved while the upstream was connecting, and none after it.
SPECIFICATION FairSpec
CONSTANTS
  c1 = c1
  Client = {c1}
  i0 = i0
  Slot = {i0}
  NoClient = NoClient
  NoSlot = NoSlot
  AddrOf <- OwnAddress
  ClientId <- UserMessages
  ClosingId <- Leaves
  RemoteId <- NoMessages
  MaxPackets = 3
  MaxRemote = 0
  OfflineArrive = FALSE
  StartMayFail = FALSE
PROPERTIES
  SavedPacketIsSent
