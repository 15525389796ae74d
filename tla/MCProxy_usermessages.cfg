\* Which messages the upstream gets when clients send user messages only.
SPECIFICATION Spec
CONSTANTS
  c1 = c1
  Client = {c1}
  i0 = i0
  Slot = {i0}
  NoClient = NoClient
  NoSlot = NoSlot
  AddrOf <- OwnAddress
  ClientId <- UserMessages
  ClosingId <- Leaves
  RemoteId <- NoMessages
  MaxPackets = 3
  MaxRemote = 0
  OfflineArrive = FALSE
  StartMayFail = FALSE
INVARIANTS
  SendsUserMessages
