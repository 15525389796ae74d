\* A packet of an unconnected system.
SPECIFICATION Spec
CONSTANTS
  c1 = c1
  Client = {c1}
  i0 = i0
  Slot = {i0}
  NoClient = NoClient
  NoSlot = NoSlot
  AddrOf <- OwnAddress
  ClientId <- UserMessages
  ClosingId <- Leaves
  RemoteId <- NoMessages
  MaxPackets = 2
  MaxRemote = 0
  OfflineArrive = TRUE
  StartMayFail = FALSE
\* The process ends when it panics.
CHECK_DEADLOCK FALSE
INVARIANTS
  GuidIsAssigned
