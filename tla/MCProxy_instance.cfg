\* Two instances that use one address, one after the other.
SPECIFICATION Spec
CONSTANTS
  c1 = c1  c2 = c2
  Client = {c1, c2}
  i0 = i0  i1 = i1
  Slot = {i0, i1}
  NoClient = NoClient
  NoSlot = NoSlot
  AddrOf <- SharedAddress
  ClientId <- NoMessages
  ClosingId <- Leaves
  RemoteId <- UserMessages
  MaxPackets = 3
  MaxRemote = 1
  OfflineArrive = FALSE
  StartMayFail = FALSE
INVARIANTS
  ReplyReachesInstance
