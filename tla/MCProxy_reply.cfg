\* From upstream to clients: the clients only come and go.
SPECIFICATION Spec
CONSTANTS
  c1 = c1  c2 = c2
  Client = {c1, c2}
  i0 = i0  i1 = i1
  Slot = {i0, i1}
  NoClient = NoClient
  NoSlot = NoSlot
  AddrOf <- OwnAddress
  ClientId <- NoMessages
  ClosingId <- Leaves
  RemoteId <- RelayedAndNot
  MaxPackets = 3
  MaxRemote = 2
  OfflineArrive = FALSE
  StartMayFail = FALSE
SYMMETRY Interchangeable
INVARIANTS
  RepliesInOrder
  ReplyRecipient
