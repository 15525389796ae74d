\* One slot that two instances take in turns, a longer history.
SPECIFICATION Spec
CONSTANTS
  c1 = c1  c2 = c2
  Client = {c1, c2}
  i0 = i0
  Slot = {i0}
  NoClient = NoClient
  NoSlot = NoSlot
  AddrOf <- OwnAddress
  ClientId <- UserMessages
  ClosingId <- Leaves
  RemoteId <- NoMessages
  MaxPackets = 6
  MaxRemote = 0
  OfflineArrive = FALSE
  StartMayFail = FALSE
SYMMETRY Interchangeable
INVARIANTS
  SessionIsolation
  IInv
PROPERTIES
  ImplementsRelay
