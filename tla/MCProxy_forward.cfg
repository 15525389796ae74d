\* From clients to upstream: two instances, two slots, nothing sent back.
\* Packets of unconnected systems arrive, upstream peers may fail to start.
SPECIFICATION Spec
CONSTANTS
  c1 = c1  c2 = c2
  Client = {c1, c2}
  i0 = i0  i1 = i1
  Slot = {i0, i1}
  NoClient = NoClient
  NoSlot = NoSlot
  AddrOf <- OwnAddress
  ClientId <- UserMessages
  ClosingId <- LeavesOrIsLost
  RemoteId <- NoMessages
  MaxPackets = 4
  MaxRemote = 0
  OfflineArrive = TRUE
  StartMayFail = TRUE
SYMMETRY Interchangeable
\* The process ends when it panics.
CHECK_DEADLOCK FALSE
INVARIANTS
  TypeOK
  ForwardOrder
  NothingLost
  ConnectedNeverPanics
