----------------------------- MODULE ProxyProofs -----------------------------
(***************************************************************************)
(* Theorems of the proxy, for every set of clients and slots and every     *)
(* bound: the way there, the way back, and the refinement of the relay.    *)
(***************************************************************************)
EXTENDS ProxyInvariant, QueueFacts

-----------------------------------------------------------------------------
\* What the constants are, in the form the proofs use.
LEMMA Constants ==
  /\ NoClient \notin Client
  /\ NoSlot \notin Slot
  /\ \A c \in Client : AddrOf[c] \in Address
  /\ ClientId \subseteq MessageId \ {ID_NEW_INCOMING_CONNECTION}
  /\ RemoteId \subseteq MessageId
  /\ ClosingId \subseteq MessageId \ {ID_NEW_INCOMING_CONNECTION}
  /\ ID_NEW_INCOMING_CONNECTION \in MessageId
  /\ ID_ADVERTISE_SYSTEM \in MessageId \ {ID_NEW_INCOMING_CONNECTION}
  /\ {ID_CONNECTION_REQUEST_ACCEPTED, ID_CONNECTION_ATTEMPT_FAILED,
      ID_CONNECTION_LOST} \subseteq MessageId
  /\ MaxPackets \in Nat
  /\ MaxRemote \in Nat
  /\ Unassigned \notin Key
BY ClientAssumption, IdAssumption, BoundAssumption
DEF Address, MessageId, ID_NEW_INCOMING_CONNECTION, ID_ADVERTISE_SYSTEM,
    ID_CONNECTION_REQUEST_ACCEPTED, ID_CONNECTION_ATTEMPT_FAILED,
    ID_CONNECTION_LOST, ID_DISCONNECTION_NOTIFICATION, Unassigned, Key

-----------------------------------------------------------------------------
(***************************************************************************)
(* Types.                                                                  *)
(***************************************************************************)
\* A packet that arrives is a packet, in the queue as in the history.
LEMMA ArriveType ==
  ASSUME TypeOK, NEW guid \in Guid, NEW a \in Address, NEW id \in MessageId,
         NEW s \in Session \cup {0},
         Arrive(guid, a, id, s)
  PROVE  /\ inbox' \in Seq(Packet)
         /\ arrived' \in Seq(Packet) /\ Len(arrived') <= MaxPackets
         /\ Len(arrived) + 1 \in Serial
<1> DEFINE p == [guid |-> guid, system_address |-> a,
                 data |-> [id |-> id, n |-> Len(arrived) + 1, s |-> s]]
<1>1. Len(arrived) \in Nat /\ Len(arrived) < MaxPackets
  BY DEF TypeOK, Arrive
<1>2. Len(arrived) + 1 \in Serial
  BY <1>1, Constants DEF Serial
<1>3. p \in Packet
  BY <1>2 DEF Packet, Data
<1>4. arrived' = Append(arrived, p) /\ inbox' = Append(inbox, p)
  BY DEF Arrive
<1> QED
  BY <1>1, <1>2, <1>3, <1>4, AppendFacts, Constants DEF TypeOK

\* Steps of RakNet's threads on the server keep the types.
LEMMA ServerTypes ==
  ASSUME TypeOK,
         \/ \E i \in Slot :
              \/ \E c \in Client : Connect(c, i)
              \/ \E id \in ClientId : ClientSend(i, id)
              \/ \E id \in ClosingId : Disconnect(i, id)
         \/ \E guid \in OfflineGuid : OfflinePacket(guid)
  PROVE  TypeOK'
<1>1. ASSUME NEW i \in Slot, NEW c \in Client, Connect(c, i)
      PROVE  /\ inbox' \in Seq(Packet)
             /\ arrived' \in Seq(Packet) /\ Len(arrived') <= MaxPackets
             /\ occupant' \in [Slot -> Occupant]
  <2>1. Len(arrived) + 1 \in Serial
    BY <1>1, Constants DEF Connect, Arrive, TypeOK, Serial
  <2>2. [g |-> c, system_index |-> i] \in Guid
    BY DEF Guid, Key
  <2> QED
    BY <1>1, <2>1, <2>2, ArriveType, Constants
    DEF Connect, TypeOK, Occupant, Session
<1>2. ASSUME NEW i \in Slot, NEW id \in MessageId, occupant[i] # Vacant,
             Arrive([g |-> occupant[i].g, system_index |-> i],
                    AddrOf[occupant[i].g], id, occupant[i].s)
      PROVE  /\ inbox' \in Seq(Packet)
             /\ arrived' \in Seq(Packet) /\ Len(arrived') <= MaxPackets
  <2>1. occupant[i].g \in Client /\ occupant[i].s \in Session
    BY <1>2 DEF TypeOK, Occupant
  <2>2. [g |-> occupant[i].g, system_index |-> i] \in Guid
    BY <2>1 DEF Guid, Key
  <2> QED
    BY <1>2, <2>1, <2>2, ArriveType, Constants
<1>3. ASSUME NEW guid \in OfflineGuid, OfflinePacket(guid)
      PROVE  /\ inbox' \in Seq(Packet)
             /\ arrived' \in Seq(Packet) /\ Len(arrived') <= MaxPackets
  BY <1>3, ArriveType, Constants DEF OfflinePacket, Guid
<1>4. Vacant \in Occupant
  BY DEF Occupant
<1>5. /\ inbox' \in Seq(Packet)
      /\ arrived' \in Seq(Packet) /\ Len(arrived') <= MaxPackets
      /\ occupant' \in [Slot -> Occupant]
  <2>1. CASE \E i \in Slot, c \in Client : Connect(c, i)
    BY <2>1, <1>1
  <2>2. CASE \E i \in Slot, id \in ClientId : ClientSend(i, id)
    BY <2>2, <1>2, Constants DEF ClientSend, TypeOK
  <2>3. CASE \E i \in Slot, id \in ClosingId : Disconnect(i, id)
    <3>1. PICK i \in Slot, id \in ClosingId : Disconnect(i, id)
      BY <2>3
    <3>2. id \in MessageId
      BY Constants
    <3>3. occupant' \in [Slot -> Occupant]
      BY <3>1, <1>4 DEF Disconnect, TypeOK
    <3> QED
      BY <3>1, <3>2, <3>3, <1>2 DEF Disconnect
  <2>4. CASE \E guid \in OfflineGuid : OfflinePacket(guid)
    BY <2>4, <1>3 DEF OfflinePacket, TypeOK
  <2> QED
    BY <2>1, <2>2, <2>3, <2>4
<1>6. UNCHANGED <<connVars, linkVars, loopVars, historyVars>>
  BY DEF Connect, ClientSend, Disconnect, OfflinePacket, Arrive
<1> QED
  BY <1>5, <1>6
  DEF TypeOK, connVars, linkVars, loopVars, historyVars, packet, key

\* Steps of RakNet's threads on an upstream peer keep the types.
LEMMA LinkTypes ==
  ASSUME TypeOK, NEW k \in Key,
         \/ LinkUp(k) \/ LinkFail(k) \/ LinkLost(k)
         \/ \E id \in RemoteId : RemoteSend(k, id)
  PROVE  TypeOK'
<1>1. ASSUME NEW from \in {"connecting", "connected"},
             NEW to \in {"connected", "down"}, NEW id \in MessageId,
             Upstream(k, from, to, id)
      PROVE  TypeOK'
  <2> DEFINE p == [id |-> id, n |-> Len(remote[k]) + 1]
  <2>1. remote[k] \in Seq(Reply) /\ received[k] \in Seq(Reply)
    BY DEF TypeOK
  <2>2. p \in Reply
    BY <2>1 DEF Reply
  <2>3. Append(remote[k], p) \in Seq(Reply)
        /\ Append(received[k], p) \in Seq(Reply)
    BY <2>1, <2>2, AppendFacts
  <2>4. /\ remote' = [remote EXCEPT ![k] = Append(remote[k], p)]
        /\ received' = [received EXCEPT ![k] = Append(received[k], p)]
        /\ link' = [link EXCEPT ![k] = to]
    BY <1>1 DEF Upstream
  <2>5. /\ remote' \in [Key -> Seq(Reply)]
        /\ received' \in [Key -> Seq(Reply)]
        /\ link' \in [Key -> {"none", "connecting", "connected", "down"}]
    BY <2>3, <2>4 DEF TypeOK
  <2>6. UNCHANGED <<serverVars, connVars, loopVars, historyVars>>
    BY <1>1 DEF Upstream
  <2> QED
    BY <2>5, <2>6 DEF TypeOK, serverVars, connVars, loopVars, historyVars,
                      packet, key
<1> QED
  BY <1>1, Constants DEF LinkUp, LinkFail, LinkLost, RemoteSend

\* In a state of IInv, the packet at hand is the first not handled yet.
LEMMA PacketAtHand ==
  ASSUME TypeOK, ArrivedOK, PendingOK, batch # <<>>
  PROVE  /\ Handled + 1 \in 1 .. Len(arrived)
         /\ Handled \in Nat
         /\ Len(arrived) <= MaxPackets
         /\ packet = arrived[Handled + 1]
         /\ packet \in Packet
         /\ packet.data.n = Handled + 1
         /\ IsNew <=> packet.data.s = Handled + 1
         /\ IsNew => key \in Key
<1>1. /\ batch \in Seq(Packet) /\ arrived \in Seq(Packet)
      /\ Len(batch) \in Nat /\ Len(inbox) \in Nat /\ Len(arrived) \in Nat
  BY DEF TypeOK
<1>2. Len(batch) >= 1 /\ packet = batch[1] /\ packet \in Packet
  BY <1>1, TailFacts DEF packet
<1>3. Handled \in Nat /\ Handled + 1 \in 1 .. Len(arrived)
  BY <1>1, <1>2 DEF PendingOK, Handled
<1>4. packet = arrived[Handled + 1]
  BY <1>2, <1>3, <1>1 DEF PendingOK
<1> QED
  BY <1>2, <1>3, <1>4 DEF ArrivedOK, IsNew, key, TypeOK

\* Steps of the program keep the types.
LEMMA ProgramTypes ==
  ASSUME TypeOK, ArrivedOK, PendingOK, Program
  PROVE  TypeOK'
<1>1. CASE ReceiveAll
  <2>1. batch' \in Seq(Packet) /\ inbox' \in Seq(Packet) /\ pc' = "handle"
    BY <1>1 DEF ReceiveAll, TypeOK, Goto
  <2>2. UNCHANGED <<occupant, arrived, connVars, linkVars, todo, at, replies,
                    historyVars>>
    BY <1>1 DEF ReceiveAll
  <2> QED
    BY <2>1, <2>2 DEF TypeOK, connVars, linkVars, historyVars
<1>2. CASE HandleUnassigned \/ HandleNewFails \/ HandleUnknown
  BY <1>2 DEF HandleUnassigned, HandleNewFails, HandleUnknown, Panic, TypeOK,
              serverVars, connVars, linkVars, historyVars
<1>3. CASE HandleNew
  <2>1. packet \in Packet /\ key \in Key
    BY <1>3, PacketAtHand DEF HandleNew, Handling
  <2>2. packet.data.s \in Session \cup {0} /\ packet.system_address \in Address
    BY <2>1 DEF Packet, Data
  <2>3. batch' \in Seq(Packet)
    BY <1>3, TailFacts DEF HandleNew, Handling, Done, TypeOK
  <2>4. /\ connections' \subseteq Key /\ connections \subseteq connections'
        /\ messages' \in [Key -> Seq(Data)]
        /\ system_address' \in [Key -> Address]
        /\ session' \in [Key -> Session \cup {0}]
        /\ link' \in [Key -> {"none", "connecting", "connected", "down"}]
    BY <1>3, <2>1, <2>2 DEF HandleNew, WithNew, NewQueue, TypeOK
  <2>5. /\ received' \in [Key -> Seq(Reply)]
        /\ remote' \in [Key -> Seq(Reply)]
        /\ delivered' \in [Key -> Seq([n : Nat, to : Occupant])]
    <3>1. <<>> \in Seq(Reply) /\ <<>> \in Seq([n : Nat, to : Occupant])
      OBVIOUS
    <3>2. /\ received' = [received EXCEPT ![key] = <<>>]
          /\ remote' = [remote EXCEPT ![key] = <<>>]
          /\ delivered' = [delivered EXCEPT ![key] = <<>>]
      BY <1>3 DEF HandleNew
    <3> QED
      BY <2>1, <3>1, <3>2 DEF TypeOK
  <2>6. pc' = "handle"
    BY <1>3 DEF HandleNew, Done
  <2>7. UNCHANGED <<serverVars, todo, at, replies, forwarded>>
    BY <1>3 DEF HandleNew
  <2> QED
    BY <2>3, <2>4, <2>5, <2>6, <2>7 DEF TypeOK, serverVars
<1>4. CASE QueueMessage
  <2>1. packet.data \in Data /\ key \in connections /\ pc' = "handle"
    BY <1>4, PacketAtHand
    DEF QueueMessage, Forwarding, Handling, Done, Packet
  <2>2. batch' \in Seq(Packet)
    BY <1>4, TailFacts
    DEF QueueMessage, Forwarding, Handling, Done, TypeOK
  <2>3. messages' \in [Key -> Seq(Data)]
    BY <1>4, <2>1, AppendFacts DEF QueueMessage, Save, TypeOK
  <2> QED
    BY <1>4, <2>1, <2>2, <2>3
    DEF QueueMessage, TypeOK, serverVars, linkVars, historyVars
<1>5. CASE StartFlush
  BY <1>5
  DEF StartFlush, Forwarding, Handling, Goto, TypeOK, serverVars, connVars,
      linkVars, historyVars, key, packet
<1>6. CASE FlushMessage
  <2>1. key \in Key /\ messages[key] \in Seq(Data) /\ messages[key] # <<>>
    BY <1>6 DEF FlushMessage, TypeOK
  <2>2. Head(messages[key]) \in Data /\ Tail(messages[key]) \in Seq(Data)
    BY <2>1, TailFacts
  <2>3. messages' \in [Key -> Seq(Data)]
    BY <1>6, <2>1, <2>2 DEF FlushMessage, TypeOK
  <2>4. forwarded' \in [Session -> Seq(Data)]
    BY <1>6, <2>2, AppendFacts DEF FlushMessage, SendMessage, TypeOK
  <2> QED
    BY <1>6, <2>3, <2>4
    DEF FlushMessage, TypeOK, serverVars, linkVars, loopVars, key, packet
<1>7. CASE ForwardPacket
  <2>1. packet.data \in Data /\ batch' \in Seq(Packet) /\ pc' = "handle"
    BY <1>7, PacketAtHand, TailFacts DEF ForwardPacket, Done, Packet, TypeOK
  <2>2. forwarded' \in [Session -> Seq(Data)]
    BY <1>7, <2>1, AppendFacts DEF ForwardPacket, SendMessage, TypeOK
  <2> QED
    BY <1>7, <2>1, <2>2
    DEF ForwardPacket, TypeOK, serverVars, connVars, linkVars
<1>8. CASE BatchDone \/ ServeDone
  BY <1>8
  DEF BatchDone, ServeDone, ToServe, Goto, TypeOK, serverVars, connVars,
      linkVars, historyVars, key, packet
<1>9. CASE \E k \in todo : ServeConnection(k)
  <2>1. PICK k \in todo : ServeConnection(k)
    BY <1>9
  <2>2. k \in connections /\ k \in Key /\ k # Unassigned
    BY <2>1, Constants DEF TypeOK
  <2>3. received' \in [Key -> Seq(Reply)] /\ replies' \in Seq(Reply)
    BY <2>1, <2>2 DEF ServeConnection, TypeOK
  <2> QED
    BY <2>1, <2>2, <2>3
    DEF ServeConnection, Remaining, Goto, TypeOK, serverVars, connVars,
        historyVars, key, packet
<1>10. CASE DropReply
  BY <1>10, TailFacts
  DEF DropReply, TypeOK, serverVars, connVars, linkVars, historyVars, key,
      packet
<1>11. CASE SendReply
  <2>1. /\ replies \in Seq(Reply) /\ replies # <<>>
        /\ replies' = Tail(replies) /\ at \in Key
    <3>1. pc = "reply"
      BY <1>11 DEF SendReply
    <3>2. at \in connections /\ connections \subseteq Key
      BY <3>1 DEF TypeOK
    <3> QED
      BY <1>11, <3>2 DEF SendReply, TypeOK
  <2>2. replies' \in Seq(Reply) /\ Head(replies).n \in Nat
    <3>1. Tail(replies) \in Seq(Reply) /\ Head(replies) \in Reply
      BY <2>1, TailFacts
    <3> QED
      BY <2>1, <3>1 DEF Reply
  <2>3. Vacant \in Occupant /\ Holders(system_address[at]) \subseteq Occupant
    BY DEF Occupant, Holders, TypeOK
  <2>4. PICK to \in Occupant :
          delivered' = [delivered EXCEPT ![at] =
                          Append(@, [n |-> Head(replies).n, to |-> to])]
    BY <1>11, <2>3 DEF SendReply
  <2>5. delivered' \in [Key -> Seq([n : Nat, to : Occupant])]
    BY <2>1, <2>2, <2>4, AppendFacts DEF TypeOK
  <2> QED
    BY <1>11, <2>2, <2>5
    DEF SendReply, TypeOK, serverVars, connVars, linkVars, key, packet
<1>12. CASE ConnectionServed
  BY <1>12
  DEF ConnectionServed, Goto, TypeOK, serverVars, connVars, linkVars,
      historyVars, key, packet
<1> QED
  BY <1>1, <1>2, <1>3, <1>4, <1>5, <1>6, <1>7, <1>8, <1>9, <1>10, <1>11,
     <1>12 DEF Program

\* The invariant holds when the server has just started.
LEMMA InitInv == Init => IInv
<1> SUFFICES ASSUME Init PROVE IInv
  OBVIOUS
<1>1. TypeOK
  <2>1. system_address \in [Key -> Address]
    BY Constants DEF Init, Key
  <2>2. occupant \in [Slot -> Occupant]
    BY DEF Init, Occupant
  <2> QED
    BY <2>1, <2>2, Constants DEF Init, TypeOK
<1>2. ArrivedOK /\ PendingOK /\ ConnectionsOK /\ FlushOK
  BY DEF Init, ArrivedOK, PendingOK, ConnectionsOK, FlushOK, Handled
<1>3. OccupantOK
  BY DEF Init, OccupantOK
<1>4. QueueOK /\ ForwardedOK /\ KeptOK /\ PanicOK
  BY DEF Init, QueueOK, ForwardedOK, KeptOK, PanicOK, ConnectedNeverPanics,
         Rising, Handled
<1> QED
  BY <1>1, <1>2, <1>3, <1>4 DEF IInv

\* Every step keeps the types.
LEMMA StepTypes ==
  ASSUME TypeOK, ArrivedOK, PendingOK, [Next]_vars
  PROVE  TypeOK'
<1>1. CASE Program
  BY <1>1, ProgramTypes
<1>2. CASE Network
  BY <1>2, ServerTypes, LinkTypes DEF Network
<1>3. CASE UNCHANGED vars
  BY <1>3 DEF vars, serverVars, connVars, linkVars, loopVars, historyVars,
              TypeOK, key, packet
<1> QED
  BY <1>1, <1>2, <1>3 DEF Next

\* The fields of a packet, a key and the data are of their types.
LEMMA PacketFields ==
  ASSUME NEW p \in Packet
  PROVE  /\ p.guid \in Guid
         /\ p.data \in Data
         /\ p.data.s \in Nat
         /\ p.data.n \in Nat
<1>1. p.guid \in Guid /\ p.data \in Data
  BY DEF Packet
<1>2. p.data.s \in Session \cup {0} /\ p.data.n \in Serial
  BY <1>1 DEF Data
<1> QED
  BY <1>1, <1>2, Constants DEF Session, Serial

-----------------------------------------------------------------------------
(***************************************************************************)
(* The packets at the server.                                              *)
(***************************************************************************)
\* What an arrival leaves in the history and in the receive queue.
LEMMA ArriveStep ==
  ASSUME TypeOK, NEW guid \in Guid, NEW a \in Address, NEW id \in MessageId,
         NEW s \in Session \cup {0},
         Arrive(guid, a, id, s)
  PROVE  /\ Len(arrived) \in Nat /\ Len(inbox) \in Nat
         /\ Len(arrived') = Len(arrived) + 1
         /\ \A n \in 1 .. Len(arrived) : arrived'[n] = arrived[n]
         /\ arrived'[Len(arrived) + 1].guid = guid
         /\ arrived'[Len(arrived) + 1].data =
              [id |-> id, n |-> Len(arrived) + 1, s |-> s]
         /\ Len(inbox') = Len(inbox) + 1
         /\ \A n \in 1 .. Len(inbox) : inbox'[n] = inbox[n]
         /\ inbox'[Len(inbox) + 1] = arrived'[Len(arrived) + 1]
<1> DEFINE p == [guid |-> guid, system_address |-> a,
                 data |-> [id |-> id, n |-> Len(arrived) + 1, s |-> s]]
<1>1. arrived \in Seq(Packet) /\ inbox \in Seq(Packet)
  BY DEF TypeOK
<1>2. arrived' = Append(arrived, p) /\ inbox' = Append(inbox, p)
  BY DEF Arrive
<1>3. p \in Packet
  BY ArriveType DEF Packet, Data, Session
<1> HIDE DEF p
<1>4. /\ Len(arrived') = Len(arrived) + 1
      /\ \A n \in 1 .. Len(arrived) : arrived'[n] = arrived[n]
      /\ arrived'[Len(arrived) + 1] = p
      /\ Len(inbox') = Len(inbox) + 1
      /\ \A n \in 1 .. Len(inbox) : inbox'[n] = inbox[n]
      /\ inbox'[Len(inbox) + 1] = p
  BY <1>1, <1>2, <1>3, AppendFacts
<1>5. p.guid = guid
      /\ p.data = [id |-> id, n |-> Len(arrived) + 1, s |-> s]
  BY DEF p
<1> QED
  BY <1>1, <1>4, <1>5

\* No session is announced by a packet still to come.
LEMMA SessionBound ==
  ASSUME TypeOK, ArrivedOK, NEW m \in 1 .. Len(arrived)
  PROVE  /\ arrived[m].data.s \in 0 .. m
         /\ arrived[m].data.s \in Nat
<1>1. arrived[m] \in Packet
  BY DEF TypeOK
<1> QED
  BY <1>1, PacketFields DEF ArrivedOK

\* An arrival that fits the sessions so far keeps ArrivedOK.
LEMMA ArriveArrived ==
  ASSUME TypeOK, ArrivedOK,
         NEW guid \in Guid, NEW a \in Address, NEW id \in MessageId,
         NEW s \in Session \cup {0},
         Arrive(guid, a, id, s),
         id = ID_NEW_INCOMING_CONNECTION <=> s = Len(arrived) + 1,
         s <= Len(arrived) + 1,
         s = 0 <=> guid \notin Key,
         s \in 1 .. Len(arrived) => /\ arrived[s].guid = guid
                                    /\ arrived[s].data.s = s,
         \A m \in 1 .. Len(arrived) : arrived[m].guid = guid =>
                                        arrived[m].data.s <= s
  PROVE  ArrivedOK'
<1> DEFINE L == Len(arrived)
<1>1. /\ L \in Nat /\ Len(arrived') = L + 1
      /\ \A n \in 1 .. L : arrived'[n] = arrived[n]
      /\ arrived'[L + 1].guid = guid
      /\ arrived'[L + 1].data = [id |-> id, n |-> L + 1, s |-> s]
  BY ArriveStep
<1>2. s \in Nat
  BY Constants DEF Session, Serial
<1> SUFFICES ASSUME NEW n \in 1 .. L + 1
             PROVE
      LET p == arrived'[n]
      IN  /\ p.data.n = n
          /\ p.data.id = ID_NEW_INCOMING_CONNECTION <=> p.data.s = n
          /\ p.data.s <= n
          /\ p.data.s = 0 <=> p.guid \notin Key
          /\ p.data.s # 0 => /\ arrived'[p.data.s].guid = p.guid
                             /\ arrived'[p.data.s].data.s = p.data.s
          /\ \A m \in 1 .. n : arrived'[m].guid = p.guid =>
                                 arrived'[m].data.s <= p.data.s
  BY <1>1 DEF ArrivedOK
<1>3. CASE n \in 1 .. L
  <2>1. arrived[n].data.s \in Nat
    BY <1>3, SessionBound
  <2>2. arrived[n].data.s # 0 => arrived[n].data.s \in 1 .. L
    BY <1>1, <1>3, <2>1 DEF ArrivedOK
  <2> QED
    BY <1>1, <1>3, <2>1, <2>2 DEF ArrivedOK
<1>4. CASE n = L + 1
  <2>1. s # 0 => /\ arrived'[s].guid = guid
                 /\ arrived'[s].data.s = s
    BY <1>1, <1>2
  <2>2. \A m \in 1 .. n : arrived'[m].guid = guid =>
                            arrived'[m].data.s <= s
    BY <1>1, <1>2, <1>4
  <2> QED
    BY <1>1, <1>2, <1>4, <2>1, <2>2
<1> QED
  BY <1>1, <1>3, <1>4

\* A client that connects begins a session of its own.
LEMMA ConnectStep ==
  ASSUME TypeOK, ArrivedOK, OccupantOK,
         NEW i \in Slot, NEW c \in Client, Connect(c, i)
  PROVE  ArrivedOK' /\ OccupantOK'
<1> DEFINE k == [g |-> c, system_index |-> i]
           s == Len(arrived) + 1
<1>1. /\ Arrive(k, AddrOf[c], ID_NEW_INCOMING_CONNECTION, s)
      /\ occupant' = [occupant EXCEPT ![i] = [g |-> c, s |-> s]]
  BY DEF Connect
<1>2. k \in Key /\ k \in Guid /\ AddrOf[c] \in Address
  BY Constants DEF Guid, Key
<1>3. Len(arrived) \in Nat /\ s \in Session
  BY <1>1, Constants DEF Arrive, TypeOK, Session, Serial
<1>4. ArrivedOK'
  <2>1. \A m \in 1 .. Len(arrived) : arrived[m].data.s <= s
    BY <1>3, SessionBound
  <2> HIDE DEF k, s
  <2>2. s = Len(arrived) + 1
    BY DEF s
  <2> QED
    BY <1>1, <1>2, <1>3, <2>1, <2>2, ArriveArrived, Constants
<1>5. /\ Len(arrived') = s
      /\ \A n \in 1 .. Len(arrived) : arrived'[n] = arrived[n]
      /\ arrived'[s].guid = k /\ arrived'[s].data.s = s
  <2> HIDE DEF k, s
  <2>1. arrived'[Len(arrived) + 1].data =
          [id |-> ID_NEW_INCOMING_CONNECTION, n |-> Len(arrived) + 1, s |-> s]
    BY <1>1, <1>2, <1>3, ArriveStep, Constants
  <2>2. /\ Len(arrived') = Len(arrived) + 1
        /\ \A n \in 1 .. Len(arrived) : arrived'[n] = arrived[n]
        /\ arrived'[Len(arrived) + 1].guid = k
    BY <1>1, <1>2, <1>3, ArriveStep, Constants
  <2> QED
    BY <2>1, <2>2 DEF s
<1>6. OccupantOK'
  <2> SUFFICES ASSUME NEW j \in Slot, occupant'[j] # Vacant
               PROVE  LET t == occupant'[j].s
                          q == [g |-> occupant'[j].g, system_index |-> j]
                      IN  /\ t \in 1 .. Len(arrived')
                          /\ arrived'[t].guid = q
                          /\ arrived'[t].data.s = t
                          /\ \A m \in 1 .. Len(arrived') :
                               arrived'[m].guid = q => arrived'[m].data.s <= t
    BY DEF OccupantOK
  <2>1. CASE j = i
    <3>1. occupant'[j].s = s /\ occupant'[j].g = c
      BY <1>1, <2>1 DEF TypeOK
    <3>2. \A m \in 1 .. Len(arrived') : arrived'[m].data.s <= s
      BY <1>3, <1>5, SessionBound
    <3> QED
      BY <1>3, <1>5, <2>1, <3>1, <3>2
  <2>2. CASE j # i
    <3>1. occupant'[j] = occupant[j]
      BY <1>1, <2>2 DEF TypeOK
    <3>2. [g |-> occupant[j].g, system_index |-> j] # k
      BY <2>2
    <3> QED
      BY <1>3, <1>5, <3>1, <3>2 DEF OccupantOK
  <2> QED
    BY <2>1, <2>2
<1> QED
  BY <1>4, <1>6

\* Who holds a slot is a client in one of the sessions.
LEMMA OccupantFields ==
  ASSUME TypeOK, NEW i \in Slot, occupant[i] # Vacant
  PROVE  /\ occupant[i].g \in Client
         /\ occupant[i].s \in Session
         /\ [g |-> occupant[i].g, system_index |-> i] \in Key
         /\ [g |-> occupant[i].g, system_index |-> i] \in Guid
         /\ AddrOf[occupant[i].g] \in Address
BY Constants DEF TypeOK, Occupant, Guid, Key

\* A packet of the session in slot i arrives; the slot is vacated or not.
LEMMA SendStep ==
  ASSUME TypeOK, ArrivedOK, OccupantOK,
         NEW i \in Slot, NEW id \in MessageId \ {ID_NEW_INCOMING_CONNECTION},
         occupant[i] # Vacant,
         Arrive([g |-> occupant[i].g, system_index |-> i],
                AddrOf[occupant[i].g], id, occupant[i].s),
         \/ occupant' = occupant
         \/ occupant' = [occupant EXCEPT ![i] = Vacant]
  PROVE  ArrivedOK' /\ OccupantOK'
<1> DEFINE k == [g |-> occupant[i].g, system_index |-> i]
           s == occupant[i].s
           a == AddrOf[occupant[i].g]
<1>1. /\ k \in Key /\ k \in Guid /\ a \in Address
      /\ s \in Session \cup {0} /\ s # 0
  BY OccupantFields, Constants DEF Session, Serial
<1>2. /\ s \in 1 .. Len(arrived)
      /\ arrived[s].guid = k
      /\ arrived[s].data.s = s
      /\ \A m \in 1 .. Len(arrived) : arrived[m].guid = k =>
                                        arrived[m].data.s <= s
  BY DEF OccupantOK
<1>3. Arrive(k, a, id, s)
  OBVIOUS
<1>4. \A j \in Slot : occupant'[j] # Vacant =>
        occupant'[j] = occupant[j]
  BY DEF TypeOK
<1>5. \A j \in Slot : [g |-> occupant[j].g, system_index |-> j] = k => j = i
  OBVIOUS
<1>6. \A j \in Slot : j = i => occupant[j].s = s
  OBVIOUS
<1> HIDE DEF k, s, a
<1>7. /\ Len(arrived) \in Nat
      /\ Len(arrived') = Len(arrived) + 1
      /\ \A n \in 1 .. Len(arrived) : arrived'[n] = arrived[n]
      /\ arrived'[Len(arrived) + 1].guid = k
      /\ arrived'[Len(arrived) + 1].data.s = s
  <2>1. arrived'[Len(arrived) + 1].data =
          [id |-> id, n |-> Len(arrived) + 1, s |-> s]
    BY <1>1, <1>3, ArriveStep
  <2> QED
    BY <1>1, <1>3, <2>1, ArriveStep
<1>8. ArrivedOK'
  <2>1. s <= Len(arrived) + 1 /\ s # Len(arrived) + 1
    BY <1>2, <1>7
  <2> QED
    BY <1>1, <1>2, <1>3, <1>7, <2>1, ArriveArrived
<1>9. OccupantOK'
  <2> SUFFICES ASSUME NEW j \in Slot, occupant'[j] # Vacant
               PROVE  LET t == occupant'[j].s
                          q == [g |-> occupant'[j].g, system_index |-> j]
                      IN  /\ t \in 1 .. Len(arrived')
                          /\ arrived'[t].guid = q
                          /\ arrived'[t].data.s = t
                          /\ \A m \in 1 .. Len(arrived') :
                               arrived'[m].guid = q => arrived'[m].data.s <= t
    BY DEF OccupantOK
  <2> DEFINE t == occupant[j].s
             q == [g |-> occupant[j].g, system_index |-> j]
  <2>1. occupant'[j] = occupant[j]
    BY <1>4
  <2>2. /\ t \in 1 .. Len(arrived)
        /\ arrived[t].guid = q
        /\ arrived[t].data.s = t
        /\ \A m \in 1 .. Len(arrived) : arrived[m].guid = q =>
                                          arrived[m].data.s <= t
    BY <2>1 DEF OccupantOK
  <2>3. q = k => t = s
    BY <1>5, <1>6
  <2> HIDE DEF q, t
  <2>4. /\ t \in 1 .. Len(arrived')
        /\ arrived'[t].guid = q
        /\ arrived'[t].data.s = t
        /\ \A m \in 1 .. Len(arrived') :
             arrived'[m].guid = q => arrived'[m].data.s <= t
    BY <1>2, <1>7, <2>2, <2>3
  <2> QED
    BY <2>1, <2>4 DEF q, t
<1> QED
  BY <1>8, <1>9

\* What an unconnected system sends belongs to no session.
LEMMA OfflineStep ==
  ASSUME TypeOK, ArrivedOK, OccupantOK,
         NEW guid \in OfflineGuid, OfflinePacket(guid)
  PROVE  ArrivedOK' /\ OccupantOK'
<1>1. PICK a \in Address : Arrive(guid, a, ID_ADVERTISE_SYSTEM, 0)
  BY DEF OfflinePacket
<1>2. guid \in Guid /\ guid \notin Key /\ 0 \in Session \cup {0}
  BY Constants DEF Guid, OfflineGuid, Key
<1>3. /\ Len(arrived) \in Nat
      /\ Len(arrived') = Len(arrived) + 1
      /\ \A n \in 1 .. Len(arrived) : arrived'[n] = arrived[n]
      /\ arrived'[Len(arrived) + 1].guid = guid
  BY <1>1, <1>2, ArriveStep, Constants
<1>4. ArrivedOK'
  <2>1. \A m \in 1 .. Len(arrived) : arrived[m].guid = guid =>
                                       arrived[m].data.s <= 0
    BY <1>2 DEF ArrivedOK
  <2> QED
    BY <1>1, <1>2, <1>3, <2>1, ArriveArrived, Constants
<1>5. OccupantOK'
  <2>1. occupant' = occupant
    BY DEF OfflinePacket
  <2>2. \A i \in Slot : occupant[i] # Vacant =>
          [g |-> occupant[i].g, system_index |-> i] # guid
    BY <1>2, OccupantFields
  <2> QED
    BY <1>3, <2>1, <2>2 DEF OccupantOK
<1> QED
  BY <1>4, <1>5

\* Every step keeps ArrivedOK.
LEMMA StepArrived ==
  ASSUME TypeOK, ArrivedOK, OccupantOK, [Next]_vars
  PROVE  ArrivedOK' /\ OccupantOK'
<1>1. CASE UNCHANGED <<arrived, occupant>>
  BY <1>1 DEF ArrivedOK, OccupantOK
<1>2. CASE \E i \in Slot, c \in Client : Connect(c, i)
  BY <1>2, ConnectStep
<1>3. CASE \E i \in Slot, id \in ClientId : ClientSend(i, id)
  BY <1>3, SendStep, Constants DEF ClientSend
<1>4. CASE \E i \in Slot, id \in ClosingId : Disconnect(i, id)
  BY <1>4, SendStep, Constants DEF Disconnect
<1>5. CASE \E guid \in OfflineGuid : OfflinePacket(guid)
  BY <1>5, OfflineStep
<1>6. CASE \E k \in Key : \/ LinkUp(k) \/ LinkFail(k) \/ LinkLost(k)
                          \/ \E id \in RemoteId : RemoteSend(k, id)
  BY <1>1, <1>6
  DEF LinkUp, LinkFail, LinkLost, RemoteSend, Upstream, serverVars
<1>7. CASE Program
  <2>1. UNCHANGED <<arrived, occupant>>
    BY <1>7
    DEF Program, ReceiveAll, HandleUnassigned, HandleNew, HandleNewFails,
        HandleUnknown, Panic, QueueMessage, StartFlush, FlushMessage,
        ForwardPacket, BatchDone, ServeConnection, DropReply, SendReply,
        ConnectionServed, ServeDone, serverVars
  <2> QED
    BY <1>1, <2>1
<1>8. CASE UNCHANGED vars
  BY <1>1, <1>8 DEF vars, serverVars
<1> QED
  BY <1>2, <1>3, <1>4, <1>5, <1>6, <1>7, <1>8 DEF Next, Network

-----------------------------------------------------------------------------
(***************************************************************************)
(* What is still to be handled.                                            *)
(***************************************************************************)
ServerStep ==
  \/ \E i \in Slot : \/ \E c \in Client : Connect(c, i)
                     \/ \E id \in ClientId : ClientSend(i, id)
                     \/ \E id \in ClosingId : Disconnect(i, id)
  \/ \E guid \in OfflineGuid : OfflinePacket(guid)

LinkStep ==
  \E k \in Key : \/ LinkUp(k) \/ LinkFail(k) \/ LinkLost(k)
                 \/ \E id \in RemoteId : RemoteSend(k, id)

DoneStep == HandleNew \/ QueueMessage \/ ForwardPacket

\* The steps of the program that leave the packets alone.
OtherStep ==
  \/ HandleUnassigned \/ HandleNewFails \/ HandleUnknown
  \/ StartFlush \/ FlushMessage
  \/ BatchDone \/ (\E k \in todo : ServeConnection(k))
  \/ DropReply \/ SendReply \/ ConnectionServed \/ ServeDone

\* A step is one of RakNet's on the server, one of RakNet's on an upstream
\* peer, or one of the program's.
LEMMA NextSteps ==
  [Next]_vars <=> \/ ServerStep \/ LinkStep \/ ReceiveAll \/ DoneStep
                  \/ OtherStep \/ UNCHANGED vars
BY DEF Next, Network, Program, ServerStep, LinkStep, DoneStep, OtherStep

\* A packet that arrives at the server: all else is as it was, and the two
\* sequences grow by the same packet.
LEMMA ServerStepGrows ==
  ASSUME TypeOK, ServerStep
  PROVE  /\ UNCHANGED <<connVars, linkVars, loopVars, historyVars>>
         /\ Len(arrived) \in Nat /\ Len(inbox) \in Nat
         /\ Len(arrived') = Len(arrived) + 1
         /\ \A n \in 1 .. Len(arrived) : arrived'[n] = arrived[n]
         /\ Len(inbox') = Len(inbox) + 1
         /\ \A n \in 1 .. Len(inbox) : inbox'[n] = inbox[n]
         /\ inbox'[Len(inbox) + 1] = arrived'[Len(arrived) + 1]
<1>1. \E guid \in Guid, a \in Address, id \in MessageId,
         s \in Session \cup {0} : Arrive(guid, a, id, s)
  <2>1. ASSUME NEW i \in Slot, NEW c \in Client, Connect(c, i)
        PROVE  \E guid \in Guid, a \in Address, id \in MessageId,
                  s \in Session \cup {0} : Arrive(guid, a, id, s)
    <3>1. Arrive([g |-> c, system_index |-> i], AddrOf[c],
                 ID_NEW_INCOMING_CONNECTION, Len(arrived) + 1)
      BY <2>1 DEF Connect
    <3>2. [g |-> c, system_index |-> i] \in Guid /\ AddrOf[c] \in Address
      BY Constants DEF Guid, Key
    <3>3. Len(arrived) + 1 \in Session
      BY <3>1, Constants DEF Arrive, TypeOK, Session, Serial
    <3> QED
      BY <3>1, <3>2, <3>3, Constants
  <2>2. ASSUME NEW i \in Slot, NEW id \in MessageId, occupant[i] # Vacant,
               Arrive([g |-> occupant[i].g, system_index |-> i],
                      AddrOf[occupant[i].g], id, occupant[i].s)
        PROVE  \E guid \in Guid, a \in Address, t \in MessageId,
                  s \in Session \cup {0} : Arrive(guid, a, t, s)
    BY <2>2, OccupantFields
  <2>3. ASSUME NEW guid \in OfflineGuid, OfflinePacket(guid)
        PROVE  \E q \in Guid, a \in Address, id \in MessageId,
                  s \in Session \cup {0} : Arrive(q, a, id, s)
    BY <2>3, Constants DEF OfflinePacket, Guid
  <2> QED
    BY <2>1, <2>2, <2>3, Constants DEF ServerStep, ClientSend, Disconnect
<1>2. PICK guid \in Guid, a \in Address, id \in MessageId,
           s \in Session \cup {0} : Arrive(guid, a, id, s)
  BY <1>1
<1>3. UNCHANGED <<connVars, linkVars, loopVars, historyVars>>
  BY <1>2 DEF Arrive
<1> QED
  BY <1>2, <1>3, ArriveStep

\* A step that finishes a packet takes it off the batch.
LEMMA DoneStepEffect ==
  ASSUME TypeOK, DoneStep
  PROVE  /\ batch # <<>> /\ pc' = "handle"
         /\ UNCHANGED <<serverVars, todo, at, replies>>
         /\ Len(batch) \in Nat \ {0}
         /\ Len(batch') = Len(batch) - 1
         /\ \A i \in 1 .. Len(batch) - 1 : batch'[i] = batch[i + 1]
<1>1. batch # <<>> /\ Done /\ UNCHANGED <<serverVars, todo, at, replies>>
  BY DEF DoneStep, HandleNew, QueueMessage, ForwardPacket, Handling,
         Forwarding, TypeOK
<1>2. batch \in Seq(Packet)
  BY DEF TypeOK
<1> QED
  BY <1>1, <1>2, TailFacts DEF Done

\* No other step of the program touches what is pending.
LEMMA OtherStepEffect ==
  ASSUME OtherStep
  PROVE  UNCHANGED <<arrived, inbox, batch, occupant>>
BY DEF OtherStep, HandleUnassigned, HandleNewFails, HandleUnknown, Panic,
       StartFlush, FlushMessage, BatchDone, ServeConnection, DropReply,
       SendReply, ConnectionServed, ServeDone, serverVars, loopVars

\* A message is counted as handled in the step that is done with it and in no
\* other, and those still to come are as many as they were.
LEMMA StepPending ==
  ASSUME TypeOK, TypeOK', PendingOK, [Next]_vars
  PROVE  /\ PendingOK'
         /\ DoneStep => Handled' = Handled + 1
         /\ ~DoneStep => Handled' = Handled
<1>0. /\ Len(arrived) \in Nat /\ Len(inbox) \in Nat /\ Len(batch) \in Nat
      /\ Len(arrived') \in Nat /\ Len(inbox') \in Nat /\ Len(batch') \in Nat
  <2>1. /\ arrived \in Seq(Packet) /\ inbox \in Seq(Packet)
        /\ batch \in Seq(Packet)
        /\ arrived' \in Seq(Packet) /\ inbox' \in Seq(Packet)
        /\ batch' \in Seq(Packet)
    BY DEF TypeOK
  <2> QED
    BY <2>1
<1>1. CASE ServerStep
  <2>1. ~DoneStep
    BY <1>1, DoneStepEffect, ServerStepGrows DEF serverVars
  <2>2. /\ batch' = batch /\ pc' = pc
        /\ Len(arrived') = Len(arrived) + 1
        /\ \A n \in 1 .. Len(arrived) : arrived'[n] = arrived[n]
        /\ Len(inbox') = Len(inbox) + 1
        /\ \A n \in 1 .. Len(inbox) : inbox'[n] = inbox[n]
        /\ inbox'[Len(inbox) + 1] = arrived'[Len(arrived) + 1]
    BY <1>1, ServerStepGrows DEF loopVars
  <2>3. Handled' = Handled
    BY <1>0, <2>2 DEF Handled
  <2>4. /\ Handled \in Nat
        /\ \A i \in 1 .. Len(batch) : batch[i] = arrived[Handled + i]
        /\ \A i \in 1 .. Len(inbox) :
             inbox[i] = arrived[Handled + Len(batch) + i]
        /\ Len(arrived) = Handled + Len(batch) + Len(inbox)
    BY <1>0 DEF PendingOK, Handled
  <2>5. \A i \in 1 .. Len(batch') : batch'[i] = arrived'[Handled' + i]
    BY <1>0, <2>2, <2>3, <2>4
  <2>6. \A i \in 1 .. Len(inbox') :
          inbox'[i] = arrived'[Handled' + Len(batch') + i]
    <3> SUFFICES ASSUME NEW i \in 1 .. Len(inbox) + 1
                 PROVE  inbox'[i] = arrived'[Handled + Len(batch) + i]
      BY <2>2, <2>3
    <3>1. CASE i \in 1 .. Len(inbox)
      <4>1. Handled + Len(batch) + i \in 1 .. Len(arrived)
        BY <1>0, <2>4, <3>1
      <4> QED
        BY <2>2, <2>4, <3>1, <4>1
    <3>2. CASE i = Len(inbox) + 1
      <4>1. Handled + Len(batch) + i = Len(arrived) + 1
        BY <1>0, <2>4, <3>2
      <4> QED
        BY <2>2, <3>2, <4>1
    <3> QED
      BY <1>0, <3>1, <3>2
  <2> QED
    BY <2>1, <2>2, <2>3, <2>4, <2>5, <2>6 DEF PendingOK
<1>2. CASE LinkStep
  <2>1. UNCHANGED <<serverVars, loopVars>>
    BY <1>2 DEF LinkStep, LinkUp, LinkFail, LinkLost, RemoteSend, Upstream
  <2>2. ~DoneStep
    BY <2>1, <1>0, DoneStepEffect DEF loopVars
  <2> QED
    BY <2>1, <2>2 DEF PendingOK, Handled, serverVars, loopVars
<1>3. CASE ReceiveAll
  <2>1. /\ batch = <<>> /\ batch' = inbox /\ inbox' = <<>>
        /\ arrived' = arrived /\ pc' = "handle"
    BY <1>3 DEF ReceiveAll, Goto, PendingOK
  <2>2. ~DoneStep
    BY <2>1, DoneStepEffect
  <2> QED
    BY <1>0, <2>1, <2>2 DEF PendingOK, Handled
<1>4. CASE DoneStep
  <2>1. /\ Len(batch) \in Nat \ {0} /\ pc' = "handle"
        /\ Len(batch') = Len(batch) - 1
        /\ \A i \in 1 .. Len(batch) - 1 : batch'[i] = batch[i + 1]
        /\ arrived' = arrived /\ inbox' = inbox
    BY <1>4, DoneStepEffect DEF serverVars
  <2>2. Handled' = Handled + 1
    BY <1>0, <2>1 DEF Handled
  <2>3. /\ Handled \in Nat
        /\ \A i \in 1 .. Len(batch) : batch[i] = arrived[Handled + i]
        /\ \A i \in 1 .. Len(inbox) :
             inbox[i] = arrived[Handled + Len(batch) + i]
    BY <1>0 DEF PendingOK, Handled
  <2>4. \A i \in 1 .. Len(batch') : batch'[i] = arrived'[Handled' + i]
    BY <2>1, <2>2, <2>3
  <2>5. \A i \in 1 .. Len(inbox') :
          inbox'[i] = arrived'[Handled' + Len(batch') + i]
    <3>1. Handled' + Len(batch') = Handled + Len(batch)
      BY <2>1, <2>2, <2>3
    <3> QED
      BY <2>1, <2>3, <3>1
  <2> QED
    BY <1>4, <2>1, <2>2, <2>3, <2>4, <2>5 DEF PendingOK
<1>5. CASE OtherStep
  <2>1. UNCHANGED <<arrived, inbox, batch>>
    BY <1>5, OtherStepEffect
  <2>2. ~DoneStep
    BY <2>1, <1>0, DoneStepEffect
  <2>3. pc' \in {"receive", "serve", "reply"} => batch = <<>>
    BY <1>5
    DEF OtherStep, HandleUnassigned, HandleNewFails, HandleUnknown, Panic,
        StartFlush, FlushMessage, BatchDone, ServeConnection, DropReply,
        SendReply, ConnectionServed, ServeDone, Goto, PendingOK, loopVars
  <2> QED
    BY <2>1, <2>2, <2>3 DEF PendingOK, Handled
<1>6. CASE UNCHANGED vars
  <2>1. UNCHANGED <<serverVars, loopVars>>
    BY <1>6 DEF vars
  <2>2. ~DoneStep
    BY <2>1, <1>0, DoneStepEffect DEF loopVars
  <2> QED
    BY <2>1, <2>2 DEF PendingOK, Handled, serverVars, loopVars
<1> QED
  BY <1>1, <1>2, <1>3, <1>4, <1>5, <1>6, NextSteps

-----------------------------------------------------------------------------
(***************************************************************************)
(* The connections of the map.                                             *)
(***************************************************************************)
\* The history only grows.
LEMMA ArrivedGrows ==
  ASSUME TypeOK, [Next]_vars
  PROVE  /\ \A n \in 1 .. Len(arrived) : arrived'[n] = arrived[n]
         /\ Len(arrived') >= Len(arrived)
<1>1. CASE ServerStep
  BY <1>1, ServerStepGrows
<1>2. CASE ~ServerStep
  <2>1. arrived' = arrived
    BY <1>2, NextSteps, DoneStepEffect, OtherStepEffect
    DEF LinkStep, LinkUp, LinkFail, LinkLost, RemoteSend, Upstream,
        ReceiveAll, vars, serverVars
  <2>2. Len(arrived) \in Nat
    BY DEF TypeOK
  <2> QED
    BY <2>1, <2>2
<1> QED
  BY <1>1, <1>2

\* What has been handled has arrived.
LEMMA HandledBound ==
  ASSUME TypeOK, PendingOK
  PROVE  /\ Handled \in Nat
         /\ 1 .. Handled \subseteq 1 .. Len(arrived)
<1>1. /\ Len(arrived) \in Nat /\ Len(inbox) \in Nat /\ Len(batch) \in Nat
  <2>1. /\ arrived \in Seq(Packet) /\ inbox \in Seq(Packet)
        /\ batch \in Seq(Packet)
    BY DEF TypeOK
  <2> QED
    BY <2>1
<1> QED
  BY <1>1 DEF PendingOK, Handled

\* A packet at hand of a connected client belongs to the session its
\* ProxyConnection was made for.
LEMMA SessionAtHand ==
  ASSUME TypeOK, ArrivedOK, PendingOK, ConnectionsOK,
         batch # <<>>, ~IsNew, key \in Key
  PROVE  /\ key \in connections
         /\ packet.data.s = session[key]
         /\ packet.data.s \in 1 .. Handled
<1> DEFINE n == Handled + 1
           s == packet.data.s
<1>1. /\ n \in 1 .. Len(arrived) /\ packet = arrived[n] /\ s # n
      /\ Handled \in Nat /\ arrived[n].guid = key
  BY PacketAtHand DEF key
<1>2. s \in 1 .. Handled
  <2>1. s \in 0 .. n
    BY <1>1, SessionBound
  <2>2. s # 0
    BY <1>1 DEF ArrivedOK
  <2> QED
    BY <1>1, <2>1, <2>2
<1>3. arrived[s].guid = key /\ arrived[s].data.s = s
  BY <1>1, <1>2 DEF ArrivedOK
<1>4. key \in connections /\ s <= session[key]
  BY <1>2, <1>3 DEF ConnectionsOK
<1>5. session[key] <= s
  <2>1. /\ session[key] \in 1 .. Handled
        /\ arrived[session[key]].guid = key
        /\ arrived[session[key]].data.s = session[key]
    BY <1>4 DEF ConnectionsOK
  <2> HIDE DEF s
  <2>2. s = arrived[n].data.s
    BY <1>1 DEF s
  <2>3. session[key] \in 1 .. n
    BY <1>1, <2>1
  <2> QED
    BY <1>1, <2>1, <2>2, <2>3 DEF ArrivedOK
<1>6. s \in Nat /\ session[key] \in Nat
  BY <1>1, <1>2, <1>4 DEF ConnectionsOK
<1> QED
  BY <1>2, <1>4, <1>5, <1>6

\* forward_packet is at work: what is known of the packet and its connection.
LEMMA ForwardingFacts ==
  ASSUME TypeOK, ArrivedOK, PendingOK, ConnectionsOK, FlushOK,
         Forwarding \/ pc = "flush"
  PROVE  /\ batch # <<>> /\ ~IsNew
         /\ key \in connections /\ key \in Key
         /\ packet.data.s = session[key]
         /\ packet.data.s \in 1 .. Handled
<1>1. batch # <<>> /\ ~IsNew /\ key \in connections /\ key \in Key
  BY DEF Forwarding, Handling, FlushOK, TypeOK
<1> QED
  BY <1>1, SessionAtHand

\* Only HandleNew changes the keys of the map and the sessions.
LEMMA MapUnchanged ==
  ASSUME TypeOK, [Next]_vars, ~HandleNew
  PROVE  UNCHANGED <<connections, session, system_address>>
<1>1. CASE ServerStep
  BY <1>1, ServerStepGrows DEF connVars
<1>2. CASE LinkStep
  BY <1>2 DEF LinkStep, LinkUp, LinkFail, LinkLost, RemoteSend, Upstream,
              connVars
<1>3. CASE ReceiveAll \/ QueueMessage \/ ForwardPacket
  BY <1>3 DEF ReceiveAll, QueueMessage, ForwardPacket, connVars
<1>4. CASE OtherStep
  BY <1>4
  DEF OtherStep, HandleUnassigned, HandleNewFails, HandleUnknown, Panic,
      StartFlush, FlushMessage, BatchDone, ServeConnection, DropReply,
      SendReply, ConnectionServed, ServeDone, connVars
<1>5. CASE UNCHANGED vars
  BY <1>5 DEF vars, connVars
<1> QED
  BY <1>1, <1>2, <1>3, <1>4, <1>5, NextSteps DEF DoneStep

\* What the program's variables are after a new connection.
LEMMA HandleNewEffect ==
  ASSUME TypeOK, ArrivedOK, PendingOK, HandleNew
  PROVE  /\ key \in Key
         /\ arrived' = arrived
         /\ arrived[Handled + 1].guid = key
         /\ arrived[Handled + 1].data.s = Handled + 1
         /\ arrived[Handled + 1].data.id = ID_NEW_INCOMING_CONNECTION
         /\ connections' = connections \cup {key}
         /\ \A k \in Key : session'[k] =
              IF k = key THEN Handled + 1 ELSE session[k]
         /\ \A k \in Key : messages'[k] =
              IF k = key THEN <<>> ELSE messages[k]
         /\ \A k \in Key : k # key => link'[k] = link[k]
         /\ forwarded' = forwarded
<1>1. /\ packet = arrived[Handled + 1] /\ key \in Key
      /\ packet.data.s = Handled + 1
  BY PacketAtHand DEF HandleNew, Handling
<1>2. arrived' = arrived /\ forwarded' = forwarded
      /\ packet.data.id = ID_NEW_INCOMING_CONNECTION
  BY DEF HandleNew, serverVars, IsNew
<1>3. /\ connections' = connections \cup {key}
      /\ session' = [session EXCEPT ![key] = packet.data.s]
      /\ messages' = [messages EXCEPT ![key] = <<>>]
      /\ link' = [link EXCEPT ![key] = "connecting"]
  BY DEF HandleNew, WithNew, NewQueue
<1>4. /\ session \in [Key -> Session \cup {0}]
      /\ messages \in [Key -> Seq(Data)]
      /\ link \in [Key -> {"none", "connecting", "connected", "down"}]
  BY DEF TypeOK
<1>5. packet.guid = key
  BY DEF key
<1> QED
  BY <1>1, <1>2, <1>3, <1>4, <1>5

\* Every step keeps ConnectionsOK.
LEMMA StepConnections ==
  ASSUME TypeOK, TypeOK', ArrivedOK, PendingOK, ConnectionsOK, FlushOK,
         [Next]_vars
  PROVE  ConnectionsOK'
<1>1. Handled \in Nat /\ 1 .. Handled \subseteq 1 .. Len(arrived)
  BY HandledBound
<1>2. \A n \in 1 .. Len(arrived) : arrived'[n] = arrived[n]
  BY ArrivedGrows
<1>3. CASE ~DoneStep
  <2>1. Handled' = Handled
    BY <1>3, StepPending
  <2>2. connections' = connections /\ session' = session
    BY <1>3, MapUnchanged DEF DoneStep
  <2> QED
    BY <1>1, <1>2, <2>1, <2>2 DEF ConnectionsOK
<1>4. CASE QueueMessage \/ ForwardPacket
  <2>1. Handled' = Handled + 1
    BY <1>4, StepPending DEF DoneStep
  <2>2. ~HandleNew
    BY <1>4 DEF QueueMessage, Forwarding, ForwardPacket, HandleNew, Handling
  <2>3. connections' = connections /\ session' = session
    BY <2>2, MapUnchanged
  <2>4. /\ key \in connections /\ packet.data.s = session[key]
        /\ packet.data.s \in 1 .. Handled /\ batch # <<>>
    BY <1>4, ForwardingFacts DEF QueueMessage, ForwardPacket
  <2>5. /\ packet = arrived[Handled + 1]
        /\ Handled + 1 \in 1 .. Len(arrived)
        /\ arrived[Handled + 1].guid = key
    BY <2>4, PacketAtHand DEF key
  <2> QED
    BY <1>1, <1>2, <2>1, <2>3, <2>4, <2>5 DEF ConnectionsOK
<1>5. CASE HandleNew
  <2>1. Handled' = Handled + 1
    BY <1>5, StepPending DEF DoneStep
  <2>2. /\ key \in Key
        /\ arrived' = arrived
        /\ arrived[Handled + 1].guid = key
        /\ arrived[Handled + 1].data.s = Handled + 1
        /\ connections' = connections \cup {key}
        /\ \A k \in Key : session'[k] =
             IF k = key THEN Handled + 1 ELSE session[k]
    BY <1>5, HandleNewEffect
  <2>3. \A n \in 1 .. Handled : arrived[n].data.s <= Handled + 1
    BY <1>1, SessionBound
  <2> QED
    BY <1>1, <2>1, <2>2, <2>3 DEF ConnectionsOK
<1> QED
  BY <1>3, <1>4, <1>5 DEF DoneStep

\* Every step keeps FlushOK.
LEMMA StepFlush ==
  ASSUME TypeOK, FlushOK, [Next]_vars
  PROVE  FlushOK'
<1>1. CASE ServerStep \/ UNCHANGED vars
  <2>1. pc' = pc /\ batch' = batch /\ link' = link
    BY <1>1, ServerStepGrows DEF loopVars, linkVars, vars
  <2> QED
    BY <2>1 DEF FlushOK, IsNew, key, packet
<1>2. CASE LinkStep
  <2>1. PICK k \in Key, to \in {"connected", "down"} :
          pc' = pc /\ batch' = batch /\ link' = [link EXCEPT ![k] = to]
    BY <1>2
    DEF LinkStep, LinkUp, LinkFail, LinkLost, RemoteSend, Upstream, loopVars
  <2>2. pc = "flush" => key \in Key
    BY DEF TypeOK
  <2> QED
    BY <2>1, <2>2 DEF FlushOK, TypeOK, IsNew, key, packet
<1>3. CASE ReceiveAll \/ DoneStep
  <2>1. pc' = "handle"
    BY <1>3, DoneStepEffect DEF ReceiveAll, Goto
  <2> QED
    BY <2>1 DEF FlushOK
<1>4. CASE StartFlush
  <2>1. ~IsNew /\ link[key] = "connected" /\ batch' = batch /\ link' = link
    BY <1>4 DEF StartFlush, Forwarding, Connected, linkVars
  <2> QED
    BY <2>1 DEF FlushOK, IsNew, key, packet
<1>5. CASE FlushMessage
  <2>1. pc' = pc /\ batch' = batch /\ link' = link
    BY <1>5 DEF FlushMessage, loopVars, linkVars
  <2> QED
    BY <2>1 DEF FlushOK, IsNew, key, packet
<1>6. CASE OtherStep /\ ~StartFlush /\ ~FlushMessage
  <2>1. pc' # "flush"
    BY <1>6
    DEF OtherStep, HandleUnassigned, HandleNewFails, HandleUnknown, Panic,
        BatchDone, ServeConnection, DropReply, SendReply, ConnectionServed,
        ServeDone, Goto
  <2> QED
    BY <2>1 DEF FlushOK
<1> QED
  BY <1>1, <1>2, <1>3, <1>4, <1>5, <1>6, NextSteps

\* Every step keeps PanicOK.
LEMMA StepPanic ==
  ASSUME TypeOK, ArrivedOK, PendingOK, ConnectionsOK, PanicOK, [Next]_vars
  PROVE  PanicOK'
<1>1. CASE UNCHANGED <<pc, batch>>
  BY <1>1 DEF PanicOK, ConnectedNeverPanics, packet, IsNew
<1>2. CASE HandleNewFails
  BY <1>2 DEF HandleNewFails, Handling, Panic, PanicOK, ConnectedNeverPanics,
              packet, IsNew
<1>3. CASE HandleUnassigned \/ HandleUnknown
  <2>1. batch # <<>> /\ batch' = batch
    BY <1>3 DEF HandleUnassigned, HandleUnknown, Handling, Panic
  <2>2. key \notin Key \/ IsNew
    BY <1>3, <2>1, SessionAtHand, Constants
    DEF HandleUnassigned, HandleUnknown, key
  <2>3. /\ packet = arrived[Handled + 1]
        /\ Handled + 1 \in 1 .. Len(arrived)
    BY <2>1, PacketAtHand
  <2>4. packet.data.s = 0 \/ IsNew
    BY <2>2, <2>3 DEF ArrivedOK, key
  <2> QED
    BY <2>1, <2>4 DEF PanicOK, ConnectedNeverPanics, packet, IsNew
<1>4. CASE ServerStep \/ LinkStep \/ UNCHANGED vars
  BY <1>1, <1>4, ServerStepGrows
  DEF LinkStep, LinkUp, LinkFail, LinkLost, RemoteSend, Upstream, loopVars,
      vars
<1>5. CASE /\ ReceiveAll \/ DoneStep \/ OtherStep
           /\ ~HandleNewFails /\ ~HandleUnassigned /\ ~HandleUnknown
  <2>1. pc' # "panicked"
    BY <1>5, DoneStepEffect
    DEF OtherStep, ReceiveAll, StartFlush, FlushMessage, BatchDone,
        ServeConnection, DropReply, SendReply, ConnectionServed, ServeDone,
        Goto, loopVars
  <2> QED
    BY <2>1 DEF PanicOK, ConnectedNeverPanics
<1> QED
  BY <1>2, <1>3, <1>4, <1>5, NextSteps

-----------------------------------------------------------------------------
(***************************************************************************)
(* The way of each packet.                                                 *)
(***************************************************************************)
LEMMA ForwardedSession ==
  ASSUME TypeOK, ArrivedOK, PendingOK, NEW data, NEW k, NEW s \in Session,
         HandledData(data, k, s)
  PROVE  s \in 1 .. Handled
<1>1. /\ data.n \in 1 .. Len(arrived) /\ data.n \in 1 .. Handled
      /\ arrived[data.n].data.s = s
  BY HandledBound DEF HandledData
<1>2. s \in 0 .. data.n
  BY <1>1, SessionBound
<1>3. s >= 1 /\ s \in Nat
  BY Constants DEF Session, Serial
<1> QED
  BY <1>1, <1>2, <1>3, HandledBound

\* Steps that touch neither the queues nor what went upstream.
LEMMA StepElsewhere ==
  ASSUME TypeOK, ArrivedOK, PendingOK, ConnectionsOK, QueueOK,
         ForwardedOK, KeptOK,
         [Next]_vars, ~DoneStep, ~FlushMessage, Handled' = Handled
  PROVE  QueueOK' /\ ForwardedOK' /\ KeptOK'
<1>1. UNCHANGED <<connections, session, messages, forwarded>>
  <2>1. UNCHANGED <<connections, session>>
    BY MapUnchanged DEF DoneStep
  <2>2. CASE ServerStep
    BY <2>1, <2>2, ServerStepGrows DEF connVars, historyVars
  <2>3. CASE LinkStep
    BY <2>1, <2>3
    DEF LinkStep, LinkUp, LinkFail, LinkLost, RemoteSend, Upstream, connVars,
        historyVars
  <2>4. CASE ReceiveAll
    BY <2>4 DEF ReceiveAll, connVars, historyVars
  <2>5. CASE OtherStep
    BY <2>5
    DEF OtherStep, HandleUnassigned, HandleNewFails, HandleUnknown, Panic,
        StartFlush, BatchDone, ServeConnection, DropReply, SendReply,
        ConnectionServed, ServeDone, connVars, historyVars
  <2>6. CASE UNCHANGED vars
    BY <2>6 DEF vars, connVars, historyVars
  <2> QED
    BY <2>2, <2>3, <2>4, <2>5, <2>6, NextSteps
<1>2. \A k \in connections : link[k] = "down" => link'[k] = "down"
  <2>1. CASE LinkStep
    <3>1. PICK k \in Key, to \in {"connected", "down"} :
            /\ link[k] # "down"
            /\ link' = [link EXCEPT ![k] = to]
      BY <2>1
      DEF LinkStep, LinkUp, LinkFail, LinkLost, RemoteSend, Upstream
    <3> QED
      BY <3>1 DEF TypeOK
  <2>2. CASE ~LinkStep
    <3>1. link' = link
      BY <2>2, NextSteps, ServerStepGrows
      DEF ReceiveAll, OtherStep, HandleUnassigned, HandleNewFails,
          HandleUnknown, Panic, StartFlush, BatchDone, ServeConnection,
          DropReply, SendReply, ConnectionServed, ServeDone, vars, linkVars
    <3> QED
      BY <3>1
  <2> QED
    BY <2>1, <2>2
<1>3. /\ \A n \in 1 .. Handled : arrived'[n] = arrived[n]
      /\ Handled \in Nat
  BY HandledBound, ArrivedGrows
<1>5. QueueOK'
  <2>1. ASSUME NEW k \in connections, NEW i \in 1 .. Len(messages[k])
        PROVE  HandledData(messages[k][i], k, session[k])'
    <3>1. HandledData(messages[k][i], k, session[k])
      BY DEF QueueOK
    <3> QED
      BY <1>1, <1>3, <3>1 DEF HandledData
  <2> QED
    BY <1>1, <2>1 DEF QueueOK, Rising, Before
<1>6. ForwardedOK'
  <2>1. ASSUME NEW s \in Session, NEW i \in 1 .. Len(forwarded[s])
        PROVE  HandledData(forwarded[s][i], arrived[s].guid, s)'
    <3>1. HandledData(forwarded[s][i], arrived[s].guid, s)
      BY <2>1 DEF ForwardedOK
    <3>2. s \in 1 .. Handled
      BY <3>1, ForwardedSession
    <3> QED
      BY <1>1, <1>3, <3>1, <3>2 DEF HandledData
  <2> QED
    BY <1>1, <2>1 DEF ForwardedOK, Rising
<1>7. KeptOK'
  BY <1>1, <1>2, <1>3 DEF KeptOK, In
<1> QED
  BY <1>5, <1>6, <1>7

\* The ProxyConnection of a new session starts empty; every other one is as
\* it was.
LEMMA StepNew ==
  ASSUME TypeOK, ArrivedOK, PendingOK, ConnectionsOK, QueueOK,
         ForwardedOK, KeptOK, HandleNew, Handled' = Handled + 1
  PROVE  QueueOK' /\ ForwardedOK' /\ KeptOK'
<1>1. Handled \in Nat /\ 1 .. Handled \subseteq 1 .. Len(arrived)
  BY HandledBound
<1>2. /\ key \in Key /\ arrived' = arrived /\ forwarded' = forwarded
      /\ arrived[Handled + 1].guid = key
      /\ arrived[Handled + 1].data.s = Handled + 1
      /\ arrived[Handled + 1].data.id = ID_NEW_INCOMING_CONNECTION
      /\ connections' = connections \cup {key}
      /\ \A k \in Key : session'[k] =
           IF k = key THEN Handled + 1 ELSE session[k]
      /\ \A k \in Key : messages'[k] =
           IF k = key THEN <<>> ELSE messages[k]
      /\ \A k \in Key : k # key => link'[k] = link[k]
  BY HandleNewEffect
<1>3. connections \subseteq Key
  BY DEF TypeOK
<1>5. ForwardedOK'
  <2>1. ASSUME NEW s \in Session, NEW i \in 1 .. Len(forwarded[s])
        PROVE  HandledData(forwarded[s][i], arrived[s].guid, s)'
    <3>1. HandledData(forwarded[s][i], arrived[s].guid, s)
      BY DEF ForwardedOK
    <3> QED
      BY <1>1, <1>2, <3>1 DEF HandledData
  <2> QED
    BY <1>2, <2>1 DEF ForwardedOK, Rising
<1>6. QueueOK'
  <2> SUFFICES ASSUME NEW k \in connections'
               PROVE  /\ \A i \in 1 .. Len(messages'[k]) :
                           HandledData(messages[k][i], k, session[k])'
                      /\ Rising(messages'[k])
                      /\ Before(forwarded'[session'[k]], messages'[k])
    BY DEF QueueOK, Rising, Before
  <2>1. CASE k = key
    <3>1. messages'[k] = <<>>
      BY <1>2, <2>1
    <3> QED
      BY <3>1 DEF Rising, Before
  <2>2. CASE k # key
    <3>1. /\ k \in connections /\ messages'[k] = messages[k]
          /\ session'[k] = session[k]
      BY <1>2, <1>3, <2>2
    <3>2. ASSUME NEW i \in 1 .. Len(messages'[k])
          PROVE  HandledData(messages[k][i], k, session[k])'
      <4>1. HandledData(messages[k][i], k, session[k])
        BY <3>1 DEF QueueOK
      <4> QED
        BY <1>1, <1>2, <3>1, <4>1 DEF HandledData
    <3> QED
      BY <1>2, <3>1, <3>2 DEF QueueOK
  <2> QED
    BY <2>1, <2>2
<1>7. KeptOK'
  <2> SUFFICES ASSUME NEW n \in 1 .. Handled + 1,
                      arrived[n].data.id # ID_NEW_INCOMING_CONNECTION,
                      arrived[n].guid \in connections',
                      session'[arrived[n].guid] = arrived[n].data.s,
                      link'[arrived[n].guid] # "down"
               PROVE  \/ In(arrived[n].data, messages'[arrived[n].guid])
                      \/ In(arrived[n].data, forwarded[arrived[n].data.s])
    BY <1>2 DEF KeptOK, In
  <2>1. n \in 1 .. Handled
    BY <1>1, <1>2
  <2>2. arrived[n].guid # key
    <3>1. arrived[n].data.s \in 0 .. n
      BY <1>1, <2>1, SessionBound
    <3> QED
      BY <1>1, <1>2, <2>1, <3>1
  <2> QED
    BY <1>2, <1>3, <2>1, <2>2 DEF KeptOK
<1> QED
  BY <1>5, <1>6, <1>7

\* The session of a connection began with a packet already handled.
LEMMA SessionFacts ==
  ASSUME TypeOK, PendingOK, ConnectionsOK, NEW k \in connections
  PROVE  /\ k \in Key
         /\ session[k] \in Session
         /\ session[k] \in 1 .. Handled
         /\ arrived[session[k]].guid = k
         /\ \A j \in connections : session[j] = session[k] => j = k
<1>1. k \in Key /\ connections \subseteq Key
  BY DEF TypeOK
<1>2. session[k] \in 1 .. Handled /\ arrived[session[k]].guid = k
  BY <1>1 DEF ConnectionsOK
<1>3. session[k] \in Session
  <2>1. arrived \in Seq(Packet) /\ Len(arrived) <= MaxPackets
    BY DEF TypeOK
  <2>2. Len(arrived) \in Nat
    BY <2>1
  <2>3. session[k] \in 1 .. Len(arrived)
    BY <1>2, HandledBound
  <2> QED
    BY <2>1, <2>2, <2>3, Constants DEF Session, Serial
<1> QED
  BY <1>1, <1>2, <1>3 DEF ConnectionsOK

\* Queues of payloads, in the order of their serial numbers.
LEMMA DataNumber == \A d \in Data : d.n \in Nat
BY Constants DEF Data, Serial

\* Something newer at its end keeps a sequence rising.
LEMMA RisingAppend ==
  ASSUME NEW q \in Seq(Data), NEW d \in Data, Rising(q),
         \A i \in 1 .. Len(q) : q[i].n < d.n
  PROVE  Rising(Append(q, d))
<1> DEFINE r == Append(q, d)
<1>1. /\ r \in Seq(Data) /\ Len(r) = Len(q) + 1 /\ Len(q) \in Nat
      /\ DOMAIN r = 1 .. Len(q) + 1
      /\ \A i \in 1 .. Len(q) : r[i] = q[i]
      /\ r[Len(q) + 1] = d
  BY AppendFacts
<1>2. \A i, j \in 1 .. Len(q) : i < j => q[i].n < q[j].n
  BY DEF Rising
<1> HIDE DEF r
<1>3. \A i, j \in 1 .. Len(q) + 1 : i < j => r[i].n < r[j].n
  <2> SUFFICES ASSUME NEW i \in 1 .. Len(q) + 1, NEW j \in 1 .. Len(q) + 1,
                      i < j
               PROVE  r[i].n < r[j].n
    OBVIOUS
  <2>1. i \in 1 .. Len(q) /\ r[i] = q[i]
    BY <1>1
  <2>2. CASE j = Len(q) + 1
    BY <1>1, <2>1, <2>2
  <2>3. CASE j \in 1 .. Len(q)
    BY <1>1, <1>2, <2>1, <2>3
  <2> QED
    BY <1>1, <2>2, <2>3
<1>4. Rising(r)
  BY <1>1, <1>3 DEF Rising
<1> QED
  BY <1>4 DEF r

\* Something newer than all of the first, at the end of the second.
LEMMA BeforeAppend ==
  ASSUME NEW p \in Seq(Data), NEW q \in Seq(Data), NEW d \in Data,
         Before(p, q),
         \A i \in 1 .. Len(p) : p[i].n < d.n
  PROVE  Before(p, Append(q, d))
<1> DEFINE r == Append(q, d)
<1>1. /\ r \in Seq(Data) /\ Len(q) \in Nat
      /\ DOMAIN r = 1 .. Len(q) + 1
      /\ \A i \in 1 .. Len(q) : r[i] = q[i]
      /\ r[Len(q) + 1] = d
  BY AppendFacts
<1>2. \A i \in 1 .. Len(p), j \in 1 .. Len(q) : p[i].n < q[j].n
  BY DEF Before
<1> HIDE DEF r
<1>3. \A i \in 1 .. Len(p), j \in 1 .. Len(q) + 1 : p[i].n < r[j].n
  <2> SUFFICES ASSUME NEW i \in 1 .. Len(p), NEW j \in 1 .. Len(q) + 1
               PROVE  p[i].n < r[j].n
    OBVIOUS
  <2>1. CASE j = Len(q) + 1
    BY <1>1, <2>1
  <2>2. CASE j \in 1 .. Len(q)
    BY <1>1, <1>2, <2>2
  <2> QED
    BY <1>1, <2>1, <2>2
<1>4. DOMAIN p = 1 .. Len(p)
  OBVIOUS
<1>5. Before(p, r)
  BY <1>1, <1>3, <1>4 DEF Before
<1> QED
  BY <1>5 DEF r

\* The oldest payload leaves one queue for the end of the other.
LEMMA BeforeMove ==
  ASSUME NEW p \in Seq(Data), NEW q \in Seq(Data), q # <<>>,
         Rising(q), Before(p, q)
  PROVE  /\ Before(Append(p, Head(q)), Tail(q))
         /\ Before(p, Tail(q))
         /\ Rising(Tail(q))
         /\ \A i \in 1 .. Len(p) : p[i].n < Head(q).n
<1> DEFINE r == Append(p, Head(q))
           t == Tail(q)
<1>1. /\ t \in Seq(Data) /\ Head(q) \in Data /\ Head(q) = q[1]
      /\ Len(q) \in Nat /\ Len(q) >= 1 /\ DOMAIN t = 1 .. Len(q) - 1
      /\ \A i \in 1 .. Len(q) - 1 : t[i] = q[i + 1]
  BY TailFacts
<1>2. /\ Len(p) \in Nat /\ DOMAIN r = 1 .. Len(p) + 1
      /\ \A i \in 1 .. Len(p) : r[i] = p[i]
      /\ r[Len(p) + 1] = q[1]
  BY <1>1, AppendFacts
<1>3. /\ \A i \in 1 .. Len(p), j \in 1 .. Len(q) : p[i].n < q[j].n
      /\ \A i, j \in 1 .. Len(q) : i < j => q[i].n < q[j].n
      /\ DOMAIN p = 1 .. Len(p)
  BY DEF Before, Rising
<1> HIDE DEF r, t
<1>4. \A i \in 1 .. Len(p) + 1, j \in 1 .. Len(q) - 1 : r[i].n < t[j].n
  <2> SUFFICES ASSUME NEW i \in 1 .. Len(p) + 1, NEW j \in 1 .. Len(q) - 1
               PROVE  r[i].n < q[j + 1].n
    BY <1>1
  <2>1. j + 1 \in 1 .. Len(q) /\ 1 \in 1 .. Len(q) /\ 1 < j + 1
    BY <1>1
  <2>2. CASE i \in 1 .. Len(p)
    BY <1>2, <1>3, <2>1, <2>2
  <2>3. CASE i = Len(p) + 1
    BY <1>2, <1>3, <2>1, <2>3
  <2> QED
    BY <1>2, <2>2, <2>3
<1>5. Before(r, t)
  BY <1>1, <1>2, <1>4 DEF Before
<1>6. Before(p, t)
  <2>1. \A j \in 1 .. Len(q) - 1 : j + 1 \in 1 .. Len(q)
    BY <1>1
  <2> QED
    BY <1>1, <1>3, <2>1 DEF Before
<1>7. Rising(t)
  <2> SUFFICES ASSUME NEW i \in 1 .. Len(q) - 1, NEW j \in 1 .. Len(q) - 1,
                      i < j
               PROVE  q[i + 1].n < q[j + 1].n
    BY <1>1 DEF Rising
  <2>1. i + 1 \in 1 .. Len(q) /\ j + 1 \in 1 .. Len(q) /\ i + 1 < j + 1
    BY <1>1
  <2> QED
    BY <1>3, <2>1
<1>8. \A i \in 1 .. Len(p) : p[i].n < Head(q).n
  BY <1>1, <1>3
<1> QED
  BY <1>5, <1>6, <1>7, <1>8 DEF r, t

\* What a queue holds after an append.
LEMMA InAppend ==
  ASSUME NEW q \in Seq(Data), NEW d \in Data
  PROVE  /\ In(d, Append(q, d))
         /\ \A x : In(x, q) => In(x, Append(q, d))
         /\ \A i \in 1 .. Len(Append(q, d)) :
              Append(q, d)[i] = d \/ \E j \in 1 .. Len(q) :
                                       Append(q, d)[i] = q[j]
<1>1. /\ Len(Append(q, d)) = Len(q) + 1 /\ Len(q) \in Nat
      /\ \A i \in 1 .. Len(q) : Append(q, d)[i] = q[i]
      /\ Append(q, d)[Len(q) + 1] = d
      /\ DOMAIN q = 1 .. Len(q)
      /\ DOMAIN Append(q, d) = 1 .. Len(q) + 1
  BY AppendFacts
<1> DEFINE r == Append(q, d)
<1> HIDE DEF r
<1>2. In(d, Append(q, d))
  <2>1. Len(q) + 1 \in 1 .. Len(q) + 1
    BY <1>1
  <2> QED
    BY <1>1, <2>1 DEF In
<1>3. ASSUME NEW x, In(x, q)
      PROVE  In(x, Append(q, d))
  <2>1. PICK i \in 1 .. Len(q) : q[i] = x
    BY <1>1, <1>3 DEF In
  <2>2. i \in 1 .. Len(q) + 1
    BY <1>1, <2>1
  <2> QED
    BY <1>1, <2>1, <2>2 DEF In
<1>4. ASSUME NEW i \in 1 .. Len(Append(q, d))
      PROVE  Append(q, d)[i] = d \/ \E j \in 1 .. Len(q) :
                                      Append(q, d)[i] = q[j]
  <2>1. i = Len(q) + 1 \/ i \in 1 .. Len(q)
    BY <1>1
  <2> QED
    BY <1>1, <2>1
<1> QED
  BY <1>2, <1>3, <1>4

\* What a queue holds besides its head.
LEMMA InTail ==
  ASSUME NEW q \in Seq(Data), q # <<>>
  PROVE  /\ \A x : In(x, q) => x = Head(q) \/ In(x, Tail(q))
         /\ \A i \in 1 .. Len(Tail(q)) :
              \E j \in 1 .. Len(q) : Tail(q)[i] = q[j]
<1>1. /\ Len(q) \in Nat /\ Len(q) >= 1 /\ Head(q) = q[1]
      /\ DOMAIN q = 1 .. Len(q)
      /\ Len(Tail(q)) = Len(q) - 1
      /\ DOMAIN Tail(q) = 1 .. Len(q) - 1
      /\ \A i \in 1 .. Len(q) - 1 : Tail(q)[i] = q[i + 1]
  BY TailFacts
<1>2. ASSUME NEW x, In(x, q), x # Head(q)
      PROVE  In(x, Tail(q))
  <2>1. PICK i \in 1 .. Len(q) : q[i] = x
    BY <1>1, <1>2 DEF In
  <2>2. i # 1
    BY <1>1, <1>2, <2>1
  <2>3. i - 1 \in 1 .. Len(q) - 1 /\ (i - 1) + 1 = i
    BY <1>1, <2>2
  <2> QED
    BY <1>1, <2>1, <2>3 DEF In
<1>3. ASSUME NEW i \in 1 .. Len(Tail(q))
      PROVE  \E j \in 1 .. Len(q) : Tail(q)[i] = q[j]
  <2>1. i + 1 \in 1 .. Len(q)
    BY <1>1
  <2> QED
    BY <1>1, <2>1
<1> QED
  BY <1>2, <1>3

\* What the three steps of forward_packet have in common: they touch the queue
\* of one connection c and what its session sent upstream.
LEMMA WayStep ==
  ASSUME TypeOK, ArrivedOK, PendingOK, ConnectionsOK, QueueOK, ForwardedOK,
         UNCHANGED <<arrived, connections, session>>,
         Handled' \in {Handled, Handled + 1},
         NEW c \in connections,
         \A k \in connections : k # c => messages'[k] = messages[k],
         \A s \in Session : s # session[c] => forwarded'[s] = forwarded[s],
         \A i \in 1 .. Len(messages'[c]) :
           HandledData(messages[c][i], c, session[c])',
         Rising(messages'[c]),
         Before(forwarded'[session[c]], messages'[c]),
         \A i \in 1 .. Len(forwarded'[session[c]]) :
           HandledData(forwarded[session[c]][i], c, session[c])',
         Rising(forwarded'[session[c]])
  PROVE  QueueOK' /\ ForwardedOK'
<1>1. /\ Handled \in Nat /\ 1 .. Handled \subseteq 1 .. Len(arrived)
      /\ \A n \in 1 .. Handled : n \in 1 .. Handled'
  BY HandledBound
<1>2. /\ session[c] \in Session /\ arrived[session[c]].guid = c
      /\ \A j \in connections : session[j] = session[c] => j = c
  BY SessionFacts
<1>3. QueueOK'
  <2> SUFFICES ASSUME NEW k \in connections
               PROVE  /\ \A i \in 1 .. Len(messages'[k]) :
                           HandledData(messages[k][i], k, session[k])'
                      /\ Rising(messages'[k])
                      /\ Before(forwarded'[session'[k]], messages'[k])
    BY DEF QueueOK, Rising, Before
  <2>1. CASE k = c
    BY <2>1
  <2>2. CASE k # c
    <3>1. /\ messages'[k] = messages[k] /\ session[k] # session[c]
          /\ session[k] \in Session
      BY <1>2, <2>2, SessionFacts
    <3>2. forwarded'[session[k]] = forwarded[session[k]]
      BY <3>1
    <3>3. ASSUME NEW i \in 1 .. Len(messages'[k])
          PROVE  HandledData(messages[k][i], k, session[k])'
      <4>1. HandledData(messages[k][i], k, session[k])
        BY <3>1, <3>3 DEF QueueOK
      <4> QED
        BY <1>1, <3>1, <4>1 DEF HandledData
    <3> QED
      BY <3>1, <3>2, <3>3 DEF QueueOK
  <2> QED
    BY <2>1, <2>2
<1>4. ForwardedOK'
  <2> SUFFICES ASSUME NEW s \in Session
               PROVE  /\ \A i \in 1 .. Len(forwarded'[s]) :
                           HandledData(forwarded[s][i], arrived[s].guid, s)'
                      /\ Rising(forwarded'[s])
    BY DEF ForwardedOK, Rising
  <2>1. CASE s = session[c]
    <3>1. ASSUME NEW i \in 1 .. Len(forwarded'[s])
          PROVE  HandledData(forwarded[s][i], arrived[s].guid, s)'
      <4>1. HandledData(forwarded[session[c]][i], c, session[c])'
        BY <2>1, <3>1
      <4> QED
        BY <1>2, <2>1, <4>1 DEF HandledData
    <3> QED
      BY <2>1, <3>1
  <2>2. CASE s # session[c]
    <3>1. forwarded'[s] = forwarded[s]
      BY <2>2
    <3>2. ASSUME NEW i \in 1 .. Len(forwarded'[s])
          PROVE  HandledData(forwarded[s][i], arrived[s].guid, s)'
      <4>1. HandledData(forwarded[s][i], arrived[s].guid, s)
        BY <3>1, <3>2 DEF ForwardedOK
      <4> QED
        BY <1>1, <3>1, <4>1 DEF HandledData
    <3> QED
      BY <3>1, <3>2 DEF ForwardedOK
  <2> QED
    BY <2>1, <2>2
<1> QED
  BY <1>3, <1>4

\* A step that handles a packet by saving or sending it, and loses nothing of
\* the queue, keeps KeptOK.
LEMMA KeptStep ==
  ASSUME TypeOK, ArrivedOK, PendingOK, ConnectionsOK, KeptOK,
         UNCHANGED <<arrived, connections, session, link>>,
         NEW c \in connections,
         \A k \in connections : k # c => messages'[k] = messages[k],
         \A s \in Session : \A x : In(x, forwarded[s]) => In(x, forwarded'[s]),
         \A x : In(x, messages[c]) => \/ In(x, messages'[c])
                                      \/ In(x, forwarded'[session[c]])
                                      \/ link[c] = "down",
         \/ Handled' = Handled
         \/ /\ Handled' = Handled + 1
            /\ arrived[Handled + 1].guid = c
            /\ \/ In(arrived[Handled + 1].data, messages'[c])
               \/ In(arrived[Handled + 1].data, forwarded'[session[c]])
               \/ link[c] = "down"
  PROVE  KeptOK'
<1>1. Handled \in Nat
  BY HandledBound
<1> SUFFICES ASSUME NEW n \in 1 .. Handled',
                    arrived[n].data.id # ID_NEW_INCOMING_CONNECTION,
                    arrived[n].guid \in connections,
                    session[arrived[n].guid] = arrived[n].data.s,
                    link[arrived[n].guid] # "down"
             PROVE  \/ In(arrived[n].data, messages'[arrived[n].guid])
                    \/ In(arrived[n].data, forwarded'[arrived[n].data.s])
  BY DEF KeptOK, In
<1>2. CASE n = Handled + 1
  <2>1. Handled' = Handled + 1
    BY <1>1, <1>2
  <2>2. Handled' # Handled
    BY <1>1, <2>1
  <2> QED
    BY <1>2, <2>2
<1>3. CASE n \in 1 .. Handled
  <2>1. \/ In(arrived[n].data, messages[arrived[n].guid])
        \/ In(arrived[n].data, forwarded[arrived[n].data.s])
    BY <1>3 DEF KeptOK
  <2>2. arrived[n].data.s \in Session
    BY SessionFacts
  <2> QED
    BY <2>1, <2>2
<1> QED
  BY <1>1, <1>2, <1>3

\* forward_packet is at work on connection c, that of the packet at hand.
LEMMA AtWork ==
  ASSUME TypeOK, ArrivedOK, PendingOK, ConnectionsOK, FlushOK, QueueOK,
         ForwardedOK, Forwarding \/ pc = "flush", NEW c, c = key
  PROVE  /\ c \in connections /\ c \in Key
         /\ session[c] \in Session /\ session[c] \in 1 .. Handled
         /\ messages[c] \in Seq(Data) /\ forwarded[session[c]] \in Seq(Data)
         /\ Handled \in Nat /\ Handled + 1 \in 1 .. Len(arrived)
         /\ packet.data \in Data
         /\ packet.data = arrived[Handled + 1].data
         /\ arrived[Handled + 1].guid = c
         /\ packet.data.n = Handled + 1
         /\ packet.data.s = session[c]
         /\ \A i \in 1 .. Len(messages[c]) :
              /\ HandledData(messages[c][i], c, session[c])
              /\ messages[c][i].n < packet.data.n
         /\ \A i \in 1 .. Len(forwarded[session[c]]) :
              /\ HandledData(forwarded[session[c]][i], c, session[c])
              /\ forwarded[session[c]][i].n < packet.data.n
<1>1. /\ c \in connections /\ batch # <<>>
      /\ packet.data.s = session[c]
  BY ForwardingFacts
<1>2. /\ Handled \in Nat /\ Handled + 1 \in 1 .. Len(arrived)
      /\ packet = arrived[Handled + 1] /\ packet \in Packet
      /\ packet.data.n = Handled + 1 /\ packet.guid = c
  BY <1>1, PacketAtHand DEF key
<1>3. packet.data \in Data
  BY <1>2, PacketFields
<1>4. /\ c \in Key /\ session[c] \in Session /\ session[c] \in 1 .. Handled
      /\ arrived[session[c]].guid = c
  BY <1>1, SessionFacts
<1>5. messages[c] \in Seq(Data) /\ forwarded[session[c]] \in Seq(Data)
  BY <1>4 DEF TypeOK
<1>6. /\ \A i \in 1 .. Len(messages[c]) :
           HandledData(messages[c][i], c, session[c])
      /\ \A i \in 1 .. Len(forwarded[session[c]]) :
           HandledData(forwarded[session[c]][i], c, session[c])
  BY <1>1, <1>4 DEF QueueOK, ForwardedOK
<1>7. /\ \A i \in 1 .. Len(messages[c]) : messages[c][i].n < Handled + 1
      /\ \A i \in 1 .. Len(forwarded[session[c]]) :
           forwarded[session[c]][i].n < Handled + 1
  BY <1>2, <1>6 DEF HandledData
<1> QED
  BY <1>1, <1>2, <1>3, <1>4, <1>5, <1>6, <1>7

\* The packet at hand goes to the end of the queue.
LEMMA StepQueue ==
  ASSUME TypeOK, ArrivedOK, PendingOK, ConnectionsOK, FlushOK, QueueOK,
         ForwardedOK, KeptOK, QueueMessage, Handled' = Handled + 1
  PROVE  QueueOK' /\ ForwardedOK' /\ KeptOK'
<1>1. PICK c : c = key
  OBVIOUS
<1>2. PICK d : d = packet.data
  OBVIOUS
<1>3. Forwarding
  BY DEF QueueMessage
<1>4. /\ c \in connections /\ c \in Key
      /\ session[c] \in Session /\ session[c] \in 1 .. Handled
      /\ messages[c] \in Seq(Data) /\ forwarded[session[c]] \in Seq(Data)
      /\ Handled \in Nat
      /\ d \in Data
      /\ d = arrived[Handled + 1].data
      /\ arrived[Handled + 1].guid = c
      /\ d.n = Handled + 1
      /\ d.s = session[c]
      /\ \A i \in 1 .. Len(messages[c]) :
           /\ HandledData(messages[c][i], c, session[c])
           /\ messages[c][i].n < d.n
      /\ \A i \in 1 .. Len(forwarded[session[c]]) :
           /\ HandledData(forwarded[session[c]][i], c, session[c])
           /\ forwarded[session[c]][i].n < d.n
  BY <1>1, <1>2, <1>3, AtWork
<1>5. /\ arrived' = arrived /\ forwarded' = forwarded /\ link' = link
      /\ connections' = connections /\ session' = session
      /\ messages' = [messages EXCEPT ![c] = Append(messages[c], d)]
  BY <1>1, <1>2 DEF QueueMessage, Save, serverVars, historyVars, linkVars
<1>6. /\ \A k \in connections : k # c => messages'[k] = messages[k]
      /\ messages'[c] = Append(messages[c], d)
  BY <1>4, <1>5 DEF TypeOK
<1>7. Rising(messages[c]) /\ Before(forwarded[session[c]], messages[c])
      /\ Rising(forwarded[session[c]])
  BY <1>4 DEF QueueOK, ForwardedOK
<1>8. /\ Rising(messages'[c])
      /\ Before(forwarded'[session[c]], messages'[c])
      /\ Rising(forwarded'[session[c]])
  BY <1>4, <1>5, <1>6, <1>7, RisingAppend, BeforeAppend
<1>9. ASSUME NEW i \in 1 .. Len(messages'[c])
      PROVE  HandledData(messages[c][i], c, session[c])'
  <2>1. messages'[c][i] = d \/ \E j \in 1 .. Len(messages[c]) :
                                 messages'[c][i] = messages[c][j]
    BY <1>4, <1>6, <1>9, InAppend
  <2> QED
    BY <1>4, <1>5, <2>1 DEF HandledData
<1>10. ASSUME NEW i \in 1 .. Len(forwarded'[session[c]])
       PROVE  HandledData(forwarded[session[c]][i], c, session[c])'
  BY <1>4, <1>5, <1>10 DEF HandledData
<1>11. QueueOK' /\ ForwardedOK'
  BY <1>4, <1>5, <1>6, <1>8, <1>9, <1>10, WayStep
<1>12. KeptOK'
  <2>1. /\ In(d, messages'[c])
        /\ \A x : In(x, messages[c]) => In(x, messages'[c])
    BY <1>4, <1>6, InAppend
  <2> QED
    BY <1>4, <1>5, <1>6, <2>1, KeptStep
<1> QED
  BY <1>11, <1>12

\* The oldest saved packet leaves the queue; it goes upstream unless the
\* connection broke after the program asked for its state.
LEMMA StepFlushMessage ==
  ASSUME TypeOK, ArrivedOK, PendingOK, ConnectionsOK, FlushOK, QueueOK,
         ForwardedOK, KeptOK, FlushMessage, Handled' = Handled
  PROVE  QueueOK' /\ ForwardedOK' /\ KeptOK'
<1>1. PICK c : c = key
  OBVIOUS
<1>2. PICK d : d = Head(messages[c])
  OBVIOUS
<1>3. pc = "flush"
  BY DEF FlushMessage
<1>4. /\ c \in connections /\ c \in Key
      /\ session[c] \in Session
      /\ messages[c] \in Seq(Data) /\ forwarded[session[c]] \in Seq(Data)
      /\ Handled \in Nat
      /\ \A i \in 1 .. Len(messages[c]) :
           HandledData(messages[c][i], c, session[c])
      /\ \A i \in 1 .. Len(forwarded[session[c]]) :
           HandledData(forwarded[session[c]][i], c, session[c])
  BY <1>1, <1>3, AtWork
<1>5. /\ UNCHANGED <<arrived, link, connections, session>>
      /\ messages[c] # <<>>
      /\ messages' = [messages EXCEPT ![c] = Tail(messages[c])]
      /\ forwarded' = IF link[c] = "connected"
                      THEN [forwarded EXCEPT ![session[c]] =
                              Append(forwarded[session[c]], d)]
                      ELSE forwarded
  BY <1>1, <1>2 DEF FlushMessage, SendMessage, serverVars, linkVars
<1>6. /\ \A k \in connections : k # c => messages'[k] = messages[k]
      /\ messages'[c] = Tail(messages[c])
      /\ \A s \in Session : s # session[c] => forwarded'[s] = forwarded[s]
      /\ forwarded'[session[c]] =
           IF link[c] = "connected" THEN Append(forwarded[session[c]], d)
           ELSE forwarded[session[c]]
      /\ link[c] \in {"connected", "down"}
  BY <1>1, <1>3, <1>4, <1>5 DEF TypeOK, FlushOK
<1>7. d \in Data /\ HandledData(d, c, session[c])
  <2>1. d \in Data /\ d = messages[c][1] /\ Len(messages[c]) >= 1
    BY <1>2, <1>4, <1>5, TailFacts
  <2>2. 1 \in 1 .. Len(messages[c])
    BY <1>4, <2>1
  <2> QED
    BY <1>4, <2>1, <2>2
<1>8. /\ Rising(messages'[c])
      /\ Before(forwarded'[session[c]], messages'[c])
      /\ Rising(forwarded'[session[c]])
  <2>1. Rising(messages[c]) /\ Before(forwarded[session[c]], messages[c])
        /\ Rising(forwarded[session[c]])
    BY <1>4 DEF QueueOK, ForwardedOK
  <2>2. /\ Before(Append(forwarded[session[c]], d), Tail(messages[c]))
        /\ Before(forwarded[session[c]], Tail(messages[c]))
        /\ Rising(Tail(messages[c]))
        /\ \A i \in 1 .. Len(forwarded[session[c]]) :
             forwarded[session[c]][i].n < d.n
    BY <1>2, <1>4, <1>5, <2>1, BeforeMove
  <2>3. Rising(Append(forwarded[session[c]], d))
    BY <1>4, <1>7, <2>1, <2>2, RisingAppend
  <2> QED
    BY <1>6, <2>1, <2>2, <2>3
<1>9. ASSUME NEW i \in 1 .. Len(messages'[c])
      PROVE  HandledData(messages[c][i], c, session[c])'
  <2>1. \E j \in 1 .. Len(messages[c]) : messages'[c][i] = messages[c][j]
    BY <1>4, <1>5, <1>6, <1>9, InTail
  <2> QED
    BY <1>4, <1>5, <2>1 DEF HandledData
<1>10. ASSUME NEW i \in 1 .. Len(forwarded'[session[c]])
       PROVE  HandledData(forwarded[session[c]][i], c, session[c])'
  <2>1. \/ forwarded'[session[c]][i] = d
        \/ \E j \in 1 .. Len(forwarded[session[c]]) :
             forwarded'[session[c]][i] = forwarded[session[c]][j]
    BY <1>4, <1>6, <1>7, <1>10, InAppend
  <2> QED
    BY <1>4, <1>5, <1>7, <2>1, SMTT(20) DEF HandledData
<1>11. QueueOK' /\ ForwardedOK'
  BY <1>4, <1>5, <1>6, <1>8, <1>9, <1>10, WayStep
<1>12. KeptOK'
  <2>1. /\ \A x : In(x, messages[c]) => x = d \/ In(x, messages'[c])
        /\ link[c] = "connected" =>
             /\ In(d, forwarded'[session[c]])
             /\ \A x : In(x, forwarded[session[c]]) =>
                         In(x, forwarded'[session[c]])
    BY <1>2, <1>4, <1>5, <1>6, <1>7, InAppend, InTail
  <2>2. \A s \in Session : \A x : In(x, forwarded[s]) => In(x, forwarded'[s])
    BY <1>6, <2>1
  <2> QED
    BY <1>4, <1>5, <1>6, <2>1, <2>2, KeptStep
<1> QED
  BY <1>11, <1>12

\* The queue is empty: the packet at hand is next.
LEMMA StepForwardPacket ==
  ASSUME TypeOK, ArrivedOK, PendingOK, ConnectionsOK, FlushOK, QueueOK,
         ForwardedOK, KeptOK, ForwardPacket, Handled' = Handled + 1
  PROVE  QueueOK' /\ ForwardedOK' /\ KeptOK'
<1>1. PICK c : c = key
  OBVIOUS
<1>2. PICK d : d = packet.data
  OBVIOUS
<1>3. pc = "flush"
  BY DEF ForwardPacket
<1>4. /\ c \in connections /\ c \in Key
      /\ session[c] \in Session /\ session[c] \in 1 .. Handled
      /\ messages[c] \in Seq(Data) /\ forwarded[session[c]] \in Seq(Data)
      /\ Handled \in Nat
      /\ d \in Data
      /\ d = arrived[Handled + 1].data
      /\ arrived[Handled + 1].guid = c
      /\ d.n = Handled + 1
      /\ d.s = session[c]
      /\ \A i \in 1 .. Len(forwarded[session[c]]) :
           /\ HandledData(forwarded[session[c]][i], c, session[c])
           /\ forwarded[session[c]][i].n < d.n
  BY <1>1, <1>2, <1>3, AtWork
<1>5. /\ UNCHANGED <<arrived, link, connections, session, messages>>
      /\ messages[c] = <<>>
      /\ forwarded' = IF link[c] = "connected"
                      THEN [forwarded EXCEPT ![session[c]] =
                              Append(forwarded[session[c]], d)]
                      ELSE forwarded
  BY <1>1, <1>2
  DEF ForwardPacket, QueueEmpty, SendMessage, serverVars, linkVars, connVars
<1>6. /\ \A s \in Session : s # session[c] => forwarded'[s] = forwarded[s]
      /\ forwarded'[session[c]] =
           IF link[c] = "connected" THEN Append(forwarded[session[c]], d)
           ELSE forwarded[session[c]]
      /\ link[c] \in {"connected", "down"}
  BY <1>1, <1>3, <1>4, <1>5 DEF TypeOK, FlushOK
<1>7. /\ Rising(messages'[c])
      /\ Before(forwarded'[session[c]], messages'[c])
      /\ Rising(forwarded'[session[c]])
  <2>1. Rising(forwarded[session[c]])
    BY <1>4 DEF ForwardedOK
  <2>2. Rising(Append(forwarded[session[c]], d))
    BY <1>4, <2>1, RisingAppend
  <2>3. messages'[c] = <<>>
    BY <1>5
  <2> QED
    BY <1>6, <2>1, <2>2, <2>3 DEF Rising, Before
<1>8. ASSUME NEW i \in 1 .. Len(messages'[c])
      PROVE  HandledData(messages[c][i], c, session[c])'
  BY <1>5, <1>8
<1>9. ASSUME NEW i \in 1 .. Len(forwarded'[session[c]])
      PROVE  HandledData(forwarded[session[c]][i], c, session[c])'
  <2>1. \/ forwarded'[session[c]][i] = d
        \/ \E j \in 1 .. Len(forwarded[session[c]]) :
             forwarded'[session[c]][i] = forwarded[session[c]][j]
    BY <1>4, <1>6, <1>9, InAppend
  <2>2. d.n \in (1 .. Handled') \ {session[c]}
    BY <1>4
  <2>3. CASE forwarded'[session[c]][i] = d
    BY <1>4, <1>5, <2>2, <2>3 DEF HandledData
  <2>4. CASE forwarded'[session[c]][i] # d
    BY <1>4, <1>5, <2>1, <2>4, SMTT(20) DEF HandledData
  <2> QED
    BY <2>3, <2>4
<1>10. QueueOK' /\ ForwardedOK'
  BY <1>4, <1>5, <1>6, <1>7, <1>8, <1>9, WayStep
<1>11. KeptOK'
  <2>1. link[c] = "connected" =>
          /\ In(d, forwarded'[session[c]])
          /\ \A x : In(x, forwarded[session[c]]) =>
                      In(x, forwarded'[session[c]])
    BY <1>4, <1>6, InAppend
  <2>2. \A s \in Session : \A x : In(x, forwarded[s]) => In(x, forwarded'[s])
    BY <1>6, <2>1
  <2>3. \A x : ~In(x, messages[c])
    BY <1>5 DEF In
  <2> QED
    BY <1>4, <1>5, <1>6, <2>1, <2>2, <2>3, KeptStep
<1> QED
  BY <1>10, <1>11

\* Every step keeps the way of the packets upstream.
LEMMA StepWay ==
  ASSUME TypeOK, TypeOK', ArrivedOK, PendingOK, ConnectionsOK, FlushOK,
         QueueOK, ForwardedOK, KeptOK, [Next]_vars
  PROVE  QueueOK' /\ ForwardedOK' /\ KeptOK'
<1>1. /\ DoneStep => Handled' = Handled + 1
      /\ ~DoneStep => Handled' = Handled
  BY StepPending
<1>2. CASE HandleNew
  BY <1>1, <1>2, StepNew DEF DoneStep
<1>3. CASE QueueMessage
  BY <1>1, <1>3, StepQueue DEF DoneStep
<1>4. CASE ForwardPacket
  BY <1>1, <1>4, StepForwardPacket DEF DoneStep
<1>5. CASE FlushMessage /\ ~DoneStep
  BY <1>1, <1>5, StepFlushMessage
<1>6. CASE ~FlushMessage /\ ~DoneStep
  BY <1>1, <1>6, StepElsewhere
<1> QED
  BY <1>2, <1>3, <1>4, <1>5, <1>6 DEF DoneStep

\* Every step keeps the invariant.
LEMMA StepInv == IInv /\ [Next]_vars => IInv'
<1> SUFFICES ASSUME IInv, [Next]_vars PROVE IInv'
  OBVIOUS
<1> USE DEF IInv
<1>1. TypeOK'
  BY StepTypes
<1>2. ArrivedOK' /\ OccupantOK'
  BY StepArrived
<1>3. PendingOK'
  BY <1>1, StepPending
<1>4. ConnectionsOK'
  BY <1>1, StepConnections
<1>5. FlushOK'
  BY StepFlush
<1>6. QueueOK' /\ ForwardedOK' /\ KeptOK'
  BY <1>1, StepWay
<1>7. PanicOK'
  BY StepPanic
<1> QED
  BY <1>1, <1>2, <1>3, <1>4, <1>5, <1>6, <1>7

\* The inductive invariant holds in every reachable state of the proxy, for
\* every set of clients and slots and all bounds.
THEOREM Invariant == Spec => []IInv
<1>1. Init => IInv
  BY InitInv
<1>2. IInv /\ [Next]_vars => IInv'
  BY StepInv
<1> QED
  BY <1>1, <1>2, PTL DEF Spec

-----------------------------------------------------------------------------
(***************************************************************************)
(* The properties.                                                         *)
(***************************************************************************)
LEMMA PendingFacts ==
  ASSUME TypeOK, ArrivedOK, PendingOK
  PROVE  /\ DOMAIN arrived = 1 .. Len(arrived)
         /\ DOMAIN batch = 1 .. Len(batch)
         /\ DOMAIN inbox = 1 .. Len(inbox)
         /\ Handled \in Nat /\ Len(batch) \in Nat /\ Len(inbox) \in Nat
         /\ Len(arrived) = Handled + Len(batch) + Len(inbox)
         /\ \A i \in 1 .. Len(batch) :
              /\ batch[i] = arrived[Handled + i]
              /\ batch[i].data.n = Handled + i
         /\ \A i \in 1 .. Len(inbox) :
              /\ inbox[i] = arrived[Handled + Len(batch) + i]
              /\ inbox[i].data.n = Handled + Len(batch) + i
<1>1. /\ arrived \in Seq(Packet) /\ inbox \in Seq(Packet)
      /\ batch \in Seq(Packet)
  BY DEF TypeOK
<1>2. /\ Len(arrived) \in Nat /\ Len(inbox) \in Nat /\ Len(batch) \in Nat
      /\ DOMAIN arrived = 1 .. Len(arrived)
      /\ DOMAIN batch = 1 .. Len(batch)
      /\ DOMAIN inbox = 1 .. Len(inbox)
  BY <1>1
<1>3. /\ Handled \in Nat
      /\ Len(arrived) = Handled + Len(batch) + Len(inbox)
  BY <1>2 DEF PendingOK, Handled
<1>4. ASSUME NEW i \in 1 .. Len(batch)
      PROVE  batch[i] = arrived[Handled + i] /\ batch[i].data.n = Handled + i
  <2>1. Handled + i \in 1 .. Len(arrived)
    BY <1>2, <1>3
  <2> QED
    BY <2>1 DEF PendingOK, ArrivedOK
<1>5. ASSUME NEW i \in 1 .. Len(inbox)
      PROVE  /\ inbox[i] = arrived[Handled + Len(batch) + i]
             /\ inbox[i].data.n = Handled + Len(batch) + i
  <2>1. Handled + Len(batch) + i \in 1 .. Len(arrived)
    BY <1>2, <1>3
  <2> QED
    BY <2>1 DEF PendingOK, ArrivedOK
<1> QED
  BY <1>2, <1>3, <1>4, <1>5

\* The invariant implies ForwardOrder.
LEMMA OrderFollows == IInv => ForwardOrder
<1> SUFFICES ASSUME IInv PROVE ForwardOrder
  OBVIOUS
<1>1. TypeOK /\ ArrivedOK /\ PendingOK /\ ConnectionsOK /\ QueueOK
      /\ ForwardedOK
  BY DEF IInv
<1>2. /\ DOMAIN Payload(batch) = 1 .. Len(batch)
      /\ DOMAIN Payload(inbox) = 1 .. Len(inbox)
      /\ \A i \in 1 .. Len(batch) : Payload(batch)[i].n = Handled + i
      /\ \A i \in 1 .. Len(inbox) :
           Payload(inbox)[i].n = Handled + Len(batch) + i
      /\ Handled \in Nat /\ Len(batch) \in Nat /\ Len(inbox) \in Nat
  BY <1>1, PendingFacts DEF Payload
<1>3. /\ Rising(Payload(batch)) /\ Rising(Payload(inbox))
      /\ Before(Payload(batch), Payload(inbox))
  BY <1>2 DEF Rising, Before
<1>4. ASSUME NEW k \in connections
      PROVE  /\ Rising(messages[k])
             /\ Before(forwarded[session[k]], messages[k])
             /\ Before(messages[k], Payload(batch))
             /\ Before(messages[k], Payload(inbox))
  <2>1. DOMAIN messages[k] = 1 .. Len(messages[k])
    <3>1. messages[k] \in Seq(Data)
      BY <1>1 DEF TypeOK
    <3> QED
      BY <3>1
  <2>2. \A i \in 1 .. Len(messages[k]) : messages[k][i].n \in 1 .. Handled
    BY <1>1 DEF QueueOK, HandledData
  <2> QED
    BY <1>1, <1>2, <2>1, <2>2 DEF QueueOK, Before
<1> QED
  BY <1>1, <1>3, <1>4 DEF ForwardOrder, ForwardedOK

\* The invariant implies NothingLost.
LEMMA NothingLostFollows == IInv => NothingLost
<1> SUFFICES ASSUME IInv, NEW n \in DOMAIN arrived
             PROVE  LET p == arrived[n]
                    IN  \/ In(p, inbox) \/ In(p, batch)
                        \/ p.data.id = ID_NEW_INCOMING_CONNECTION
                        \/ p.guid \notin connections
                        \/ session[p.guid] # p.data.s
                        \/ link[p.guid] = "down"
                        \/ In(p.data, messages[p.guid])
                        \/ In(p.data, forwarded[p.data.s])
  BY DEF NothingLost
<1>1. TypeOK /\ ArrivedOK /\ PendingOK /\ KeptOK
  BY DEF IInv
<1>2. /\ n \in 1 .. Len(arrived)
      /\ DOMAIN batch = 1 .. Len(batch) /\ DOMAIN inbox = 1 .. Len(inbox)
      /\ Handled \in Nat /\ Len(batch) \in Nat /\ Len(inbox) \in Nat
      /\ Len(arrived) = Handled + Len(batch) + Len(inbox)
      /\ \A i \in 1 .. Len(batch) : batch[i] = arrived[Handled + i]
      /\ \A i \in 1 .. Len(inbox) :
           inbox[i] = arrived[Handled + Len(batch) + i]
  BY <1>1, PendingFacts
<1>3. CASE n <= Handled
  BY <1>1, <1>2, <1>3 DEF KeptOK
<1>4. CASE n > Handled /\ n <= Handled + Len(batch)
  <2>1. n - Handled \in 1 .. Len(batch) /\ Handled + (n - Handled) = n
    BY <1>2, <1>4
  <2>2. In(arrived[n], batch)
    BY <1>2, <2>1 DEF In
  <2> QED
    BY <2>2
<1>5. CASE n > Handled + Len(batch)
  <2> DEFINE i == n - (Handled + Len(batch))
  <2>1. i \in 1 .. Len(inbox) /\ Handled + Len(batch) + i = n
    BY <1>2, <1>5
  <2>2. In(arrived[n], inbox)
    BY <1>2, <2>1 DEF In
  <2> QED
    BY <2>2
<1> QED
  BY <1>2, <1>3, <1>4, <1>5

\* The invariant implies SessionIsolation.
LEMMA IsolationFollows == IInv => SessionIsolation
<1> SUFFICES ASSUME IInv PROVE SessionIsolation
  OBVIOUS
<1>1. TypeOK /\ QueueOK /\ ForwardedOK
  BY DEF IInv
<1>2. ASSUME NEW k \in connections, NEW i \in DOMAIN messages[k]
      PROVE  /\ messages[k][i].s = session[k]
             /\ arrived[messages[k][i].n].guid = k
  <2>1. messages[k] \in Seq(Data)
    BY <1>1 DEF TypeOK
  <2>2. i \in 1 .. Len(messages[k])
    BY <2>1
  <2> QED
    BY <1>1, <2>2 DEF QueueOK, HandledData
<1>3. ASSUME NEW s \in Session, NEW i \in DOMAIN forwarded[s]
      PROVE  /\ forwarded[s][i].s = s
             /\ arrived[forwarded[s][i].n].guid = arrived[s].guid
  <2>1. forwarded[s] \in Seq(Data)
    BY <1>1 DEF TypeOK
  <2>2. i \in 1 .. Len(forwarded[s])
    BY <2>1
  <2> QED
    BY <1>1, <2>2 DEF ForwardedOK, HandledData
<1> QED
  BY <1>2, <1>3 DEF SessionIsolation

\* Every variable of the proxy keeps to its type; in particular the packet
\* forward_packet works on and its entry in the map are there until it is done.
THEOREM TypeCorrect == Spec => []TypeOK
<1>1. IInv => TypeOK
  BY DEF IInv
<1> QED
  BY <1>1, Invariant, PTL

\* What a client sends goes upstream in the order in which it arrived, once,
\* through the queue or past it.
THEOREM ForwardedInOrder == Spec => []ForwardOrder
BY OrderFollows, Invariant, PTL

\* No packet of a client is lost in the proxy while its upstream stands or is
\* still being connected.
THEOREM NoPacketLost == Spec => []NothingLost
BY NothingLostFollows, Invariant, PTL

\* An upstream connection carries one session of one client, whatever clients
\* reconnect under the same GUID and index.
THEOREM SessionsIsolated == Spec => []SessionIsolation
BY IsolationFollows, Invariant, PTL

\* A packet of a client that is or was connected never stops the proxy by the
\* expect of forward_packet or the assert of handle_packet.
THEOREM NoPanicForConnected == Spec => []ConnectedNeverPanics
<1>1. IInv => ConnectedNeverPanics
  BY DEF IInv, PanicOK
<1> QED
  BY <1>1, Invariant, PTL

-----------------------------------------------------------------------------
(***************************************************************************)
(* The way back: the replies of each upstream in order and complete, and   *)
(* to the address of the client they are for.                              *)
(***************************************************************************)

Sent == [n : Nat, to : Occupant]

(***************************************************************************)
(* rem arrived from an upstream.  The first t of it are dropped or sent,   *)
(* as del says; srv is in the hands of serve, rec still in the queue.      *)
(***************************************************************************)
RowAt(t, rem, srv, rec, del) ==
  /\ Len(rem) = t + Len(srv) + Len(rec)
  /\ \A i \in 1 .. Len(rem) : rem[i].n = i
  /\ \A i \in 1 .. Len(srv) : srv[i] = rem[t + i]
  /\ \A i \in 1 .. Len(rec) : rec[i] = rem[t + Len(srv) + i]
  /\ Rising(del)
  /\ \A j \in 1 .. Len(del) : del[j].n \in 1 .. t
  /\ \A i \in 1 .. t : Relayed(rem[i]) => \E j \in 1 .. Len(del) : del[j].n = i

Row(rem, srv, rec, del) == \E t \in Nat : RowAt(t, rem, srv, rec, del)

\* Where each upstream's packets are.
RepliesOK ==
  \A k \in Key : Row(remote[k], Serving(k), received[k], delivered[k])

\* Packets carry their client's address, and a ProxyConnection keeps it; what
\* was sent to it reached somebody with that address.
AddressesOK ==
  /\ \A n \in 1 .. Len(arrived) :
       arrived[n].guid \in Key =>
         arrived[n].system_address = AddrOf[arrived[n].guid.g]
  /\ \A k \in Key : system_address[k] = AddrOf[k.g]
  /\ \A k \in Key : \A i \in 1 .. Len(delivered[k]) :
       delivered[k][i].to # Vacant => /\ delivered[k][i].to.g \in Client
                                      /\ AddrOf[delivered[k][i].to.g] = AddrOf[k.g]

RInv == IInv /\ RepliesOK /\ AddressesOK

-----------------------------------------------------------------------------
\* What the steps make of a row.

\* A new upstream has nothing anywhere.
LEMMA RowEmpty == Row(<<>>, <<>>, <<>>, <<>>)
<1>1. RowAt(0, <<>>, <<>>, <<>>, <<>>)
  BY DEF RowAt, Rising
<1> QED
  BY <1>1 DEF Row

\* A packet arrives.
LEMMA RowGrows ==
  ASSUME NEW rem \in Seq(Reply), NEW srv \in Seq(Reply), NEW rec \in Seq(Reply),
         NEW del \in Seq(Sent), Row(rem, srv, rec, del),
         NEW p \in Reply, p.n = Len(rem) + 1
  PROVE  Row(Append(rem, p), srv, Append(rec, p), del)
<1> DEFINE rem1 == Append(rem, p)
           rec1 == Append(rec, p)
<1>1. PICK t \in Nat : RowAt(t, rem, srv, rec, del)
  BY DEF Row
<1>2. /\ Len(rem1) = Len(rem) + 1 /\ Len(rec1) = Len(rec) + 1
      /\ Len(rem) \in Nat /\ Len(rec) \in Nat /\ Len(srv) \in Nat
      /\ \A i \in 1 .. Len(rem) : rem1[i] = rem[i]
      /\ rem1[Len(rem) + 1] = p
      /\ \A i \in 1 .. Len(rec) : rec1[i] = rec[i]
      /\ rec1[Len(rec) + 1] = p
  BY AppendFacts
<1>3. Len(rem) = t + Len(srv) + Len(rec)
  BY <1>1 DEF RowAt
<1> HIDE DEF rem1, rec1
<1>4. ASSUME NEW i \in 1 .. Len(rem1) PROVE rem1[i].n = i
  <2>1. CASE i = Len(rem) + 1
    BY <1>2, <2>1
  <2>2. CASE i # Len(rem) + 1
    <3>1. i \in 1 .. Len(rem)
      BY <1>2, <2>2
    <3> QED
      BY <1>1, <1>2, <3>1 DEF RowAt
  <2> QED
    BY <2>1, <2>2
<1>5. ASSUME NEW i \in 1 .. Len(srv) PROVE srv[i] = rem1[t + i]
  <2>1. t + i \in 1 .. Len(rem)
    BY <1>2, <1>3
  <2>2. srv[i] = rem[t + i]
    BY <1>1 DEF RowAt
  <2> QED
    BY <1>2, <2>1, <2>2
<1>6. ASSUME NEW i \in 1 .. Len(rec1) PROVE rec1[i] = rem1[t + Len(srv) + i]
  <2>1. CASE i = Len(rec) + 1
    BY <1>2, <1>3, <2>1
  <2>2. CASE i # Len(rec) + 1
    <3>1. i \in 1 .. Len(rec) /\ t + Len(srv) + i \in 1 .. Len(rem)
      BY <1>2, <1>3, <2>2
    <3>2. rec[i] = rem[t + Len(srv) + i]
      BY <1>1, <3>1 DEF RowAt
    <3> QED
      BY <1>2, <3>1, <3>2
  <2> QED
    BY <2>1, <2>2
<1>7. ASSUME NEW i \in 1 .. t, Relayed(rem1[i])
      PROVE  \E j \in 1 .. Len(del) : del[j].n = i
  <2>1. i \in 1 .. Len(rem)
    BY <1>2, <1>3
  <2>2. Relayed(rem[i])
    BY <1>2, <1>7, <2>1
  <2> QED
    BY <1>1, <2>2 DEF RowAt
<1>8. Len(rem1) = t + Len(srv) + Len(rec1)
  BY <1>2, <1>3
<1>9. RowAt(t, rem1, srv, rec1, del)
  BY <1>1, <1>4, <1>5, <1>6, <1>7, <1>8 DEF RowAt
<1> QED
  BY <1>9 DEF Row, rem1, rec1

\* serve takes the queue into its hands.
LEMMA RowTaken ==
  ASSUME NEW rem \in Seq(Reply), NEW rec \in Seq(Reply), NEW del \in Seq(Sent),
         Row(rem, <<>>, rec, del)
  PROVE  Row(rem, rec, <<>>, del)
<1>1. PICK t \in Nat : RowAt(t, rem, <<>>, rec, del)
  BY DEF Row
<1>2. Len(rem) \in Nat /\ Len(rec) \in Nat /\ Len(<<>>) = 0
  OBVIOUS
<1>3. Len(rem) = t + Len(rec) + Len(<<>>)
  BY <1>1, <1>2 DEF RowAt
<1>4. ASSUME NEW i \in 1 .. Len(rec) PROVE rec[i] = rem[t + i]
  <2>1. rec[i] = rem[t + Len(<<>>) + i]
    BY <1>1 DEF RowAt
  <2>2. t + Len(<<>>) + i = t + i
    BY <1>2
  <2> QED
    BY <2>1, <2>2
<1>5. 1 .. Len(<<>>) = {}
  BY <1>2
<1>6. RowAt(t, rem, rec, <<>>, del)
  BY <1>1, <1>3, <1>4, <1>5 DEF RowAt
<1> QED
  BY <1>6 DEF Row

\* The head of srv is the next packet of the row, and the rest moves up.
HeadLeaves(t, rem, srv, rec) ==
  /\ t + 1 \in 1 .. Len(rem)
  /\ Head(srv) = rem[t + 1] /\ Head(srv).n = t + 1
  /\ Len(rem) = t + 1 + Len(Tail(srv)) + Len(rec)
  /\ \A i \in 1 .. Len(Tail(srv)) : Tail(srv)[i] = rem[t + 1 + i]
  /\ \A i \in 1 .. Len(rec) : rec[i] = rem[t + 1 + Len(Tail(srv)) + i]

\* The head leaves serve's hands.
LEMMA RowMoves ==
  ASSUME NEW rem \in Seq(Reply), NEW srv \in Seq(Reply), NEW rec \in Seq(Reply),
         NEW del \in Seq(Sent), NEW t \in Nat, RowAt(t, rem, srv, rec, del),
         srv # <<>>
  PROVE  HeadLeaves(t, rem, srv, rec)
<1> DEFINE tail == Tail(srv)
<1>1. /\ Len(rem) \in Nat /\ Len(rec) \in Nat /\ Len(srv) \in Nat
      /\ Head(srv) = srv[1] /\ Len(srv) >= 1 /\ Len(tail) = Len(srv) - 1
      /\ \A i \in 1 .. Len(srv) - 1 : tail[i] = srv[i + 1]
  BY TailFacts
<1> HIDE DEF tail
<1>2. Len(rem) = t + Len(srv) + Len(rec)
  BY DEF RowAt
<1>3. t + 1 \in 1 .. Len(rem) /\ 1 \in 1 .. Len(srv)
  BY <1>1, <1>2
<1>4. Head(srv) = rem[t + 1] /\ rem[t + 1].n = t + 1
  BY <1>1, <1>3 DEF RowAt
<1>5. Len(rem) = t + 1 + Len(tail) + Len(rec)
  BY <1>1, <1>2
<1>6. ASSUME NEW i \in 1 .. Len(tail) PROVE tail[i] = rem[t + 1 + i]
  <2>1. tail[i] = srv[i + 1] /\ i + 1 \in 1 .. Len(srv)
    BY <1>1
  <2>2. srv[i + 1] = rem[t + (i + 1)]
    BY <2>1 DEF RowAt
  <2>3. t + (i + 1) = t + 1 + i
    BY <1>1
  <2> QED
    BY <2>1, <2>2, <2>3
<1>7. ASSUME NEW i \in 1 .. Len(rec) PROVE rec[i] = rem[t + 1 + Len(tail) + i]
  <2>1. rec[i] = rem[t + Len(srv) + i]
    BY DEF RowAt
  <2>2. t + Len(srv) + i = t + 1 + Len(tail) + i
    BY <1>1
  <2> QED
    BY <2>1, <2>2
<1> QED
  BY <1>3, <1>4, <1>5, <1>6, <1>7 DEF tail, HeadLeaves

\* A notification of RakNet's is dropped.
LEMMA RowDropped ==
  ASSUME NEW rem \in Seq(Reply), NEW srv \in Seq(Reply), NEW rec \in Seq(Reply),
         NEW del \in Seq(Sent), Row(rem, srv, rec, del), srv # <<>>,
         ~ Relayed(Head(srv))
  PROVE  Row(rem, Tail(srv), rec, del)
<1>1. PICK t \in Nat : RowAt(t, rem, srv, rec, del)
  BY DEF Row
<1>2. /\ Head(srv) = rem[t + 1]
      /\ Len(rem) = t + 1 + Len(Tail(srv)) + Len(rec)
      /\ \A i \in 1 .. Len(Tail(srv)) : Tail(srv)[i] = rem[t + 1 + i]
      /\ \A i \in 1 .. Len(rec) : rec[i] = rem[t + 1 + Len(Tail(srv)) + i]
  <2>1. HeadLeaves(t, rem, srv, rec)
    BY <1>1, RowMoves
  <2> QED
    BY <2>1 DEF HeadLeaves
<1>3. ASSUME NEW i \in 1 .. t + 1, Relayed(rem[i])
      PROVE  \E j \in 1 .. Len(del) : del[j].n = i
  <2>1. i # t + 1
    BY <1>2, <1>3
  <2>2. i \in 1 .. t
    BY <2>1
  <2> QED
    BY <1>1, <1>3, <2>2 DEF RowAt
<1>4. ASSUME NEW j \in 1 .. Len(del) PROVE del[j].n \in 1 .. t + 1
  <2>1. del[j].n \in 1 .. t
    BY <1>1 DEF RowAt
  <2> QED
    BY <2>1
<1>5. RowAt(t + 1, rem, Tail(srv), rec, del)
  BY <1>1, <1>2, <1>3, <1>4 DEF RowAt
<1> QED
  BY <1>5 DEF Row

\* A reply is sent on.
LEMMA RowSent ==
  ASSUME NEW rem \in Seq(Reply), NEW srv \in Seq(Reply), NEW rec \in Seq(Reply),
         NEW del \in Seq(Sent), Row(rem, srv, rec, del), srv # <<>>,
         NEW d \in Sent, d.n = Head(srv).n
  PROVE  Row(rem, Tail(srv), rec, Append(del, d))
<1> DEFINE del1 == Append(del, d)
<1>1. PICK t \in Nat : RowAt(t, rem, srv, rec, del)
  BY DEF Row
<1>2. /\ Head(srv).n = t + 1
      /\ Len(rem) = t + 1 + Len(Tail(srv)) + Len(rec)
      /\ \A i \in 1 .. Len(Tail(srv)) : Tail(srv)[i] = rem[t + 1 + i]
      /\ \A i \in 1 .. Len(rec) : rec[i] = rem[t + 1 + Len(Tail(srv)) + i]
  <2>1. HeadLeaves(t, rem, srv, rec)
    BY <1>1, RowMoves
  <2> QED
    BY <2>1 DEF HeadLeaves
<1>3. /\ Len(del) \in Nat /\ Len(del1) = Len(del) + 1
      /\ \A i \in 1 .. Len(del) : del1[i] = del[i]
      /\ del1[Len(del) + 1] = d
      /\ DOMAIN del1 = 1 .. Len(del1) /\ DOMAIN del = 1 .. Len(del)
  BY AppendFacts
<1> HIDE DEF del1
<1>4. ASSUME NEW j \in 1 .. Len(del) PROVE del1[j].n \in 1 .. t
  BY <1>1, <1>3 DEF RowAt
<1>5. ASSUME NEW j \in 1 .. Len(del1) PROVE del1[j].n \in 1 .. t + 1
  <2>1. CASE j = Len(del) + 1
    BY <1>2, <1>3, <2>1
  <2>2. CASE j # Len(del) + 1
    <3>1. j \in 1 .. Len(del)
      BY <1>3, <2>2
    <3>2. del1[j].n \in 1 .. t
      BY <1>4, <3>1
    <3> QED
      BY <3>2
  <2> QED
    BY <2>1, <2>2
<1>6. Rising(del1)
  <2> SUFFICES ASSUME NEW i \in 1 .. Len(del1), NEW j \in 1 .. Len(del1), i < j
               PROVE  del1[i].n < del1[j].n
    BY <1>3 DEF Rising
  <2>1. i \in 1 .. Len(del)
    BY <1>3
  <2>2. CASE j = Len(del) + 1
    <3>1. del1[i].n \in 1 .. t /\ del1[j].n = t + 1
      BY <1>2, <1>3, <1>4, <2>1, <2>2, SMTT(20)
    <3> QED
      BY <3>1
  <2>3. CASE j # Len(del) + 1
    <3>1. Len(del) \in Nat /\ Len(del1) = Len(del) + 1
      BY <1>3
    <3>2. j \in 1 .. Len(del)
      BY <2>3, <3>1
    <3>3. i \in DOMAIN del /\ j \in DOMAIN del
      BY <1>3, <2>1, <3>2
    <3>4. del[i].n < del[j].n
      BY <1>1, <3>3 DEF RowAt, Rising
    <3> QED
      BY <1>3, <2>1, <3>2, <3>4
  <2> QED
    BY <2>2, <2>3
<1>7. ASSUME NEW i \in 1 .. t + 1, Relayed(rem[i])
      PROVE  \E j \in 1 .. Len(del1) : del1[j].n = i
  <2>1. CASE i = t + 1
    <3>1. Len(del1) \in 1 .. Len(del1) /\ del1[Len(del1)].n = i
      BY <1>2, <1>3, <2>1
    <3> QED
      BY <3>1
  <2>2. CASE i # t + 1
    <3>1. i \in 1 .. t
      BY <2>2
    <3>2. PICK j \in 1 .. Len(del) : del[j].n = i
      BY <1>1, <1>7, <3>1 DEF RowAt
    <3>3. j \in 1 .. Len(del1) /\ del1[j].n = i
      BY <1>3, <3>2
    <3> QED
      BY <3>3
  <2> QED
    BY <2>1, <2>2
<1>8. RowAt(t + 1, rem, Tail(srv), rec, del1)
  BY <1>1, <1>2, <1>5, <1>6, <1>7 DEF RowAt
<1> QED
  BY <1>8 DEF Row, del1
-----------------------------------------------------------------------------
\* The steps, on the replies.

\* The four sequences of an upstream are sequences of replies.
LEMMA RowTypes ==
  ASSUME TypeOK, NEW k \in Key
  PROVE  /\ remote[k] \in Seq(Reply) /\ received[k] \in Seq(Reply)
         /\ Serving(k) \in Seq(Reply) /\ delivered[k] \in Seq(Sent)
<1>1. /\ remote[k] \in Seq(Reply) /\ received[k] \in Seq(Reply)
      /\ replies \in Seq(Reply) /\ delivered[k] \in Seq(Sent)
  BY DEF TypeOK, Sent
<1>2. <<>> \in Seq(Reply)
  OBVIOUS
<1> QED
  BY <1>1, <1>2 DEF Serving

\* A step that touches none of an upstream's sequences keeps its row.
LEMMA SameRow ==
  ASSUME RepliesOK, NEW k \in Key, UNCHANGED Serving(k), remote'[k] = remote[k],
         received'[k] = received[k], delivered'[k] = delivered[k]
  PROVE  Row(remote[k], Serving(k), received[k], delivered[k])'
  BY DEF RepliesOK

\* serve has nothing in its hands while it handles the clients' packets.
LEMMA NotServing ==
  ASSUME pc # "reply"
  PROVE  \A k \in Key : Serving(k) = <<>>
  BY DEF Serving

\* HandleNew: the row of the new peer is empty, the others stay.
LEMMA NewReplies ==
  ASSUME TypeOK, ArrivedOK, PendingOK, RepliesOK, HandleNew
  PROVE  RepliesOK'
<1>1. pc # "reply" /\ pc' # "reply"
  BY DEF HandleNew, Handling, Done
<1>2. key \in Key
  BY HandleNewEffect
<1>3. \A k \in Key : Serving(k) = <<>> /\ Serving(k)' = <<>>
  BY <1>1 DEF Serving
<1>4. ASSUME NEW k \in Key
      PROVE  /\ remote'[k] = IF k = key THEN <<>> ELSE remote[k]
             /\ received'[k] = IF k = key THEN <<>> ELSE received[k]
             /\ delivered'[k] = IF k = key THEN <<>> ELSE delivered[k]
  BY <1>4 DEF HandleNew, TypeOK
<1>5. ASSUME NEW k \in Key
      PROVE  Row(remote[k], Serving(k), received[k], delivered[k])'
  <2>1. CASE k = key
    BY <1>3, <1>4, <2>1, RowEmpty
  <2>2. CASE k # key
    BY <1>3, <1>4, <2>2, SameRow
  <2> QED
    BY <2>1, <2>2
<1> QED
  BY <1>5 DEF RepliesOK

\* A step of an upstream's connection: a packet arrives and is queued.
LEMMA UpstreamReplies ==
  ASSUME TypeOK, RepliesOK, NEW u \in Key, NEW from, NEW to, NEW id \in MessageId,
         Upstream(u, from, to, id)
  PROVE  RepliesOK'
<1> DEFINE p == [id |-> id, n |-> Len(remote[u]) + 1]
<1>1. p \in Reply /\ p.n = Len(remote[u]) + 1
  BY RowTypes DEF Reply
<1> HIDE DEF p
<1>2. \A k \in Key : UNCHANGED Serving(k)
  BY DEF Upstream, Serving, loopVars
<1>3. UNCHANGED delivered
  BY DEF Upstream, historyVars
<1>4. ASSUME NEW k \in Key
      PROVE  /\ remote'[k] = IF k = u THEN Append(remote[k], p) ELSE remote[k]
             /\ received'[k] = IF k = u THEN Append(received[k], p) ELSE received[k]
  BY <1>4 DEF Upstream, TypeOK, p
<1>5. ASSUME NEW k \in Key
      PROVE  Row(remote[k], Serving(k), received[k], delivered[k])'
  <2>1. CASE k = u
    <3>1. Row(Append(remote[k], p), Serving(k), Append(received[k], p), delivered[k])
      BY <1>1, <2>1, RowTypes, RowGrows DEF RepliesOK
    <3> QED
      BY <1>2, <1>3, <1>4, <2>1, <3>1
  <2>2. CASE k # u
    BY <1>2, <1>3, <1>4, <2>2, SameRow
  <2> QED
    BY <2>1, <2>2
<1> QED
  BY <1>5 DEF RepliesOK

\* ServeConnection: the queue of one upstream passes into serve's hands.
LEMMA ServeReplies ==
  ASSUME TypeOK, RepliesOK, NEW u \in todo, ServeConnection(u)
  PROVE  RepliesOK'
<1>1. u \in Key /\ UNCHANGED <<remote, delivered>>
  BY DEF TypeOK, ServeConnection, historyVars
<1>2. pc = "serve" /\ pc' = "reply" /\ at' = u /\ replies' = received[u]
  BY DEF ServeConnection, Goto
<1>3. ASSUME NEW k \in Key
      PROVE  /\ Serving(k) = <<>>
             /\ Serving(k)' = IF k = u THEN received[k] ELSE <<>>
             /\ received'[k] = IF k = u THEN <<>> ELSE received[k]
  <2>1. received'[k] = IF k = u THEN <<>> ELSE received[k]
    BY <1>1 DEF ServeConnection, TypeOK
  <2> QED
    BY <1>2, <2>1 DEF Serving
<1>4. ASSUME NEW k \in Key
      PROVE  Row(remote[k], Serving(k), received[k], delivered[k])'
  <2>1. CASE k = u
    <3>1. Row(remote[k], <<>>, received[k], delivered[k])
      BY <1>3 DEF RepliesOK
    <3>2. Row(remote[k], received[k], <<>>, delivered[k])
      BY <3>1, RowTypes, RowTaken
    <3> QED
      BY <1>1, <1>3, <2>1, <3>2
  <2>2. CASE k # u
    BY <1>1, <1>3, <2>2, SameRow
  <2> QED
    BY <2>1, <2>2
<1> QED
  BY <1>4 DEF RepliesOK

\* The connection being served is one of the map's; the head of its replies
\* leaves serve's hands.
LEMMA ReplyAtHand ==
  ASSUME TypeOK, pc = "reply", replies # <<>>, pc' = pc, at' = at,
         replies' = Tail(replies)
  PROVE  /\ at \in Key /\ Serving(at) = replies
         /\ \A k \in Key : Serving(k)' = IF k = at THEN Tail(replies) ELSE Serving(k)
  BY DEF TypeOK, Serving

\* DropReply: the head is a notification of RakNet's.
LEMMA DropReplies ==
  ASSUME TypeOK, RepliesOK, DropReply
  PROVE  RepliesOK'
<1>1. /\ pc = "reply" /\ replies # <<>> /\ pc' = pc /\ at' = at
      /\ replies' = Tail(replies) /\ ~ Relayed(Head(replies))
      /\ UNCHANGED <<remote, received, delivered>>
  BY DEF DropReply, linkVars, historyVars
<1>2. ASSUME NEW k \in Key
      PROVE  Row(remote[k], Serving(k), received[k], delivered[k])'
  <2>1. CASE k = at
    <3>1. Serving(k) = replies /\ Serving(k)' = Tail(replies)
      BY <1>1, <2>1, ReplyAtHand
    <3>2. Row(remote[k], Tail(replies), received[k], delivered[k])
      BY <1>1, <3>1, RowTypes, RowDropped DEF RepliesOK
    <3> QED
      BY <1>1, <3>1, <3>2
  <2>2. CASE k # at
    <3>1. UNCHANGED Serving(k)
      BY <1>1, <2>2, ReplyAtHand
    <3> QED
      BY <1>1, <3>1, SameRow
  <2> QED
    BY <2>1, <2>2
<1> QED
  BY <1>2 DEF RepliesOK

\* Who gets the reply is one of the clients, with the address it was sent to.
LEMMA Recipient ==
  ASSUME TypeOK, SendReply
  PROVE  \E to \in Occupant :
           /\ \A k \in Key : delivered'[k] =
                IF k = at THEN Append(delivered[k], [n |-> Head(replies).n, to |-> to])
                ELSE delivered[k]
           /\ to # Vacant => to.g \in Client /\ AddrOf[to.g] = system_address[at]
<1> DEFINE holders == Holders(system_address[at])
<1>1. PICK to \in IF holders = {} THEN {Vacant} ELSE holders :
        delivered' = [delivered EXCEPT ![at] =
                        Append(@, [n |-> Head(replies).n, to |-> to])]
  BY DEF SendReply
<1>2. ASSUME NEW o \in holders
      PROVE  /\ o \in Occupant /\ o.g \in Client
             /\ AddrOf[o.g] = system_address[at]
  <2>1. PICK j \in Slot : o = occupant[j] /\ occupant[j] # Vacant
                          /\ AddrOf[occupant[j].g] = system_address[at]
    BY <1>2 DEF Holders
  <2>2. occupant[j].g \in Client /\ occupant[j] \in Occupant
    BY <2>1, OccupantFields DEF TypeOK
  <2> QED
    BY <2>1, <2>2
<1>3. Vacant \in Occupant
  BY DEF Occupant
<1>4. \A k \in Key : delivered'[k] =
        IF k = at THEN Append(delivered[k], [n |-> Head(replies).n, to |-> to])
        ELSE delivered[k]
  BY <1>1 DEF TypeOK
<1> QED
  BY <1>1, <1>2, <1>3, <1>4

\* SendReply: the head is sent to the client's address.
LEMMA SendReplies ==
  ASSUME TypeOK, RepliesOK, SendReply
  PROVE  RepliesOK'
<1>1. /\ pc = "reply" /\ replies # <<>> /\ pc' = pc /\ at' = at
      /\ replies' = Tail(replies) /\ UNCHANGED <<remote, received>>
  BY DEF SendReply, linkVars
<1>2. PICK to \in Occupant :
        \A k \in Key : delivered'[k] =
          IF k = at THEN Append(delivered[k], [n |-> Head(replies).n, to |-> to])
          ELSE delivered[k]
  BY Recipient
<1> DEFINE d == [n |-> Head(replies).n, to |-> to]
<1>3. d \in Sent /\ d.n = Head(replies).n
  <2>1. Head(replies) \in Reply
    BY <1>1, TailFacts DEF TypeOK
  <2> QED
    BY <2>1 DEF Sent, Reply
<1> HIDE DEF d
<1>4. ASSUME NEW k \in Key
      PROVE  Row(remote[k], Serving(k), received[k], delivered[k])'
  <2>1. CASE k = at
    <3>1. Serving(k) = replies /\ Serving(k)' = Tail(replies)
      BY <1>1, <2>1, ReplyAtHand
    <3>2. Row(remote[k], Tail(replies), received[k], Append(delivered[k], d))
      BY <1>1, <1>3, <3>1, RowTypes, RowSent DEF RepliesOK
    <3>3. delivered'[k] = Append(delivered[k], d)
      BY <1>2, <2>1 DEF d
    <3> QED
      BY <1>1, <3>1, <3>2, <3>3
  <2>2. CASE k # at
    <3>1. UNCHANGED Serving(k)
      BY <1>1, <2>2, ReplyAtHand
    <3> QED
      BY <1>1, <1>2, <2>2, <3>1, SameRow
  <2> QED
    BY <2>1, <2>2
<1> QED
  BY <1>4 DEF RepliesOK

\* The steps before and between the connections served.
LEMMA ElsewhereReplies ==
  ASSUME RepliesOK, UNCHANGED <<remote, received, delivered>>,
         \A k \in Key : UNCHANGED Serving(k)
  PROVE  RepliesOK'
<1>1. ASSUME NEW k \in Key
      PROVE  Row(remote[k], Serving(k), received[k], delivered[k])'
  BY SameRow
<1> QED
  BY <1>1 DEF RepliesOK

\* Every step keeps the rows.
LEMMA StepReplies ==
  ASSUME IInv, RepliesOK, [Next]_vars
  PROVE  RepliesOK'
<1> USE DEF IInv
<1>1. CASE ServerStep
  <2>1. UNCHANGED <<remote, received, delivered, pc, at, replies>>
    BY <1>1, ServerStepGrows DEF linkVars, loopVars, historyVars
  <2> QED
    BY <2>1, ElsewhereReplies DEF Serving
<1>2. CASE LinkStep
  BY <1>2, UpstreamReplies, Constants
  DEF LinkStep, LinkUp, LinkFail, LinkLost, RemoteSend
<1>3. CASE HandleNew
  BY <1>3, NewReplies
<1>4. CASE \/ ReceiveAll \/ QueueMessage \/ ForwardPacket
           \/ HandleUnassigned \/ HandleNewFails \/ HandleUnknown
           \/ StartFlush \/ FlushMessage \/ BatchDone \/ ServeDone
  <2>1. UNCHANGED <<remote, received, delivered>> /\ pc # "reply" /\ pc' # "reply"
    BY <1>4
    DEF ReceiveAll, QueueMessage, ForwardPacket, HandleUnassigned, HandleNewFails,
        HandleUnknown, Panic, StartFlush, FlushMessage, BatchDone, ServeDone,
        Forwarding, Handling, Done, Goto, linkVars, historyVars, loopVars
  <2> QED
    BY <2>1, ElsewhereReplies DEF Serving
<1>5. CASE ConnectionServed
  <2>1. /\ UNCHANGED <<remote, received, delivered>>
        /\ replies = <<>> /\ pc' # "reply"
    BY <1>5 DEF ConnectionServed, Goto, linkVars, historyVars
  <2> QED
    BY <2>1, ElsewhereReplies DEF Serving
<1>6. CASE \E k \in todo : ServeConnection(k)
  BY <1>6, ServeReplies
<1>7. CASE DropReply
  BY <1>7, DropReplies
<1>8. CASE SendReply
  BY <1>8, SendReplies
<1>9. CASE UNCHANGED vars
  <2>1. UNCHANGED <<remote, received, delivered, pc, at, replies>>
    BY <1>9 DEF vars, linkVars, loopVars, historyVars
  <2> QED
    BY <2>1, ElsewhereReplies DEF Serving
<1> QED
  BY <1>1, <1>2, <1>3, <1>4, <1>5, <1>6, <1>7, <1>8, <1>9, NextSteps
  DEF DoneStep, OtherStep

-----------------------------------------------------------------------------
\* The steps, on the addresses.

\* A packet from a client's session carries that client's address.
LEMMA ArriveAddress ==
  ASSUME TypeOK, NEW guid \in Guid, NEW a \in Address, NEW id \in MessageId,
         NEW s \in Session \cup {0}, Arrive(guid, a, id, s)
  PROVE  /\ Len(arrived) \in Nat /\ Len(arrived') = Len(arrived) + 1
         /\ \A n \in 1 .. Len(arrived) : arrived'[n] = arrived[n]
         /\ arrived'[Len(arrived) + 1].guid = guid
         /\ arrived'[Len(arrived) + 1].system_address = a
<1> DEFINE p == [guid |-> guid, system_address |-> a,
                 data |-> [id |-> id, n |-> Len(arrived) + 1, s |-> s]]
<1>1. arrived \in Seq(Packet) /\ arrived' = Append(arrived, p)
  BY DEF TypeOK, Arrive
<1>2. p \in Packet
  BY ArriveType DEF Packet, Data, Session
<1>3. p.guid = guid /\ p.system_address = a
  OBVIOUS
<1> HIDE DEF p
<1> QED
  BY <1>1, <1>2, <1>3, AppendFacts

\* What the server's peer receives carries the sender's address.
LEMMA ServerAddresses ==
  ASSUME TypeOK, ServerStep
  PROVE  /\ Len(arrived) \in Nat /\ Len(arrived') = Len(arrived) + 1
         /\ \A n \in 1 .. Len(arrived) : arrived'[n] = arrived[n]
         /\ arrived'[Len(arrived) + 1].guid \in Key =>
              arrived'[Len(arrived) + 1].system_address
                = AddrOf[arrived'[Len(arrived) + 1].guid.g]
<1>1. PICK guid \in Guid, a \in Address, id \in MessageId, s \in Session \cup {0} :
        Arrive(guid, a, id, s) /\ (guid \in Key => a = AddrOf[guid.g])
  <2>1. ASSUME NEW i \in Slot, NEW c \in Client, Connect(c, i)
        PROVE  \E guid \in Guid, a \in Address, id \in MessageId,
                  s \in Session \cup {0} :
                 Arrive(guid, a, id, s) /\ (guid \in Key => a = AddrOf[guid.g])
    <3> DEFINE k == [g |-> c, system_index |-> i]
    <3>1. k \in Guid /\ k.g = c /\ AddrOf[c] \in Address
      BY Constants DEF Guid, Key
    <3>2. Len(arrived) + 1 \in Session
      <4>1. Len(arrived) \in Nat /\ Len(arrived) < MaxPackets
        BY <2>1 DEF Connect, Arrive, TypeOK
      <4> QED
        BY <4>1, Constants DEF Session, Serial
    <3>3. Arrive(k, AddrOf[c], ID_NEW_INCOMING_CONNECTION, Len(arrived) + 1)
      BY <2>1 DEF Connect
    <3> QED
      BY <3>1, <3>2, <3>3, Constants
  <2>2. ASSUME NEW i \in Slot, NEW id \in MessageId, occupant[i] # Vacant,
               Arrive([g |-> occupant[i].g, system_index |-> i],
                      AddrOf[occupant[i].g], id, occupant[i].s)
        PROVE  \E guid \in Guid, a \in Address, d \in MessageId,
                  s \in Session \cup {0} :
                 Arrive(guid, a, d, s) /\ (guid \in Key => a = AddrOf[guid.g])
    <3> DEFINE k == [g |-> occupant[i].g, system_index |-> i]
    <3>1. /\ k \in Guid /\ k.g = occupant[i].g
          /\ AddrOf[occupant[i].g] \in Address /\ occupant[i].s \in Session
      BY <2>2, OccupantFields
    <3> QED
      BY <2>2, <3>1
  <2>3. ASSUME NEW guid \in OfflineGuid, OfflinePacket(guid)
        PROVE  \E g \in Guid, a \in Address, id \in MessageId,
                  s \in Session \cup {0} :
                 Arrive(g, a, id, s) /\ (g \in Key => a = AddrOf[g.g])
    <3>1. guid \in Guid /\ guid \notin Key
      BY Constants DEF Guid, OfflineGuid, Key
    <3>2. PICK a \in Address : Arrive(guid, a, ID_ADVERTISE_SYSTEM, 0)
      BY <2>3 DEF OfflinePacket
    <3> QED
      BY <3>1, <3>2, Constants
  <2> QED
    BY <2>1, <2>2, <2>3, Constants DEF ServerStep, ClientSend, Disconnect
<1> QED
  BY <1>1, ArriveAddress

\* The packet that announces a connection tells whose address to keep.
LEMMA NewAddress ==
  ASSUME TypeOK, ArrivedOK, PendingOK, AddressesOK, HandleNew
  PROVE  AddressesOK'
<1>1. /\ key \in Key /\ arrived' = arrived
      /\ packet = arrived[Handled + 1] /\ Handled + 1 \in 1 .. Len(arrived)
      /\ packet.guid = key
  BY HandleNewEffect, PacketAtHand DEF HandleNew, Handling, key
<1>2. packet.system_address = AddrOf[key.g]
  BY <1>1 DEF AddressesOK
<1>3. \A k \in Key : system_address'[k] = AddrOf[k.g]
  BY <1>1, <1>2 DEF HandleNew, AddressesOK, TypeOK
<1>4. \A k \in Key : delivered'[k] = IF k = key THEN <<>> ELSE delivered[k]
  BY DEF HandleNew, TypeOK
<1>5. ASSUME NEW k \in Key, NEW i \in 1 .. Len(delivered'[k]),
             delivered'[k][i].to # Vacant
      PROVE  /\ delivered'[k][i].to.g \in Client
             /\ AddrOf[delivered'[k][i].to.g] = AddrOf[k.g]
  <2>1. k # key
    BY <1>4, <1>5
  <2> QED
    BY <1>4, <1>5, <2>1 DEF AddressesOK
<1> QED
  BY <1>1, <1>3, <1>5 DEF AddressesOK

\* SendReply: what is sent reaches somebody at the address, or nobody.
LEMMA SendAddress ==
  ASSUME TypeOK, AddressesOK, SendReply
  PROVE  AddressesOK'
<1>1. at \in Key /\ UNCHANGED <<arrived, system_address>>
  BY DEF SendReply, TypeOK, serverVars, connVars
<1>2. PICK to \in Occupant :
        /\ \A k \in Key : delivered'[k] =
             IF k = at THEN Append(delivered[k], [n |-> Head(replies).n, to |-> to])
             ELSE delivered[k]
        /\ to # Vacant => to.g \in Client /\ AddrOf[to.g] = system_address[at]
  BY Recipient
<1> DEFINE d == [n |-> Head(replies).n, to |-> to]
<1>3. d \in Sent /\ d.to = to
  <2>1. Head(replies) \in Reply
    BY TailFacts DEF TypeOK, SendReply
  <2> QED
    BY <2>1 DEF Sent, Reply
<1> HIDE DEF d
<1>4. ASSUME NEW k \in Key, NEW i \in 1 .. Len(delivered'[k]),
             delivered'[k][i].to # Vacant
      PROVE  /\ delivered'[k][i].to.g \in Client
             /\ AddrOf[delivered'[k][i].to.g] = AddrOf[k.g]
  <2>1. CASE k # at
    BY <1>2, <1>4, <2>1 DEF AddressesOK
  <2>2. CASE k = at
    <3>1. delivered'[k] = Append(delivered[k], d) /\ delivered[k] \in Seq(Sent)
      BY <1>2, <2>2, RowTypes DEF d
    <3>2. /\ Len(delivered[k]) \in Nat
          /\ Len(delivered'[k]) = Len(delivered[k]) + 1
          /\ \A j \in 1 .. Len(delivered[k]) : delivered'[k][j] = delivered[k][j]
          /\ delivered'[k][Len(delivered[k]) + 1] = d
      BY <1>3, <3>1, AppendFacts
    <3>3. CASE i = Len(delivered[k]) + 1
      BY <1>1, <1>2, <1>3, <1>4, <2>2, <3>2, <3>3 DEF AddressesOK
    <3>4. CASE i # Len(delivered[k]) + 1
      <4>1. i \in 1 .. Len(delivered[k])
        BY <3>2, <3>4
      <4> QED
        BY <1>4, <3>2, <4>1 DEF AddressesOK
    <3> QED
      BY <3>3, <3>4
  <2> QED
    BY <2>1, <2>2
<1> QED
  BY <1>1, <1>4 DEF AddressesOK

\* Every step keeps the addresses.
LEMMA StepAddresses ==
  ASSUME IInv, AddressesOK, [Next]_vars
  PROVE  AddressesOK'
<1> USE DEF IInv
<1>1. CASE ServerStep
  <2>1. UNCHANGED <<system_address, delivered>>
    BY <1>1, ServerStepGrows DEF connVars, historyVars
  <2>2. ASSUME NEW n \in 1 .. Len(arrived'), arrived'[n].guid \in Key
        PROVE  arrived'[n].system_address = AddrOf[arrived'[n].guid.g]
    <3>1. CASE n = Len(arrived) + 1
      BY <1>1, <2>2, <3>1, ServerAddresses
    <3>2. CASE n # Len(arrived) + 1
      <4>1. Len(arrived) \in Nat /\ Len(arrived') = Len(arrived) + 1
        BY <1>1, ServerAddresses
      <4>2. n \in 1 .. Len(arrived)
        BY <3>2, <4>1
      <4>3. arrived'[n] = arrived[n]
        BY <1>1, <4>2, ServerAddresses
      <4> QED
        BY <2>2, <4>2, <4>3 DEF AddressesOK
    <3> QED
      BY <3>1, <3>2
  <2> QED
    BY <2>1, <2>2 DEF AddressesOK
<1>2. CASE HandleNew
  BY <1>2, NewAddress
<1>3. CASE SendReply
  BY <1>3, SendAddress
<1>4. CASE \/ LinkStep \/ ReceiveAll \/ QueueMessage \/ ForwardPacket
           \/ HandleUnassigned \/ HandleNewFails \/ HandleUnknown
           \/ StartFlush \/ FlushMessage \/ BatchDone
           \/ (\E k \in todo : ServeConnection(k))
           \/ DropReply \/ ConnectionServed \/ ServeDone \/ UNCHANGED vars
  <2>1. UNCHANGED <<arrived, system_address, delivered>>
    BY <1>4
    DEF LinkStep, LinkUp, LinkFail, LinkLost, RemoteSend, Upstream, ReceiveAll,
        QueueMessage, ForwardPacket, HandleUnassigned, HandleNewFails,
        HandleUnknown, Panic, StartFlush, FlushMessage, BatchDone,
        ServeConnection, DropReply, ConnectionServed, ServeDone, vars,
        serverVars, connVars, historyVars
  <2> QED
    BY <2>1 DEF AddressesOK
<1> QED
  BY <1>1, <1>2, <1>3, <1>4, NextSteps DEF DoneStep, OtherStep

-----------------------------------------------------------------------------
\* Initially there is no upstream and no packet.
LEMMA InitReplies == Init => RepliesOK /\ AddressesOK
<1> SUFFICES ASSUME Init PROVE RepliesOK /\ AddressesOK
  OBVIOUS
<1>1. \A k \in Key : /\ remote[k] = <<>> /\ Serving(k) = <<>>
                     /\ received[k] = <<>> /\ delivered[k] = <<>>
                     /\ system_address[k] = AddrOf[k.g]
  BY DEF Init, Serving
<1>2. RepliesOK
  BY <1>1, RowEmpty DEF RepliesOK
<1>3. arrived = <<>>
  BY DEF Init
<1>4. AddressesOK
  BY <1>1, <1>3 DEF AddressesOK
<1> QED
  BY <1>2, <1>4

\* The inductive invariant of the way back holds in every reachable state.
THEOREM ReplyInvariant == Spec => []RInv
<1>1. Init => RInv
  BY InitInv, InitReplies DEF RInv
<1>2. RInv /\ [Next]_vars => RInv'
  BY StepInv, StepReplies, StepAddresses DEF RInv
<1> QED
  BY <1>1, <1>2, PTL DEF Spec

\* What a row says of the order and the completeness of replies.
LEMMA RowOrder ==
  ASSUME NEW rem \in Seq(Reply), NEW srv \in Seq(Reply), NEW rec \in Seq(Reply),
         NEW del \in Seq(Sent), Row(rem, srv, rec, del)
  PROVE  /\ Rising(del) /\ Rising(srv) /\ Rising(rec)
         /\ Before(del, srv) /\ Before(del, rec) /\ Before(srv, rec)
         /\ \A i \in DOMAIN rem : Relayed(rem[i]) =>
              In(rem[i], rec) \/ In(rem[i], srv) \/ \E j \in DOMAIN del : del[j].n = i
<1>1. PICK t \in Nat : RowAt(t, rem, srv, rec, del)
  BY DEF Row
<1>2. /\ Len(rem) \in Nat /\ Len(srv) \in Nat /\ Len(rec) \in Nat
      /\ DOMAIN rem = 1 .. Len(rem) /\ DOMAIN srv = 1 .. Len(srv)
      /\ DOMAIN rec = 1 .. Len(rec) /\ DOMAIN del = 1 .. Len(del)
  OBVIOUS
<1>3. Len(rem) = t + Len(srv) + Len(rec)
  BY <1>1 DEF RowAt
<1>4. ASSUME NEW i \in 1 .. Len(srv) PROVE srv[i].n = t + i
  <2>1. t + i \in 1 .. Len(rem)
    BY <1>2, <1>3
  <2> QED
    BY <1>1, <2>1 DEF RowAt
<1>5. ASSUME NEW i \in 1 .. Len(rec) PROVE rec[i].n = t + Len(srv) + i
  <2>1. t + Len(srv) + i \in 1 .. Len(rem)
    BY <1>2, <1>3
  <2> QED
    BY <1>1, <2>1 DEF RowAt
<1>6. ASSUME NEW j \in 1 .. Len(del) PROVE del[j].n \in 1 .. t
  BY <1>1 DEF RowAt
<1>7. Rising(del) /\ Rising(srv) /\ Rising(rec)
  <2>1. Rising(del)
    BY <1>1, <1>2 DEF RowAt, Rising
  <2>2. Rising(srv)
    BY <1>1, <1>2, <1>4 DEF Rising
  <2>3. Rising(rec)
    BY <1>1, <1>2, <1>5 DEF Rising
  <2> QED
    BY <2>1, <2>2, <2>3
<1>8. Before(del, srv) /\ Before(del, rec) /\ Before(srv, rec)
  BY <1>2, <1>4, <1>5, <1>6 DEF Before
<1>9. ASSUME NEW i \in 1 .. Len(rem), Relayed(rem[i])
      PROVE  In(rem[i], rec) \/ In(rem[i], srv) \/ \E j \in DOMAIN del : del[j].n = i
  <2>1. CASE i <= t
    <3>1. i \in 1 .. t
      BY <1>2, <2>1
    <3> QED
      BY <1>1, <1>2, <1>9, <3>1 DEF RowAt
  <2>2. CASE i > t /\ i <= t + Len(srv)
    <3>1. i - t \in 1 .. Len(srv) /\ t + (i - t) = i
      BY <1>2, <2>2
    <3>2. srv[i - t] = rem[i]
      BY <1>1, <3>1 DEF RowAt
    <3> QED
      BY <1>2, <3>1, <3>2 DEF In
  <2>3. CASE i > t + Len(srv)
    <3> DEFINE j == i - (t + Len(srv))
    <3>1. j \in 1 .. Len(rec) /\ t + Len(srv) + j = i
      BY <1>2, <1>3, <2>3
    <3> HIDE DEF j
    <3>2. rec[j] = rem[i]
      BY <1>1, <3>1 DEF RowAt
    <3> QED
      BY <1>2, <3>1, <3>2 DEF In
  <2> QED
    BY <1>2, <2>1, <2>2, <2>3
<1> QED
  BY <1>2, <1>7, <1>8, <1>9

\* The replies of each upstream go back in their order, none twice and none
\* but RakNet's notifications left out (proxy.rs:64-82, 152-164).
THEOREM RepliesOrdered == Spec => []RepliesInOrder
<1>1. RInv => RepliesInOrder
  <2> SUFFICES ASSUME RInv, NEW k \in connections
               PROVE  /\ Rising(delivered[k]) /\ Rising(Serving(k))
                      /\ Rising(received[k])
                      /\ Before(delivered[k], Serving(k))
                      /\ Before(delivered[k], received[k])
                      /\ Before(Serving(k), received[k])
                      /\ \A i \in DOMAIN remote[k] :
                           remote[k][i].id >= ID_ADVERTISE_SYSTEM =>
                             \/ In(remote[k][i], received[k])
                             \/ In(remote[k][i], Serving(k))
                             \/ \E j \in DOMAIN delivered[k] : delivered[k][j].n = i
    BY DEF RepliesInOrder
  <2>1. TypeOK /\ k \in Key
    BY DEF RInv, IInv, TypeOK
  <2>2. Row(remote[k], Serving(k), received[k], delivered[k])
    BY <2>1 DEF RInv, RepliesOK
  <2> QED
    BY <2>1, <2>2, RowTypes, RowOrder DEF Relayed
<1> QED
  BY <1>1, ReplyInvariant, PTL

\* If no two clients share an address, a reply reaches the client whose
\* packets its upstream carries, or nobody (proxy.rs:153-162).
THEOREM RepliesReachTheirClient ==
  ASSUME \A c, d \in Client : AddrOf[c] = AddrOf[d] => c = d
  PROVE  Spec => []ReplyRecipient
<1>1. RInv => ReplyRecipient
  <2> SUFFICES ASSUME RInv, NEW k \in connections, NEW i \in DOMAIN delivered[k],
                      delivered[k][i].to # Vacant
               PROVE  delivered[k][i].to.g = k.g
    BY DEF ReplyRecipient
  <2>1. k \in Key /\ k.g \in Client /\ delivered[k] \in Seq(Sent)
    BY RowTypes DEF RInv, IInv, TypeOK, Key
  <2>2. i \in 1 .. Len(delivered[k])
    BY <2>1
  <2>3. /\ delivered[k][i].to.g \in Client
        /\ AddrOf[delivered[k][i].to.g] = AddrOf[k.g]
    BY <2>1, <2>2 DEF RInv, AddressesOK
  <2> QED
    BY <2>1, <2>3
<1> QED
  BY <1>1, ReplyInvariant, PTL

-----------------------------------------------------------------------------
(***************************************************************************)
(* The proxy implements the relay, for every set of clients and slots and  *)
(* all bounds: each of its steps offers a message, carries the next one,   *)
(* cuts a session off, or is nothing the relay could tell.                 *)
(***************************************************************************)

\* The state of the relay before anything has arrived.
LEMMA RelayInit == Init => Relays!Init
<1> SUFFICES ASSUME Init PROVE Relays!Init
  OBVIOUS
<1>1. \A s : Offered(s) = {}
  BY DEF Init, Offered
<1>2. CutOff = {}
  BY DEF Init, CutOff
<1> QED
  BY <1>1, <1>2 DEF Init, Relays!Init

\* What a session has offered changes by arrivals only.
LEMMA SameOffered ==
  ASSUME arrived' = arrived
  PROVE  \A s : Offered(s)' = Offered(s)
BY DEF Offered

\* No session is cut off while the map is as it was and no link goes down.
LEMMA SameCut ==
  ASSUME TypeOK, PendingOK, ConnectionsOK,
         UNCHANGED <<connections, session>>,
         \A k \in connections : link'[k] = "down" <=> link[k] = "down",
         \A n \in 1 .. Len(arrived) : arrived'[n] = arrived[n]
  PROVE  CutOff' = CutOff
<1>1. ASSUME NEW s \in Session, NEW k \in connections, session[k] > s
      PROVE  arrived'[s] = arrived[s]
  <2>1. session[k] \in 1 .. Handled /\ Handled \in Nat
        /\ 1 .. Handled \subseteq 1 .. Len(arrived)
    BY SessionFacts, HandledBound
  <2>2. s \in Nat /\ s >= 1
    BY Constants DEF Session, Serial
  <2>3. s \in 1 .. Handled
    BY <1>1, <2>1, <2>2
  <2> QED
    BY <2>1, <2>3
<1> QED
  BY <1>1 DEF CutOff

\* The relay stutters when it sees none of its variables change.
LEMMA RelayStutter ==
  ASSUME \A s : Offered(s)' = Offered(s), forwarded' = forwarded,
         CutOff' = CutOff
  PROVE  UNCHANGED Relays!relayVars
BY DEF Relays!relayVars

-----------------------------------------------------------------------------
(***************************************************************************)
(* Arrivals.                                                               *)
(***************************************************************************)
\* The payload that arrives: of nobody's session, of the one it announces, or
\* of one that goes on.
LEMMA ServerArrives ==
  ASSUME TypeOK, ServerStep
  PROVE  \E id \in MessageId, s \in Session \cup {0} :
           /\ Len(arrived) + 1 \in Serial
           /\ arrived'[Len(arrived) + 1].data =
                [id |-> id, n |-> Len(arrived) + 1, s |-> s]
           /\ s = 0 \/ s = Len(arrived) + 1 \/ id \in ClientId \cup ClosingId
<1>1. ASSUME NEW i \in Slot, NEW c \in Client, Connect(c, i)
      PROVE  \E guid \in Guid, a \in Address :
               /\ Len(arrived) + 1 \in Session
               /\ Arrive(guid, a, ID_NEW_INCOMING_CONNECTION,
                         Len(arrived) + 1)
  <2>1. Arrive([g |-> c, system_index |-> i], AddrOf[c],
               ID_NEW_INCOMING_CONNECTION, Len(arrived) + 1)
    BY <1>1 DEF Connect
  <2>2. [g |-> c, system_index |-> i] \in Guid /\ AddrOf[c] \in Address
    BY Constants DEF Guid, Key
  <2>3. Len(arrived) + 1 \in Session
    BY <2>1, Constants DEF Arrive, TypeOK, Session, Serial
  <2> QED
    BY <2>1, <2>2, <2>3
<1>2. ASSUME NEW i \in Slot, NEW id \in MessageId, occupant[i] # Vacant,
             Arrive([g |-> occupant[i].g, system_index |-> i],
                    AddrOf[occupant[i].g], id, occupant[i].s)
      PROVE  \E guid \in Guid, a \in Address, s \in Session :
               Arrive(guid, a, id, s)
  BY <1>2, OccupantFields
<1>3. ASSUME NEW guid \in OfflineGuid, OfflinePacket(guid)
      PROVE  \E q \in Guid, a \in Address :
               Arrive(q, a, ID_ADVERTISE_SYSTEM, 0)
  BY <1>3 DEF OfflinePacket, Guid
<1>4. PICK guid \in Guid, a \in Address, id \in MessageId,
           s \in Session \cup {0} :
        /\ Arrive(guid, a, id, s)
        /\ s = 0 \/ s = Len(arrived) + 1 \/ id \in ClientId \cup ClosingId
  BY <1>1, <1>2, <1>3, Constants DEF ServerStep, ClientSend, Disconnect
<1>5. arrived'[Len(arrived) + 1].data =
        [id |-> id, n |-> Len(arrived) + 1, s |-> s]
  BY <1>4, ArriveStep
<1>6. Len(arrived) + 1 \in Serial
  BY <1>4, ArriveType
<1> QED
  BY <1>4, <1>5, <1>6

\* An arrival offers a message of the session it belongs to, or it is the
\* announcement of a session or a packet of nobody, which the relay does not
\* see.
LEMMA ArrivalOffers ==
  ASSUME TypeOK, ArrivedOK, PendingOK, ConnectionsOK, ServerStep
  PROVE  [Relays!Next]_Relays!relayVars
<1> DEFINE L == Len(arrived)
           m == arrived'[L + 1].data
<1>1. PICK id \in MessageId, t \in Session \cup {0} :
        /\ L + 1 \in Serial
        /\ m = [id |-> id, n |-> L + 1, s |-> t]
        /\ t = 0 \/ t = L + 1 \/ id \in ClientId \cup ClosingId
  BY ServerArrives
<1>2. /\ UNCHANGED <<connections, session, link, forwarded>>
      /\ L \in Nat /\ Len(arrived') = L + 1
      /\ \A n \in 1 .. L : arrived'[n] = arrived[n]
  BY ServerStepGrows DEF connVars, linkVars, historyVars
<1>3. CutOff' = CutOff
  BY <1>2, SameCut
<1> HIDE DEF L, m
<1>4. m.s = t /\ m.n = L + 1 /\ m.id = id
  BY <1>1
<1>5. ASSUME NEW s
      PROVE  Offered(s)' =
               Offered(s) \cup (IF t = s /\ L + 1 # s THEN {m} ELSE {})
  <2>1. 1 .. Len(arrived') = (1 .. L) \cup {L + 1}
    BY <1>2
  <2>2. arrived'[L + 1].data = m
    BY DEF m
  <2> QED
    BY <1>2, <1>4, <2>1, <2>2 DEF Offered, L
<1>6. CASE t = 0 \/ t = L + 1
  <2>1. \A s \in Session : Offered(s)' = Offered(s)
    <3>1. 0 \notin Session
      BY Constants DEF Session, Serial
    <3> QED
      BY <1>5, <1>6, <3>1
  <2> QED
    BY <1>2, <1>3, <2>1 DEF Relays!relayVars
<1>7. CASE t # 0 /\ t # L + 1
  <2>1. t \in Session /\ id \in ClientId \cup ClosingId
    BY <1>1, <1>7
  <2>2. m \in [id : ClientId \cup ClosingId, n : Serial, s : Session]
    BY <1>1, <2>1
  <2>3. /\ \A s : s # t => Offered(s)' = Offered(s)
        /\ Offered(t)' = Offered(t) \cup {m}
    BY <1>5, <1>7
  <2>4. \A o \in Offered(t) : o.n < m.n
    BY <1>2, <1>4 DEF Offered, ArrivedOK, L
  <2>5. Relays!Offer(t)
    BY <1>2, <1>3, <2>1, <2>2, <2>3, <2>4 DEF Relays!Offer
  <2> QED
    BY <2>1, <2>5 DEF Relays!Next
<1> QED
  BY <1>6, <1>7

-----------------------------------------------------------------------------
(***************************************************************************)
(* A session's way upstream is cut.                                        *)
(***************************************************************************)
\* A step of an upstream peer's threads leaves the relay as it was, unless the
\* connection breaks.
LEMMA LinkCuts ==
  ASSUME TypeOK, PendingOK, ConnectionsOK, LinkStep
  PROVE  [Relays!Next]_Relays!relayVars
<1>1. PICK k \in Key, to \in {"connected", "down"} :
        /\ k \in connections /\ link[k] # "down"
        /\ link' = [link EXCEPT ![k] = to]
        /\ UNCHANGED <<arrived, connections, session, forwarded>>
  BY DEF LinkStep, LinkUp, LinkFail, LinkLost, RemoteSend, Upstream,
         serverVars, connVars, historyVars
<1>2. \A j \in connections : link'[j] = IF j = k THEN to ELSE link[j]
  BY <1>1 DEF TypeOK
<1>3. \A s : Offered(s)' = Offered(s)
  BY <1>1, SameOffered
<1>4. CASE to = "connected"
  <2>1. CutOff' = CutOff
    BY <1>1, <1>2, <1>4, SameCut
  <2> QED
    BY <1>1, <1>3, <2>1, RelayStutter
<1>5. CASE to = "down"
  <2>1. session[k] \in Session
    BY <1>1, SessionFacts
  <2>2. CutOff' = CutOff \cup {session[k]}
    BY <1>1, <1>2, <1>5, <2>1 DEF CutOff
  <2>3. Relays!Cut(session[k])
    BY <1>1, <1>3, <2>2 DEF Relays!Cut
  <2> QED
    BY <2>1, <2>3 DEF Relays!Next
<1> QED
  BY <1>4, <1>5

\* A new ProxyConnection cuts off the session whose place it takes.
LEMMA NewCuts ==
  ASSUME TypeOK, ArrivedOK, PendingOK, ConnectionsOK, HandleNew
  PROVE  [Relays!Next]_Relays!relayVars
<1>1. /\ key \in Key /\ arrived' = arrived /\ forwarded' = forwarded
      /\ connections' = connections \cup {key}
      /\ \A k \in Key : session'[k] =
           IF k = key THEN Handled + 1 ELSE session[k]
      /\ \A k \in Key : k # key => link'[k] = link[k]
  BY HandleNewEffect
<1>2. link'[key] = "connecting"
  BY <1>1 DEF HandleNew, TypeOK
<1>3. \A s : Offered(s)' = Offered(s)
  BY <1>1, SameOffered
<1>4. PICK k \in Key : k = key
  BY <1>1
<1>5. /\ connections \subseteq Key /\ Handled \in Nat
      /\ \A s \in Session : s \in Nat /\ s >= 1
  <2>1. \A s \in Session : s \in Nat /\ s >= 1
    BY Constants DEF Session, Serial
  <2> QED
    BY <2>1, HandledBound DEF TypeOK
<1>6. k \in connections => /\ session[k] \in Session
                           /\ session[k] \in 1 .. Handled
                           /\ arrived[session[k]].guid = k
                           /\ arrived[session[k]].data.s = session[k]
  BY SessionFacts DEF ConnectionsOK
<1>7. ASSUME NEW s \in CutOff'
      PROVE  s \in CutOff \/ (k \in connections /\ s = session[k])
  <2>1. PICK j \in connections' :
          /\ s \in Session
          /\ \/ session'[j] = s /\ link'[j] = "down"
             \/ session'[j] > s /\ arrived[s].guid = j /\ arrived[s].data.s = s
    BY <1>1, <1>7 DEF CutOff
  <2>2. CASE j # k
    BY <1>1, <1>4, <1>5, <2>1, <2>2 DEF CutOff
  <2>3. CASE j = k
    <3>1. /\ Handled + 1 > s /\ arrived[s].guid = k /\ arrived[s].data.s = s
      BY <1>1, <1>2, <1>4, <2>1, <2>3
    <3>2. s \in 1 .. Handled
      BY <1>5, <2>1, <3>1
    <3>3. k \in connections /\ s <= session[k]
      BY <3>1, <3>2 DEF ConnectionsOK
    <3>4. s = session[k] \/ session[k] > s
      BY <1>5, <1>6, <2>1, <3>3
    <3> QED
      BY <2>1, <3>1, <3>3, <3>4 DEF CutOff
  <2> QED
    BY <2>2, <2>3
<1>8. ASSUME NEW s \in Session, s \in CutOff \/ (k \in connections
                                                 /\ s = session[k])
      PROVE  s \in CutOff'
  <2>1. \/ k \in connections /\ s = session[k]
        \/ \E j \in connections :
             /\ j # k \/ session[k] > s
             /\ \/ session[j] = s /\ link[j] = "down"
                \/ session[j] > s /\ arrived[s].guid = j
                   /\ arrived[s].data.s = s
    BY <1>8 DEF CutOff
  <2>2. CASE \E j \in connections :
               /\ j # k
               /\ \/ session[j] = s /\ link[j] = "down"
                  \/ session[j] > s /\ arrived[s].guid = j
                     /\ arrived[s].data.s = s
    BY <1>1, <1>4, <1>5, <2>2 DEF CutOff
  <2>3. CASE /\ k \in connections /\ session[k] >= s
             /\ arrived[s].guid = k /\ arrived[s].data.s = s
    <3>1. session'[k] > s
      BY <1>1, <1>4, <1>5, <1>6, <2>3
    <3> QED
      BY <1>1, <1>4, <2>3, <3>1 DEF CutOff
  <2> QED
    BY <1>5, <1>6, <1>8, <2>2, <2>3 DEF CutOff
<1>9. CASE k \in connections
  <2>1. CutOff' = CutOff \cup {session[k]}
    BY <1>6, <1>7, <1>8, <1>9 DEF CutOff
  <2>2. Relays!Cut(session[k])
    BY <1>1, <1>3, <2>1 DEF Relays!Cut
  <2> QED
    BY <1>6, <1>9, <2>2 DEF Relays!Next
<1>10. CASE k \notin connections
  <2>1. CutOff' = CutOff
    BY <1>7, <1>8, <1>10 DEF CutOff
  <2> QED
    BY <1>1, <1>3, <2>1, RelayStutter
<1> QED
  BY <1>9, <1>10

-----------------------------------------------------------------------------
(***************************************************************************)
(* The upstream sees the next message.                                     *)
(***************************************************************************)
\* What a session offered and the program has handled waits in the queue of
\* its ProxyConnection or has gone upstream, as long as that stands.
LEMMA EarlierKept ==
  ASSUME TypeOK, ArrivedOK, PendingOK, ConnectionsOK, KeptOK,
         NEW c \in connections, link[c] # "down",
         NEW n \in 1 .. Handled, arrived[n].data.s = session[c],
         n # session[c]
  PROVE  \/ In(arrived[n].data, messages[c])
         \/ In(arrived[n].data, forwarded[session[c]])
<1>1. /\ session[c] \in 1 .. Handled /\ arrived[session[c]].guid = c
      /\ n \in 1 .. Len(arrived)
  BY SessionFacts, HandledBound
<1>2. session[c] # 0
  BY <1>1
<1>3. /\ arrived[n].guid = c
      /\ arrived[n].data.id # ID_NEW_INCOMING_CONNECTION
  BY <1>1, <1>2 DEF ArrivedOK
<1> QED
  BY <1>3 DEF KeptOK

\* d is the first message of the session of connection c that the upstream has
\* not seen; sending it on is the relay's step.
LEMMA CarryStep ==
  ASSUME TypeOK, ArrivedOK, PendingOK, ConnectionsOK,
         NEW c \in connections, link[c] = "connected",
         UNCHANGED <<arrived, connections, session, link>>,
         NEW d \in Data,
         forwarded' = [forwarded EXCEPT ![session[c]] = Append(@, d)],
         d.n \in (1 .. Len(arrived)) \ {session[c]},
         d = arrived[d.n].data, d.s = session[c],
         \A i \in 1 .. Len(forwarded[session[c]]) :
           forwarded[session[c]][i].n < d.n,
         \A n \in 1 .. Len(arrived) :
           n < d.n /\ arrived[n].data.s = session[c] /\ n # session[c] =>
             In(arrived[n].data, forwarded[session[c]])
  PROVE  Relays!Next
<1>1. PICK s : s = session[c]
  OBVIOUS
<1>2. /\ s \in Session /\ s \in Nat /\ arrived[s].guid = c
      /\ \A k \in connections : session[k] = s => k = c
  BY <1>1, SessionFacts, HandledBound
<1>3. /\ \A x : Offered(x)' = Offered(x)
      /\ CutOff' = CutOff
  BY SameOffered, SameCut
<1>4. s \notin CutOff
  BY <1>1, <1>2 DEF CutOff
<1>5. d \in Offered(s)
  BY <1>1 DEF Offered
<1>6. /\ forwarded[s] \in Seq(Data)
      /\ DOMAIN forwarded[s] = 1 .. Len(forwarded[s])
  BY <1>2 DEF TypeOK
<1>7. \A i \in DOMAIN forwarded[s] : forwarded[s][i] # d
  BY <1>1, <1>6, DataNumber
<1>8. \A o \in Offered(s) : o.n < d.n => In(o, forwarded[s])
  BY <1>1 DEF Offered, ArrivedOK
<1>9. Relays!Carry(s)
  BY <1>1, <1>2, <1>3, <1>4, <1>5, <1>7, <1>8
  DEF Relays!Carry, Relays!WasCarried, In
<1> QED
  BY <1>2, <1>9 DEF Relays!Next

\* The flush carries the oldest saved packet, unless the connection broke
\* meanwhile.
LEMMA FlushCarries ==
  ASSUME TypeOK, ArrivedOK, PendingOK, ConnectionsOK, FlushOK, QueueOK,
         ForwardedOK, KeptOK, FlushMessage
  PROVE  [Relays!Next]_Relays!relayVars
<1>1. PICK c : c = key
  OBVIOUS
<1>2. PICK d : d = Head(messages[c])
  OBVIOUS
<1>3. pc = "flush"
  BY DEF FlushMessage
<1>4. /\ c \in connections /\ c \in Key
      /\ session[c] \in Session
      /\ messages[c] \in Seq(Data) /\ forwarded[session[c]] \in Seq(Data)
      /\ Handled \in Nat /\ 1 .. Handled \subseteq 1 .. Len(arrived)
      /\ \A i \in 1 .. Len(messages[c]) :
           HandledData(messages[c][i], c, session[c])
  BY <1>1, <1>3, AtWork, HandledBound
<1>5. /\ UNCHANGED <<arrived, link, connections, session>>
      /\ messages[c] # <<>>
      /\ forwarded' = IF link[c] = "connected"
                      THEN [forwarded EXCEPT ![session[c]] = Append(@, d)]
                      ELSE forwarded
  BY <1>1, <1>2
  DEF FlushMessage, SendMessage, serverVars, linkVars
<1>6. CASE link[c] # "connected"
  BY <1>5, <1>6, SameOffered, SameCut, RelayStutter
<1>7. CASE link[c] = "connected"
  <2>1. d \in Data /\ d = messages[c][1] /\ 1 \in 1 .. Len(messages[c])
        /\ DOMAIN messages[c] = 1 .. Len(messages[c])
        /\ DOMAIN forwarded[session[c]] = 1 .. Len(forwarded[session[c]])
    BY <1>2, <1>4, <1>5, TailFacts
  <2>2. /\ d.n \in (1 .. Handled) \ {session[c]}
        /\ d = arrived[d.n].data /\ d.s = session[c]
    BY <1>4, <2>1 DEF HandledData
  <2>3. \A i \in 1 .. Len(forwarded[session[c]]) :
          forwarded[session[c]][i].n < d.n
    BY <1>4, <2>1 DEF QueueOK, Before
  <2>4. ASSUME NEW n \in 1 .. Len(arrived), n < d.n,
               arrived[n].data.s = session[c], n # session[c]
        PROVE  In(arrived[n].data, forwarded[session[c]])
    <3>1. n \in 1 .. Handled
      BY <1>4, <2>2, <2>4
    <3>2. ~In(arrived[n].data, messages[c])
      <4> SUFFICES ASSUME NEW i \in 1 .. Len(messages[c]),
                          messages[c][i] = arrived[n].data
                   PROVE  FALSE
        BY <2>1 DEF In
      <4>1. messages[c][i].n = n
        BY DEF ArrivedOK
      <4>2. i # 1 => d.n < messages[c][i].n
        BY <1>4, <2>1 DEF QueueOK, Rising
      <4> QED
        BY <1>4, <2>1, <2>2, <2>4, <4>1, <4>2
    <3> QED
      BY <1>4, <1>7, <2>4, <3>1, <3>2, EarlierKept
  <2>5. d.n \in (1 .. Len(arrived)) \ {session[c]}
    BY <1>4, <2>2
  <2>6. forwarded' = [forwarded EXCEPT ![session[c]] = Append(@, d)]
    BY <1>5, <1>7
  <2> QED
    BY <1>4, <1>5, <1>7, <2>1, <2>2, <2>3, <2>4, <2>5, <2>6, CarryStep
<1> QED
  BY <1>6, <1>7

\* Once the queue is empty, forward_packet carries the packet at hand.
LEMMA ForwardCarries ==
  ASSUME TypeOK, ArrivedOK, PendingOK, ConnectionsOK, FlushOK, QueueOK,
         ForwardedOK, KeptOK, ForwardPacket
  PROVE  [Relays!Next]_Relays!relayVars
<1>1. PICK c : c = key
  OBVIOUS
<1>2. PICK d : d = packet.data
  OBVIOUS
<1>3. pc = "flush"
  BY DEF ForwardPacket
<1>4. /\ c \in connections
      /\ session[c] \in Session /\ session[c] \in 1 .. Handled
      /\ Handled \in Nat /\ Handled + 1 \in 1 .. Len(arrived)
      /\ d \in Data /\ d.n = Handled + 1
      /\ d = arrived[Handled + 1].data /\ d.s = session[c]
      /\ \A i \in 1 .. Len(forwarded[session[c]]) :
           forwarded[session[c]][i].n < d.n
  BY <1>1, <1>2, <1>3, AtWork
<1>5. /\ UNCHANGED <<arrived, link, connections, session>>
      /\ messages[c] = <<>>
      /\ forwarded' = IF link[c] = "connected"
                      THEN [forwarded EXCEPT ![session[c]] = Append(@, d)]
                      ELSE forwarded
  BY <1>1, <1>2
  DEF ForwardPacket, QueueEmpty, SendMessage, serverVars, linkVars, connVars
<1>6. CASE link[c] # "connected"
  BY <1>5, <1>6, SameOffered, SameCut, RelayStutter
<1>7. CASE link[c] = "connected"
  <2>1. ASSUME NEW n \in 1 .. Len(arrived), n < d.n,
               arrived[n].data.s = session[c], n # session[c]
        PROVE  In(arrived[n].data, forwarded[session[c]])
    <3>1. n \in 1 .. Handled
      BY <1>4, <2>1
    <3>2. ~In(arrived[n].data, messages[c])
      BY <1>5 DEF In
    <3> QED
      BY <1>4, <1>7, <2>1, <3>1, <3>2, EarlierKept
  <2>2. d.n \in (1 .. Len(arrived)) \ {session[c]}
    BY <1>4
  <2>3. d = arrived[d.n].data
    BY <1>4
  <2>4. forwarded' = [forwarded EXCEPT ![session[c]] = Append(@, d)]
    BY <1>5, <1>7
  <2> QED
    BY <1>4, <1>5, <1>7, <2>1, <2>2, <2>3, <2>4, CarryStep
<1> QED
  BY <1>6, <1>7

-----------------------------------------------------------------------------
(***************************************************************************)
(* The refinement.                                                         *)
(***************************************************************************)
\* The relay does not see the other steps of the program.
LEMMA OthersStutter ==
  ASSUME TypeOK, PendingOK, ConnectionsOK,
         \/ ReceiveAll \/ QueueMessage \/ (OtherStep /\ ~FlushMessage)
         \/ UNCHANGED vars
  PROVE  UNCHANGED Relays!relayVars
<1>1. UNCHANGED <<arrived, connections, session, link, forwarded>>
  BY DEF ReceiveAll, QueueMessage, OtherStep, HandleUnassigned,
         HandleNewFails, HandleUnknown, Panic, StartFlush, BatchDone,
         ServeConnection, DropReply, SendReply, ConnectionServed, ServeDone,
         vars, serverVars, connVars, linkVars, historyVars
<1> QED
  BY <1>1, SameOffered, SameCut, RelayStutter

\* Every step of the proxy is a step of the relay, or none.
LEMMA RelayStep ==
  ASSUME IInv, [Next]_vars
  PROVE  [Relays!Next]_Relays!relayVars
<1> USE DEF IInv
<1>1. CASE ServerStep
  BY <1>1, ArrivalOffers
<1>2. CASE LinkStep
  BY <1>2, LinkCuts
<1>3. CASE HandleNew
  BY <1>3, NewCuts
<1>4. CASE FlushMessage
  BY <1>4, FlushCarries
<1>5. CASE ForwardPacket
  BY <1>5, ForwardCarries
<1>6. CASE \/ ReceiveAll \/ QueueMessage \/ (OtherStep /\ ~FlushMessage)
           \/ UNCHANGED vars
  BY <1>6, OthersStutter
<1> QED
  BY <1>1, <1>2, <1>3, <1>4, <1>5, <1>6, NextSteps DEF DoneStep

\* What the upstream of a session sees is at all times a prefix of what its
\* client sent, and nothing more once its way is cut: the loop of serve, with
\* its queues, its polling and its map, implements the relay.
THEOREM ProxyImplementsRelay == Spec => ImplementsRelay
<1>1. Init => Relays!Init
  BY RelayInit
<1>2. IInv /\ [Next]_vars => [Relays!Next]_Relays!relayVars
  BY RelayStep
<1> QED
  BY <1>1, <1>2, Invariant, PTL DEF Spec, ImplementsRelay, Relays!Spec

=============================================================================
