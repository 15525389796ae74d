-------------------------------- MODULE Proxy --------------------------------
(***************************************************************************)
(* The proxy example (examples/proxy.rs): a RakNet server that opens one   *)
(* upstream RakPeer of its own for every client that connects, forwards    *)
(* what the client sends to the upstream and what the upstream sends back  *)
(* to the client.                                                          *)
(*                                                                         *)
(* The program is one thread that polls: every 30 ms it drains the         *)
(* server's receive queue, handles the packets one by one, then drains the *)
(* receive queue of every upstream peer and sends the replies on.  RakNet's*)
(* own threads run beside it: clients come and go, packets arrive, the     *)
(* upstream connection comes up or breaks between any two calls the        *)
(* program makes.  So one action here is the code between two calls into   *)
(* RakNet whose answer depends on RakNet's state, and RakNet's own steps   *)
(* interleave with them.                                                   *)
(*                                                                         *)
(* Every arriving packet carries a serial number n as its payload, and the *)
(* session s it belongs to: the serial number of the packet that announced *)
(* the connection.  The program never looks at either.                     *)
(***************************************************************************)
EXTENDS RakNetTypes, Sequences, FiniteSets

CONSTANTS
  Client,          \* instances of RakPeer that may connect (RakNetGUID.g)
  Slot,            \* system indexes of the server's RakPeer (Startup(8))
  AddrOf,          \* the network address a client instance sends from
  NoClient,        \* g of the unassigned GUID (u64::MAX)
  NoSlot,          \* SystemIndex(None)
  ClientId,        \* first bytes of what clients send
  ClosingId,       \* notifications RakNet ends a client's connection with
  RemoteId,        \* first bytes of what the remote server sends
  MaxPackets,      \* bound: packets that arrive at the server
  MaxRemote,       \* bound: packets the remote server sends on one connection
  OfflineArrive,   \* may packets of unconnected systems arrive?
  StartMayFail     \* may ProxyConnection::new return an error?

ASSUME ClientAssumption ==
  /\ NoClient \notin Client
  /\ NoSlot \notin Slot
  /\ AddrOf \in [Client -> {AddrOf[c] : c \in Client}]

ASSUME IdAssumption ==
  /\ ClientId \subseteq MessageId \ {ID_NEW_INCOMING_CONNECTION}
  /\ RemoteId \subseteq MessageId
  /\ ClosingId \subseteq {ID_DISCONNECTION_NOTIFICATION, ID_CONNECTION_LOST}

ASSUME BoundAssumption ==
  /\ MaxPackets \in Nat
  /\ MaxRemote \in Nat
  /\ OfflineArrive \in BOOLEAN
  /\ StartMayFail \in BOOLEAN

-----------------------------------------------------------------------------
\* The values.

Address == {AddrOf[c] : c \in Client}

\* RakNetGUID: both fields take part in ==, so together they are the key.
Key        == [g : Client, system_index : Slot]
Unassigned == [g |-> NoClient, system_index |-> NoSlot]
OfflineGuid == [g : Client, system_index : {NoSlot}] \cup {Unassigned}
Guid       == Key \cup OfflineGuid

Serial  == 1 .. MaxPackets
Session == Serial

Data   == [id : MessageId, n : Serial, s : Session \cup {0}]
Packet == [guid : Guid, system_address : Address, data : Data]
Reply  == [id : MessageId, n : Nat]

Vacant   == [g |-> NoClient, s |-> 0]
Occupant == [g : Client, s : Session] \cup {Vacant}

-----------------------------------------------------------------------------
VARIABLES
  \* RakPeer `server`, run by RakNet's threads
  occupant,        \* its remote system list: who holds which slot
  inbox,           \* its receive queue
  \* HashMap `connections` and the fields of each ProxyConnection in it
  connections,     \* the keys of the map
  messages,        \* ProxyConnection.messages
  system_address,  \* ProxyConnection.system_address
  link,            \* state of ProxyConnection.client's connection
  received,        \* receive queue of ProxyConnection.client
  \* the control state and the locals of RakNetProxy::serve
  pc,
  batch,           \* rest of the Vec server.ReceiveAll returned
  todo,            \* connections values_mut has still to visit
  at,              \* the connection being served
  replies,         \* rest of the Vec connection.client.ReceiveAll returned
  \* history
  arrived,         \* every packet that arrived, by serial number
  session,         \* session each ProxyConnection was made for
  forwarded,       \* what each session's upstream connection carried
  remote,          \* every packet that arrived on an upstream connection
  delivered        \* replies sent to clients, and who got them

serverVars  == <<occupant, inbox, arrived>>
connVars    == <<connections, messages, system_address, session>>
linkVars    == <<link, received, remote>>
loopVars    == <<pc, batch, todo, at, replies>>
historyVars == <<forwarded, delivered>>
vars == <<serverVars, connVars, linkVars, loopVars, historyVars>>

-----------------------------------------------------------------------------
\* RakNetProxy::new has started the server; nobody is connected yet.
Init ==
  /\ occupant = [i \in Slot |-> Vacant]
  /\ inbox = <<>>
  /\ arrived = <<>>
  /\ connections = {}
  /\ messages = [k \in Key |-> <<>>]
  /\ system_address = [k \in Key |-> AddrOf[k.g]]
  /\ session = [k \in Key |-> 0]
  /\ link = [k \in Key |-> "none"]
  /\ received = [k \in Key |-> <<>>]
  /\ remote = [k \in Key |-> <<>>]
  /\ pc = "receive"
  /\ batch = <<>>
  /\ todo = {}
  /\ at = Unassigned
  /\ replies = <<>>
  /\ forwarded = [s \in Session |-> <<>>]
  /\ delivered = [k \in Key |-> <<>>]

Running == pc # "panicked"

-----------------------------------------------------------------------------
(***************************************************************************)
(* RakNet's side of the server: packets that arrive in its receive queue   *)
(* while the program runs.                                                 *)
(***************************************************************************)
Arrive(guid, address, id, s) ==
  LET packet == [guid |-> guid, system_address |-> address,
                 data |-> [id |-> id, n |-> Len(arrived) + 1, s |-> s]]
  IN  /\ Running
      /\ Len(arrived) < MaxPackets
      /\ arrived' = Append(arrived, packet)
      /\ inbox' = Append(inbox, packet)
      /\ UNCHANGED <<connVars, linkVars, loopVars, historyVars>>

\* A slot is allocated if neither the GUID nor the address is in use.
Connect(c, i) ==
  /\ occupant[i] = Vacant
  /\ \A j \in Slot : occupant[j] # Vacant =>
        /\ occupant[j].g # c
        /\ AddrOf[occupant[j].g] # AddrOf[c]
  /\ occupant' = [occupant EXCEPT ![i] = [g |-> c, s |-> Len(arrived) + 1]]
  /\ Arrive([g |-> c, system_index |-> i], AddrOf[c],
            ID_NEW_INCOMING_CONNECTION, Len(arrived) + 1)

ClientSend(i, id) ==
  /\ occupant[i] # Vacant
  /\ Arrive([g |-> occupant[i].g, system_index |-> i],
            AddrOf[occupant[i].g], id, occupant[i].s)
  /\ UNCHANGED occupant

\* The client leaves, or RakNet gives up on it: the slot is free at once and
\* the program learns of it by a packet.
Disconnect(i, id) ==
  /\ occupant[i] # Vacant
  /\ occupant' = [occupant EXCEPT ![i] = Vacant]
  /\ Arrive([g |-> occupant[i].g, system_index |-> i],
            AddrOf[occupant[i].g], id, occupant[i].s)

\* AdvertiseSystem and its like need no connection.
OfflinePacket(guid) ==
  /\ OfflineArrive
  /\ \E a \in Address : Arrive(guid, a, ID_ADVERTISE_SYSTEM, 0)
  /\ UNCHANGED occupant

(***************************************************************************)
(* RakNet's side of the upstream peers.                                    *)
(***************************************************************************)
Upstream(k, from, to, id) ==
  LET packet == [id |-> id, n |-> Len(remote[k]) + 1]
  IN  /\ Running
      /\ k \in connections
      /\ link[k] = from
      /\ link' = [link EXCEPT ![k] = to]
      /\ remote' = [remote EXCEPT ![k] = Append(@, packet)]
      /\ received' = [received EXCEPT ![k] = Append(@, packet)]
      /\ UNCHANGED <<serverVars, connVars, loopVars, historyVars>>

LinkUp(k)   == Upstream(k, "connecting", "connected",
                        ID_CONNECTION_REQUEST_ACCEPTED)
LinkFail(k) == Upstream(k, "connecting", "down", ID_CONNECTION_ATTEMPT_FAILED)
LinkLost(k) == Upstream(k, "connected", "down", ID_CONNECTION_LOST)
RemoteSend(k, id) ==
  /\ Len(remote[k]) <= MaxRemote   \* one of them is the acceptance
  /\ Upstream(k, "connected", "connected", id)

-----------------------------------------------------------------------------
(***************************************************************************)
(* The program.  ReceiveAll calls Receive until it returns nothing.  That  *)
(* last call decides what the batch holds, so the whole drain is one step. *)
(***************************************************************************)
Goto(from, to) == pc = from /\ pc' = to

ReceiveAll ==
  /\ Goto("receive", "handle")
  /\ batch' = inbox
  /\ inbox' = <<>>
  /\ UNCHANGED <<occupant, arrived, connVars, linkVars, todo, at, replies,
                 historyVars>>

\* RakNetProxy::handle_packet and forward_packet work on the head of the
\* batch; the packet leaves it when they return.
packet == Head(batch)
key    == packet.guid
Handling == pc = "handle" /\ batch # <<>>
Done     == pc' = "handle" /\ batch' = Tail(batch)

Panic ==
  /\ pc' = "panicked"
  /\ UNCHANGED <<serverVars, connVars, linkVars, batch, todo, at, replies,
                 historyVars>>

\* assert!(!packet.guid.is_unassigned())
HandleUnassigned ==
  /\ Handling
  /\ packet.guid = Unassigned
  /\ Panic

IsNew == packet.data.id = ID_NEW_INCOMING_CONNECTION

\* Slips: the queue of the ProxyConnection that is replaced is kept; the map
\* keeps one connection only.
OldQueue == messages[key]
OnlyNew  == {key}

\* A ProxyConnection starts with nothing saved.
NewQueue == <<>>
WithNew  == connections \cup {key}

\* insert replaces the ProxyConnection a previous session left under the same
\* key; dropping it shuts its RakPeer down, with all it had queued.
HandleNew ==
  /\ Handling
  /\ packet.guid # Unassigned
  /\ IsNew
  /\ Done
  /\ connections' = WithNew
  /\ messages' = [messages EXCEPT ![key] = NewQueue]
  /\ system_address' = [system_address EXCEPT ![key] = packet.system_address]
  /\ session' = [session EXCEPT ![key] = packet.data.s]
  /\ link' = [link EXCEPT ![key] = "connecting"]
  /\ received' = [received EXCEPT ![key] = <<>>]
  /\ remote' = [remote EXCEPT ![key] = <<>>]
  /\ delivered' = [delivered EXCEPT ![key] = <<>>]
  /\ UNCHANGED <<serverVars, todo, at, replies, forwarded>>

\* ProxyConnection::new(..).unwrap() on an error of Startup or Connect
HandleNewFails ==
  /\ StartMayFail
  /\ Handling
  /\ packet.guid # Unassigned
  /\ IsNew
  /\ Panic

\* get_mut(&packet.guid).expect(..)
HandleUnknown ==
  /\ Handling
  /\ packet.guid # Unassigned
  /\ ~IsNew
  /\ key \notin connections
  /\ Panic

\* Slips: a connection attempt under way is taken for a connection; the test is
\* the wrong way round; the queue is filled from the front.
NotYetDown(k)   == link[k] # "down"
Disconnected(k) == link[k] # "connected"
SaveInFront(k, data) ==
  messages' = [messages EXCEPT ![k] = <<data>> \o @]

\* GetSystemAddressFromIndex(0) of the upstream peer is not unassigned.  The
\* program asks once per packet, before it flushes the queue.
Connected(k) == link[k] = "connected"

\* messages.push_back(packet.data)
Save(k, data) == messages' = [messages EXCEPT ![k] = Append(@, data)]

Forwarding ==
  /\ Handling
  /\ packet.guid # Unassigned
  /\ ~IsNew
  /\ key \in connections

QueueMessage ==
  /\ Forwarding
  /\ ~Connected(key)
  /\ Save(key, packet.data)
  /\ Done
  /\ UNCHANGED <<serverVars, connections, system_address, session, linkVars,
                 todo, at, replies, historyVars>>

StartFlush ==
  /\ Forwarding
  /\ Connected(key)
  /\ Goto("handle", "flush")
  /\ UNCHANGED <<serverVars, connVars, linkVars, batch, todo, at, replies,
                 historyVars>>

\* send_message: a broadcast on a peer that is no longer connected reaches
\* nobody and is no error.
SendMessage(data) ==
  forwarded' = IF link[key] = "connected"
               THEN [forwarded EXCEPT ![session[key]] = Append(@, data)]
               ELSE forwarded

\* Slip: the packet at hand may overtake the queue.
NoNeedToFlush == TRUE

\* The loop that flushes the queue ends when pop_front finds nothing.
QueueEmpty == messages[key] = <<>>

FlushMessage ==
  /\ pc = "flush"
  /\ messages[key] # <<>>
  /\ SendMessage(Head(messages[key]))
  /\ messages' = [messages EXCEPT ![key] = Tail(@)]
  /\ UNCHANGED <<serverVars, connections, system_address, session, linkVars,
                 loopVars, delivered>>

ForwardPacket ==
  /\ pc = "flush"
  /\ QueueEmpty
  /\ SendMessage(packet.data)
  /\ Done
  /\ UNCHANGED <<serverVars, connVars, linkVars, todo, at, replies, delivered>>

-----------------------------------------------------------------------------
(***************************************************************************)
(* The second loop of serve: every upstream's replies go back to the       *)
(* client.                                                                 *)
(***************************************************************************)
\* Slips: a connection is visited that the map does not hold; the replies of an
\* upstream that has gone are left; the iteration starts over.
EveryKey     == Key
StillUp      == {k \in connections : link[k] = "connected"}
AllAgain(k)  == connections

ToServe      == connections
Remaining(k) == todo \ {k}

BatchDone ==
  /\ Goto("handle", "serve")
  /\ batch = <<>>
  /\ todo' = ToServe
  /\ UNCHANGED <<serverVars, connVars, linkVars, batch, at, replies,
                 historyVars>>

\* values_mut visits every connection once, in any order.
ServeConnection(k) ==
  /\ Goto("serve", "reply")
  /\ k \in todo
  /\ todo' = Remaining(k)
  /\ at' = k
  /\ replies' = received[k]
  /\ received' = [received EXCEPT ![k] = <<>>]
  /\ UNCHANGED <<serverVars, connVars, link, remote, batch, historyVars>>

\* Slips: the first identifier to pass is one too high; a reply is a broadcast.
PastAdvertise(reply) == reply.id > ID_ADVERTISE_SYSTEM
Everybody(address)   == {occupant[i] : i \in Slot} \ {Vacant}

\* ProxyConnection::handle_packet keeps what is not a notification of RakNet's.
Relayed(reply) == reply.id >= ID_ADVERTISE_SYSTEM

\* Send to an address reaches whoever holds a slot with that address.
Holders(address) ==
  {occupant[i] : i \in {j \in Slot : /\ occupant[j] # Vacant
                                     /\ AddrOf[occupant[j].g] = address}}

DropReply ==
  /\ pc = "reply"
  /\ replies # <<>>
  /\ ~Relayed(Head(replies))
  /\ replies' = Tail(replies)
  /\ UNCHANGED <<serverVars, connVars, linkVars, pc, batch, todo, at,
                 historyVars>>

SendReply ==
  /\ pc = "reply"
  /\ replies # <<>>
  /\ Relayed(Head(replies))
  /\ replies' = Tail(replies)
  /\ LET holders == Holders(system_address[at])
     IN  \E to \in IF holders = {} THEN {Vacant} ELSE holders :
           delivered' = [delivered EXCEPT ![at] =
                           Append(@, [n |-> Head(replies).n, to |-> to])]
  /\ UNCHANGED <<serverVars, connVars, linkVars, pc, batch, todo, at,
                 forwarded>>

ConnectionServed ==
  /\ Goto("reply", "serve")
  /\ replies = <<>>
  /\ at' = Unassigned
  /\ UNCHANGED <<serverVars, connVars, linkVars, batch, todo, replies,
                 historyVars>>

\* main sleeps and calls serve again.
ServeDone ==
  /\ Goto("serve", "receive")
  /\ todo = {}
  /\ UNCHANGED <<serverVars, connVars, linkVars, batch, todo, at, replies,
                 historyVars>>

-----------------------------------------------------------------------------
Program ==
  \/ ReceiveAll
  \/ HandleUnassigned \/ HandleNew \/ HandleNewFails \/ HandleUnknown
  \/ QueueMessage \/ StartFlush \/ FlushMessage \/ ForwardPacket
  \/ BatchDone
  \/ \E k \in todo : ServeConnection(k)
  \/ DropReply \/ SendReply \/ ConnectionServed \/ ServeDone

Network ==
  \/ \E i \in Slot :
       \/ \E c \in Client : Connect(c, i)
       \/ \E id \in ClientId : ClientSend(i, id)
       \/ \E id \in ClosingId : Disconnect(i, id)
  \/ \E guid \in OfflineGuid : OfflinePacket(guid)
  \/ \E k \in Key :
       \/ LinkUp(k) \/ LinkFail(k) \/ LinkLost(k)
       \/ \E id \in RemoteId : RemoteSend(k, id)

Next == Program \/ Network

\* The program's thread is scheduled; RakNet ends every connection attempt,
\* one way or the other, after the twelve datagrams Connect asks for.
Fairness ==
  /\ WF_vars(Program)
  /\ \A k \in Key : WF_vars(LinkUp(k) \/ LinkFail(k))

Spec     == Init /\ [][Next]_vars
FairSpec == Spec /\ Fairness

=============================================================================
