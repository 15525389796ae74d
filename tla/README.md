# raknet-sys: specification, checks and proofs

raknet-sys binds the C++ network library RakNet to Rust and comes with three
programs: a chat server, a chat client, and a proxy. This directory holds TLA+
models of the parts of the repository that have behaviour worth modelling, the
TLC configurations that check them, and TLAPS proofs of the most important
results. Paths below are relative to the repository.

    tlc -config MCProxy_forward.cfg MCProxy.tla     # any cfg with its MC module
    tlapm ProxyProofs.tla       # also QueueFacts, RakPeerProofs, ChatProofs,
                                # PeerCallsProofs, SendingProofs,
                                # EasyHandshakeProofs, ShimProofs

## 1. The system

| Part | State it keeps | Operations | Modelled by |
|---|---|---|---|
| Proxy (`examples/proxy.rs`) | the server's `RakPeer`; `connections`, a map from `RakNetGUID` to `ProxyConnection`; in each of those a `RakPeer` of its own, the queue `messages`, the client's `system_address` | one thread that calls `serve` every 30 ms: drain and handle the server's packets, then drain every upstream peer and pass the replies on | `Proxy` and the modules on top of it |
| Receiving (`src/rakpeer.rs`: `Receive`, `ReceiveAll`, `Drop`) | a raw pointer into RakNet's heap while a packet is copied | take, copy, deallocate; repeat until the queue is empty | `RakPeer`, `Mailbox` |
| Chat server, chat client (`examples/chat_*.rs`) | one shared `RakPeer`, the flag `stop`, two threads | console commands; the receive loop; `Shutdown`; the join of the scope | `Chat` |
| Identifiers and plain data (`src/rakpeer.rs`, `raknet-c/raknet_types.h`) | none | comparison of the first byte; the structures the calls pass | `RakNetTypes`, `CTypes` |
| Conversions (`src/rakpeer.rs`) | none | Rust type to C structure and back | `CTypes` |
| The other methods of `RakPeer` | none in Rust; RakNet's settings and remote system list | convert, one C call, read the result | `PeerCalls` |
| `Sender` (`src/rakpeer.rs:849-943`) | the builder's fields | set a field; `send` | `Sending` |
| Easy handshake (`src/libcat.rs`, `raknet-c/libcat.cpp`) | C++ objects behind raw pointers, one or two for each Rust value | generate, initialize, process; prove, validate; encrypt, decrypt; drop | `EasyHandshake` |
| C shim (`raknet-c/rakpeer.cpp`, `.h`, `raknet_types.h`) | none | one C++ call per function | the `RakPeer_` actions of `PeerCalls`, `Sending`, and `RakPeer`; the header's comments are the source for what the models say of RakNet |
| Bit stream (`raknet-c/bitstream.cpp`) | | | no: `CMakeLists.txt` does not compile it |
| `build.rs`, CMake, `lib.rs`, `ffi.rs` | | | no: nothing at run time |
| RakNet, libcat | | | no: the submodule's directory is empty; environment of the models |

How the parts meet: every program owns `RakPeer` objects and polls them;
RakNet runs threads of its own that accept and drop connections and fill a
receive queue per peer. A packet is a message of a remote system or a piece of
news from RakNet, told apart by its first byte. Nothing is called back:
everything a program learns, it learns from `Receive`, and by asking a peer
for its state, which may change right after the answer.

What is hard about it:

- **Asking and acting are two steps.** `forward_packet` asks once whether the
  upstream is connected and then sends any number of messages; the console
  asks who is at index 0 and then disconnects that address. RakNet's threads
  run in between.
- **The receive queue is a history.** A client may have connected, sent, left
  and come back before the proxy looks at its first packet, so the peer's
  present state and the packet at hand belong to different moments.
- **Reuse.** Indexes, addresses and GUIDs come back. The proxy's key is the
  GUID together with the system index (both fields take part in `==`), and the
  entry of the former session is still there when the next one begins.
- **Raw pointers shared by threads.** `RakPeer` is `Sync`, and `Receive` holds
  a packet of RakNet's heap between two C calls, one of which may be followed
  by a panic.
- **Two threads that end together.** The chat programs end when the console
  sets `stop` and has itself returned; the peer is shut down in between.
- **Pointers and structures of another language.** A method passes pointers to
  copies that live as long as a Rust scope, and `GetGuidFromSystemAddress`
  reads through a pointer into RakNet's list after the call; the side of an
  `AddressOrGuid` that is not meant has to be the one value RakNet takes for
  none; lengths and durations are cut to 32 bits.
- **Order of set-up.** Keys count only before `Startup`, an accepted system
  only after `SetMaximumIncomingConnections`.
- **Handshakes over a network.** Challenges and answers repeat and cross, a
  retry replaces the challenge, and a refused one has to free the session it
  had allocated.

What makes each part correct is listed with its properties in section 3. The
hazards, each with its line and the properties that would show it going wrong,
are in `PROJECT.json`.

## 2. The models

### RakNet, as seen from the programs

`RakPeer::Receive` takes packets from a queue in the order in which RakNet put
them there. A connection is announced by `ID_NEW_INCOMING_CONNECTION` (or
`ID_CONNECTION_REQUEST_ACCEPTED` on the side that asked) and its end by
`ID_DISCONNECTION_NOTIFICATION` or `ID_CONNECTION_LOST`; the slot is free from
then on, before the program has seen the news. Packets of systems without a
connection carry no GUID or no index. A broadcast on a peer without connection
reaches nobody and is no error. This is taken from `raknet-c/rakpeer.h`,
`raknet-c/raknet_types.h`, the comments of `DefaultMessageIDTypes` and the use
the programs make of it; `PROJECT.json` marks the definitions as external.

### Proxy

`Proxy.tla` has one action for each stretch of code between two calls whose
answer depends on RakNet, with `pc` for the place, `batch` for the packets of
`serve`'s first loop that are still to be handled, `todo` and `replies` for
the second loop.

| Code | Action |
|---|---|
| `server.ReceiveAll()` | `ReceiveAll` (one step: see theorem `ReceiveIsAtomic` below) |
| `assert!(!packet.guid.is_unassigned())` | `HandleUnassigned` |
| new connection: `ProxyConnection::new`, `connections.insert` | `HandleNew`, `HandleNewFails` |
| `get_mut(..).expect(..)` | `HandleUnknown` |
| `forward_packet`, upstream not connected | `QueueMessage` |
| `forward_packet`, connected | `StartFlush`, then `FlushMessage` for each saved packet, then `ForwardPacket` |
| `for connection in connections.values_mut()` | `BatchDone`, `ServeConnection(k)` in any order, `ConnectionServed`, `ServeDone` |
| filter, `Send` of one reply | `DropReply`, `SendReply` |
| server's clients come, send, go | `Connect`, `ClientSend`, `Disconnect`, `OfflinePacket` |
| an upstream's connection | `LinkUp`, `LinkFail`, `LinkLost`, `RemoteSend` |

The message stream to the upstream and the replies are kept as history
variables (`forwarded`, `delivered`). A packet's payload is the serial number
of its arrival; its session is the number of the packet that announced the
connection. The program looks at neither.

The upstream is an arbitrary environment. That covers the default set-up, in
which the proxy's peers connect to 127.0.0.1:4564: whatever server runs there,
its behaviour is one of those `LinkUp`, `LinkFail`, `LinkLost` and
`RemoteSend` allow.

`ProxyProperties` states the properties, `Relay` the abstract specification,
`ProxyInvariant` the inductive invariant, `MCProxy` the instances for TLC,
`ProxyProofs` the theorems.

### Receiving

`RakPeer.tla` lets any number of threads call `Receive` and `ReceiveAll` on a
shared peer. `Receive(t)` takes the pointer, `Convert(t)` copies the packet,
`ConvertPanics(t)` is the failed assertion on the address family (Startup
takes `SocketFamily::Ipv6`, so a packet may come from an address that
`From<ffi::SystemAddress>` cannot represent), `Deallocate(t)` gives the packet
back. `Drop` needs the peer for itself, which Rust's ownership guarantees.

`Mailbox.tla` is what callers may rely on: a call takes, in one step, packets
that no other call takes, in the order of arrival; a `ReceiveAll` that is
alone on the peer when it returns leaves none behind, a lone `Receive` takes
the oldest. `RakPeer` implements it, with the packets in a thread's hand still
undelivered in the abstract state. This is why `Proxy` and `Chat`, where one
thread receives from each peer, may drain a queue in one step.

### Chat

`Chat.tla` models both programs: they differ in how they set up their peer and
in the wording of what they send. The console thread is `Type`, `Quit`,
`AskIndexZero` followed by `QueryTarget` or `Disconnect`, `Broadcast`,
`SendFails`, `ReadFails`; the main thread is `Setup`, `TestStop`,
`ReceiveAll`, `PrintPacket`, `Printed`, `Shutdown`, `Join`; the peer's remote
system list and receive queue change in `Connect`, `Leave` and `Message`. A
thread that panics stops; `std::thread::scope` waits for it all the same.

### Conversions and calls

`CTypes.tla` has the structures of `raknet_types.h` and one operator for each
conversion of `rakpeer.rs`. A number with a byte order is the sequence of its
bytes in memory, so that `ToBE` is what `to_be` does on a little-endian
machine; a Rust `Option` and a nullable pointer are sequences of at most one
element. `Resolve` and `ResolveTarget` are RakNet's part: which system a
structure names.

`PeerCalls.tla` makes a call in three steps. `Enter` is the Rust method up to
the C call: it records what the program *meant* (a system, a key, a host) next
to what the pointers and numbers hold. The action named after the C function
(`RakPeer_Startup`, `RakPeer_CloseConnection`, ...) dereferences them and does
what RakNet does, recording what it has *seen*. `Leave` is Rust again, which
reads the result, through a pointer where there is one. The set-up of the
server and of the client programs comes first, in their order (`ServerSetup`,
`ClientSetup`); then the console thread asks and tells what it likes, with
literal addresses, with the one it got from `GetSystemAddressFromIndex`, and
with GUIDs, and the main thread shuts the peer down and drops it. `Accept` and
`Lose` are RakNet's threads, between any two of these steps.
`GetInternalAddresses` and `GetLocalIpAddresses` are a call for the number and
one per address.

### Sending

`Sending.tla` follows a message from the builder (`Sender_new`, `Build`, the
panics of `send`) through `RakPeer_Send_data` onto the connections it reaches.
From there on only what `PacketReliability` promises is assumed: unreliable
messages may be dropped or overtaken, sequenced ones may be dropped when a
later one is there, ordered ones wait for each other, per channel; a
connection that ends takes along what is under way, and receipts say what
became of a message.

### Handshake

`EasyHandshake.tla` has two layers, as the code has. The functions of
`libcat.cpp` are operators on a `heap` of C++ objects (`New`, `Delete`, and
fields that stand for what libcat keeps in them); the methods of `libcat.rs`
are the actions on the Rust `values`, each with the pointers it owns. The
network is what it delivers: any challenge, answer, proof or ciphertext that
was ever made may be given to any value, in any order and again. libcat is
environment: a session belongs to an answer, a proof and a ciphertext to one
end of a session; nothing is said about its cryptography.

`MCShim.tla` puts `PeerCalls`, `Sending` and `EasyHandshake` next to each
other for TLC. They share no state, so a behaviour is one of one of them
(`part`, chosen in the initial state), and their properties are checked in one
run. `PeerCallsProofs`, `SendingProofs` and `EasyHandshakeProofs` prove them of
each part, and `ShimProofs` of the whole.

## 3. What is checked

TLC checks every run below completely. Every property of a passing run has a
mutant in `PROJECT.json`: a definition of the model replaced by a plausible
slip (they stand next to the definitions, under `Slip`), for which TLC finds
the property violated.

| Run | Instance | Properties |
|---|---|---|
| forward | 2 clients, 2 slots, 4 packets, among them packets without a connection; peers that fail to start | `TypeOK`; `ForwardOrder`: what an upstream carried, what is saved and what is still to be handled follow each other in the order of arrival; `NothingLost`: unless its upstream failed, every packet is in one of these places; `ConnectedNeverPanics`: the proxy's assertion and its `expect` never fail for a packet of a client that is or was connected |
| reconnect | 2 clients in turns on 1 slot, 6 packets | `SessionIsolation`: an upstream connection carries one session of one client; `ImplementsRelay`: the proxy implements `Relay`; `IInv` |
| reply | 2 clients, 2 slots, 3 packets from clients, 2 from each upstream | `RepliesInOrder`; `ReplyRecipient`: never to another client, when addresses are not shared |
| live | 1 client, 4 packets, one reply | `EverythingHandled`, `NextPacketFlushes`, `RepliesServed` |
| peer | 2 threads, 4 packets | `TypeOK`, `HeapExact`: a packet is allocated exactly while it is queued or in one thread's hand; `ImplementsMailbox`; `IInv` |
| chat | 2 systems, 2 indexes, 4 packets, 3 lines | `TypeOK`; `NoCallAfterShutdown`; `PrintedInOrder`; `QuitEnds`; `EveryPacketPrinted` |
| shim, calls | 2 systems, 2 slots, 2 connections, 2 calls of the console after the whole set-up | `ArgumentsArrive`: what RakNet makes of the structures is what the program meant, after others have taken the slot as well; `PointersLive`; `AnswersAboutAsked`: an answer is about the system that was asked for, or nobody; `SecuredConnections` |
| shim, sending | 2 systems, 2 messages, 1 connection that ends | `DefaultInOrder`: what is sent with the builder's defaults arrives in order and without a gap, whatever else is sent; `ArrivesAsMeant`; `ReceiptsMatch` |
| shim, handshake | 5 values; 4 keys, challenges and answers with 1 proof or message, or 3 with 2 | `Owned`: the C++ objects are those the Rust values own, each by one; `HandshakesAgree`: a handshake succeeds when it should, and its ends hold one session; `MessagesWhole`: a message that fits a u32 with its overhead is encrypted, and decrypted once, whole, at the other end only, in whatever order ciphertexts come |

Runs that are expected to fail, one for each of the findings in section 5:
`saved`, `guid`, `usermessages`, `instance`, `password`.

**Bounds.** They bound what the environment does, never the program. Four
packets are enough for a client to connect, send while the upstream is
connecting, and send again, with a second client in between; six, on one slot,
for two sessions under one key with a second instance between them and a
packet to flush. Two replies per upstream with two kinds of identifiers are
enough for one to be filtered between others. Two threads are enough for every
pair of steps of `Receive` to interleave, four packets for a `ReceiveAll` to
lose or share packets with a `Receive` and go on. In the chat, three lines are
two questions to index 0 and a `quit`, and four packets are two systems that
come and go.

In `shim`, two calls are the question for an index and a call with its answer,
and two accepted connections are enough for one to take the slot the other
had. Host names have lengths around the two limits of the code (16 bytes for
the check, 32 for the array). Two messages are what an order is about; lengths
are short, negative as an `i32` and cut (`WordSize = 16` stands for 2^32
there, `U32 = 32` in the handshake, `TimeRange` for the milliseconds). Message
lengths of the handshake are the last one that fits with its overhead, the
first one that does not (the sum wraps to 0), and one that is cut. Four keys,
challenges and answers are a handshake with a retry, with a second answer or
with a second key; five values are client, server, two sessions and one that
comes after another was dropped. `MaxTotal` counts what is encrypted as well:
after a handshake without a retry (three made) there may be two ciphertexts,
which are what an order is about, both of one session, one of each end, or of
the two sessions that a repeated answer gives. The safety theorems of section 4
hold for all bounds.

**Symmetry** is used for clients and slots in safety runs only.

**Deadlock** is checked in the proxy's runs except `forward` and `guid`, where
the process ends by a panic; receiving threads end when the peer is dropped,
chat programs when they are quit, and in `shim` a program may do all the calls
its bounds allow.

**Fairness.** `Proxy` assumes that the program's thread is scheduled, which is
the operating system's promise: the loop of `main` has no other way to wait
than a sleep. It assumes too that a connection attempt ends: `Connect` passes
12 attempts at 500 ms to RakNet (`src/rakpeer.rs:1072-1076`), after which
RakNet reports failure. Clients, the remote server and the loss of connections
have no fairness. `Chat` assumes that both threads are scheduled; nobody has
to type, and no packet has to arrive. `PeerCalls`, `Sending` and
`EasyHandshake` state no fairness. No safety property depends on fairness.

## 4. What is proved

For every set of clients, slots and threads, and every bound, under the
assumptions `ClientAssumption` (the markers for nobody and no index are no
client and no slot), `IdAssumption` (clients cannot send
`ID_NEW_INCOMING_CONNECTION`, which RakNet keeps to itself),
`BoundAssumption`, `PeerAssumption`, `ChatAssumption` (the bounds are
numbers, the families those of sockets, the markers for no system are no
systems), `TypesAssumption` (a system's number is a byte of an address and not
the unassigned one; the peer itself is no remote system) and `ShimAssumption`
(list entries have a `SystemIndex` and are finitely many; lengths, receipt
numbers and word sizes are numbers):

| Theorem | Statement |
|---|---|
| `ProxyProofs!TypeCorrect` | `Spec => []TypeOK` |
| `ProxyProofs!Invariant` | `Spec => []IInv` |
| `ProxyProofs!ForwardedInOrder` | `Spec => []ForwardOrder` |
| `ProxyProofs!NoPacketLost` | `Spec => []NothingLost` |
| `ProxyProofs!SessionsIsolated` | `Spec => []SessionIsolation` |
| `ProxyProofs!NoPanicForConnected` | `Spec => []ConnectedNeverPanics` |
| `ProxyProofs!ReplyInvariant` | `Spec => []RInv` |
| `ProxyProofs!RepliesOrdered` | `Spec => []RepliesInOrder` |
| `ProxyProofs!RepliesReachTheirClient` | `Spec => []ReplyRecipient`, if no two clients share an address |
| `ProxyProofs!ProxyImplementsRelay` | `Spec => ImplementsRelay` |
| `RakPeerProofs!PeerInvariant` | `Spec => []IInv` |
| `RakPeerProofs!PeerTypes` | `Spec => []TypeOK` |
| `RakPeerProofs!PacketsOwned` | `Spec => []HeapExact` |
| `RakPeerProofs!ReceiveIsAtomic` | `Spec => ImplementsMailbox` |
| `ChatProofs!ChatInvariant` | `Spec => []IInv` |
| `ChatProofs!ChatTypes` | `Spec => []TypeOK` |
| `ChatProofs!NobodyCallsLate` | `Spec => []NoCallAfterShutdown` |
| `ChatProofs!PacketsPrinted` | `Spec => []PrintedInOrder` |
| `EasyHandshakeProofs!HandshakeInvariant` | `Spec => []IInv` |
| `EasyHandshakeProofs!AgreeInvariant` | `Spec => [](IInv /\ AInv /\ Numbered)` |
| `EasyHandshakeProofs!HandshakesOwn` | `Spec => []Owned` |
| `PeerCallsProofs!CallsInvariant` | `Spec => []CInv` |
| `SendingProofs!SendingInvariant` | `Spec => []SInv` |
| `ShimProofs!ShimTypes` | `Spec => []TypeOK` |
| `ShimProofs!ShimArrive` | `Spec => []ArgumentsArrive` |
| `ShimProofs!ShimPointers` | `Spec => []PointersLive` |
| `ShimProofs!ShimAnswers` | `Spec => []AnswersAboutAsked` |
| `ShimProofs!ShimSecured` | `Spec => []SecuredConnections` |
| `ShimProofs!ShimDefaults` | `Spec => []DefaultInOrder` |
| `ShimProofs!ShimMeant` | `Spec => []ArrivesAsMeant` |
| `ShimProofs!ShimReceipts` | `Spec => []ReceiptsMatch` |
| `ShimProofs!ShimOwned` | `Spec => []Owned` |
| `ShimProofs!ShimAgree` | `Spec => []HandshakesAgree` |
| `ShimProofs!ShimMessages` | `Spec => []MessagesWhole` |

`Spec` is that of the module the proofs are about; in `ShimProofs` it is
`MCShim`'s. The theorems of the parts carry the assumptions on their constants
as hypotheses (`Listed`, `Options`, `Sizes`), because TLC evaluates an `ASSUME`
only in a module that is extended; `ShimConstants` derives all of them from
`ShimAssumption` and `TypesAssumption`, which TLC does evaluate.

**The proxy's argument.** None of the properties is inductive: none says where
the packets still to be handled stand relative to those that were. `IInv`
does. (1) `ArrivedOK`, `OccupantOK`: packets are numbered as they arrive, each
belongs to a session that began before it under the same GUID, and sessions of
a GUID follow each other; who is in a slot now is its GUID's last session. (2)
`PendingOK`: `batch` followed by `inbox` is the tail of `arrived`; what is
before it has been handled. (3) `ConnectionsOK`: the map has an entry for each
GUID of which a packet was handled, made for that GUID's last session among
them. This is what keeps `expect` from failing: the packet before was handled,
so the entry is there. (4) `QueueOK`, `ForwardedOK`: the saved and the sent
packets were handled, belong to the entry's session, rise, and the sent ones
come first. (5) `KeptOK`: each handled packet of a session whose entry stands
and whose upstream has not failed is saved or sent. The proof goes through the
steps of `Next` part by part (`StepTypes`, `StepArrived`, `StepPending`,
`StepConnections`, `StepFlush`, `StepWay`, `StepPanic`), with `StepElsewhere`
for the many steps that leave packets where they are.

**The refinement's argument.** `Relay` lets a client offer numbered messages,
its upstream see the first one it has not seen, and a session be cut off. An
arrival offers a message (`ArrivalOffers`); an upstream that breaks, and a new
`ProxyConnection` that takes another's place, cut a session off (`LinkCuts`,
`NewCuts`); `FlushMessage` and `ForwardPacket` carry one message
(`FlushCarries`, `ForwardCarries`), unless the connection broke after
`forward_packet` asked for its state, when the relay stutters, as it does at
every other step. That the carried message is the next one is where `IInv` is
needed: by `KeptOK` all earlier ones of the session are saved or sent
(`EarlierKept`), and since the queue rises none is saved before its head.
`QueueOK` and `ForwardedOK` say that the packet that announced the session is
never among them, for the relay does not know it.

**The receiving threads' argument.** `IInv` says that what a thread has
copied, the packet in its hand and the queue follow each other in the order of
arrival (`OrderOK`), that no packet is with two threads (`OneOwner`), that
`Receive` copies one packet at most (`CallOK`), and `HeapExact`. For the
refinement, the steps inside a call leave the mailbox unchanged, because a
packet that moves from the queue into a hand and from there into the copy is
undelivered throughout; the return of the call is the mailbox's `Collect`, a
panic its `Fail`.

**The replies' argument.** `RInv` adds two parts to `IInv`. `RepliesOK`: what
arrived from an upstream is a row (`Row`) of which the first `t` packets are
dropped or sent, the next are in the hands of `serve` and the others still
queued; each step moves one boundary of the row (`RowGrows`, `RowTaken`,
`RowDropped`, `RowSent`). A condition on the order alone would not be
inductive, because it would not exclude a packet that is both queued and sent.
`AddressesOK`: an entry keeps the address its client had, so a reply reaches
somebody with that address; that this is the client itself needs the
assumption, and the finding `instance` shows what happens without it.

**The chat's argument.** `ControlOK` ties the places of the two threads to
`stop` and `active`: the main thread is past its loop only when the console
has left, which is why no call follows `Shutdown`. `PlacesOK` says that what
was printed, what is about to be, what is in the batch and what is queued are,
in a row, what arrived.

**The handshake's argument.** `OwnedBy` adds to `Owned` the fields each class
of value has and that the heap is finite: then there is a fresh address, a new
value owns an object nobody had, and functions that get an object leave the
heap's domain alone (`FieldsOnly`). The cases that need care are those that
allocate before they know whether the handshake succeeds. `AInv` adds what a
program knows of its objects (`Matches`): a client's object has the key and the
challenge the program saw, or has forgotten the challenge that was answered, a
server's has its key, a session's the answer it came from and its end. Without
it nothing connects the verdict of libcat, which looks at the object, with what
the program may expect, which follows from what it has been told. Because
objects are owned, a call on those of one value leaves what is known of all
others alone (`OthersMatch`). For `MessagesWhole`, `Whole` says what a ciphertext
carries and how long an `unsigned int` makes it, and `Numbered` how libcat's
numbers relate to the ciphertexts: each sender's are all different and below its
next one (`Counts`), no two sessions have the same `serial`, and an object has
seen the numbers of just the ciphertexts that came out of it. So a ciphertext
that has not come out is not taken for one that has, in whatever order they
come, as long as the others were the same sender's.

**The calls' argument.** `ArgumentsArrive` speaks of calls that have come out;
`AboutCalls` adds what a call holds on its way in (`Fit`): what a pointer leads
to resolves to what was meant. It rests on lemmas about the conversions: RakNet
finds the system whose address a program writes (`AddressResolves`), or gave
back after RakNet gave it (`ThereAndBack`), and the unused side of an
`AddressOrGuid` does not count (`TargetResolves`). `Control` says where in its
set-up a program is and what RakNet has been told by then: a server's peer has
its keys before it is started (`ServerAt`), a client's takes no connections
(`ClientAt`), the console lives only between set-up and shutdown (`Console`).
This is what makes `Secured` and `PointersLive` inductive: `RakPeer_Startup`,
`RakPeer_InitializeSecurity` and `RakPeer_SetMaximumIncomingConnections` have
no condition on each other, so only the order of the calls keeps an unsecured
connection out. `Live` relates RakNet's two lists, systems and GUIDs, and says
that a pointer into the second one that has not been overtaken by a newcomer
(`moved`) still leads to whom was asked for. `Counted` keeps the number of
addresses that the loops go by true.

**The messages' argument.** The properties relate what arrived to the calls,
but neither determines the other: `SInv` goes through the wire. Every entry of
it carries what its call chose (`Carries`) and goes where it was meant to
(`MeantFor`); entries stand in the order of the calls (`InCallOrder`); what
arrived is exactly what the wire has as arrived (`GotWhatArrived`), and for
messages with the defaults that is a set without gaps (`NoGap`), in order
(`GotInOrder`). The step that needs all of it is `Deliver`: an ordered message
finds those before it arrived and none behind it, because `BuilderHas` shows
that whatever else a program chose, a builder without a reliability and a
channel is ordered on channel 0.

**The whole.** A step of `MCShim` is one of one part and leaves the others
alone, so a behaviour of it is one of each part (`CallsPart`, `SenderPart`,
`HandshakePart`), and what is proved of the parts holds in it.

**Only model-checked:** liveness (`live`, the two liveness properties of
`chat`), which is out of the prover's reach. Every safety property that a
passing run checks is a theorem. The findings of section 5 are counterexamples
and stay with TLC.

## 5. Findings

- `saved`: "Not yet connected. Save the packet for later."
  (`examples/proxy.rs:87`). A saved packet is only ever sent by a later packet
  of the same client: nothing looks at the queue when the connection comes up.
  The last packet before a silence is never sent.
- `guid`: `handle_packet` asks "Is it possible?" and asserts that every packet
  has a GUID; it is possible (`raknet-c/raknet_types.h:287-288`), and the
  process ends.
- `usermessages`: `Send` wants an identifier from `ID_USER_PACKET_ENUM` on
  (`raknet-c/rakpeer.h:157`); the proxy forwards RakNet's own notifications as
  well. `chat_client` goes further: the first byte it sends is the first
  letter of the line.
- `instance`: replies go to an address, which is "not necessarily a unique
  identifier" (`raknet-c/raknet_types.h:231-234`); they reach the next
  instance behind it.
- `password`: `Connect` makes the pointer to its copy of the password in a
  match arm that owns the copy (`src/rakpeer.rs:1058-1062`); it is freed when
  the match ends, before `RakPeer_Connect` reads it. The header wants "A data
  block that must match the data block on the server"
  (`raknet-c/rakpeer.h:97`). In the model the memory holds the password still
  or something else.

Behaviour the models have and the repository says nothing about: the proxy
never connects an upstream again and never removes an entry from its map, so a
client whose upstream failed is queued for ever; a console thread that panics
leaves a chat program that cannot be ended from its console; a closed standard
input makes the console broadcast empty lines without end.

## 6. What is not modelled

- What RakNet does on the wire (acknowledgements, ordering channels,
  security): its source is not in the repository.
- Time: sleeps of 30 ms, timeouts, and `ReceiveAll` under a flood of packets,
  which returns only when it finds the queue empty.
- A peer that is dropped or shut down gives its queue's packets back; how long
  `Shutdown` blocks is left out.
- `rakpeer.rs` calls `RakPeer_SetIncomingPassword`, `RakPeer_Ping_unconnected`,
  `RakPeer_GetExternalID` and `RakPeer_AddToBanList`, which `rakpeer.h`
  declares and `rakpeer.cpp` does not define: a program that used them would not
  link. The header declares many more functions that are neither defined nor
  called.
- The calls' systems have IPv4 addresses: the programs start their peers with
  IPv4 sockets, so that the assertion on the address family
  (`src/rakpeer.rs:563`) cannot fail in `PeerCalls`. `RakPeer` has its panic.
- What `CloseConnection` closes is RakNet's own lookup by the address it is
  given. The models have it, and no property is about it.
- The conversion of IPv6 addresses is `unimplemented!()`; the conversions of
  `PacketPriority` and `PacketReliability` back to Rust are used by nothing.
- `ClientEasyHandshake_ProcessAnswerWithIdentity` and
  `ServerEasyHandshake_VerifyInitiatorIdentity` have no method in Rust.
- The single counters of the statistics and the bit counts of packets: an
  answer is abstracted to the system it is about.
- `bitstream.cpp` is not compiled into the library.

What the models take for granted of code outside the repository, because the
programs depend on it: RakNet's unassigned address is 0.0.0.0 with port 0, as
in `SystemAddress::unassigned` (the constant `raknet_types.h:266` defines has
all bits set; RakNet's own is what counts at run time); RakNet returns 0 for a
`Send` it refuses; it looks at the GUID of an `AddressOrGUID` first; it leaves
the statistics alone when it does not find the system; libcat refuses an
answer that is not to the last challenge, and may or may not forget a
challenge that was answered (both are allowed); it numbers what an object
encrypts and an object decrypts each number once, only what is whole and comes
from the other end of its session. `AuthenticatedEncryption_Encrypt` adds the
overhead in an `unsigned int` (its parameters, `raknet-c/libcat.cpp:38-41`), and
may or may not notice that the sum wraps (both are allowed): a message of the
eleven lengths below 2^32 may thus be encrypted with its buffer cut, after which
nothing decrypts it, and `MessagesWhole` promises nothing else of these. If a
program processes one answer twice it has two sessions that number from the
start, and libcat takes the second one's messages for the first one's;
`MessagesWhole` promises delivery only to an end that has opened no other
sender's. An unreliable message that was delivered may be reported lost
(`src/rakpeer.rs:69-73`).

## 7. Plan

Done, in this order:

1. `Proxy` with `ProxyProperties`, `Relay`, `ProxyInvariant`, `ProxyProofs`:
   the only program with a protocol of its own.
2. `RakPeer`, `Mailbox`, `RakPeerProofs`: the ground the programs stand on.
3. `Chat`: threads that share a peer.
4. `CTypes` and `PeerCalls`: the conversions, and the calls they are for.
5. `Sending`: from the builder to what a receiver gets.
6. `EasyHandshake`: ownership of the C++ objects and the order of calls.
7. `ChatProofs`, `ProxyProofs` with the replies and the refinement,
   `EasyHandshakeProofs`.
8. `PeerCallsProofs`, `SendingProofs`, `ShimProofs`: the calls, the messages
   and the binding as a whole.

Left:

9. A refinement for `Sending`: a channel per connection that loses its tail
   when the connection ends, implemented by the messages with the defaults.
10. A receipt arrives once for each message that wanted one, unless the
    connection ends first; `Sending` has no fairness yet to state it with.
