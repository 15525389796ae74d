------------------------------- MODULE CTypes -------------------------------
(***************************************************************************)
(* The structures of raknet_types.h and the conversions between them and   *)
(* the types of rakpeer.rs.  A number that has a byte order is the         *)
(* sequence of its bytes in memory, a Rust Option the empty sequence or    *)
(* that of its value, a pointer to data the sequence of what it points to  *)
(* or NULL.                                                                *)
(***************************************************************************)
EXTENDS Integers, Sequences
SequenceOps == INSTANCE SequencesExt

CONSTANTS
  Byte,       \* the bytes addresses and ports are made of
  TimeRange,  \* how many numbers a TimeMS can hold
  System,     \* remote systems, numbers
  Own         \* the number of the peer itself

\* u64::MAX, a number that is no GUID of a system.
MAX64 == 99

ASSUME TypesAssumption ==
  /\ {0, 1} \subseteq Byte /\ Byte \subseteq Nat
  /\ TimeRange \in Nat \ {0}
  /\ System \subseteq Byte \ {0, MAX64} /\ Own \in Nat \ System

AF_INET == 2
NULL    == <<>>
None    == <<>>
Some(x) == <<x>>

-----------------------------------------------------------------------------
SystemIndex == 0 .. 65535

UNASSIGNED_PLAYER_INDEX == 65535

\* Slip: -1 for none, which the header's comments ask for.
MinusOne(index) == IF index = None THEN -1 ELSE index[1]

IndexToC(index) == IF index = None THEN UNASSIGNED_PLAYER_INDEX ELSE index[1]

IndexToRust(i) == IF i = UNASSIGNED_PLAYER_INDEX THEN None ELSE Some(i)

-----------------------------------------------------------------------------
Word == Seq(Byte)

SystemAddress ==
  [sin_family : {AF_INET}, sin_port : Word, s_addr : Word,
   debugPort : Word, systemIndex : SystemIndex]

\* Slip: the number is taken as it is, as if the machine were big-endian.
AsItIs(w) == w

\* u32::to_be and u16::to_be, on a little-endian machine.
ToBE(w) == SequenceOps!Reverse(w)

\* SocketAddr::V4 only: the conversion of a V6 address is unimplemented!().
AddressToC(a) ==
  [sin_family |-> AF_INET, sin_port |-> ToBE(a.port), s_addr |-> ToBE(a.ip),
   debugPort |-> a.debug_port, systemIndex |-> IndexToC(a.system_index)]

AddressToRust(c) ==
  [ip |-> ToBE(c.s_addr), port |-> ToBE(c.sin_port),
   debug_port |-> c.debugPort, system_index |-> IndexToRust(c.systemIndex)]

\* Slip: all bits set, the constant of raknet_types.h.
AllOnes == [ip |-> <<1, 1>>, port |-> <<1, 1>>, debug_port |-> <<0, 0>>,
            system_index |-> None]

\* SystemAddress::unassigned(), 0.0.0.0:0
UnassignedAddress ==
  [ip |-> <<0, 0>>, port |-> <<0, 0>>, debug_port |-> <<0, 0>>,
   system_index |-> None]

-----------------------------------------------------------------------------
RakNetGUID == [g : Nat, systemIndex : SystemIndex]

UnassignedGuid == [g |-> MAX64, system_index |-> None]

GuidToC(guid) == [g |-> guid.g, systemIndex |-> IndexToC(guid.system_index)]

GuidToRust(c) == [g |-> c.g, system_index |-> IndexToRust(c.systemIndex)]

AddressOrGUID == [rakNetGuid : RakNetGUID, systemAddress : SystemAddress]

ByAddress(a) == [kind |-> "Address", address |-> a]
ByGuid(guid) == [kind |-> "Guid", guid |-> guid]

\* Slip: the side that is not used is all zeroes.
OtherSideZero(target) ==
  [systemAddress |-> AddressToC(IF target.kind = "Address" THEN target.address
                                ELSE UnassignedAddress),
   rakNetGuid |-> IF target.kind = "Guid" THEN GuidToC(target.guid)
                  ELSE [g |-> 0, systemIndex |-> 0]]

\* The side that is not used is unassigned.
TargetToC(target) ==
  [systemAddress |-> AddressToC(IF target.kind = "Address" THEN target.address
                                ELSE UnassignedAddress),
   rakNetGuid |-> GuidToC(IF target.kind = "Guid" THEN target.guid
                          ELSE UnassignedGuid)]

-----------------------------------------------------------------------------
\* Systems as a program names them and as RakNet keeps them.

Literal(s) ==
  [ip |-> <<s, 0>>, port |-> <<1, 0>>, debug_port |-> <<0, 0>>,
   system_index |-> None]

InRakNet(s, i) ==
  [sin_family |-> AF_INET, s_addr |-> <<0, s>>, sin_port |-> <<0, 1>>,
   debugPort |-> <<1, 0>>, systemIndex |-> i]

NoAddress ==
  [sin_family |-> AF_INET, s_addr |-> <<0, 0>>, sin_port |-> <<0, 0>>,
   debugPort |-> <<0, 0>>, systemIndex |-> UNASSIGNED_PLAYER_INDEX]

GuidOf(s, i) == [g |-> s, systemIndex |-> i]
NoGuid       == [g |-> MAX64, systemIndex |-> UNASSIGNED_PLAYER_INDEX]

\* RakNet goes by IP and port; the unassigned address stands for the peer.
Resolve(c) ==
  {s \in System : /\ c.s_addr = InRakNet(s, 0).s_addr
                  /\ c.sin_port = InRakNet(s, 0).sin_port}
    \cup {s \in {Own} : /\ c.s_addr = NoAddress.s_addr
                        /\ c.sin_port = NoAddress.sin_port}

\* Of the two sides of an AddressOrGUID the GUID counts unless unassigned.
ResolveTarget(c) ==
  IF c.rakNetGuid.g = NoGuid.g THEN Resolve(c.systemAddress)
  ELSE {c.rakNetGuid.g} \cap System

-----------------------------------------------------------------------------
PublicKeyMode ==
  {"PKM_INSECURE_CONNECTION", "PKM_ACCEPT_ANY_PUBLIC_KEY",
   "PKM_USE_KNOWN_PUBLIC_KEY", "PKM_USE_TWO_WAY_AUTHENTICATION"}

\* The variants of the Rust enum, with the keys each of them holds.
Key(server, own) ==
  {[mode |-> "PKM_INSECURE_CONNECTION", remote |-> NULL, mine |-> NULL],
   [mode |-> "PKM_ACCEPT_ANY_PUBLIC_KEY", remote |-> NULL, mine |-> NULL],
   [mode |-> "PKM_USE_KNOWN_PUBLIC_KEY", remote |-> <<server>>, mine |-> NULL],
   [mode |-> "PKM_USE_TWO_WAY_AUTHENTICATION", remote |-> <<server>>,
    mine |-> <<own>>]}

\* The structure RakPeer_Connect takes, with NULL for a key that is not there.
PublicKey(keys) ==
  [publicKeyMode : PublicKeyMode, remoteServerPublicKey : keys,
   myPublicKey : keys, myPrivateKey : keys]

\* Slip: the mode is passed on, the key of the server is not.
KeyForgotten(k) ==
  [publicKeyMode |-> k.mode, remoteServerPublicKey |-> NULL,
   myPublicKey |-> k.mine, myPrivateKey |-> k.mine]

KeyToC(k) ==
  [publicKeyMode |-> k.mode, remoteServerPublicKey |-> k.remote,
   myPublicKey |-> k.mine, myPrivateKey |-> k.mine]

-----------------------------------------------------------------------------
\* Slip: as long as the array that is to hold the string.
UpTo32(length) == IF length > 32 THEN None ELSE Some(length)

\* Strings longer than 16 bytes are refused; a string is its length.
string_to_char_array(length) == IF length > 16 THEN None ELSE Some(length)

\* Which socket RakPeer_Startup is to open; hostAddress is an array of 32.
SocketDescriptor == [port : Word, hostAddress : 0 .. 32, socketFamily : {AF_INET}]

\* How far C reads a string in an array of 32: without a 0 in it, too far.
CString(length) == IF length < 32 THEN length ELSE 99

\* Milliseconds; TimeRange stands for 2^32.
TimeMS(ms) == ms % TimeRange

-----------------------------------------------------------------------------
PacketPriority ==
  {"IMMEDIATE_PRIORITY", "HIGH_PRIORITY", "MEDIUM_PRIORITY", "LOW_PRIORITY"}

Guarantee(reliable, order, receipt) ==
  [reliable |-> reliable, order |-> order, receipt |-> receipt]

\* What each way to deliver a packet promises.
PacketReliability ==
  [UNRELIABLE            |-> Guarantee(FALSE, "none", FALSE),
   UNRELIABLE_SEQUENCED  |-> Guarantee(FALSE, "sequenced", FALSE),
   RELIABLE              |-> Guarantee(TRUE, "none", FALSE),
   RELIABLE_ORDERED      |-> Guarantee(TRUE, "ordered", FALSE),
   RELIABLE_SEQUENCED    |-> Guarantee(TRUE, "sequenced", FALSE),
   UNRELIABLE_WITH_ACK_RECEIPT       |-> Guarantee(FALSE, "none", TRUE),
   RELIABLE_WITH_ACK_RECEIPT         |-> Guarantee(TRUE, "none", TRUE),
   RELIABLE_ORDERED_WITH_ACK_RECEIPT |-> Guarantee(TRUE, "ordered", TRUE)]

\* Slip: one message type below the one that was asked for.
OneBelow ==
  [Unreliable |-> "UNRELIABLE", UnreliableSequenced |-> "UNRELIABLE",
   Reliable |-> "UNRELIABLE_SEQUENCED", ReliableOrdered |-> "RELIABLE",
   ReliableSequenced |-> "RELIABLE_ORDERED",
   UnreliableWithAckReceipt |-> "RELIABLE_SEQUENCED",
   ReliableWithAckReceipt |-> "UNRELIABLE_WITH_ACK_RECEIPT",
   ReliableOrderedWithAckReceipt |-> "RELIABLE_WITH_ACK_RECEIPT"]

ReliabilityToC ==
  [Unreliable |-> "UNRELIABLE", UnreliableSequenced |-> "UNRELIABLE_SEQUENCED",
   Reliable |-> "RELIABLE", ReliableOrdered |-> "RELIABLE_ORDERED",
   ReliableSequenced |-> "RELIABLE_SEQUENCED",
   UnreliableWithAckReceipt |-> "UNRELIABLE_WITH_ACK_RECEIPT",
   ReliableWithAckReceipt |-> "RELIABLE_WITH_ACK_RECEIPT",
   ReliableOrderedWithAckReceipt |-> "RELIABLE_ORDERED_WITH_ACK_RECEIPT"]

PriorityToC ==
  [Immediate |-> "IMMEDIATE_PRIORITY", High |-> "HIGH_PRIORITY",
   Medium |-> "MEDIUM_PRIORITY", Low |-> "LOW_PRIORITY"]

-----------------------------------------------------------------------------
StartupResult ==
  {"RAKNET_STARTED", "RAKNET_ALREADY_STARTED", "INVALID_SOCKET_DESCRIPTORS",
   "INVALID_MAX_CONNECTIONS", "SOCKET_FAMILY_NOT_SUPPORTED",
   "SOCKET_PORT_ALREADY_IN_USE", "SOCKET_FAILED_TO_BIND",
   "SOCKET_FAILED_TEST_SEND", "PORT_CANNOT_BE_ZERO",
   "FAILED_TO_CREATE_NETWORK_THREAD", "COULD_NOT_GENERATE_GUID",
   "STARTUP_OTHER_FAILURE"}

ConnectionAttemptResult ==
  {"CONNECTION_ATTEMPT_STARTED", "INVALID_PARAMETER",
   "CANNOT_RESOLVE_DOMAIN_NAME", "ALREADY_CONNECTED_TO_ENDPOINT",
   "CONNECTION_ATTEMPT_ALREADY_IN_PROGRESS", "SECURITY_INITIALIZATION_FAILED"}

\* What is known of one connection, abstracted to the systems it is about.
RakNetStatistics == [of : SUBSET Nat]

NoStatistics == [of |-> {}]

=============================================================================
