-------------------------------- MODULE MCShim --------------------------------
(***************************************************************************)
(* The three parts of the binding that are calls through the C functions:  *)
(* PeerCalls, Sending and EasyHandshake.  They share the types of CTypes   *)
(* and no state, so a behavior is one of one part.                         *)
(***************************************************************************)
EXTENDS CTypes, FiniteSets

CONSTANTS
  Part,                                                   \* of "calls", ...
  Slot, HostLength, MaxCalls, MaxAccepts,                 \* PeerCalls
  Channel, Length, WordSize, Forced, MaxMessages, MaxLeaves,   \* Sending
  U32, MessageLength, MaxMade, MaxGenerated, MaxTotal \* EasyHandshake

ASSUME ShimAssumption ==
  /\ Part \subseteq {"calls", "sending", "handshake"}
  /\ Slot \subseteq SystemIndex /\ IsFiniteSet(Slot) /\ HostLength \subseteq Nat
  /\ 0 \in Channel /\ Length \subseteq Nat \ {0} /\ Forced \subseteq Nat
  /\ WordSize \in Nat \ {0} /\ U32 \in Nat \ {0} /\ MessageLength \subseteq Nat

VARIABLES
  part,
  raknet, setup, call, known, answer, calls, accepts,
  sent, panicked, connected, wire, fate, got, receipts, leaves,
  heap, values, keys, challenges, answers, proofs, ciphertexts, outcome, made

callsVars == <<raknet, setup, call, known, answer, calls, accepts>>
senderVars ==
  <<sent, panicked, connected, wire, fate, got, receipts, leaves>>
handshakeVars ==
  <<heap, values, keys, challenges, answers, proofs, ciphertexts, outcome,
    made>>

\* None, and one.
Passwords == {None, <<1>>}

Calls     == INSTANCE PeerCallsProofs WITH Password <- Passwords
Sender    == INSTANCE SendingProofs WITH Variant <- DOMAIN ReliabilityToC
Handshake == INSTANCE EasyHandshakeProofs

Init ==
  /\ part \in Part
  /\ Calls!Init /\ (part # "calls" => setup = Calls!ServerSetup)
  /\ Sender!Init
  /\ Handshake!Init

Next ==
  /\ UNCHANGED part
  /\ \/ /\ part = "calls" /\ Calls!Next
        /\ UNCHANGED <<senderVars, handshakeVars>>
     \/ /\ part = "sending" /\ Sender!Next
        /\ UNCHANGED <<callsVars, handshakeVars>>
     \/ /\ part = "handshake" /\ Handshake!Next
        /\ UNCHANGED <<callsVars, senderVars>>

Spec == Init /\ [][Next]_<<part, callsVars, senderVars, handshakeVars>>

-----------------------------------------------------------------------------
\* The type invariants of the three parts (raknet_types.h, libcat.h).
TypeOK == Calls!TypeOK /\ Sender!TypeOK /\ Handshake!TypeOK

\* PeerCalls: what RakNet makes of the arguments is what the program meant
\* (rakpeer.rs: the conversions and every method with a pointer argument).
ArgumentsArrive == Calls!ArgumentsArrive

\* PeerCalls: the password RakNet compares is the one the program passed to
\* Connect (rakpeer.rs:1058-1062).
PasswordArrives == Calls!PasswordArrives

\* PeerCalls: a pointer is read while what it points to is there
\* (rakpeer.rs:1089-1095, 1114).
PointersLive == Calls!PointersLive

\* PeerCalls: an answer is about the system that was asked for
\* (rakpeer.rs:1112-1185).
AnswersAboutAsked == Calls!AnswersAboutAsked

\* PeerCalls: every connection a server accepts is secured with its keys
\* (chat_server.rs:18-42).
SecuredConnections == Calls!SecuredConnections

\* Sending: what is sent without choosing a reliability or a channel arrives
\* in order and without a gap (rakpeer.rs:862-872).
DefaultInOrder == Sender!DefaultInOrder

\* Sending: a message arrives where it was meant to, as long as it was
\* (rakpeer.rs:909-942).
ArrivesAsMeant == Sender!ArrivesAsMeant

\* Sending: a receipt carries the number send returned
\* (rakpeer.rs:904-907, 933).
ReceiptsMatch == Sender!ReceiptsMatch

\* EasyHandshake: the C++ objects are those the Rust values own
\* (libcat.rs: the drops, 188-201, 272-288).
Owned == Handshake!Owned

\* EasyHandshake: a handshake succeeds when it should, and its ends agree
\* (libcat.rs:45-67, 150-202, 254-289).
HandshakesAgree == Handshake!HandshakesAgree

\* EasyHandshake: messages leave Decrypt as they entered Encrypt
\* (libcat.rs:69-107).
MessagesWhole == Handshake!MessagesWhole

=============================================================================
