------------------------------ MODULE ShimProofs ------------------------------
(***************************************************************************)
(* What is proved of each part of the binding holds of them side by side:  *)
(* a behavior of the whole is one of every part.                           *)
(***************************************************************************)
EXTENDS MCShim, TLAPS

\* The constants are what each part assumes.
LEMMA ShimConstants ==
  /\ Calls!TypesAssumption /\ Calls!Listed
  /\ Sender!TypesAssumption /\ Sender!Options
  /\ Handshake!Sizes
<1>1. Calls!TypesAssumption
  BY TypesAssumption DEF Calls!TypesAssumption, MAX64, Calls!MAX64
<1>2. Calls!Listed
  <2>1. Calls!IsFiniteSet(Slot) <=> IsFiniteSet(Slot)
    BY DEF IsFiniteSet, Calls!IsFiniteSet
  <2>2. Calls!SystemIndex = SystemIndex
    BY DEF SystemIndex, Calls!SystemIndex
  <2>3. Slot \subseteq SystemIndex /\ IsFiniteSet(Slot) /\ HostLength \subseteq Nat
    BY ShimAssumption, Zenon
  <2> QED
    BY <2>1, <2>2, <2>3, Zenon DEF Calls!Listed
<1>3. Handshake!Sizes
  BY ShimAssumption DEF Handshake!Sizes
<1>4. Sender!TypesAssumption
  BY TypesAssumption DEF Sender!TypesAssumption, MAX64, Sender!MAX64
<1>5. Sender!Options
  <2>1. Sender!ReliabilityToC = ReliabilityToC
    BY DEF ReliabilityToC, Sender!ReliabilityToC
  <2>2. /\ 0 \in Channel /\ Length \subseteq Nat /\ Forced \subseteq Nat
        /\ WordSize \in Nat \ {0}
    BY ShimAssumption
  <2> QED
    BY <2>1, <2>2 DEF Sender!Options
<1> QED
  BY <1>1, <1>2, <1>3, <1>4, <1>5

\* A step of the whole is a step of the handshake or leaves it alone.
LEMMA HandshakePart == Spec => Handshake!Spec
<1>1. Init => Handshake!Init
  BY DEF Init
<1>2. [Next]_<<part, callsVars, senderVars, handshakeVars>>
        => [Handshake!Next]_(Handshake!vars)
  BY DEF Next, handshakeVars, Handshake!vars
<1> QED
  BY <1>1, <1>2, PTL DEF Spec, Handshake!Spec

\* And one of the calls.
LEMMA CallsPart == Spec => Calls!Spec
<1>1. Init => Calls!Init
  BY DEF Init
<1>2. [Next]_<<part, callsVars, senderVars, handshakeVars>>
        => [Calls!Next]_(Calls!vars)
  BY DEF Next, callsVars, Calls!vars
<1> QED
  BY <1>1, <1>2, PTL DEF Spec, Calls!Spec

\* And one of the sender.
LEMMA SenderPart == Spec => Sender!Spec
<1>1. Init => Sender!Init
  BY DEF Init
<1>2. [Next]_<<part, callsVars, senderVars, handshakeVars>>
        => [Sender!Next]_(Sender!vars)
  BY DEF Next, senderVars, Sender!vars
<1> QED
  BY <1>1, <1>2, PTL DEF Spec, Sender!Spec

\* What the three parts keep and pass has its type (raknet_types.h, libcat.h).
THEOREM ShimTypes == Spec => []TypeOK
<1>1. Calls!Spec => []Calls!TypeOK
  BY ShimConstants, Calls!CallsTyped
<1>2. Sender!Spec => []Sender!TypeOK
  BY ShimConstants, Sender!SendingTypes
<1>3. Handshake!Spec => []Handshake!TypeOK
  BY ShimConstants, Handshake!HandshakeTypes
<1> QED
  BY <1>1, <1>2, <1>3, CallsPart, SenderPart, HandshakePart, PTL DEF TypeOK

\* The C++ objects are those the Rust values own (libcat.rs: the drops).
THEOREM ShimOwned == Spec => []Owned
<1>1. Handshake!Spec => []Handshake!Owned
  BY Handshake!HandshakesOwn
<1> QED
  BY <1>1, HandshakePart, PTL DEF Owned

\* Handshakes succeed when they should, and their ends agree (libcat.rs:45-67,
\* 150-202, 254-289).
THEOREM ShimAgree == Spec => []HandshakesAgree
<1>1. Handshake!Spec => []Handshake!HandshakesAgree
  BY ShimConstants, Handshake!HandshakesConcur
<1> QED
  BY <1>1, HandshakePart, PTL DEF HandshakesAgree

\* A message that fits a u32 with its overhead leaves Decrypt at the other end as
\* it entered Encrypt, once, in whatever order ciphertexts come (libcat.rs:69-107).
THEOREM ShimMessages == Spec => []MessagesWhole
<1>1. Handshake!Spec => []Handshake!MessagesWhole
  BY ShimConstants, Handshake!HandshakeMessages
<1> QED
  BY <1>1, HandshakePart, PTL DEF MessagesWhole

\* What RakNet sees is what the program meant (rakpeer.rs: the conversions and
\* every method with a pointer argument).
THEOREM ShimArrive == Spec => []ArgumentsArrive
<1>1. Calls!Spec => []Calls!ArgumentsArrive
  BY ShimConstants, Calls!CallsArrive
<1> QED
  BY <1>1, CallsPart, PTL DEF ArgumentsArrive

\* No pointer is read that leads nowhere (rakpeer.rs:1089-1095, 1114).
THEOREM ShimPointers == Spec => []PointersLive
<1>1. Calls!Spec => []Calls!PointersLive
  BY ShimConstants, Calls!CallsPointers
<1> QED
  BY <1>1, CallsPart, PTL DEF PointersLive

\* Every answer is about the system that was asked for (rakpeer.rs:1112-1185).
THEOREM ShimAnswers == Spec => []AnswersAboutAsked
<1>1. Calls!Spec => []Calls!AnswersAboutAsked
  BY ShimConstants, Calls!CallsAnswer
<1> QED
  BY <1>1, CallsPart, PTL DEF AnswersAboutAsked

\* A server's connections are secured (chat_server.rs:18-42).
THEOREM ShimSecured == Spec => []SecuredConnections
<1>1. Calls!Spec => []Calls!SecuredConnections
  BY ShimConstants, Calls!CallsSecured
<1> QED
  BY <1>1, CallsPart, PTL DEF SecuredConnections

\* What is sent with the builder's defaults arrives in the order of the calls,
\* once and without a gap (rakpeer.rs:862-872).
THEOREM ShimDefaults == Spec => []DefaultInOrder
<1>1. Sender!Spec => []Sender!DefaultInOrder
  BY ShimConstants, Sender!DefaultsInOrder
<1> QED
  BY <1>1, SenderPart, PTL DEF DefaultInOrder

\* A message arrives only where it was meant to, and as long as it was
\* (rakpeer.rs:909-942).
THEOREM ShimMeant == Spec => []ArrivesAsMeant
<1>1. Sender!Spec => []Sender!ArrivesAsMeant
  BY ShimConstants, Sender!MessagesAsMeant
<1> QED
  BY <1>1, SenderPart, PTL DEF ArrivesAsMeant

\* Receipts carry the numbers send returned (rakpeer.rs:904-907, 933).
THEOREM ShimReceipts == Spec => []ReceiptsMatch
<1>1. Sender!Spec => []Sender!ReceiptsMatch
  BY ShimConstants, Sender!ReceiptsCarryNumbers
<1> QED
  BY <1>1, SenderPart, PTL DEF ReceiptsMatch

=============================================================================
