----------------------------- MODULE ChatProofs -----------------------------
(***************************************************************************)
(* Proofs about the chat programs: the two threads end in an order in      *)
(* which no call meets a peer that is shut down, and packets are printed   *)
(* as they came.                                                           *)
(***************************************************************************)
EXTENDS Chat, SequenceTheorems, TLAPS

\* Where a thread is says what it knows of the peer and of the other one:
\* the console ends before it has set `stop`, and only then the main thread
\* shuts the peer down.
ControlOK ==
  /\ console = "none" <=> main = "setup" \/ (main = "ended" /\ ~stop)
  /\ active <=> main \in {"test", "receive", "print", "shutdown"}
  /\ main \in {"shutdown", "join"} => stop
  /\ stop => console = "ended"
  /\ console = "ended" => stop
  /\ console = "panicked" => line \in {"undecodable", "empty"}

\* Every packet is in one place, and the four places follow each other.
PlacesOK ==
  /\ printed \o batch \o inbox \o discarded = [n \in 1 .. arrived |-> n]
  /\ main # "print" => batch = <<>>
  /\ main \notin {"join", "ended"} => discarded = <<>>

IInv == TypeOK /\ ControlOK /\ PlacesOK

-----------------------------------------------------------------------------
\* The initial state is one of them.
LEMMA InitIInv == Init => IInv
<1> SUFFICES ASSUME Init PROVE IInv
  OBVIOUS
<1>1. TypeOK
  <2>1. <<>> \in Seq(1 .. MaxPackets)
    BY EmptySeq
  <2>2. "text" \in Line
    BY DEF Line
  <2>3. occupant \in [Slot -> Remote \cup {NoRemote}]
    BY DEF Init
  <2>4. /\ inbox \in Seq(1 .. MaxPackets) /\ batch \in Seq(1 .. MaxPackets)
        /\ printed \in Seq(1 .. MaxPackets) /\ discarded \in Seq(1 .. MaxPackets)
    BY <2>1 DEF Init
  <2>5. active \in BOOLEAN /\ stop \in BOOLEAN
    BY DEF Init
  <2>6. arrived \in 0 .. MaxPackets /\ lines \in 0 .. MaxLines
    BY ChatAssumption DEF Init
  <2>7. target \in Remote \cup {NoAddress} /\ line \in Line
    BY <2>2 DEF Init
  <2>8. main = "setup" /\ console = "none"
    BY DEF Init
  <2> QED
    BY <2>3, <2>4, <2>5, <2>6, <2>7, <2>8 DEF TypeOK
<1>2. ControlOK
  BY DEF Init, ControlOK
<1>3. PlacesOK
  <2>1. printed \o batch \o inbox \o discarded = <<>>
    BY ConcatEmptySeq DEF Init
  <2>2. [n \in 1 .. arrived |-> n] = <<>>
    BY DEF Init
  <2> QED
    BY <2>1, <2>2 DEF Init, PlacesOK
<1> QED
  BY <1>1, <1>2, <1>3 DEF IInv

\* Steps of the console and of RakNet keep every variable to its type.
LEMMA ElsewhereTypes ==
  ASSUME TypeOK, ConsoleThread \/ Network \/ \E l \in Line : Type(l)
  PROVE  TypeOK'
<1> USE ChatAssumption DEF TypeOK
<1>1. CASE ReadFails \/ QueryTarget \/ Broadcast \/ SendFails
  BY <1>1 DEF ReadFails, QueryTarget, Broadcast, SendFails, Console, netVars, mainVars
<1>2. CASE Quit
  BY <1>2 DEF Quit, Console, AfterQuit, netVars, mainVars
<1>3. CASE AskIndexZero
  <2>1. 0 \in Slot
    BY DEF Slot
  <2>2. target' \in Remote \cup {NoAddress}
    BY <1>3, <2>1 DEF AskIndexZero, AddressAt
  <2> QED
    BY <1>3, <2>2 DEF AskIndexZero, Console, netVars, mainVars
<1>4. CASE Disconnect
  BY <1>4 DEF Disconnect, Console, mainVars
<1>5. CASE \E l \in Line : Type(l)
  BY <1>5 DEF Type, netVars, mainVars
<1>6. CASE Network
  <2>1. Packet
    BY <1>6 DEF Network, Leave, Connect, Message
  <2>2. occupant' \in [Slot -> Remote \cup {NoRemote}]
    BY <1>6 DEF Network, Leave, Connect, Message
  <2>3. arrived + 1 \in 1 .. MaxPackets
    BY <2>1 DEF Packet
  <2>4. inbox' \in Seq(1 .. MaxPackets) /\ arrived' \in 0 .. MaxPackets
    BY <2>1, <2>3, AppendProperties DEF Packet
  <2> QED
    BY <2>1, <2>2, <2>4 DEF Packet, mainVars, consoleVars
<1> QED
  BY <1>1, <1>2, <1>3, <1>4, <1>5, <1>6 DEF ConsoleThread

\* And so do those of the main thread.
LEMMA MainTypes ==
  ASSUME TypeOK, MainThread
  PROVE  TypeOK'
<1> USE ChatAssumption DEF TypeOK
<1>1. CASE Setup
  BY <1>1 DEF Setup
<1>2. CASE SetupFails \/ TestStop \/ Printed \/ Join
  BY <1>2 DEF SetupFails, TestStop, Printed, Join, Main, consoleVars
<1>3. CASE ReceiveAll
  BY <1>3, EmptySeq DEF ReceiveAll, AllPackets, Main, consoleVars
<1>4. CASE PrintPacket
  <2>1. Head(batch) \in 1 .. MaxPackets /\ Tail(batch) \in Seq(1 .. MaxPackets)
    BY <1>4, HeadTailProperties DEF PrintPacket, MorePackets
  <2>2. Append(printed, Head(batch)) \in Seq(1 .. MaxPackets)
    BY <2>1, AppendProperties
  <2> QED
    BY <1>4, <2>1, <2>2 DEF PrintPacket, Main, consoleVars
<1>5. CASE Shutdown
  BY <1>5, EmptySeq DEF Shutdown, Main, consoleVars
<1> QED
  BY <1>1, <1>2, <1>3, <1>4, <1>5 DEF MainThread

-----------------------------------------------------------------------------
\* The two threads tell each other where they are.
LEMMA StepControl ==
  ASSUME TypeOK, ControlOK, Next
  PROVE  ControlOK'
<1> USE DEF ControlOK
<1>1. CASE ReadFails \/ Quit \/ AskIndexZero \/ QueryTarget \/ Disconnect
  BY <1>1 DEF ReadFails, Quit, AfterQuit, AskIndexZero, QueryTarget, Disconnect,
              Console, netVars, mainVars
<1>2. CASE Broadcast
  BY <1>2 DEF Broadcast, Console, netVars, mainVars
<1>3. CASE SendFails
  \* The console runs only while the peer is active.
  <2>1. active
    BY <1>3 DEF SendFails, Console, TypeOK
  <2> QED
    BY <1>3, <2>1 DEF SendFails, Console, netVars, mainVars
<1>4. CASE \E l \in Line : Type(l)
  BY <1>4 DEF Type, netVars, mainVars
<1>5. CASE Network
  BY <1>5 DEF Network, Leave, Connect, Message, Packet, mainVars, consoleVars
<1>6. CASE Setup
  BY <1>6 DEF Setup
<1>7. CASE SetupFails \/ TestStop \/ ReceiveAll \/ PrintPacket \/ Printed
  BY <1>7 DEF SetupFails, TestStop, ReceiveAll, PrintPacket, Printed, Main,
              consoleVars, TypeOK
<1>8. CASE Shutdown \/ Join
  BY <1>8 DEF Shutdown, Join, Main, consoleVars
<1> QED
  BY <1>1, <1>2, <1>3, <1>4, <1>5, <1>6, <1>7, <1>8 DEF Next, ConsoleThread, MainThread

-----------------------------------------------------------------------------
\* A packet that arrives is the next in the row.
LEMMA PacketPlaces ==
  ASSUME TypeOK, ControlOK, PlacesOK, Packet
  PROVE  PlacesOK'
<1> DEFINE S == 1 .. MaxPackets
           k == arrived + 1
           before == printed \o batch
<1>1. k \in S /\ inbox \in Seq(S) /\ before \in Seq(S)
  BY ChatAssumption, ConcatProperties DEF TypeOK, Packet
<1>2. discarded = <<>> /\ discarded' = <<>>
  BY DEF PlacesOK, ControlOK, Packet, mainVars
<1>3. before \o inbox = [n \in 1 .. arrived |-> n]
  <2>1. before \o inbox \in Seq(S)
    BY <1>1, ConcatProperties
  <2> QED
    BY <1>2, <2>1, ConcatEmptySeq DEF PlacesOK
<1>4. Append(before \o inbox, k) = [n \in 1 .. k |-> n]
  <2>1. arrived \in Nat
    BY DEF TypeOK
  <2> QED
    BY <1>3, <2>1
<1>5. before \o Append(inbox, k) = Append(before \o inbox, k)
  <2> HIDE DEF before, S, k
  <2>1. before \o inbox \in Seq(S) /\ <<k>> \in Seq(S)
    BY <1>1, ConcatProperties
  <2>2. Append(inbox, k) = inbox \o <<k>>
    BY <1>1, AppendIsConcat
  <2>3. Append(before \o inbox, k) = (before \o inbox) \o <<k>>
    BY <1>1, <2>1, AppendIsConcat
  <2> QED
    BY <1>1, <2>1, <2>2, <2>3, ConcatAssociative
<1>6. before \o Append(inbox, k) \o <<>> = before \o Append(inbox, k)
  <2>1. before \o Append(inbox, k) \in Seq(S)
    BY <1>1, AppendProperties, ConcatProperties
  <2> QED
    BY <2>1, ConcatEmptySeq
<1>7. (printed \o batch \o inbox \o discarded)' = [n \in 1 .. arrived' |-> n]
  BY <1>2, <1>4, <1>5, <1>6 DEF Packet, mainVars
<1> QED
  BY <1>2, <1>7 DEF PlacesOK, Packet, mainVars

\* The steps of the main thread move packets from one place to the next.
LEMMA MainPlaces ==
  ASSUME TypeOK, ControlOK, PlacesOK, MainThread
  PROVE  PlacesOK'
<1> DEFINE S == 1 .. MaxPackets
<1>1. /\ printed \in Seq(S) /\ batch \in Seq(S)
      /\ inbox \in Seq(S) /\ discarded \in Seq(S)
  BY DEF TypeOK
<1> HIDE DEF S
<1>2. CASE Setup \/ SetupFails \/ TestStop \/ Printed \/ Join
  BY <1>2 DEF PlacesOK, Setup, SetupFails, TestStop, Printed, MorePackets, Join, Main
<1>3. CASE ReceiveAll
  <2>1. batch = <<>> /\ batch' = inbox /\ inbox' = <<>>
    BY <1>3 DEF PlacesOK, ReceiveAll, AllPackets, Main
  <2>2. printed \o inbox \o <<>> = printed \o <<>> \o inbox
    <3>1. printed \o inbox \in Seq(S)
      BY <1>1, ConcatProperties
    <3> QED
      BY <1>1, <3>1, ConcatEmptySeq
  <2> QED
    BY <1>3, <2>1, <2>2 DEF PlacesOK, ReceiveAll, Main, consoleVars
<1>4. CASE PrintPacket
  <2>1. batch # <<>> /\ printed' = Append(printed, Head(batch)) /\ batch' = Tail(batch)
    BY <1>4 DEF PrintPacket, MorePackets
  <2>2. Append(printed, Head(batch)) \o Tail(batch) = printed \o batch
    BY <1>1, <2>1
  <2> QED
    BY <1>4, <2>1, <2>2 DEF PlacesOK, PrintPacket, Main, consoleVars
<1>5. CASE Shutdown
  <2>1. discarded = <<>> /\ discarded' = inbox /\ inbox' = <<>> /\ batch = <<>>
    BY <1>5 DEF PlacesOK, Shutdown, Main
  <2>2. printed \o batch \o <<>> \o inbox = printed \o batch \o inbox \o <<>>
    <3>1. /\ printed \o batch \in Seq(S)
          /\ printed \o batch \o inbox \in Seq(S)
      BY <1>1, ConcatProperties
    <3> QED
      BY <1>1, <3>1, ConcatEmptySeq
  <2> QED
    BY <1>5, <2>1, <2>2 DEF PlacesOK, Shutdown, Main, consoleVars
<1> QED
  BY <1>2, <1>3, <1>4, <1>5 DEF MainThread

\* Every step keeps the packets in their four places, in a row.
LEMMA StepPlaces ==
  ASSUME TypeOK, ControlOK, PlacesOK, Next
  PROVE  PlacesOK'
<1>1. CASE ConsoleThread \/ \E l \in Line : Type(l)
  BY <1>1 DEF PlacesOK, ConsoleThread, ReadFails, Quit, AskIndexZero, QueryTarget,
              Disconnect, Broadcast, SendFails, Type, Console, netVars, mainVars
<1>2. CASE Network
  BY <1>2, PacketPlaces DEF Network, Leave, Connect, Message
<1> QED
  BY <1>1, <1>2, MainPlaces DEF Next

-----------------------------------------------------------------------------
\* The inductive invariant of the chat programs holds in every state.
THEOREM ChatInvariant == Spec => []IInv
<1>1. IInv /\ [Next]_vars => IInv'
  <2>1. SUFFICES ASSUME IInv, [Next]_vars PROVE IInv'
    OBVIOUS
  <2>2. CASE Next
    BY <2>1, <2>2, ElsewhereTypes, MainTypes, StepControl, StepPlaces DEF IInv, Next
  <2>3. CASE UNCHANGED vars
    BY <2>1, <2>3 DEF IInv, TypeOK, ControlOK, PlacesOK, vars, netVars, mainVars,
                      consoleVars
  <2> QED
    BY <2>1, <2>2, <2>3
<1> QED
  BY InitIInv, <1>1, PTL DEF Spec

\* Every variable keeps to its type, for any number of systems, indexes,
\* packets and lines.
THEOREM ChatTypes == Spec => []TypeOK
<1>1. IInv => TypeOK
  BY DEF IInv
<1> QED
  BY <1>1, ChatInvariant, PTL

\* No thread calls a peer that the other one has shut down: the main thread
\* gets to Shutdown only when the console thread is past its last call
\* (chat_server.rs:63-67, 109-133).
THEOREM NobodyCallsLate == Spec => []NoCallAfterShutdown
<1>1. IInv => NoCallAfterShutdown
  BY DEF IInv, TypeOK, ControlOK, NoCallAfterShutdown
<1> QED
  BY <1>1, ChatInvariant, PTL

\* What ReceiveAll returned is printed in the order of arrival and to the end,
\* also when quit comes in between (chat_server.rs:109-131).
THEOREM PacketsPrinted == Spec => []PrintedInOrder
<1>1. IInv => PrintedInOrder
  BY DEF IInv, PlacesOK, PrintedInOrder
<1> QED
  BY <1>1, ChatInvariant, PTL

=============================================================================
