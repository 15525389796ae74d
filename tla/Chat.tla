-------------------------------- MODULE Chat --------------------------------
(***************************************************************************)
(* The chat programs (examples/chat_server.rs, examples/chat_client.rs).   *)
(* Both share one RakPeer between two threads: the console thread reads a  *)
(* line and acts on it, the main thread prints what it receives until the  *)
(* console has set `stop`, then shuts the peer down.  They differ in their *)
(* set-up and in the wording of what they send; the client's only remote   *)
(* system is the server.                                                   *)
(*                                                                         *)
(* RakNet's threads run beside both.  ReceiveAll, which only the main      *)
(* thread calls, is one step (theorem ReceiveIsAtomic of RakPeerProofs).   *)
(* Packets are numbered as they arrive.                                    *)
(***************************************************************************)
EXTENDS Naturals, Sequences

CONSTANTS
  Remote,        \* systems that may connect, named by their addresses
  Slots,         \* Startup(8): system indexes 0 .. Slots - 1
  NoRemote,      \* nobody
  NoAddress,     \* SystemAddress::unassigned()
  MaxPackets,    \* bound: packets that arrive
  MaxLines       \* bound: lines the user types

ASSUME ChatAssumption ==
  /\ Slots \in Nat \ {0}
  /\ NoRemote \notin Remote
  /\ NoAddress \notin Remote
  /\ MaxPackets \in Nat
  /\ MaxLines \in Nat

Slot == 0 .. Slots - 1

\* What is asked of the system at index 0.
Query == {"stat", "ping", "get_last_ping"}

\* A line is a command or text to send; "empty" is text of which the client
\* sends no byte, "undecodable" is not UTF-8.
Line == Query \cup {"quit", "disconnect", "text", "empty", "undecodable"}

VARIABLES
  occupant,      \* the peer's remote system list: who holds which index
  inbox,         \* the peer's receive queue
  active,        \* the peer is started and not shut down
  stop,          \* the AtomicBool
  main,          \* where the main thread is
  batch,         \* rest of the Vec ReceiveAll returned
  console,       \* where the console thread is
  line,          \* the line it works on
  target,        \* the address it got from GetSystemAddressFromIndex(0)
  arrived,       \* history: how many packets arrived
  printed,       \* history: the packets printed
  discarded,     \* history: the packets Shutdown found in the queue
  lines          \* history: how many lines were typed

netVars     == <<occupant, inbox, active, arrived>>
mainVars    == <<main, batch, printed, discarded>>
consoleVars == <<console, line, target, lines>>
vars == <<netVars, mainVars, consoleVars, stop>>

Init ==
  /\ occupant = [i \in Slot |-> NoRemote]
  /\ inbox = <<>>
  /\ active = FALSE
  /\ stop = FALSE
  /\ main = "setup"
  /\ batch = <<>>
  /\ console = "none"
  /\ line = "text"
  /\ target = NoAddress
  /\ arrived = 0
  /\ printed = <<>>
  /\ discarded = <<>>
  /\ lines = 0

-----------------------------------------------------------------------------
(***************************************************************************)
(* RakNet's threads.                                                       *)
(***************************************************************************)
Packet ==
  /\ active
  /\ arrived < MaxPackets
  /\ arrived' = arrived + 1
  /\ inbox' = Append(inbox, arrived + 1)
  /\ UNCHANGED <<active, mainVars, consoleVars, stop>>

Connect(r, i) ==
  /\ occupant[i] = NoRemote
  /\ \A j \in Slot : occupant[j] # r
  /\ occupant' = [occupant EXCEPT ![i] = r]
  /\ Packet

Leave(i) ==
  /\ occupant[i] # NoRemote
  /\ occupant' = [occupant EXCEPT ![i] = NoRemote]
  /\ Packet

\* A message, or news such as that of a failed connection attempt.
Message == Packet /\ UNCHANGED occupant

-----------------------------------------------------------------------------
(***************************************************************************)
(* The console thread.                                                     *)
(***************************************************************************)
Type(l) ==
  /\ console = "reading"
  /\ lines < MaxLines
  /\ lines' = lines + 1
  /\ console' = "read"
  /\ line' = l
  /\ UNCHANGED <<netVars, mainVars, target, stop>>

Console(from, to) ==
  /\ console = from
  /\ console' = to
  /\ UNCHANGED <<mainVars, line, lines>>

\* read_line(..).unwrap()
ReadFails ==
  /\ line = "undecodable"
  /\ Console("read", "panicked")
  /\ UNCHANGED <<netVars, target, stop>>

\* Slip: the loop goes on after quit.
GoesOn == "reading"

AfterQuit == "ended"

Quit ==
  /\ line = "quit"
  /\ Console("read", AfterQuit)
  /\ stop' = TRUE
  /\ UNCHANGED <<netVars, target>>

\* Slip: whatever the list holds.
RawAddressAt(i) == occupant[i]

\* GetSystemAddressFromIndex
AddressAt(i) == IF occupant[i] = NoRemote THEN NoAddress ELSE occupant[i]

AskIndexZero ==
  /\ line \in Query \cup {"disconnect"}
  /\ Console("read", "asked")
  /\ target' = AddressAt(0)
  /\ UNCHANGED <<netVars, stop>>

\* Statistics and pings only read; with nobody there, no ping is sent.
QueryTarget ==
  /\ line \in Query
  /\ Console("asked", "reading")
  /\ UNCHANGED <<netVars, target, stop>>

\* RakNet looks for the address that CloseConnection passes on.
SlotsOf(address) == {i \in Slot : occupant[i] = address}

Disconnect ==
  /\ line = "disconnect"
  /\ Console("asked", "reading")
  /\ occupant' = [i \in Slot |-> IF i \in SlotsOf(target) THEN NoRemote
                                                          ELSE occupant[i]]
  /\ UNCHANGED <<inbox, active, arrived, target, stop>>

\* send().unwrap(): Send returns 0 when the peer is not running, and may do so
\* when there is nothing to send.
Broadcast ==
  /\ line \in {"text", "empty"}
  /\ active
  /\ Console("read", "reading")
  /\ UNCHANGED <<netVars, target, stop>>

SendFails ==
  /\ line = "empty" \/ (line = "text" /\ ~active)
  /\ Console("read", "panicked")
  /\ UNCHANGED <<netVars, target, stop>>

-----------------------------------------------------------------------------
(***************************************************************************)
(* The main thread.                                                        *)
(***************************************************************************)
Main(from, to) ==
  /\ main = from
  /\ main' = to
  /\ UNCHANGED <<consoleVars, arrived>>

\* Anything up to the console thread's spawn may fail: main returns.
SetupFails ==
  /\ Main("setup", "ended")
  /\ UNCHANGED <<occupant, inbox, active, batch, printed, discarded, stop>>

Setup ==
  /\ main = "setup"
  /\ main' = "test"
  /\ active' = TRUE
  /\ console' = "reading"
  /\ UNCHANGED <<occupant, inbox, arrived, batch, printed, discarded, stop,
                 line, target, lines>>

\* while !stop.load(..)
TestStop ==
  /\ Main("test", IF stop THEN "shutdown" ELSE "receive")
  /\ UNCHANGED <<occupant, inbox, active, batch, printed, discarded, stop>>

\* Slip: the loop ends with its first packet.
FirstPacket == IF inbox = <<>> THEN <<>> ELSE <<Head(inbox)>>

AllPackets == inbox

ReceiveAll ==
  /\ Main("receive", "print")
  /\ batch' = AllPackets
  /\ inbox' = <<>>
  /\ UNCHANGED <<occupant, active, printed, discarded, stop>>

\* Slip: the loop leaves the packets when stop is set.
StopsPrinting == batch # <<>> /\ ~stop

MorePackets == batch # <<>>

PrintPacket ==
  /\ Main("print", "print")
  /\ MorePackets
  /\ printed' = Append(printed, Head(batch))
  /\ batch' = Tail(batch)
  /\ UNCHANGED <<occupant, inbox, active, discarded, stop>>

Printed ==
  /\ Main("print", "test")
  /\ ~MorePackets
  /\ UNCHANGED <<occupant, inbox, active, batch, printed, discarded, stop>>

\* Shutdown closes all connections and drops what has not been received.
Shutdown ==
  /\ Main("shutdown", "join")
  /\ active' = FALSE
  /\ occupant' = [i \in Slot |-> NoRemote]
  /\ discarded' = inbox
  /\ inbox' = <<>>
  /\ UNCHANGED <<batch, printed, stop>>

\* The scope waits for the console thread.
Join ==
  /\ console \in {"ended", "panicked"}
  /\ Main("join", "ended")
  /\ UNCHANGED <<occupant, inbox, active, batch, printed, discarded, stop>>

-----------------------------------------------------------------------------
ConsoleThread ==
  \/ ReadFails \/ Quit \/ AskIndexZero \/ QueryTarget \/ Disconnect
  \/ Broadcast \/ SendFails

MainThread ==
  \/ Setup \/ SetupFails \/ TestStop \/ ReceiveAll \/ PrintPacket \/ Printed
  \/ Shutdown \/ Join

Network ==
  \/ \E i \in Slot : Leave(i) \/ \E r \in Remote : Connect(r, i)
  \/ Message

Next == ConsoleThread \/ MainThread \/ Network \/ \E l \in Line : Type(l)

\* Both threads are scheduled; nobody has to type, nor to send packets.
Fairness == WF_vars(ConsoleThread) /\ WF_vars(MainThread)

Spec == Init /\ [][Next]_vars /\ Fairness

-----------------------------------------------------------------------------
\* The type of every variable.
TypeOK ==
  /\ occupant \in [Slot -> Remote \cup {NoRemote}]
  /\ inbox \in Seq(1 .. MaxPackets)
  /\ active \in BOOLEAN
  /\ stop \in BOOLEAN
  /\ main \in {"setup", "test", "receive", "print", "shutdown", "join", "ended"}
  /\ batch \in Seq(1 .. MaxPackets)
  /\ console \in {"none", "reading", "read", "asked", "ended", "panicked"}
  /\ line \in Line
  /\ target \in Remote \cup {NoAddress}
  /\ arrived \in 0 .. MaxPackets
  /\ printed \in Seq(1 .. MaxPackets)
  /\ discarded \in Seq(1 .. MaxPackets)
  /\ lines \in 0 .. MaxLines

\* The peer the two threads share is shut down by one of them only when the
\* other is past its last call: Send never fails for that, so no console
\* panics but for a line it cannot read or send.
NoCallAfterShutdown ==
  /\ main \in {"join", "ended"} => console \in {"none", "ended"}
  /\ console = "panicked" => line \in {"undecodable", "empty"} /\ active
  /\ console \notin {"none", "ended"} => active

\* What was received is printed in the order of arrival and completely, quit
\* or not; only packets that RakNet had not handed out are lost by Shutdown.
PrintedInOrder ==
  /\ printed \o batch \o inbox \o discarded = [n \in 1 .. arrived |-> n]
  /\ main \in {"shutdown", "join", "ended"} => batch = <<>>

\* quit ends the program, whatever else happens.
QuitEnds == (console = "read" /\ line = "quit") ~> main = "ended"

\* A packet is printed, unless the program ends before it is received.
EveryPacketPrinted ==
  \A n \in 1 .. MaxPackets :
    arrived >= n ~> (\E i \in DOMAIN printed : printed[i] = n) \/ stop

=============================================================================
