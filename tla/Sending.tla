------------------------------- MODULE Sending -------------------------------
(***************************************************************************)
(* Sending through the builder of rakpeer.rs and RakPeer_Send_data: which  *)
(* systems a message reaches, in which order, and what the receipts say.   *)
(* RakNet delivers on each connection what PacketReliability promises and  *)
(* nothing more; a connection that ends takes with it what is under way.   *)
(***************************************************************************)
EXTENDS CTypes

CONSTANTS
  Variant,      \* Rust's PacketReliability, as many of its variants as wanted
  Channel,      \* ordering channels, 0 among them
  Length,       \* lengths of messages
  WordSize,     \* stands for 2^32
  Forced,       \* receipt numbers programs force
  MaxMessages,  \* bound: calls of send
  MaxLeaves     \* bound: connections that end

VARIABLES
  sent,       \* what the program chose in each call, and what it returned
  panicked,   \* a builder without data or target was sent
  connected,  \* the systems that are connected
  wire,       \* what was put on each connection since it began
  fate,       \* what became of each of these: "way", "there", "told", "lost"
  got,        \* what arrived, in the order of arrival: entries of wire
  receipts,   \* the receipts that came back
  leaves      \* how many connections ended

vars == <<sent, panicked, connected, wire, fate, got, receipts, leaves>>

Init ==
  /\ sent = <<>>
  /\ panicked = FALSE
  /\ connected = System
  /\ wire = [s \in System |-> <<>>]
  /\ fate = [s \in System |-> <<>>]
  /\ got = [s \in System |-> <<>>]
  /\ receipts = {}
  /\ leaves = 0

-----------------------------------------------------------------------------
\* Slip: a builder that starts with what is cheapest.
ReliableOnly ==
  [data |-> None, priority |-> "High", reliability |-> "Reliable",
   ordering_channel |-> 0, target |-> None, force_receipt_number |-> None]

Sender_new ==
  [data |-> None, priority |-> "High", reliability |-> "ReliableOrdered",
   ordering_channel |-> 0, target |-> None, force_receipt_number |-> None]

\* Each method of the builder sets one field.
Build(fields) ==
  [f \in DOMAIN Sender_new |->
     IF f \in DOMAIN fields THEN fields[f] ELSE Sender_new[f]]

Broadcast == [kind |-> "Broadcast"]
To(target) == [kind |-> "SystemIdentifier", system |-> target]

\* Slip: a broadcast is sent to a system that does not exist.
NotBroadcast(target) ==
  IF target.kind = "Broadcast"
  THEN [systemIdentifier |-> TargetToC(ByGuid(UnassignedGuid)), broadcast |-> FALSE]
  ELSE [systemIdentifier |-> TargetToC(target.system), broadcast |-> TRUE]

\* AddressOrGuid::unassigned() and true, or the system and false.
Recipient(target) ==
  IF target.kind = "Broadcast"
  THEN [systemIdentifier |-> TargetToC(ByAddress(UnassignedAddress)),
        broadcast |-> TRUE]
  ELSE [systemIdentifier |-> TargetToC(target.system), broadcast |-> FALSE]

\* Slip: the length in half a word.
HalfWord(n) == n % (WordSize \div 2)

\* data.len() as i32
I32(n) ==
  LET low == n % WordSize
  IN  IF 2 * low >= WordSize THEN low - WordSize ELSE low

\* Slip: the number the program forces gets lost.
Ignored(option) == 0

\* self.force_receipt_number.unwrap_or(0)
UnwrapOr0(option) == IF option = None THEN 0 ELSE option[1]

-----------------------------------------------------------------------------
\* RakNet: who gets it, the number it returns, 0 for bad input.
Systems(c, broadcast) ==
  IF broadcast THEN connected \ ResolveTarget(c)
  ELSE connected \cap ResolveTarget(c)

BadInput(length, c, broadcast) ==
  length < 0 \/ (~broadcast /\ ResolveTarget(c) = {Own})

Number(n) == IF n = 0 THEN Len(sent) + 1 ELSE n

RakPeer_Send_data(length, priority, reliability, channel, c, broadcast, n) ==
  LET entry == [id |-> Len(sent) + 1, length |-> length, priority |-> priority,
                reliability |-> reliability, channel |-> channel,
                number |-> Number(n)]
      reached == IF BadInput(length, c, broadcast) THEN {} ELSE Systems(c, broadcast)
  IN  /\ wire' = [s \in System |->
                    IF s \in reached THEN Append(wire[s], entry) ELSE wire[s]]
      /\ fate' = [s \in System |->
                    IF s \in reached THEN Append(fate[s], "way") ELSE fate[s]]

\* The builder is consumed: a number, or Err(()) for RakNet's 0.
Send(chosen) ==
  LET sender == Build(chosen)
      r == Recipient(sender.target[1])
      length == I32(sender.data[1])
      n == UnwrapOr0(sender.force_receipt_number)
  IN  /\ sender.data # None /\ sender.target # None
      /\ RakPeer_Send_data(length, PriorityToC[sender.priority],
                           ReliabilityToC[sender.reliability],
                           sender.ordering_channel, r.systemIdentifier,
                           r.broadcast, n)
      /\ sent' = Append(sent,
           [chosen |-> chosen, to |-> connected,
            result |-> IF BadInput(length, r.systemIdentifier, r.broadcast)
                       THEN None ELSE Some(Number(n))])
      /\ UNCHANGED <<panicked, connected, got, receipts, leaves>>

\* panic!("No data"), panic!("No target")
SendPanics(chosen) ==
  /\ Build(chosen).data = None \/ Build(chosen).target = None
  /\ panicked' = TRUE
  /\ UNCHANGED <<sent, connected, wire, fate, got, receipts, leaves>>

\* The fields programs choose: no more than they must, to everybody, to a
\* system by address or GUID, to nobody; some more; or too few.
Target ==
  {Broadcast, To(ByAddress(UnassignedAddress))}
    \cup {To(ByAddress(Literal(s))) : s \in System}
    \cup {To(ByGuid(GuidToRust(GuidOf(s, 0)))) : s \in System}

Choices ==
  {[data |-> Some(1), target |-> Some(t)] : t \in Target}
    \cup {[data |-> Some(n), target |-> Some(Broadcast)] : n \in Length}
    \cup {[data |-> Some(1), target |-> Some(Broadcast),
           reliability |-> r, ordering_channel |-> c] : r \in Variant, c \in Channel}
    \cup {[data |-> Some(1), target |-> Some(Broadcast), priority |-> p] :
            p \in {"Immediate", "Low"}}
    \cup {[data |-> Some(1), target |-> Some(Broadcast),
           reliability |-> "ReliableWithAckReceipt",
           force_receipt_number |-> Some(n)] : n \in Forced}
    \cup {[priority |-> "High"], [data |-> Some(1)]}

-----------------------------------------------------------------------------
\* RakNet delivers.

Promise(s, k) == PacketReliability[wire[s][k].reliability]

SameChannel(s, j, k) == wire[s][j].channel = wire[s][k].channel

Arrived(s) == {k \in DOMAIN wire[s] : fate[s][k] \in {"there", "told"}}

\* Ordered messages wait for the ordered ones before them; sequenced ones are
\* discarded behind later ones.
InOrder(s, k) ==
  \A j \in DOMAIN wire[s] : SameChannel(s, j, k) /\ Promise(s, j).order # "none" =>
    /\ j < k /\ Promise(s, j).order = "ordered" => j \in Arrived(s)
    /\ j > k => j \notin Arrived(s)

Deliver(s, k) ==
  /\ fate[s][k] = "way"
  /\ Promise(s, k).order # "none" => InOrder(s, k)
  /\ fate' = [fate EXCEPT ![s][k] = "there"]
  /\ got' = [got EXCEPT ![s] = Append(@, wire[s][k])]
  /\ UNCHANGED <<sent, panicked, connected, wire, receipts, leaves>>

Receipt(kind, number) == [kind |-> kind, number |-> number]

\* The other side has acknowledged it.
Ack(s, k) ==
  /\ fate[s][k] = "there"
  /\ Promise(s, k).receipt
  /\ fate' = [fate EXCEPT ![s][k] = "told"]
  /\ receipts' = receipts
       \cup {Receipt("ID_SND_RECEIPT_ACKED", wire[s][k].number)}
  /\ UNCHANGED <<sent, panicked, connected, wire, got, leaves>>

\* The acknowledgement got lost: what arrived is reported lost all the same.  A
\* message that comes after the report is one that is reported after it came.
ReportLost(s, k) ==
  /\ fate[s][k] = "there"
  /\ Promise(s, k).receipt /\ ~Promise(s, k).reliable
  /\ fate' = [fate EXCEPT ![s][k] = "told"]
  /\ receipts' = receipts
       \cup {Receipt("ID_SND_RECEIPT_LOSS", wire[s][k].number)}
  /\ UNCHANGED <<sent, panicked, connected, wire, got, leaves>>

\* A message the network dropped and nobody sends again.
LoseMessage(s, k) ==
  /\ fate[s][k] = "way"
  /\ ~Promise(s, k).reliable
  /\ fate' = [fate EXCEPT ![s][k] = "lost"]
  /\ receipts' = IF Promise(s, k).receipt
       THEN receipts \cup {Receipt("ID_SND_RECEIPT_LOSS", wire[s][k].number)}
       ELSE receipts
  /\ UNCHANGED <<sent, panicked, connected, wire, got, leaves>>

Leave(s) ==
  /\ leaves < MaxLeaves
  /\ s \in connected
  /\ connected' = connected \ {s}
  /\ wire' = [wire EXCEPT ![s] = <<>>]
  /\ fate' = [fate EXCEPT ![s] = <<>>]
  /\ got' = [got EXCEPT ![s] = <<>>]
  /\ leaves' = leaves + 1
  /\ UNCHANGED <<sent, panicked, receipts>>

Rejoin(s) ==
  /\ s \notin connected
  /\ connected' = connected \cup {s}
  /\ UNCHANGED <<sent, panicked, wire, fate, got, receipts, leaves>>

Next ==
  \/ /\ ~panicked /\ Len(sent) < MaxMessages
     /\ \E chosen \in Choices : Send(chosen) \/ SendPanics(chosen)
  \/ \E s \in System :
       \/ \E k \in DOMAIN wire[s] :
            Deliver(s, k) \/ Ack(s, k) \/ ReportLost(s, k) \/ LoseMessage(s, k)
       \/ Leave(s) \/ Rejoin(s)

Spec == Init /\ [][Next]_vars

-----------------------------------------------------------------------------
TypeOK ==
  /\ connected \subseteq System
  /\ \A s \in System :
       /\ Len(wire[s]) = Len(fate[s])
       /\ \A k \in DOMAIN wire[s] :
            /\ wire[s][k].reliability \in DOMAIN PacketReliability
            /\ wire[s][k].priority \in PacketPriority

Default(m) ==
  {"reliability", "ordering_channel"} \cap DOMAIN sent[m.id].chosen = {}

\* What a program sends without choosing a reliability or a channel reaches
\* each connection in the order of the calls, none of it twice and without a
\* gap, whatever is sent with other options, and however connections come and
\* go in between (rakpeer.rs:862-872; the proxy and the chat programs rely on
\* it).
DefaultInOrder ==
  \A s \in System :
    LET all == {k \in DOMAIN wire[s] : Default(wire[s][k])}
        had == {i \in DOMAIN got[s] : Default(got[s][i])}
    IN  /\ \A i, j \in had : i < j => got[s][i].id < got[s][j].id
        /\ \A i \in had, k \in all : wire[s][k].id < got[s][i].id =>
             \E j \in had : got[s][j] = wire[s][k]

\* A message arrives only at systems it was meant for: those connected when it
\* was broadcast, or the one it names; and it arrives as long as it was, or
\* send says that it failed, unless it is longer than an i32 can tell
\* (rakpeer.rs:909-942).
ArrivesAsMeant ==
  \A s \in System : \A k \in DOMAIN got[s] :
    LET call == sent[got[s][k].id]
        target == call.chosen.target[1]
    IN  /\ s \in call.to
        /\ target.kind = "Broadcast"
             \/ target.system \in {ByAddress(Literal(s)),
                                   ByGuid(GuidToRust(GuidOf(s, 0)))}
        /\ call.result # None
        /\ call.chosen.data[1] < WordSize => got[s][k].length = call.chosen.data[1]

WantsReceipt(chosen) ==
  Build(chosen).reliability \in {"UnreliableWithAckReceipt",
                                  "ReliableWithAckReceipt",
                                  "ReliableOrderedWithAckReceipt"}

\* A receipt carries the number send returned for a message that wanted one,
\* the forced one if the program forced one; only a message that need not
\* arrive is reported lost (rakpeer.rs:904-907, 933).
ReceiptsMatch ==
  \A r \in receipts : \E i \in DOMAIN sent :
    /\ sent[i].result = Some(r.number)
    /\ WantsReceipt(sent[i].chosen)
    /\ r.kind = "ID_SND_RECEIPT_LOSS"
         => Build(sent[i].chosen).reliability = "UnreliableWithAckReceipt"
    /\ LET n == Build(sent[i].chosen).force_receipt_number
       IN  n \in {None, Some(0)} \/ n = Some(r.number)

=============================================================================
