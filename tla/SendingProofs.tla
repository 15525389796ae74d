----------------------------- MODULE SendingProofs -----------------------------
(***************************************************************************)
(* Proof that a message arrives where it was meant to and as long as it    *)
(* was, that what is sent with the builder's defaults arrives in order,    *)
(* and that receipts carry the numbers send returned: for any systems,     *)
(* options and lengths, however many calls there are.                      *)
(***************************************************************************)
EXTENDS Sending, TLAPS

\* What the theorems below assume of the constants.
Options ==
  /\ Variant \subseteq DOMAIN ReliabilityToC /\ 0 \in Channel
  /\ Length \subseteq Nat /\ Forced \subseteq Nat /\ WordSize \in Nat \ {0}

-----------------------------------------------------------------------------
\* Types.

Entries ==
  [id : Nat, length : Int, priority : PacketPriority,
   reliability : DOMAIN PacketReliability, channel : Channel, number : Nat]

Results == {None} \cup {Some(n) : n \in Nat}

SentCalls == [chosen : Choices, to : SUBSET System, result : Results]

Fates == {"way", "there", "told", "lost"}

Shape ==
  /\ sent \in Seq(SentCalls)
  /\ connected \subseteq System
  /\ wire \in [System -> Seq(Entries)]
  /\ fate \in [System -> Seq(Fates)]
  /\ got \in [System -> Seq(Entries)]

-----------------------------------------------------------------------------
(***************************************************************************)
(* The three properties relate what arrived to the calls; between the two  *)
(* is the wire.  So the invariant says of each message under way that it   *)
(* carries what its call chose, that it goes where it was meant to, and    *)
(* that the wire keeps the order of the calls; and of what arrived that it *)
(* is what the wire says has arrived.                                      *)
(***************************************************************************)

\* An entry has what was chosen in the call it stands for, and its number.
Carries(e, c) ==
  /\ e.reliability = ReliabilityToC[Build(c.chosen).reliability]
  /\ e.channel = Build(c.chosen).ordering_channel
  /\ c.result = Some(e.number)
  /\ c.chosen.data[1] < WordSize => e.length = c.chosen.data[1]
  /\ LET n == Build(c.chosen).force_receipt_number
     IN  n \in {None, Some(0)} \/ n = Some(e.number)

\* A call is meant for a system.
MeantFor(c, s) ==
  /\ s \in c.to
  /\ c.chosen.target[1].kind = "Broadcast"
       \/ c.chosen.target[1].system \in {ByAddress(Literal(s)),
                                         ByGuid(GuidToRust(GuidOf(s, 0)))}

OnTheWire ==
  \A s \in System : \A k \in DOMAIN wire[s] :
    /\ wire[s][k].id \in DOMAIN sent
    /\ Carries(wire[s][k], sent[wire[s][k].id])
    /\ MeantFor(sent[wire[s][k].id], s)

InCallOrder ==
  \A s \in System : \A j, k \in DOMAIN wire[s] :
    j < k => wire[s][j].id < wire[s][k].id

FatesKnown == \A s \in System : Len(fate[s]) = Len(wire[s])

GotWhatArrived ==
  \A s \in System :
    /\ \A i \in DOMAIN got[s] : \E k \in Arrived(s) : got[s][i] = wire[s][k]
    /\ \A k \in Arrived(s) : \E i \in DOMAIN got[s] : got[s][i] = wire[s][k]

\* Messages sent with the defaults wait for those before them.
NoGap ==
  \A s \in System : \A k \in Arrived(s), j \in DOMAIN wire[s] :
    Default(wire[s][k]) /\ Default(wire[s][j]) /\ j < k => j \in Arrived(s)

GotInOrder ==
  \A s \in System : \A i, j \in DOMAIN got[s] :
    Default(got[s][i]) /\ Default(got[s][j]) /\ i < j => got[s][i].id < got[s][j].id

SInv ==
  /\ Shape /\ OnTheWire /\ InCallOrder /\ FatesKnown
  /\ GotWhatArrived /\ NoGap /\ GotInOrder /\ ReceiptsMatch

-----------------------------------------------------------------------------
\* The builder.

\* A number that fits is not cut.
LEMMA Uncut ==
  ASSUME Options, NEW n \in Nat
  PROVE  /\ I32(n) \in Int
         /\ n < WordSize /\ I32(n) >= 0 => I32(n) = n
<1>1. n % WordSize \in Int /\ n % WordSize < WordSize /\ n % WordSize >= 0
  BY DEF Options
<1>2. ASSUME n < WordSize PROVE n % WordSize = n
  BY <1>2 DEF Options
<1> QED
  BY <1>1, <1>2 DEF I32, Options

Fields ==
  {"data", "priority", "reliability", "ordering_channel", "target",
   "force_receipt_number"}

\* What a program chose is what the builder has, with the defaults for the rest.
LEMMA BuilderHas ==
  ASSUME Options, NEW c \in Choices
  PROVE  /\ Build(c).reliability \in DOMAIN ReliabilityToC
         /\ Build(c).priority \in DOMAIN PriorityToC
         /\ Build(c).ordering_channel \in Channel
         /\ {"reliability", "ordering_channel"} \cap DOMAIN c = {} =>
              /\ Build(c).reliability = "ReliableOrdered"
              /\ Build(c).ordering_channel = 0
         /\ Build(c).data # None =>
              /\ Build(c).data = c.data
              /\ \E n \in Nat : c.data = Some(n)
         /\ Build(c).target # None =>
              /\ Build(c).target = c.target
              /\ \E t \in Target : c.target = Some(t)
         /\ \/ Build(c).force_receipt_number = None
            \/ \E n \in Nat : Build(c).force_receipt_number = Some(n)
<1>0. DOMAIN Sender_new = Fields
  BY DEF Sender_new, Fields
<1>1. /\ Sender_new.reliability = "ReliableOrdered" /\ Sender_new.priority = "High"
      /\ Sender_new.ordering_channel = 0 /\ Sender_new.data = None
      /\ Sender_new.target = None /\ Sender_new.force_receipt_number = None
  BY DEF Sender_new
<1>2. \A f \in Fields : Build(c)[f] = IF f \in DOMAIN c THEN c[f] ELSE Sender_new[f]
  BY <1>0 DEF Build
<1>3. /\ Build(c).reliability = IF "reliability" \in DOMAIN c
                                THEN c.reliability ELSE "ReliableOrdered"
      /\ Build(c).priority = IF "priority" \in DOMAIN c THEN c.priority ELSE "High"
      /\ Build(c).ordering_channel = IF "ordering_channel" \in DOMAIN c
                                     THEN c.ordering_channel ELSE 0
      /\ Build(c).data = IF "data" \in DOMAIN c THEN c.data ELSE None
      /\ Build(c).target = IF "target" \in DOMAIN c THEN c.target ELSE None
      /\ Build(c).force_receipt_number = IF "force_receipt_number" \in DOMAIN c
                                         THEN c.force_receipt_number ELSE None
  BY <1>1, <1>2 DEF Fields
<1>4. DOMAIN ReliabilityToC = {"Unreliable", "UnreliableSequenced", "Reliable",
        "ReliableOrdered", "ReliableSequenced", "UnreliableWithAckReceipt",
        "ReliableWithAckReceipt", "ReliableOrderedWithAckReceipt"}
  BY DEF ReliabilityToC
<1>5. DOMAIN PriorityToC = {"Immediate", "High", "Medium", "Low"}
  BY DEF PriorityToC
<1> DEFINE Asked ==
  /\ "reliability" \in DOMAIN c => c.reliability \in DOMAIN ReliabilityToC
  /\ "priority" \in DOMAIN c => c.priority \in DOMAIN PriorityToC
  /\ "ordering_channel" \in DOMAIN c => c.ordering_channel \in Channel
  /\ "data" \in DOMAIN c => \E n \in Nat : c.data = Some(n)
  /\ "target" \in DOMAIN c => \E t \in Target : c.target = Some(t)
  /\ "force_receipt_number" \in DOMAIN c =>
       \E n \in Nat : c.force_receipt_number = Some(n)
<1>6. Broadcast \in Target
  BY DEF Target
<1>7. CASE \E t \in Target : c = [data |-> Some(1), target |-> Some(t)]
  <2>1. Asked
    BY <1>7
  <2> QED
    BY <1>3, <1>4, <1>5, <2>1 DEF Options
<1>8. CASE \E n \in Length : c = [data |-> Some(n), target |-> Some(Broadcast)]
  <2>1. Asked
    BY <1>6, <1>8 DEF Options
  <2> QED
    BY <1>3, <1>4, <1>5, <2>1 DEF Options
<1>9. CASE \E r \in Variant, ch \in Channel :
             c = [data |-> Some(1), target |-> Some(Broadcast),
                  reliability |-> r, ordering_channel |-> ch]
  <2>1. Asked
    BY <1>6, <1>9 DEF Options
  <2> QED
    BY <1>3, <1>4, <1>5, <2>1 DEF Options
<1>10. CASE \E p \in {"Immediate", "Low"} :
              c = [data |-> Some(1), target |-> Some(Broadcast), priority |-> p]
  <2>1. Asked
    BY <1>5, <1>6, <1>10
  <2> QED
    BY <1>3, <1>4, <1>5, <2>1 DEF Options
<1>11. CASE \E n \in Forced :
              c = [data |-> Some(1), target |-> Some(Broadcast),
                   reliability |-> "ReliableWithAckReceipt",
                   force_receipt_number |-> Some(n)]
  <2>1. Asked
    BY <1>4, <1>6, <1>11 DEF Options
  <2> QED
    BY <1>3, <1>4, <1>5, <2>1 DEF Options
<1>12. CASE c \in {[priority |-> "High"], [data |-> Some(1)]}
  <2>1. Asked
    BY <1>5, <1>12
  <2> QED
    BY <1>3, <1>4, <1>5, <2>1 DEF Options
<1> QED
  BY <1>7, <1>8, <1>9, <1>10, <1>11, <1>12 DEF Choices
-----------------------------------------------------------------------------
\* Who is meant.

\* The two bytes of a number change places.
LEMMA Swapped == \A a, b : ToBE(<<a, b>>) = <<b, a>>
  BY DEF ToBE, SequenceOps!Reverse

\* RakNet finds a system by the address or the GUID a program has of it, and no
\* system by the unassigned address.
LEMMA TargetFinds ==
  /\ ResolveTarget(TargetToC(ByAddress(UnassignedAddress))) \cap System = {}
  /\ \A s \in System :
       /\ ResolveTarget(TargetToC(ByAddress(Literal(s)))) \cap System = {s}
       /\ ResolveTarget(TargetToC(ByGuid(GuidToRust(GuidOf(s, 0))))) = {s}
<1>1. ASSUME NEW a
      PROVE  LET c == TargetToC(ByAddress(a))
             IN  /\ ResolveTarget(c) = Resolve(c.systemAddress)
                 /\ c.systemAddress.s_addr = ToBE(a.ip)
                 /\ c.systemAddress.sin_port = ToBE(a.port)
  BY DEF TargetToC, ByAddress, GuidToC, UnassignedGuid, AddressToC, ResolveTarget,
     NoGuid
<1>2. Own \notin System /\ 0 \notin System /\ MAX64 \notin System /\ System \subseteq Nat
  BY TypesAssumption
<1>3. ResolveTarget(TargetToC(ByAddress(UnassignedAddress))) \cap System = {}
  <2>1. \A s \in System : <<0, 0>> # <<0, s>>
    BY <1>2
  <2> QED
    BY <1>1, <1>2, <2>1, Swapped DEF UnassignedAddress, Resolve, InRakNet
<1>4. ASSUME NEW s \in System
      PROVE  ResolveTarget(TargetToC(ByAddress(Literal(s)))) \cap System = {s}
  <2> DEFINE a == AddressToC(Literal(s))
  <2>1. \A r \in System : <<0, s>> = <<0, r>> => r = s
    OBVIOUS
  <2>2. a.s_addr = <<0, s>> /\ a.sin_port = <<0, 1>>
    BY Swapped DEF AddressToC, Literal
  <2> HIDE DEF a
  <2>3. Resolve(a) \cap System = {s}
    BY <1>2, <2>1, <2>2 DEF Resolve, InRakNet
  <2>4. ResolveTarget(TargetToC(ByAddress(Literal(s)))) = Resolve(a)
    BY DEF TargetToC, ByAddress, GuidToC, UnassignedGuid, ResolveTarget, NoGuid, a
  <2> QED
    BY <2>3, <2>4
<1>5. ASSUME NEW s \in System
      PROVE  ResolveTarget(TargetToC(ByGuid(GuidToRust(GuidOf(s, 0))))) = {s}
  BY <1>2 DEF ResolveTarget, TargetToC, ByGuid, GuidToC, GuidToRust, GuidOf, NoGuid
<1> QED
  BY <1>3, <1>4, <1>5

\* A message reaches no system but those it is meant for.
LEMMA OnlyTheMeant ==
  ASSUME Shape, NEW t \in Target,
         NEW s \in Systems(Recipient(t).systemIdentifier, Recipient(t).broadcast)
  PROVE  /\ s \in connected /\ s \in System
         /\ t.kind = "Broadcast"
              \/ t.system \in {ByAddress(Literal(s)), ByGuid(GuidToRust(GuidOf(s, 0)))}
<1>1. s \in connected /\ s \in System
  BY DEF Systems, Shape
<1>2. CASE t = Broadcast
  BY <1>1, <1>2 DEF Broadcast
<1>3. ASSUME NEW x, t = To(x)
      PROVE  s \in ResolveTarget(TargetToC(x)) /\ t.system = x
  BY <1>3 DEF To, Recipient, Systems
<1>4. CASE t = To(ByAddress(UnassignedAddress))
  BY <1>1, <1>3, <1>4, TargetFinds
<1>5. ASSUME NEW r \in System, t = To(ByAddress(Literal(r))) PROVE t.system = ByAddress(Literal(s))
  BY <1>1, <1>3, <1>5, TargetFinds
<1>6. ASSUME NEW r \in System, t = To(ByGuid(GuidToRust(GuidOf(r, 0))))
      PROVE  t.system = ByGuid(GuidToRust(GuidOf(s, 0)))
  BY <1>1, <1>3, <1>6, TargetFinds
<1> QED
  BY <1>1, <1>2, <1>4, <1>5, <1>6 DEF Target

-----------------------------------------------------------------------------
\* What send does.

\* The call that is made, and the message that goes out for it.
LEMMA SendEffect ==
  ASSUME Options, Shape, NEW chosen \in Choices, Send(chosen)
  PROVE  \E c \in SentCalls, e \in Entries, reached \in SUBSET connected :
           /\ e.id = Len(sent) + 1 /\ c.chosen = chosen
           /\ sent' = Append(sent, c)
           /\ reached # {} => Carries(e, c)
           /\ \A s \in reached : MeantFor(c, s)
           /\ wire' = [s \in System |->
                         IF s \in reached THEN Append(wire[s], e) ELSE wire[s]]
           /\ fate' = [s \in System |->
                         IF s \in reached THEN Append(fate[s], "way") ELSE fate[s]]
<1> DEFINE b == Build(chosen)
           r == Recipient(b.target[1])
           length == I32(b.data[1])
           n == UnwrapOr0(b.force_receipt_number)
           bad == BadInput(length, r.systemIdentifier, r.broadcast)
           e == [id |-> Len(sent) + 1, length |-> length,
                 priority |-> PriorityToC[b.priority],
                 reliability |-> ReliabilityToC[b.reliability],
                 channel |-> b.ordering_channel, number |-> Number(n)]
           c == [chosen |-> chosen, to |-> connected,
                 result |-> IF bad THEN None ELSE Some(Number(n))]
           reached == IF bad THEN {} ELSE Systems(r.systemIdentifier, r.broadcast)
<1>1. /\ b.data # None /\ b.target # None
      /\ sent' = Append(sent, c)
      /\ wire' = [s \in System |->
                    IF s \in reached THEN Append(wire[s], e) ELSE wire[s]]
      /\ fate' = [s \in System |->
                    IF s \in reached THEN Append(fate[s], "way") ELSE fate[s]]
  BY DEF Send, RakPeer_Send_data
<1>2. PICK m \in Nat : b.data = Some(m) /\ chosen.data = Some(m)
  BY <1>1, BuilderHas
<1>3. PICK t \in Target : b.target = Some(t) /\ chosen.target = Some(t)
  BY <1>1, BuilderHas
<1>4. b.data[1] = m /\ chosen.data[1] = m /\ b.target[1] = t /\ chosen.target[1] = t
  BY <1>2, <1>3 DEF Some
<1>5. /\ n \in Nat /\ Number(n) \in Nat
      /\ b.force_receipt_number \in {None, Some(0)}
           \/ b.force_receipt_number = Some(Number(n))
  <2>1. Len(sent) \in Nat
    BY DEF Shape
  <2>2. CASE b.force_receipt_number = None
    BY <2>1, <2>2 DEF UnwrapOr0, Number
  <2>3. ASSUME NEW k \in Nat, b.force_receipt_number = Some(k)
        PROVE  n = k
    BY <2>3 DEF UnwrapOr0, Some, None
  <2>4. ASSUME NEW k \in Nat, b.force_receipt_number = Some(k)
        PROVE  <1>5
    BY <2>1, <2>3, <2>4 DEF Number
  <2> QED
    BY <2>2, <2>4, BuilderHas
<1>6. e \in Entries
  <2>1. PriorityToC[b.priority] \in PacketPriority
    BY BuilderHas DEF PriorityToC, PacketPriority
  <2>2. ReliabilityToC[b.reliability] \in DOMAIN PacketReliability
    BY BuilderHas DEF ReliabilityToC, PacketReliability
  <2>3. length \in Int /\ Len(sent) + 1 \in Nat
    BY <1>4, Uncut DEF Shape
  <2> QED
    BY <1>5, <2>1, <2>2, <2>3, BuilderHas DEF Entries
<1>7. c \in SentCalls
  BY <1>5 DEF SentCalls, Results, Shape
<1>8. reached \in SUBSET connected
  BY DEF Systems
<1>9. ASSUME reached # {} PROVE Carries(e, c)
  <2>1. ~bad
    BY <1>9
  <2>2. length >= 0
    BY <1>4, <2>1, Uncut DEF BadInput
  <2>3. m < WordSize => length = m
    BY <1>4, <2>2, Uncut
  <2> QED
    BY <1>4, <1>5, <2>1, <2>3 DEF Carries
<1>10. ASSUME NEW s \in reached PROVE MeantFor(c, s)
  <2>1. s \in Systems(Recipient(t).systemIdentifier, Recipient(t).broadcast)
    BY <1>4, <1>10
  <2> QED
    BY <1>4, <2>1, OnlyTheMeant DEF MeantFor
<1>11. e.id = Len(sent) + 1 /\ c.chosen = chosen
  OBVIOUS
<1> HIDE DEF e, c, reached
<1> QED
  BY <1>1, <1>6, <1>7, <1>8, <1>9, <1>10, <1>11
-----------------------------------------------------------------------------
\* What each step does to the invariant.

\* What was sent stays what it was, and a new message is behind it.
LEMMA StepSend ==
  ASSUME Options, SInv, NEW chosen \in Choices, Send(chosen)
  PROVE  SInv'
<1>1. PICK c \in SentCalls, e \in Entries, reached \in SUBSET connected :
           /\ e.id = Len(sent) + 1 /\ c.chosen = chosen
           /\ sent' = Append(sent, c)
           /\ reached # {} => Carries(e, c)
           /\ \A s \in reached : MeantFor(c, s)
           /\ wire' = [s \in System |->
                         IF s \in reached THEN Append(wire[s], e) ELSE wire[s]]
           /\ fate' = [s \in System |->
                         IF s \in reached THEN Append(fate[s], "way") ELSE fate[s]]
  BY SendEffect DEF SInv
<1>2. UNCHANGED <<connected, got, receipts>>
  BY DEF Send
<1>3. sent \in Seq(SentCalls) /\ Len(sent) \in Nat /\ DOMAIN sent = 1 .. Len(sent)
  BY DEF SInv, Shape
<1>4. /\ \A i \in DOMAIN sent : i \in DOMAIN sent' /\ sent'[i] = sent[i]
      /\ e.id \in DOMAIN sent' /\ sent'[e.id] = c /\ \A i \in DOMAIN sent : i < e.id
      /\ sent' \in Seq(SentCalls)
  BY <1>1, <1>3
<1>5. ASSUME NEW s \in System
      PROVE  /\ wire[s] \in Seq(Entries) /\ fate[s] \in Seq(Fates)
             /\ wire'[s] \in Seq(Entries) /\ fate'[s] \in Seq(Fates)
             /\ Len(fate[s]) = Len(wire[s]) /\ Len(fate'[s]) = Len(wire'[s])
             /\ DOMAIN wire[s] = 1 .. Len(wire[s]) /\ Len(wire[s]) \in Nat
             /\ DOMAIN wire[s] \subseteq DOMAIN wire'[s]
             /\ \A k \in DOMAIN wire[s] :
                  wire'[s][k] = wire[s][k] /\ fate'[s][k] = fate[s][k]
             /\ \A k \in DOMAIN wire'[s] \ DOMAIN wire[s] :
                  /\ s \in reached /\ k = Len(wire[s]) + 1
                  /\ wire'[s][k] = e /\ fate'[s][k] = "way"
  <2>1. wire[s] \in Seq(Entries) /\ fate[s] \in Seq(Fates) /\ Len(fate[s]) = Len(wire[s])
    BY DEF SInv, Shape, FatesKnown
  <2>2. CASE s \in reached
    <3>1. wire'[s] = Append(wire[s], e) /\ fate'[s] = Append(fate[s], "way")
      BY <1>1, <2>2
    <3> QED
      BY <2>1, <2>2, <3>1 DEF Fates
  <2>3. CASE s \notin reached
    <3>1. wire'[s] = wire[s] /\ fate'[s] = fate[s]
      BY <1>1, <2>3
    <3> QED
      BY <2>1, <3>1
  <2> QED
    BY <2>2, <2>3
<1>6. ASSUME NEW s \in System
      PROVE  Arrived(s)' = Arrived(s) /\ Arrived(s) \subseteq DOMAIN wire[s]
  <2>1. ASSUME NEW k \in DOMAIN wire'[s], fate'[s][k] \in {"there", "told"}
        PROVE  k \in DOMAIN wire[s]
    BY <1>5, <2>1
  <2> QED
    BY <1>5, <2>1 DEF Arrived
<1>7. ASSUME NEW s \in System
      PROVE  /\ \A k \in DOMAIN wire[s] : wire[s][k].id \in DOMAIN sent
             /\ \A i \in DOMAIN got[s] : got[s][i].id \in DOMAIN sent
  BY <1>6 DEF SInv, OnTheWire, GotWhatArrived
<1>8. Shape'
  BY <1>1, <1>2, <1>4, <1>5 DEF SInv, Shape
<1>9. OnTheWire'
  <2> SUFFICES ASSUME NEW s \in System, NEW k \in DOMAIN wire'[s]
               PROVE  /\ wire'[s][k].id \in DOMAIN sent'
                      /\ Carries(wire'[s][k], sent'[wire'[s][k].id])
                      /\ MeantFor(sent'[wire'[s][k].id], s)
    BY DEF OnTheWire, Carries, MeantFor
  <2>1. CASE k \in DOMAIN wire[s]
    BY <1>4, <1>5, <2>1 DEF SInv, OnTheWire
  <2>2. CASE k \notin DOMAIN wire[s]
    BY <1>1, <1>4, <1>5, <2>2
  <2> QED
    BY <2>1, <2>2
<1>10. InCallOrder'
  <2> SUFFICES ASSUME NEW s \in System, NEW j \in DOMAIN wire'[s],
                      NEW k \in DOMAIN wire'[s], j < k
               PROVE  wire'[s][j].id < wire'[s][k].id
    BY DEF InCallOrder
  <2>1. j \in DOMAIN wire[s]
    BY <1>5
  <2>2. CASE k \in DOMAIN wire[s]
    BY <1>5, <2>1, <2>2 DEF SInv, InCallOrder
  <2>3. CASE k \notin DOMAIN wire[s]
    BY <1>4, <1>5, <1>7, <2>1, <2>3
  <2> QED
    BY <2>2, <2>3
<1>11. FatesKnown'
  BY <1>5 DEF FatesKnown
<1>12. GotWhatArrived'
  BY <1>2, <1>5, <1>6 DEF SInv, GotWhatArrived
<1>13. NoGap'
  <2> SUFFICES ASSUME NEW s \in System, NEW k \in Arrived(s)', NEW j \in DOMAIN wire'[s],
                      Default(wire[s][k])', Default(wire[s][j])', j < k
               PROVE  j \in Arrived(s)'
    BY DEF NoGap
  <2>1. k \in Arrived(s) /\ k \in DOMAIN wire[s] /\ j \in DOMAIN wire[s]
    BY <1>5, <1>6
  <2>2. Default(wire[s][k]) /\ Default(wire[s][j])
    BY <1>4, <1>5, <1>7, <2>1 DEF Default
  <2> QED
    BY <1>6, <2>1, <2>2 DEF SInv, NoGap
<1>14. GotInOrder'
  <2> SUFFICES ASSUME NEW s \in System, NEW i \in DOMAIN got[s], NEW j \in DOMAIN got[s],
                      Default(got[s][i])', Default(got[s][j])', i < j
               PROVE  got[s][i].id < got[s][j].id
    BY <1>2 DEF GotInOrder
  <2>1. Default(got[s][i]) /\ Default(got[s][j])
    BY <1>2, <1>4, <1>7 DEF Default
  <2> QED
    BY <2>1 DEF SInv, GotInOrder
<1>15. ReceiptsMatch'
  BY <1>2, <1>4 DEF SInv, ReceiptsMatch
<1> QED
  BY <1>8, <1>9, <1>10, <1>11, <1>12, <1>13, <1>14, <1>15 DEF SInv
\* The wire is judged by what was sent and by nothing else.
LEMMA SameWire ==
  ASSUME OnTheWire, UNCHANGED <<sent, wire>>
  PROVE  OnTheWire'
<1> SUFFICES ASSUME NEW s \in System, NEW k \in DOMAIN wire'[s]
             PROVE  /\ wire'[s][k].id \in DOMAIN sent'
                    /\ Carries(wire'[s][k], sent'[wire'[s][k].id])
                    /\ MeantFor(sent'[wire'[s][k].id], s)
  BY DEF OnTheWire, Carries, MeantFor
<1>1. sent' = sent /\ wire' = wire
  OBVIOUS
<1> QED
  BY <1>1 DEF OnTheWire

\* What is on the wire and what arrived are judged alike by two states that
\* agree on them, whoever is connected and whatever else became of messages.
LEMMA Undisturbed ==
  ASSUME SInv, UNCHANGED <<sent, wire, got>>, fate' \in [System -> Seq(Fates)],
         \A s \in System : Len(fate'[s]) = Len(fate[s]),
         \A s \in System : Arrived(s)' = Arrived(s)
  PROVE  OnTheWire' /\ InCallOrder' /\ FatesKnown' /\ GotWhatArrived' /\ NoGap' /\ GotInOrder'
<1>1. OnTheWire' /\ InCallOrder' /\ FatesKnown'
  <2>1. OnTheWire'
    BY SameWire DEF SInv
  <2>2. InCallOrder'
    BY DEF SInv, InCallOrder
  <2>3. FatesKnown'
    BY DEF SInv, FatesKnown
  <2> QED
    BY <2>1, <2>2, <2>3
<1>2. GotWhatArrived' /\ NoGap'
  <2>1. GotWhatArrived'
    BY DEF SInv, GotWhatArrived
  <2>2. NoGap'
    BY DEF SInv, NoGap, Default
  <2> QED
    BY <2>1, <2>2
<1>3. GotInOrder'
  BY DEF SInv, GotInOrder, Default
<1> QED
  BY <1>1, <1>2, <1>3

\* One message changes its fate.
LEMMA FateChanges ==
  ASSUME SInv, NEW s \in System, NEW k \in DOMAIN wire[s], NEW f \in Fates,
         fate' = [fate EXCEPT ![s][k] = f], UNCHANGED wire
  PROVE  /\ fate' \in [System -> Seq(Fates)]
         /\ \A r \in System : Len(fate'[r]) = Len(fate[r])
         /\ \A r \in System \ {s} : Arrived(r)' = Arrived(r)
         /\ Arrived(s)' = IF f \in {"there", "told"} THEN Arrived(s) \cup {k}
                          ELSE Arrived(s) \ {k}
<1>1. /\ fate \in [System -> Seq(Fates)] /\ wire \in [System -> Seq(Entries)]
      /\ Len(fate[s]) = Len(wire[s])
  BY DEF SInv, Shape, FatesKnown
<1> DEFINE new == [fate[s] EXCEPT ![k] = f]
<1>2. fate[s] \in Seq(Fates) /\ wire[s] \in Seq(Entries)
  BY <1>1
<1>3. k \in DOMAIN fate[s] /\ DOMAIN fate[s] = DOMAIN wire[s]
  BY <1>1, <1>2
<1>4. /\ new \in Seq(Fates) /\ Len(new) = Len(fate[s])
      /\ \A j \in DOMAIN wire[s] : new[j] = IF j = k THEN f ELSE fate[s][j]
  BY <1>2, <1>3
<1>5. fate' = [fate EXCEPT ![s] = new]
  BY <1>1
<1> HIDE DEF new
<1>6. fate'[s] = new /\ \A r \in System \ {s} : fate'[r] = fate[r]
  BY <1>1, <1>5
<1>7. fate' \in [System -> Seq(Fates)] /\ \A r \in System : Len(fate'[r]) = Len(fate[r])
  BY <1>1, <1>4, <1>5, <1>6
<1>8. \A r \in System \ {s} : Arrived(r)' = Arrived(r)
  BY <1>6 DEF Arrived
<1>9. Arrived(s)' = {j \in DOMAIN wire[s] : new[j] \in {"there", "told"}}
  BY <1>6 DEF Arrived
<1>10. \A j \in DOMAIN wire[s] :
         new[j] \in {"there", "told"} <=>
           IF j = k THEN f \in {"there", "told"} ELSE j \in Arrived(s)
  BY <1>4 DEF Arrived
<1>11. Arrived(s) \subseteq DOMAIN wire[s]
  BY DEF Arrived
<1>12. CASE f \in {"there", "told"}
  <2>1. Arrived(s)' = Arrived(s) \cup {k}
    BY <1>9, <1>10, <1>11, <1>12
  <2> QED
    BY <1>7, <1>8, <1>12, <2>1
<1>13. CASE f \notin {"there", "told"}
  <2>1. Arrived(s)' = Arrived(s) \ {k}
    BY <1>9, <1>10, <1>11, <1>13
  <2> QED
    BY <1>7, <1>8, <1>13, <2>1
<1> QED
  BY <1>12, <1>13

\* What is on the wire has the promise of the reliability that was chosen.
LEMMA PromiseIs ==
  ASSUME Options, SInv, NEW s \in System, NEW k \in DOMAIN wire[s]
  PROVE  /\ Build(sent[wire[s][k].id].chosen).reliability \in DOMAIN ReliabilityToC
         /\ Promise(s, k) = PacketReliability[ReliabilityToC[
              Build(sent[wire[s][k].id].chosen).reliability]]
         /\ Default(wire[s][k]) =>
              Promise(s, k).order = "ordered" /\ wire[s][k].channel = 0
<1> DEFINE c == sent[wire[s][k].id]
<1>1. c \in SentCalls /\ Carries(wire[s][k], c)
  BY DEF SInv, Shape, OnTheWire
<1>2. c.chosen \in Choices
  BY <1>1 DEF SentCalls
<1>3. Build(c.chosen).reliability \in DOMAIN ReliabilityToC
  BY <1>2, BuilderHas
<1>4. Promise(s, k) = PacketReliability[ReliabilityToC[Build(c.chosen).reliability]]
  BY <1>1 DEF Carries, Promise
<1>5. ASSUME Default(wire[s][k])
      PROVE  Promise(s, k).order = "ordered" /\ wire[s][k].channel = 0
  <2>1. /\ Build(c.chosen).reliability = "ReliableOrdered"
        /\ Build(c.chosen).ordering_channel = 0
    BY <1>2, <1>5, BuilderHas DEF Default
  <2> QED
    BY <1>1, <1>4, <2>1 DEF Carries, ReliabilityToC, PacketReliability, Guarantee
<1> QED
  BY <1>3, <1>4, <1>5

\* A message that arrives comes behind those that arrived, and if it is one of
\* the default kind, all of that kind before it were among them.
LEMMA StepDeliver ==
  ASSUME Options, SInv, NEW s \in System, NEW k \in DOMAIN wire[s], Deliver(s, k)
  PROVE  SInv'
<1> DEFINE m == wire[s][k]
<1>1. /\ fate' = [fate EXCEPT ![s][k] = "there"] /\ fate[s][k] = "way"
      /\ got' = [got EXCEPT ![s] = Append(@, m)]
      /\ UNCHANGED <<sent, connected, wire, receipts>>
  BY DEF Deliver
<1>2. /\ fate' \in [System -> Seq(Fates)]
      /\ \A r \in System : Len(fate'[r]) = Len(fate[r])
      /\ \A r \in System \ {s} : Arrived(r)' = Arrived(r)
      /\ Arrived(s)' = Arrived(s) \cup {k}
  BY <1>1, FateChanges DEF Fates
<1>3. /\ got \in [System -> Seq(Entries)] /\ wire[s] \in Seq(Entries) /\ m \in Entries
      /\ got[s] \in Seq(Entries)
  BY DEF SInv, Shape
<1>4. /\ got' \in [System -> Seq(Entries)] /\ got'[s] = Append(got[s], m)
      /\ \A r \in System \ {s} : got'[r] = got[r]
  BY <1>1, <1>3
<1>5. /\ DOMAIN got[s] = 1 .. Len(got[s]) /\ Len(got[s]) \in Nat
      /\ DOMAIN got'[s] = 1 .. Len(got[s]) + 1
      /\ \A i \in DOMAIN got[s] : got'[s][i] = got[s][i]
      /\ got'[s][Len(got[s]) + 1] = m
  BY <1>3, <1>4
<1>6. \A r \in System : Arrived(r) \subseteq DOMAIN wire[r]
  BY DEF Arrived
<1>7. ASSUME Default(m), NEW j \in DOMAIN wire[s], Default(wire[s][j])
      PROVE  /\ j < k => j \in Arrived(s)
             /\ j > k => j \notin Arrived(s)
  <2>1. Promise(s, k).order = "ordered" /\ Promise(s, j).order = "ordered"
          /\ SameChannel(s, j, k)
    BY <1>7, PromiseIs DEF SameChannel
  <2>2. InOrder(s, k)
    BY <2>1 DEF Deliver
  <2> QED
    BY <2>1, <2>2 DEF InOrder
<1>8. Shape'
  BY <1>1, <1>2, <1>4 DEF SInv, Shape
<1>9. OnTheWire' /\ InCallOrder' /\ FatesKnown'
  <2>1. UNCHANGED <<sent, wire>>
    BY <1>1
  <2>2. OnTheWire'
    BY <2>1, SameWire DEF SInv
  <2>3. InCallOrder'
    BY <2>1 DEF SInv, InCallOrder
  <2>4. FatesKnown'
    BY <1>2, <2>1 DEF SInv, FatesKnown
  <2> QED
    BY <2>2, <2>3, <2>4
<1>10. GotWhatArrived'
  <2> SUFFICES ASSUME NEW r \in System
               PROVE  /\ \A i \in DOMAIN got'[r] : \E q \in Arrived(r)' :
                           got'[r][i] = wire[r][q]
                      /\ \A q \in Arrived(r)' : \E i \in DOMAIN got'[r] :
                           got'[r][i] = wire[r][q]
    BY <1>1 DEF GotWhatArrived
  <2>1. /\ \A i \in DOMAIN got[r] : \E q \in Arrived(r) : got[r][i] = wire[r][q]
        /\ \A q \in Arrived(r) : \E i \in DOMAIN got[r] : got[r][i] = wire[r][q]
    BY DEF SInv, GotWhatArrived
  <2>2. CASE r # s
    <3>1. got'[r] = got[r] /\ Arrived(r)' = Arrived(r)
      BY <1>2, <1>4, <2>2
    <3> QED
      BY <2>1, <3>1
  <2>3. CASE r = s
    <3>1. ASSUME NEW i \in DOMAIN got'[s]
          PROVE  \E q \in Arrived(s)' : got'[s][i] = wire[s][q]
      BY <1>2, <1>5, <2>1, <2>3
    <3>2. ASSUME NEW q \in Arrived(s)'
          PROVE  \E i \in DOMAIN got'[s] : got'[s][i] = wire[s][q]
      <4>1. CASE q = k
        BY <1>5, <4>1
      <4>2. CASE q \in Arrived(s)
        BY <1>5, <2>1, <2>3, <4>2
      <4> QED
        BY <1>2, <4>1, <4>2
    <3> QED
      BY <2>3, <3>1, <3>2
  <2> QED
    BY <2>2, <2>3
<1>11. NoGap'
  <2> SUFFICES ASSUME NEW r \in System, NEW q \in Arrived(r)', NEW j \in DOMAIN wire[r],
                      Default(wire[r][q]), Default(wire[r][j]), j < q
               PROVE  j \in Arrived(r)'
    BY <1>1 DEF NoGap, Default
  <2>1. CASE q \in Arrived(r)
    BY <1>2, <2>1 DEF SInv, NoGap
  <2>2. CASE r = s /\ q = k
    BY <1>2, <1>7, <2>2
  <2> QED
    BY <1>2, <2>1, <2>2
<1>12. GotInOrder'
  <2> SUFFICES ASSUME NEW r \in System, NEW i \in DOMAIN got'[r], NEW j \in DOMAIN got'[r],
                      Default(got'[r][i]), Default(got'[r][j]), i < j
               PROVE  got'[r][i].id < got'[r][j].id
    BY <1>1 DEF GotInOrder, Default
  <2>1. CASE r # s
    <3>1. got'[r] = got[r]
      BY <1>4, <2>1
    <3> QED
      BY <3>1 DEF SInv, GotInOrder
  <2>3. CASE r = s /\ j \in DOMAIN got[s]
    <3>1. /\ i \in DOMAIN got[s] /\ got'[s][i] = got[s][i] /\ got'[s][j] = got[s][j]
      BY <1>5, <2>3
    <3> QED
      BY <2>3, <3>1 DEF SInv, GotInOrder
  <2>2. CASE r = s /\ j = Len(got[s]) + 1
    <3>1. i \in DOMAIN got[s] /\ got'[s][i] = got[s][i] /\ got'[s][j] = m
      BY <1>5, <2>2
    <3>2. PICK q \in Arrived(s) : got[s][i] = wire[s][q]
      BY <3>1 DEF SInv, GotWhatArrived
    <3>3. q \in DOMAIN wire[s] /\ q # k
      BY <1>1, <1>6, <3>2 DEF Arrived
    <3>4. q < k
      BY <1>3, <1>7, <2>2, <3>1, <3>2, <3>3
    <3> QED
      BY <2>2, <3>1, <3>2, <3>3, <3>4 DEF SInv, InCallOrder
  <2> QED
    BY <1>5, <2>1, <2>2, <2>3
<1>13. ReceiptsMatch'
  BY <1>1 DEF SInv, ReceiptsMatch
<1> QED
  BY <1>8, <1>9, <1>10, <1>11, <1>12, <1>13 DEF SInv

\* A receipt is for a message on the wire, and carries its number.
LEMMA ReceiptFor ==
  ASSUME Options, SInv, NEW s \in System, NEW k \in DOMAIN wire[s],
         Promise(s, k).receipt, UNCHANGED sent, NEW kind,
         kind = "ID_SND_RECEIPT_LOSS" => ~Promise(s, k).reliable,
         \A r \in receipts' : r \in receipts \/ r = Receipt(kind, wire[s][k].number)
  PROVE  ReceiptsMatch'
<1> DEFINE i == wire[s][k].id
           rel == Build(sent[i].chosen).reliability
<1>1. i \in DOMAIN sent /\ Carries(wire[s][k], sent[i])
  BY DEF SInv, OnTheWire
<1>2. /\ rel \in {"UnreliableWithAckReceipt", "ReliableWithAckReceipt",
                  "ReliableOrderedWithAckReceipt"}
      /\ ~Promise(s, k).reliable => rel = "UnreliableWithAckReceipt"
  <2>1. /\ rel \in DOMAIN ReliabilityToC
        /\ PacketReliability[ReliabilityToC[rel]].receipt
        /\ Promise(s, k).reliable <=> PacketReliability[ReliabilityToC[rel]].reliable
    BY PromiseIs
  <2> HIDE DEF rel
  <2>2. rel \in {"Unreliable", "UnreliableSequenced", "Reliable", "ReliableOrdered",
                 "ReliableSequenced", "UnreliableWithAckReceipt",
                 "ReliableWithAckReceipt", "ReliableOrderedWithAckReceipt"}
    BY <2>1 DEF ReliabilityToC
  <2> QED
    BY <2>1, <2>2 DEF ReliabilityToC, PacketReliability, Guarantee
<1>3. /\ sent[i].result = Some(wire[s][k].number) /\ WantsReceipt(sent[i].chosen)
      /\ LET n == Build(sent[i].chosen).force_receipt_number
         IN  n \in {None, Some(0)} \/ n = Some(wire[s][k].number)
  BY <1>1, <1>2 DEF Carries, WantsReceipt
<1> SUFFICES ASSUME NEW r \in receipts'
             PROVE  \E j \in DOMAIN sent :
                      /\ sent[j].result = Some(r.number)
                      /\ WantsReceipt(sent[j].chosen)
                      /\ r.kind = "ID_SND_RECEIPT_LOSS" =>
                           Build(sent[j].chosen).reliability = "UnreliableWithAckReceipt"
                      /\ LET n == Build(sent[j].chosen).force_receipt_number
                         IN  n \in {None, Some(0)} \/ n = Some(r.number)
  BY DEF ReceiptsMatch
<1>4. CASE r \in receipts
  BY <1>4 DEF SInv, ReceiptsMatch
<1>5. CASE r = Receipt(kind, wire[s][k].number)
  <2>1. r.kind = kind /\ r.number = wire[s][k].number
    BY <1>5 DEF Receipt
  <2> QED
    BY <1>1, <1>2, <1>3, <2>1
<1> QED
  BY <1>4, <1>5

\* What is acknowledged, or reported lost though it came, had arrived.
LEMMA StepTold ==
  ASSUME Options, SInv, NEW s \in System, NEW k \in DOMAIN wire[s],
         Ack(s, k) \/ ReportLost(s, k)
  PROVE  SInv'
<1>1. /\ fate' = [fate EXCEPT ![s][k] = "told"] /\ k \in Arrived(s)
      /\ UNCHANGED <<sent, connected, wire, got>>
  BY DEF Ack, ReportLost, Arrived
<1>2. /\ fate' \in [System -> Seq(Fates)]
      /\ \A r \in System : Len(fate'[r]) = Len(fate[r])
      /\ \A r \in System : Arrived(r)' = Arrived(r)
  <2>1. \A r \in System \ {s} : Arrived(r)' = Arrived(r)
    BY <1>1, FateChanges DEF Fates
  <2>2. Arrived(s)' = Arrived(s) \cup {k}
    BY <1>1, FateChanges DEF Fates
  <2>3. Arrived(s) \cup {k} = Arrived(s)
    BY <1>1
  <2>4. /\ fate' \in [System -> Seq(Fates)]
        /\ \A r \in System : Len(fate'[r]) = Len(fate[r])
    BY <1>1, FateChanges DEF Fates
  <2> QED
    BY <2>1, <2>2, <2>3, <2>4
<1>3. Shape'
  BY <1>1, <1>2 DEF SInv, Shape
<1>4. ReceiptsMatch'
  BY <1>1, ReceiptFor DEF Ack, ReportLost
<1> QED
  BY <1>1, <1>2, <1>3, <1>4, Undisturbed DEF SInv

\* What is lost had not arrived.
LEMMA StepLoseMessage ==
  ASSUME Options, SInv, NEW s \in System, NEW k \in DOMAIN wire[s], LoseMessage(s, k)
  PROVE  SInv'
<1>1. /\ fate' = [fate EXCEPT ![s][k] = "lost"] /\ k \notin Arrived(s)
      /\ UNCHANGED <<sent, connected, wire, got>>
  BY DEF LoseMessage, Arrived
<1>2. /\ fate' \in [System -> Seq(Fates)]
      /\ \A r \in System : Len(fate'[r]) = Len(fate[r])
      /\ \A r \in System : Arrived(r)' = Arrived(r)
  <2>1. \A r \in System \ {s} : Arrived(r)' = Arrived(r)
    BY <1>1, FateChanges DEF Fates
  <2>2. Arrived(s)' = Arrived(s) \ {k}
    BY <1>1, FateChanges DEF Fates
  <2>3. Arrived(s) \ {k} = Arrived(s)
    BY <1>1
  <2>4. /\ fate' \in [System -> Seq(Fates)]
        /\ \A r \in System : Len(fate'[r]) = Len(fate[r])
    BY <1>1, FateChanges DEF Fates
  <2> QED
    BY <2>1, <2>2, <2>3, <2>4
<1>3. Shape'
  BY <1>1, <1>2 DEF SInv, Shape
<1>4. ReceiptsMatch'
  <2>1. CASE Promise(s, k).receipt
    BY <1>1, <2>1, ReceiptFor DEF LoseMessage
  <2>2. CASE ~Promise(s, k).receipt
    BY <1>1, <2>2 DEF LoseMessage, SInv, ReceiptsMatch
  <2> QED
    BY <2>1, <2>2
<1> QED
  BY <1>1, <1>2, <1>3, <1>4, Undisturbed DEF SInv

\* A connection that ends takes its messages with it and leaves the others'.
LEMMA StepLeave ==
  ASSUME SInv, NEW s \in System, Leave(s)
  PROVE  SInv'
<1>1. /\ connected' \subseteq System /\ UNCHANGED <<sent, receipts>>
      /\ wire' = [wire EXCEPT ![s] = <<>>] /\ fate' = [fate EXCEPT ![s] = <<>>]
      /\ got' = [got EXCEPT ![s] = <<>>]
  BY DEF Leave, SInv, Shape
<1>2. Shape'
  BY <1>1 DEF SInv, Shape
<1>3. /\ wire'[s] = <<>> /\ fate'[s] = <<>> /\ got'[s] = <<>>
      /\ \A r \in System \ {s} :
           wire'[r] = wire[r] /\ fate'[r] = fate[r] /\ got'[r] = got[r]
  BY <1>1 DEF SInv, Shape
<1>4. Arrived(s)' = {} /\ \A r \in System \ {s} : Arrived(r)' = Arrived(r)
  BY <1>3 DEF Arrived
<1>5. OnTheWire' /\ InCallOrder' /\ FatesKnown'
  <2>1. OnTheWire'
    <3> SUFFICES ASSUME NEW r \in System, NEW k \in DOMAIN wire'[r]
                 PROVE  /\ wire'[r][k].id \in DOMAIN sent'
                        /\ Carries(wire'[r][k], sent'[wire'[r][k].id])
                        /\ MeantFor(sent'[wire'[r][k].id], r)
      BY DEF OnTheWire, Carries, MeantFor
    <3>1. r # s /\ wire'[r] = wire[r]
      BY <1>3
    <3> QED
      BY <1>1, <3>1 DEF SInv, OnTheWire
  <2>2. InCallOrder'
    BY <1>3 DEF SInv, InCallOrder
  <2>3. FatesKnown'
    BY <1>3 DEF SInv, FatesKnown
  <2> QED
    BY <2>1, <2>2, <2>3
<1>6. GotWhatArrived'
  BY <1>3, <1>4 DEF SInv, GotWhatArrived
<1>7. NoGap' /\ GotInOrder'
  <2>1. NoGap'
    BY <1>1, <1>3, <1>4 DEF SInv, NoGap, Default
  <2>2. GotInOrder'
    <3> SUFFICES ASSUME NEW r \in System, NEW i \in DOMAIN got'[r], NEW j \in DOMAIN got'[r],
                        Default(got'[r][i]), Default(got'[r][j]), i < j
                 PROVE  got'[r][i].id < got'[r][j].id
      BY <1>1 DEF GotInOrder, Default
    <3>1. r # s /\ got'[r] = got[r]
      BY <1>3
    <3> QED
      BY <3>1 DEF SInv, GotInOrder
  <2> QED
    BY <2>1, <2>2
<1>8. ReceiptsMatch'
  BY <1>1 DEF SInv, ReceiptsMatch
<1> QED
  BY <1>2, <1>5, <1>6, <1>7, <1>8 DEF SInv

\* Steps that touch neither messages nor receipts.
LEMMA StepOther ==
  ASSUME SInv, UNCHANGED <<sent, wire, fate, got, receipts>>, connected' \subseteq System
  PROVE  SInv'
<1>1. Shape'
  BY DEF SInv, Shape
<1>2. ReceiptsMatch'
  BY DEF SInv, ReceiptsMatch
<1>3. fate' \in [System -> Seq(Fates)] /\ \A s \in System : Arrived(s)' = Arrived(s)
  BY DEF SInv, Shape, Arrived
<1> QED
  BY <1>1, <1>2, <1>3, Undisturbed DEF SInv

-----------------------------------------------------------------------------
\* The invariant holds throughout: every message on the wire carries what its
\* call chose, and what arrived is what the wire says (rakpeer.rs:845-943).
THEOREM SendingInvariant ==
  ASSUME Options
  PROVE  Spec => []SInv
<1>1. ASSUME Init PROVE SInv
  <2>1. Shape
    BY <1>1 DEF Init, Shape
  <2>2. \A s \in System : Arrived(s) = {} /\ DOMAIN wire[s] = {} /\ DOMAIN got[s] = {}
    BY <1>1 DEF Init, Arrived
  <2> QED
    BY <1>1, <2>1, <2>2 DEF Init, SInv, OnTheWire, InCallOrder, FatesKnown,
       GotWhatArrived, NoGap, GotInOrder, ReceiptsMatch
<1>2. ASSUME SInv, [Next]_vars PROVE SInv'
  <2>1. ASSUME NEW chosen \in Choices, Send(chosen) PROVE SInv'
    BY <1>2, <2>1, StepSend
  <2>2. ASSUME NEW chosen \in Choices, SendPanics(chosen) PROVE SInv'
    BY <1>2, <2>2, StepOther DEF SendPanics, SInv, Shape
  <2>3. ASSUME NEW s \in System, NEW k \in DOMAIN wire[s], Deliver(s, k) PROVE SInv'
    BY <1>2, <2>3, StepDeliver
  <2>4. ASSUME NEW s \in System, NEW k \in DOMAIN wire[s], Ack(s, k) \/ ReportLost(s, k)
        PROVE  SInv'
    BY <1>2, <2>4, StepTold
  <2>5. ASSUME NEW s \in System, NEW k \in DOMAIN wire[s], LoseMessage(s, k) PROVE SInv'
    BY <1>2, <2>5, StepLoseMessage
  <2>6. ASSUME NEW s \in System, Leave(s) PROVE SInv'
    BY <1>2, <2>6, StepLeave
  <2>7. ASSUME NEW s \in System, Rejoin(s) PROVE SInv'
    BY <1>2, <2>7, StepOther DEF Rejoin, SInv, Shape
  <2>8. CASE UNCHANGED vars
    BY <1>2, <2>8, StepOther DEF vars, SInv, Shape
  <2> QED
    BY <1>2, <2>1, <2>2, <2>3, <2>4, <2>5, <2>6, <2>7, <2>8 DEF Next
<1> QED
  BY <1>1, <1>2, PTL DEF Spec

\* Every message on the wire has a reliability and a priority of RakNet's.
THEOREM SendingTypes ==
  ASSUME Options
  PROVE  Spec => []TypeOK
<1>1. ASSUME SInv PROVE TypeOK
  <2>1. \A s \in System : \A k \in DOMAIN wire[s] : wire[s][k] \in Entries
    BY <1>1 DEF SInv, Shape
  <2> QED
    BY <1>1, <2>1 DEF SInv, Shape, FatesKnown, TypeOK, Entries
<1> QED
  BY <1>1, SendingInvariant, PTL

\* What is sent with the builder's defaults arrives in the order of the calls,
\* once and without a gap (rakpeer.rs:862-872).
THEOREM DefaultsInOrder ==
  ASSUME Options
  PROVE  Spec => []DefaultInOrder
<1>1. ASSUME SInv PROVE DefaultInOrder
  <2> SUFFICES ASSUME NEW s \in System,
                      NEW i \in DOMAIN got[s], Default(got[s][i])
               PROVE  /\ \A j \in DOMAIN got[s] : Default(got[s][j]) /\ i < j =>
                           got[s][i].id < got[s][j].id
                      /\ \A k \in DOMAIN wire[s] :
                           Default(wire[s][k]) /\ wire[s][k].id < got[s][i].id =>
                             \E j \in DOMAIN got[s] : got[s][j] = wire[s][k]
    BY DEF DefaultInOrder
  <2>1. PICK q \in Arrived(s) : got[s][i] = wire[s][q]
    BY <1>1 DEF SInv, GotWhatArrived
  <2>2. q \in DOMAIN wire[s] /\ DOMAIN wire[s] \subseteq Nat
    BY <1>1 DEF SInv, Shape, Arrived
  <2>3. \A k \in DOMAIN wire[s] : wire[s][k] \in Entries
    BY <1>1 DEF SInv, Shape
  <2>4. ASSUME NEW k \in DOMAIN wire[s], Default(wire[s][k]), wire[s][k].id < wire[s][q].id
        PROVE  k \in Arrived(s)
    <3>1. k < q
      BY <1>1, <2>2, <2>3, <2>4 DEF SInv, InCallOrder, Entries
    <3> QED
      BY <1>1, <2>1, <2>2, <2>4, <3>1 DEF SInv, NoGap
  <2> QED
    BY <1>1, <2>1, <2>4 DEF SInv, GotInOrder, GotWhatArrived
<1> QED
  BY <1>1, SendingInvariant, PTL

\* A message arrives only where it was meant to, and as long as it was
\* (rakpeer.rs:909-942).
THEOREM MessagesAsMeant ==
  ASSUME Options
  PROVE  Spec => []ArrivesAsMeant
<1>1. ASSUME SInv PROVE ArrivesAsMeant
  <2> SUFFICES ASSUME NEW s \in System, NEW i \in DOMAIN got[s]
               PROVE  LET c == sent[got[s][i].id]
                      IN  /\ MeantFor(c, s) /\ c.result # None
                          /\ c.chosen.data[1] < WordSize =>
                               got[s][i].length = c.chosen.data[1]
    BY DEF ArrivesAsMeant, MeantFor
  <2>1. PICK q \in Arrived(s) : got[s][i] = wire[s][q]
    BY <1>1 DEF SInv, GotWhatArrived
  <2>2. q \in DOMAIN wire[s]
    BY DEF Arrived
  <2> DEFINE c == sent[got[s][i].id]
  <2>3. Carries(got[s][i], c) /\ MeantFor(c, s)
    BY <1>1, <2>1, <2>2 DEF SInv, OnTheWire
  <2> HIDE DEF c
  <2>4. c.result = Some(got[s][i].number)
    BY <2>3 DEF Carries
  <2>5. c.result # None
    BY <2>4 DEF Some, None
  <2>6. c.chosen.data[1] < WordSize => got[s][i].length = c.chosen.data[1]
    BY <2>3 DEF Carries
  <2> QED
    BY <2>3, <2>5, <2>6 DEF c
<1> QED
  BY <1>1, SendingInvariant, PTL

\* Receipts carry the numbers send returned (rakpeer.rs:904-907, 933).
THEOREM ReceiptsCarryNumbers ==
  ASSUME Options
  PROVE  Spec => []ReceiptsMatch
<1>1. SInv => ReceiptsMatch
  BY DEF SInv
<1> QED
  BY <1>1, SendingInvariant, PTL

=============================================================================
