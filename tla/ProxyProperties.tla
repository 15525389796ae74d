-------------------------- MODULE ProxyProperties --------------------------
(***************************************************************************)
(* What is expected of the proxy: of the way from a client to its upstream *)
(* connection, of the way back, and of the program as a whole.             *)
(***************************************************************************)
EXTENDS Proxy

In(x, seq)     == \E i \in DOMAIN seq : seq[i] = x
Rising(seq)    == \A i, j \in DOMAIN seq : i < j => seq[i].n < seq[j].n
Before(s1, s2) == \A i \in DOMAIN s1, j \in DOMAIN s2 : s1[i].n < s2[j].n

\* The payloads of a sequence of packets.
Payload(packets) == [i \in DOMAIN packets |-> packets[i].data]

-----------------------------------------------------------------------------
\* The type of every variable.
TypeOK ==
  /\ occupant \in [Slot -> Occupant]
  /\ inbox \in Seq(Packet)
  /\ arrived \in Seq(Packet) /\ Len(arrived) <= MaxPackets
  /\ connections \subseteq Key
  /\ messages \in [Key -> Seq(Data)]
  /\ system_address \in [Key -> Address]
  /\ session \in [Key -> Session \cup {0}]
  /\ link \in [Key -> {"none", "connecting", "connected", "down"}]
  /\ received \in [Key -> Seq(Reply)]
  /\ remote \in [Key -> Seq(Reply)]
  /\ pc \in {"receive", "handle", "flush", "serve", "reply", "panicked"}
  /\ batch \in Seq(Packet)
  /\ pc = "flush" => batch # <<>> /\ key \in connections
  /\ todo \subseteq connections
  /\ at \in connections \cup {Unassigned}
  /\ replies \in Seq(Reply)
  /\ pc = "reply" => at # Unassigned
  /\ forwarded \in [Session -> Seq(Data)]
  /\ delivered \in [Key -> Seq([n : Nat, to : Occupant])]

-----------------------------------------------------------------------------
\* forward_packet sends the queued packets first, oldest first, and then the
\* one at hand: what an upstream connection has carried, what waits in the
\* queue of the ProxyConnection and what is still to be handled follow each
\* other in the order of arrival, and no packet is twice in that line.
ForwardOrder ==
  /\ \A s \in Session : Rising(forwarded[s])
  /\ Rising(Payload(batch)) /\ Rising(Payload(inbox))
  /\ Before(Payload(batch), Payload(inbox))
  /\ \A k \in connections :
       /\ Rising(messages[k])
       /\ Before(forwarded[session[k]], messages[k])
       /\ Before(messages[k], Payload(batch))
       /\ Before(messages[k], Payload(inbox))

\* As long as a ProxyConnection's upstream has not failed, every packet its
\* client sent is somewhere on the way: still to be handled, saved in the
\* queue, or carried upstream.
NothingLost ==
  \A n \in DOMAIN arrived :
    LET p == arrived[n]
    IN  \/ In(p, inbox) \/ In(p, batch)
        \/ p.data.id = ID_NEW_INCOMING_CONNECTION
        \/ p.guid \notin connections
        \/ session[p.guid] # p.data.s \/ link[p.guid] = "down"
        \/ In(p.data, messages[p.guid])
        \/ In(p.data, forwarded[p.data.s])

\* An upstream connection carries the packets of one session of one client:
\* nothing a former holder of the same GUID and index sent, nothing of anyone
\* else.
SessionIsolation ==
  /\ \A k \in connections : \A i \in DOMAIN messages[k] :
       messages[k][i].s = session[k] /\ arrived[messages[k][i].n].guid = k
  /\ \A s \in Session : \A i \in DOMAIN forwarded[s] :
       /\ forwarded[s][i].s = s
       /\ arrived[forwarded[s][i].n].guid = arrived[s].guid

\* The expect("received a packet from an unconnected system") and the assert
\* of handle_packet never stop the proxy because of a packet that a connected
\* client sent, nor of one that announces that it has left: whatever the
\* order of connects, disconnects and reconnects, the connection's entry in
\* the map is there by the time its packets are handled.
ConnectedNeverPanics ==
  pc = "panicked" => batch # <<>> /\ (packet.data.s = 0 \/ IsNew)

-----------------------------------------------------------------------------
\* The replies still to be looked at of the connection being served.
Serving(k) == IF pc = "reply" /\ at = k THEN replies ELSE <<>>

\* Replies go back in the order the upstream sent them, none twice, and none
\* but RakNet's own notifications is left out, although connections come and
\* go while serve works through them.
RepliesInOrder ==
  \A k \in connections :
    /\ Rising(delivered[k]) /\ Rising(Serving(k)) /\ Rising(received[k])
    /\ Before(delivered[k], Serving(k)) /\ Before(delivered[k], received[k])
    /\ Before(Serving(k), received[k])
    /\ \A i \in DOMAIN remote[k] :
         remote[k][i].id >= ID_ADVERTISE_SYSTEM =>
           \/ In(remote[k][i], received[k]) \/ In(remote[k][i], Serving(k))
           \/ \E j \in DOMAIN delivered[k] : delivered[k][j].n = i

\* A reply reaches the client instance whose packets its upstream connection
\* carries, or nobody (addresses being those of one client instance each).
ReplyRecipient ==
  \A k \in connections : \A i \in DOMAIN delivered[k] :
    delivered[k][i].to # Vacant => delivered[k][i].to.g = k.g

-----------------------------------------------------------------------------
\* Every packet that arrives is handled, whatever else happens meanwhile.
EverythingHandled ==
  \A n \in Serial :
    Len(arrived) >= n ~> \A i \in DOMAIN inbox : inbox[i].data.n > n
                         /\ \A j \in DOMAIN batch : batch[j].data.n > n

ToForward(k, seq) ==
  \E i \in DOMAIN seq : /\ seq[i].guid = k
                        /\ seq[i].data.id # ID_NEW_INCOMING_CONNECTION

\* Once the upstream connection stands, the next packet of the client takes
\* the whole queue along, unless the connection breaks first.
NextPacketFlushes ==
  \A k \in Key :
    (/\ k \in connections /\ messages[k] # <<>> /\ link[k] = "connected"
     /\ ToForward(k, inbox))
    ~> (messages[k] = <<>> \/ link[k] = "down")

\* Every reply leaves the upstream's receive queue and the proxy's hands.
RepliesServed ==
  \A k \in Key, n \in 1 .. MaxRemote + 2 :
    (k \in connections /\ \E i \in DOMAIN received[k] : received[k][i].n = n)
    ~> (\A i \in DOMAIN received[k] : received[k][i].n # n)
       /\ (\A i \in DOMAIN Serving(k) : Serving(k)[i].n # n)

-----------------------------------------------------------------------------
\* The proxy implements the relay.  A session has offered the packets that
\* arrived in it, except the one that announced it; its way upstream is cut
\* when the upstream of its ProxyConnection fails, and when a later session
\* with the same key has taken the ProxyConnection's place in the map.
Offered(s) ==
  {arrived[n].data : n \in {m \in 1 .. Len(arrived) :
                              arrived[m].data.s = s /\ m # s}}

CutOff ==
  {s \in Session : \E k \in connections :
     \/ session[k] = s /\ link[k] = "down"
     \/ session[k] > s /\ arrived[s].guid = k /\ arrived[s].data.s = s}

Relays == INSTANCE Relay WITH
  Message <- [id : ClientId \cup ClosingId, n : Serial, s : Session],
  offered <- [s \in Session |-> Offered(s)],
  carried <- forwarded,
  cut     <- CutOff

\* What an upstream has seen is always a prefix of what the client of that
\* session sent, and it never grows once the connection failed.
ImplementsRelay == Relays!Spec

-----------------------------------------------------------------------------
\* What the comments and headers say and the program does not do.

\* "Not yet connected. Save the packet for later." (proxy.rs:87): a packet
\* saved while the upstream was connecting is sent once it is connected.
SavedPacketIsSent ==
  \A k \in Key :
    (k \in connections /\ messages[k] # <<>>)
    ~> (messages[k] = <<>> \/ link[k] = "down")

\* proxy.rs:168 asks "Is it possible?" and asserts that every packet has a
\* GUID; raknet_types.h says when it has none.
GuidIsAssigned == pc = "panicked" => packet.guid # Unassigned

\* "The first byte should be a message identifier starting at
\* ID_USER_PACKET_ENUM." (rakpeer.h:157, of Send): clients that keep to it
\* should not make the proxy break it.
SendsUserMessages ==
    \A s \in Session : \A i \in DOMAIN forwarded[s] :
      forwarded[s][i].id >= ID_USER_PACKET_ENUM

\* "Use RakNetGUID for a unique per-instance of RakPeer to identify systems"
\* (raknet_types.h:233): what the upstream answers to one instance goes to no
\* other.
ReplyReachesInstance == ReplyRecipient

=============================================================================
