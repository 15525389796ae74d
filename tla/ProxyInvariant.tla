--------------------------- MODULE ProxyInvariant ---------------------------
(***************************************************************************)
(* The inductive invariant behind the theorems of ProxyProofs.  The safety *)
(* properties of the way from client to upstream follow from it; none of   *)
(* them is inductive by itself, for none says where the packets that are   *)
(* still to be handled stand relative to those that were.                  *)
(***************************************************************************)
EXTENDS ProxyProperties

-----------------------------------------------------------------------------
(***************************************************************************)
(* What is known of the packets, first at the server: its queue and the    *)
(* batch together are the tail of what has arrived.                        *)
(***************************************************************************)

\* How many packets handle_packet has returned from.
Handled == Len(arrived) - Len(batch) - Len(inbox)

\* A packet's session began before it, under the same GUID, with the packet
\* that has the session's number; sessions of one GUID follow each other.
ArrivedOK ==
  \A n \in 1 .. Len(arrived) :
    LET p == arrived[n]
    IN  /\ p.data.n = n
        /\ p.data.id = ID_NEW_INCOMING_CONNECTION <=> p.data.s = n
        /\ p.data.s <= n
        /\ p.data.s = 0 <=> p.guid \notin Key
        /\ p.data.s # 0 => /\ arrived[p.data.s].guid = p.guid
                           /\ arrived[p.data.s].data.s = p.data.s
        /\ \A m \in 1 .. n : arrived[m].guid = p.guid =>
                               arrived[m].data.s <= p.data.s

\* The session in a slot is the last one of its GUID.
OccupantOK ==
  \A i \in Slot : occupant[i] # Vacant =>
    LET s == occupant[i].s
        k == [g |-> occupant[i].g, system_index |-> i]
    IN  /\ s \in 1 .. Len(arrived)
        /\ arrived[s].guid = k
        /\ arrived[s].data.s = s
        /\ \A m \in 1 .. Len(arrived) : arrived[m].guid = k =>
                                          arrived[m].data.s <= s

PendingOK ==
  /\ pc \in {"receive", "serve", "reply"} => batch = <<>>
  /\ Handled >= 0
  /\ \A i \in 1 .. Len(batch) : batch[i] = arrived[Handled + i]
  /\ \A i \in 1 .. Len(inbox) : inbox[i] = arrived[Handled + Len(batch) + i]

-----------------------------------------------------------------------------
(***************************************************************************)
(* The connections: the map holds one for every GUID of which a packet was *)
(* handled, made for the last session of that GUID.                        *)
(***************************************************************************)
ConnectionsOK ==
  \A k \in Key :
    /\ k \in connections =>
         /\ session[k] \in 1 .. Handled
         /\ arrived[session[k]].guid = k
         /\ arrived[session[k]].data.s = session[k]
    /\ \A n \in 1 .. Handled :
         arrived[n].guid = k => /\ k \in connections
                                /\ arrived[n].data.s <= session[k]

\* The flush goes on although the connection may break meanwhile.
FlushOK ==
  pc = "flush" => /\ ~IsNew
                  /\ link[key] \in {"connected", "down"}

\* data is the payload of a packet of session s of k that has been handled,
\* and not of the packet that announced the session.
HandledData(data, k, s) ==
  /\ data.n \in (1 .. Handled) \ {s}
  /\ data = arrived[data.n].data
  /\ arrived[data.n].guid = k
  /\ data.s = s

QueueOK ==
  \A k \in connections :
    /\ \A i \in 1 .. Len(messages[k]) :
         HandledData(messages[k][i], k, session[k])
    /\ Rising(messages[k])
    /\ Before(forwarded[session[k]], messages[k])

ForwardedOK ==
  \A s \in Session :
    /\ \A i \in 1 .. Len(forwarded[s]) :
         HandledData(forwarded[s][i], arrived[s].guid, s)
    /\ Rising(forwarded[s])

KeptOK ==
  \A n \in 1 .. Handled :
    LET p == arrived[n]
    IN  \/ p.data.id = ID_NEW_INCOMING_CONNECTION
        \/ p.guid \notin connections
        \/ session[p.guid] # p.data.s
        \/ link[p.guid] = "down"
        \/ In(p.data, messages[p.guid])
        \/ In(p.data, forwarded[p.data.s])

PanicOK == ConnectedNeverPanics

\* The inductive invariant: the types, the packets, the connections and the
\* way of each packet.
IInv ==
  /\ TypeOK
  /\ ArrivedOK /\ OccupantOK /\ PendingOK
  /\ ConnectionsOK /\ FlushOK
  /\ QueueOK /\ ForwardedOK /\ KeptOK
  /\ PanicOK

=============================================================================
