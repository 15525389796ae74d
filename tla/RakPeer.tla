------------------------------- MODULE RakPeer -------------------------------
(***************************************************************************)
(* How the Rust side takes packets out of a RakPeer (src/rakpeer.rs).  A   *)
(* RakPeer is Sync, so several threads may be in Receive or ReceiveAll at  *)
(* the same time; each holds a raw pointer to a packet of RakNet's heap    *)
(* between RakPeer_Receive and RakPeer_DeallocatePacket and copies it in   *)
(* between.  The copy asserts that the sender's address is an IPv4 one, and *)
(* a failed assertion unwinds the thread with the pointer in its hand.     *)
(***************************************************************************)
EXTENDS Naturals, Sequences, FiniteSets

CONSTANTS
  Thread,       \* threads that share the peer
  Family,       \* address families packets may come from
  MaxPackets    \* bound: packets that arrive

ASSUME PeerAssumption ==
  /\ Family \subseteq {"AF_INET", "AF_INET6"}
  /\ MaxPackets \in Nat

Serial == 1 .. MaxPackets

VARIABLES
  queue,       \* RakNet: packets RakPeer_Receive has not handed out yet
  family,      \* RakNet: the address family of every packet that arrived
  heap,        \* RakNet: packets that are allocated
  dropped,     \* RakPeer_drop has been called
  call,        \* what each thread has called on the peer
  pc,          \* and how far it is
  packet,      \* Receive's pointer, 0 for null
  packets,     \* what the call has copied so far
  returned     \* what the thread's last call returned

netVars    == <<queue, family, heap, dropped>>
threadVars == <<call, pc, packet, packets, returned>>
vars == <<netVars, threadVars>>

Contents(seq) == {seq[i] : i \in DOMAIN seq}

Init ==
  /\ queue = <<>>
  /\ family = <<>>
  /\ heap = {}
  /\ dropped = FALSE
  /\ call = [t \in Thread |-> "none"]
  /\ pc = [t \in Thread |-> "idle"]
  /\ packet = [t \in Thread |-> 0]
  /\ packets = [t \in Thread |-> <<>>]
  /\ returned = [t \in Thread |-> <<>>]

\* RakNet's network thread allocates a packet and queues it.
Arrive(f) ==
  LET n == Len(family) + 1
  IN  /\ ~dropped
      /\ n \in Serial
      /\ family' = Append(family, f)
      /\ queue' = Append(queue, n)
      /\ heap' = heap \cup {n}
      /\ UNCHANGED <<dropped, threadVars>>

-----------------------------------------------------------------------------
Step(t, from, to) == pc[t] = from /\ pc' = [pc EXCEPT ![t] = to]

Call(t, kind) ==
  /\ ~dropped
  /\ Step(t, "idle", "receive")
  /\ call' = [call EXCEPT ![t] = kind]
  /\ packets' = [packets EXCEPT ![t] = <<>>]
  /\ UNCHANGED <<netVars, packet, returned>>

\* Slip: the packet goes back to RakNet as soon as it has been received.
FreedAtOnce == heap \ {Head(queue)}

\* RakPeer_Receive leaves the packet allocated.
HeapAfterReceive == heap

\* RakPeer_Receive returned a packet.
Receive(t) ==
  /\ Step(t, "receive", "convert")
  /\ queue # <<>>
  /\ packet' = [packet EXCEPT ![t] = Head(queue)]
  /\ queue' = Tail(queue)
  /\ heap' = HeapAfterReceive
  /\ UNCHANGED <<family, dropped, call, packets, returned>>

\* unsafe { &*packet }.into()
Convert(t) ==
  /\ Step(t, "convert", "deallocate")
  /\ family[packet[t]] = "AF_INET"
  /\ packets' = [packets EXCEPT ![t] = Append(@, packet[t])]
  /\ UNCHANGED <<netVars, call, packet, returned>>

\* assert_eq!(addr4.sin_family, AF_INET): the pointer is never deallocated
\* and the packets copied so far are dropped with the frame of ReceiveAll.
ConvertPanics(t) ==
  /\ Step(t, "convert", "panicked")
  /\ family[packet[t]] # "AF_INET"
  /\ UNCHANGED <<netVars, call, packet, packets, returned>>

\* Slips: ReceiveAll stops after its first packet; a Receive that has its
\* packet forgets to return it.
OnlyOnce(kind)  == "return"
Forgetful(kind) == IF kind = "ReceiveAll" THEN "receive" ELSE "idle"

\* Receive returns with one packet; ReceiveAll calls it again.
AfterPacket(kind) == IF kind = "ReceiveAll" THEN "receive" ELSE "return"

Deallocate(t) ==
  /\ Step(t, "deallocate", AfterPacket(call[t]))
  /\ heap' = heap \ {packet[t]}
  /\ packet' = [packet EXCEPT ![t] = 0]
  /\ UNCHANGED <<queue, family, dropped, call, packets, returned>>

Return(t) ==
  /\ call' = [call EXCEPT ![t] = "none"]
  /\ returned' = [returned EXCEPT ![t] = packets[t]]
  /\ packets' = [packets EXCEPT ![t] = <<>>]
  /\ UNCHANGED <<netVars, packet>>

\* packet.is_null(): Receive returns None, ReceiveAll what it has.
ReceiveNull(t) ==
  /\ Step(t, "receive", "idle")
  /\ queue = <<>>
  /\ Return(t)

ReturnPacket(t) ==
  /\ Step(t, "return", "idle")
  /\ Return(t)

\* Drop for RakPeer needs the peer for itself: no call is under way.  RakNet
\* frees the packets it still has.
Drop ==
  /\ ~dropped
  /\ \A t \in Thread : pc[t] \in {"idle", "panicked"}
  /\ dropped' = TRUE
  /\ queue' = <<>>
  /\ heap' = heap \ Contents(queue)
  /\ UNCHANGED <<family, threadVars>>

-----------------------------------------------------------------------------
Next ==
  \/ \E f \in Family : Arrive(f)
  \/ \E t \in Thread :
       \/ Call(t, "Receive") \/ Call(t, "ReceiveAll")
       \/ Receive(t) \/ Convert(t) \/ ConvertPanics(t) \/ Deallocate(t)
       \/ ReceiveNull(t) \/ ReturnPacket(t)
  \/ Drop

Spec == Init /\ [][Next]_vars

-----------------------------------------------------------------------------
\* The type of every variable.
TypeOK ==
  /\ queue \in Seq(Serial)
  /\ family \in Seq(Family) /\ Len(family) <= MaxPackets
  /\ heap \subseteq 1 .. Len(family)
  /\ dropped \in BOOLEAN
  /\ call \in [Thread -> {"none", "Receive", "ReceiveAll"}]
  /\ pc \in [Thread -> {"idle", "receive", "convert", "deallocate", "return",
                        "panicked"}]
  /\ packet \in [Thread -> Serial \cup {0}]
  /\ packets \in [Thread -> Seq(Serial)]
  /\ returned \in [Thread -> Seq(Serial)]
  /\ \A t \in Thread :
       /\ call[t] = "none" <=> pc[t] = "idle"
       /\ packet[t] # 0 <=> pc[t] \in {"convert", "deallocate", "panicked"}

Held(t) == {packet[t]} \ {0}

\* Whatever the threads do at the same time, a packet is allocated exactly
\* while RakNet has it queued or one thread holds its pointer: none is read
\* after it went back to RakNet, none goes back twice, and none is leaked
\* unless the thread that held it panicked.
HeapExact ==
  /\ heap = Contents(queue) \cup UNION {Held(t) : t \in Thread}
  /\ \A t \in Thread :
       /\ Held(t) \cap Contents(queue) = {}
       /\ \A u \in Thread \ {t} : Held(t) \cap Held(u) = {}

\* The threads' calls implement the mailbox, so a peer that only one thread
\* receives from is drained as if in one step when ReceiveAll returns.  A
\* thread that panicked has left its call.
Panicked  == {t \in Thread : pc[t] = "panicked"}
InHand(t) == Held(t) \cup Contents(packets[t])

Undelivered == Contents(queue) \cup UNION {InHand(t) : t \in Thread \ Panicked}
Receiving   == [t \in Thread |-> IF t \in Panicked THEN "none" ELSE call[t]]

Mail == INSTANCE Mailbox WITH
  arrived <- Len(family), undelivered <- Undelivered, receiving <- Receiving

ImplementsMailbox == Mail!Spec

-----------------------------------------------------------------------------
\* The inductive invariant of the proofs: what a thread has copied, the packet
\* in its hand and the queue follow each other in the order of arrival, and no
\* packet is with two threads.
OrderOK ==
  /\ Mail!InOrder(queue)
  /\ \A t \in Thread :
       LET mine == packets[t]
       IN  /\ Mail!InOrder(mine)
           /\ \A i \in DOMAIN mine : mine[i] <= Len(family)
           /\ \A j \in DOMAIN queue :
                packet[t] < queue[j] /\ \A i \in DOMAIN mine : mine[i] < queue[j]
           /\ pc[t] \in {"convert", "panicked"} =>
                \A i \in DOMAIN mine : mine[i] < packet[t]
           /\ pc[t] = "deallocate" => mine # <<>> /\ mine[Len(mine)] = packet[t]

OneOwner ==
  \A t \in Thread : \A u \in Thread \ {t} : \A i \in DOMAIN packets[t] :
    /\ packets[t][i] # packet[u]
    /\ \A j \in DOMAIN packets[u] : packets[t][i] # packets[u][j]

\* Receive copies one packet at most.
CallOK ==
  \A t \in Thread :
    /\ pc[t] = "idle" => packets[t] = <<>>
    /\ call[t] = "Receive" =>
         IF pc[t] \in {"deallocate", "return"} THEN Len(packets[t]) = 1
                                               ELSE packets[t] = <<>>
    /\ pc[t] = "return" => call[t] = "Receive"

IInv == TypeOK /\ HeapExact /\ OrderOK /\ OneOwner /\ CallOK

=============================================================================
