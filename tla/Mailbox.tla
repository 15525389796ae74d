------------------------------- MODULE Mailbox -------------------------------
(***************************************************************************)
(* What RakPeer::Receive and ReceiveAll promise the threads that share a   *)
(* peer.  Packets are numbered as they arrive.  A call collects, in one    *)
(* step and in the order of arrival, packets nobody collected before; a    *)
(* ReceiveAll that is the only call under way when it returns leaves none  *)
(* behind, a Receive takes the oldest.  A call that panics loses what it   *)
(* had collected so far.                                                   *)
(***************************************************************************)
EXTENDS Naturals, Sequences

CONSTANT Thread

VARIABLES
  arrived,       \* how many packets have arrived
  undelivered,   \* those no call has returned
  receiving,     \* what each thread has called, "none" if it has not
  returned       \* what each thread's last call returned

mailVars == <<arrived, undelivered, receiving, returned>>

Collected(seq) == {seq[i] : i \in DOMAIN seq}
InOrder(seq)   == \A i, j \in DOMAIN seq : i < j => seq[i] < seq[j]

Init ==
  /\ arrived = 0
  /\ undelivered = {}
  /\ receiving = [t \in Thread |-> "none"]
  /\ returned = [t \in Thread |-> <<>>]

Deliver ==
  /\ arrived' = arrived + 1
  /\ undelivered' = undelivered \cup {arrived'}
  /\ UNCHANGED <<receiving, returned>>

Call(t) ==
  /\ receiving[t] = "none"
  /\ \E kind \in {"Receive", "ReceiveAll"} :
       receiving' = [receiving EXCEPT ![t] = kind]
  /\ UNCHANGED <<arrived, undelivered, returned>>

Ends(t) ==
  /\ receiving[t] # "none"
  /\ receiving' = [receiving EXCEPT ![t] = "none"]
  /\ UNCHANGED arrived

Alone(t) == \A u \in Thread \ {t} : receiving[u] = "none"

Collect(t) ==
  LET batch == returned'[t]
  IN  /\ Ends(t)
      /\ returned' = [returned EXCEPT ![t] = batch]
      /\ batch \in Seq(undelivered)
      /\ InOrder(batch)
      /\ undelivered' = undelivered \ Collected(batch)
      /\ receiving[t] = "Receive" =>
           /\ Len(batch) <= 1
           /\ Alone(t) => \A m \in undelivered', n \in Collected(batch) : n < m
      /\ receiving[t] = "ReceiveAll" /\ Alone(t) => undelivered' = {}

Fail(t) ==
  /\ Ends(t)
  /\ undelivered' \subseteq undelivered
  /\ Alone(t) => \A m \in undelivered', n \in undelivered \ undelivered' : n < m
  /\ UNCHANGED returned

\* The peer is dropped when no call is under way.
Close ==
  /\ \A t \in Thread : receiving[t] = "none"
  /\ undelivered' = {}
  /\ UNCHANGED <<arrived, receiving, returned>>

Next == Deliver \/ Close \/ \E t \in Thread : Call(t) \/ Collect(t) \/ Fail(t)

Spec == Init /\ [][Next]_mailVars

=============================================================================
