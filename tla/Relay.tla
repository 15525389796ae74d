------------------------------- MODULE Relay -------------------------------
(***************************************************************************)
(* What the proxy promises to the client of one session, without proxy,    *)
(* queues or polling: the upstream sees a prefix of what the client sent,  *)
(* one packet after the other, and once the way there is cut, for good, it *)
(* sees nothing more.                                                      *)
(***************************************************************************)
EXTENDS Naturals, Sequences

CONSTANTS Session, Message   \* a message has a serial number n

VARIABLES
  offered,    \* what the client of a session has sent, a set
  carried,    \* what its upstream connection has carried, one by one
  cut         \* the sessions whose way upstream is gone

relayVars == <<offered, carried, cut>>

Init ==
  /\ offered = [s \in Session |-> {}]
  /\ carried = [s \in Session |-> <<>>]
  /\ cut = {}

WasCarried(s, m) == \E i \in DOMAIN carried[s] : carried[s][i] = m

\* The client sends one more message, whichever it is.
Offer(s) ==
  \E m \in Message \cap offered'[s] :
    /\ \A o \in offered[s] : o.n < m.n
    /\ offered' = [offered EXCEPT ![s] = @ \cup {m}]
    /\ UNCHANGED <<carried, cut>>

\* The upstream sees the first message that it has not seen yet.
Carry(s) ==
  \E m \in offered[s] :
    /\ s \notin cut
    /\ ~WasCarried(s, m)
    /\ \A o \in offered[s] : o.n < m.n => WasCarried(s, o)
    /\ carried' = [carried EXCEPT ![s] = Append(@, m)]
    /\ UNCHANGED <<offered, cut>>

Cut(s) ==
  /\ cut' = cut \cup {s}
  /\ UNCHANGED <<offered, carried>>

Next == \E s \in Session : Offer(s) \/ Carry(s) \/ Cut(s)

Spec == Init /\ [][Next]_relayVars
=============================================================================
