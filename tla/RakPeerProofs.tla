---------------------------- MODULE RakPeerProofs ----------------------------
(***************************************************************************)
(* Theorems of RakPeer, for every set of threads and every bound.          *)
(***************************************************************************)
EXTENDS RakPeer, QueueFacts

\* The head of a queue is what it gives up, the tail what remains.
LEMMA ContentsOfTail ==
  ASSUME NEW S, NEW seq \in Seq(S), seq # <<>>
  PROVE  Contents(seq) = {Head(seq)} \cup Contents(Tail(seq))
<1>1. /\ DOMAIN seq = 1 .. Len(seq)
      /\ DOMAIN Tail(seq) = 1 .. Len(seq) - 1
      /\ Len(seq) \in Nat
  BY TailFacts
<1>2. ASSUME NEW x \in Contents(seq)
      PROVE  x \in {Head(seq)} \cup Contents(Tail(seq))
  <2>1. PICK i \in 1 .. Len(seq) : x = seq[i]
    BY <1>1 DEF Contents
  <2>2. CASE i = 1
    BY <2>1, <2>2, TailFacts
  <2>3. CASE i > 1
    <3>1. i - 1 \in 1 .. Len(seq) - 1 /\ (i - 1) + 1 = i
      BY <2>1, <2>3, <1>1
    <3>2. Tail(seq)[i - 1] = x
      BY <2>1, <3>1, TailFacts
    <3> QED
      BY <1>1, <3>1, <3>2 DEF Contents
  <2> QED
    BY <2>1, <2>2, <2>3
<1>3. ASSUME NEW x \in Contents(Tail(seq))
      PROVE  x \in Contents(seq)
  <2>1. PICK i \in 1 .. Len(seq) - 1 : x = Tail(seq)[i]
    BY <1>1 DEF Contents
  <2>2. i + 1 \in 1 .. Len(seq) /\ x = seq[i + 1]
    BY <2>1, <1>1, TailFacts
  <2> QED
    BY <1>1, <2>2 DEF Contents
<1>4. Head(seq) \in Contents(seq)
  BY <1>1, TailFacts DEF Contents
<1> QED
  BY <1>2, <1>3, <1>4

\* Appending adds one element.
LEMMA ContentsOfAppend ==
  ASSUME NEW S, NEW seq \in Seq(S), NEW x \in S
  PROVE  Contents(Append(seq, x)) = Contents(seq) \cup {x}
<1>1. /\ DOMAIN seq = 1 .. Len(seq)
      /\ DOMAIN Append(seq, x) = 1 .. Len(seq) + 1
      /\ Len(seq) \in Nat
  BY AppendFacts
<1>2. ASSUME NEW y \in Contents(Append(seq, x))
      PROVE  y \in Contents(seq) \cup {x}
  <2>1. PICK i \in 1 .. Len(seq) + 1 : y = Append(seq, x)[i]
    BY <1>1 DEF Contents
  <2>2. CASE i = Len(seq) + 1
    BY <2>1, <2>2, AppendFacts
  <2>3. CASE i # Len(seq) + 1
    <3>1. i \in 1 .. Len(seq)
      BY <1>1, <2>1, <2>3
    <3> QED
      BY <1>1, <2>1, <3>1, AppendFacts DEF Contents
  <2> QED
    BY <2>2, <2>3
<1>3. ASSUME NEW y \in Contents(seq)
      PROVE  y \in Contents(Append(seq, x))
  <2>1. PICK i \in 1 .. Len(seq) : y = seq[i]
    BY <1>1 DEF Contents
  <2>2. i \in 1 .. Len(seq) + 1 /\ Append(seq, x)[i] = y
    BY <1>1, <2>1, AppendFacts
  <2> QED
    BY <1>1, <2>2 DEF Contents
<1>4. x \in Contents(Append(seq, x))
  <2>1. Len(seq) + 1 \in 1 .. Len(seq) + 1
    BY <1>1
  <2> QED
    BY <1>1, <2>1, AppendFacts DEF Contents
<1> QED
  BY <1>2, <1>3, <1>4

-----------------------------------------------------------------------------
(***************************************************************************)
(* The inductive invariant.                                                *)
(***************************************************************************)
\* What is allocated has arrived, in the queue as in the threads' hands.
LEMMA Arrived ==
  ASSUME IInv
  PROVE  /\ Len(family) \in Nat
         /\ DOMAIN queue = 1 .. Len(queue) /\ Len(queue) \in Nat
         /\ \A i \in 1 .. Len(queue) : queue[i] \in 1 .. Len(family)
         /\ \A t \in Thread : packet[t] \in 0 .. Len(family)
         /\ \A t \in Thread : DOMAIN packets[t] = 1 .. Len(packets[t])
                              /\ Len(packets[t]) \in Nat
         /\ \A t \in Thread : \A i \in 1 .. Len(packets[t]) :
              packets[t][i] \in 1 .. Len(family)
<1>1. /\ TypeOK /\ HeapExact
      /\ Len(family) \in Nat
      /\ DOMAIN queue = 1 .. Len(queue) /\ Len(queue) \in Nat
  BY DEF IInv, TypeOK
<1>2. \A i \in 1 .. Len(queue) : queue[i] \in 1 .. Len(family)
  BY <1>1 DEF HeapExact, TypeOK, Contents
<1>3. ASSUME NEW t \in Thread
      PROVE  packet[t] \in 0 .. Len(family)
  <2>1. CASE packet[t] = 0
    BY <1>1, <2>1
  <2>2. CASE packet[t] # 0
    <3>1. packet[t] \in heap
      BY <1>1, <2>2 DEF HeapExact, Held
    <3>2. packet[t] \in 1 .. Len(family)
      BY <1>1, <3>1 DEF TypeOK
    <3> QED
      BY <1>1, <3>2
  <2> QED
    BY <2>1, <2>2
<1>4. ASSUME NEW t \in Thread
      PROVE  DOMAIN packets[t] = 1 .. Len(packets[t]) /\ Len(packets[t]) \in Nat
  <2>1. packets[t] \in Seq(Serial)
    BY <1>1 DEF TypeOK
  <2> QED
    BY <2>1
<1>5. ASSUME NEW t \in Thread, NEW i \in 1 .. Len(packets[t])
      PROVE  packets[t][i] \in 1 .. Len(family)
  <2>1. packets[t][i] \in Serial
    BY <1>1 DEF TypeOK
  <2>2. packets[t][i] <= Len(family)
    BY <1>4 DEF IInv, OrderOK
  <2> QED
    BY <1>1, <2>1, <2>2, PeerAssumption DEF Serial
<1> QED
  BY <1>1, <1>2, <1>3, <1>4, <1>5

\* The invariant holds before the first packet arrives.
LEMMA InitInv == Init => IInv
<1> SUFFICES ASSUME Init PROVE IInv
  OBVIOUS
<1>1. TypeOK
  <2>1. <<>> \in Seq(Serial) /\ <<>> \in Seq(Family) /\ Len(<<>>) = 0
    OBVIOUS
  <2>2. /\ call \in [Thread -> {"none", "Receive", "ReceiveAll"}]
        /\ pc \in [Thread -> {"idle", "receive", "convert", "deallocate",
                              "return", "panicked"}]
        /\ \A t \in Thread :
             /\ call[t] = "none" <=> pc[t] = "idle"
             /\ packet[t] # 0
                  <=> pc[t] \in {"convert", "deallocate", "panicked"}
    BY DEF Init
  <2>3. /\ packet \in [Thread -> Serial \cup {0}]
        /\ packets \in [Thread -> Seq(Serial)]
        /\ returned \in [Thread -> Seq(Serial)]
    BY <2>1 DEF Init
  <2>4. /\ queue \in Seq(Serial) /\ family \in Seq(Family)
        /\ Len(family) <= MaxPackets
        /\ heap \subseteq 1 .. Len(family)
    BY <2>1, PeerAssumption DEF Init
  <2>5. dropped \in BOOLEAN
    BY DEF Init
  <2> QED
    BY <2>2, <2>3, <2>4, <2>5 DEF TypeOK
<1>2. HeapExact
  BY DEF Init, HeapExact, Held, Contents
<1>3. OrderOK /\ OneOwner /\ CallOK
  BY DEF Init, OrderOK, OneOwner, CallOK, Mail!InOrder
<1> QED
  BY <1>1, <1>2, <1>3 DEF IInv

\* A packet that arrives is the newest of all.
LEMMA ArriveInv ==
  ASSUME IInv, NEW f \in Family, Arrive(f)
  PROVE  IInv'
<1> DEFINE n == Len(family) + 1
<1>1. /\ TypeOK /\ HeapExact /\ OrderOK /\ OneOwner /\ CallOK
      /\ n \in Serial
      /\ family' = Append(family, f) /\ queue' = Append(queue, n)
      /\ heap' = heap \cup {n}
      /\ UNCHANGED <<dropped, call, pc, packet, packets, returned>>
  BY DEF IInv, Arrive, threadVars
<1>2. Len(family') = n /\ family' \in Seq(Family) /\ n <= MaxPackets
  BY <1>1, PeerAssumption DEF TypeOK, Serial
<1>3. Contents(queue') = Contents(queue) \cup {n}
  BY <1>1, ContentsOfAppend DEF TypeOK
<1>4. TypeOK'
  <2>1. queue' \in Seq(Serial)
    BY <1>1 DEF TypeOK
  <2>2. heap' \subseteq 1 .. Len(family')
    <3>1. heap \subseteq 1 .. Len(family) /\ Len(family) \in Nat
      BY <1>1, Arrived DEF TypeOK
    <3>2. 1 .. Len(family') = 1 .. Len(family) \cup {n}
      BY <1>2, <3>1
    <3> QED
      BY <1>1, <3>1, <3>2
  <2> QED
    BY <1>1, <1>2, <2>1, <2>2 DEF TypeOK
<1>5. HeapExact'
  <2>1. \A t \in Thread : n \notin Held(t)
    BY <1>1, Arrived DEF Held
  <2> QED
    BY <1>1, <1>3, <2>1 DEF HeapExact, Held
<1>6. OrderOK'
  <2>1. /\ Len(queue') = Len(queue) + 1
        /\ DOMAIN queue' = 1 .. Len(queue) + 1
        /\ \A i \in 1 .. Len(queue) : queue'[i] = queue[i]
        /\ queue'[Len(queue) + 1] = n
    BY <1>1, AppendFacts DEF TypeOK
  <2>2. Mail!InOrder(queue')
    BY <1>1, <2>1, Arrived DEF OrderOK, Mail!InOrder
  <2>3. ASSUME NEW t \in Thread, NEW j \in DOMAIN queue'
        PROVE  /\ packet[t] < queue'[j]
               /\ \A i \in DOMAIN packets[t] : packets[t][i] < queue'[j]
    <3>1. CASE j = Len(queue) + 1
      <4>1. \A i \in DOMAIN packets[t] : packets[t][i] \in 1 .. Len(family)
        BY Arrived
      <4> QED
        BY <2>1, <3>1, <4>1, Arrived
    <3>2. CASE j # Len(queue) + 1
      <4>1. j \in DOMAIN queue /\ queue'[j] = queue[j]
        BY <2>1, <3>2, Arrived
      <4> QED
        BY <1>1, <4>1 DEF OrderOK
    <3> QED
      BY <3>1, <3>2
  <2>4. ASSUME NEW t \in Thread, NEW i \in DOMAIN packets[t]
        PROVE  packets[t][i] <= Len(family')
    <3>1. packets[t][i] \in 1 .. Len(family)
      BY Arrived
    <3> QED
      BY <1>2, <3>1, Arrived
  <2> QED
    BY <1>1, <2>2, <2>3, <2>4 DEF OrderOK
<1>7. OneOwner' /\ CallOK'
  BY <1>1 DEF OneOwner, CallOK
<1> QED
  BY <1>4, <1>5, <1>6, <1>7 DEF IInv

\* A step that only begins a call, or only ends it, in which thread t drops
\* what it had copied.
LEMMA EmptyHandsInv ==
  ASSUME IInv, NEW t \in Thread, packet[t] = 0, pc[t] # "panicked",
         UNCHANGED <<netVars, packet>>,
         NEW to \in {"idle", "receive"}, pc' = [pc EXCEPT ![t] = to],
         NEW kind \in {"none", "Receive", "ReceiveAll"},
         call' = [call EXCEPT ![t] = kind],
         kind = "none" <=> to = "idle",
         packets' = [packets EXCEPT ![t] = <<>>],
         returned' \in [Thread -> Seq(Serial)]
  PROVE  IInv'
<1>1. TypeOK /\ HeapExact /\ OrderOK /\ OneOwner /\ CallOK
  BY DEF IInv
<1>2. UNCHANGED <<queue, family, heap, dropped, packet>>
  BY DEF netVars
<1>3. TypeOK'
  BY <1>1, <1>2 DEF TypeOK
<1>4. HeapExact'
  BY <1>1, <1>2 DEF HeapExact, Held
<1>5. /\ packets'[t] = <<>> /\ pc'[t] = to /\ call'[t] = kind
      /\ \A u \in Thread \ {t} : /\ packets'[u] = packets[u]
                                 /\ pc'[u] = pc[u] /\ call'[u] = call[u]
  BY <1>1 DEF TypeOK
<1>6. OrderOK'
  <2>1. \A j \in DOMAIN queue : packet[t] < queue[j]
    BY <1>1 DEF OrderOK
  <2>2. ASSUME NEW u \in Thread \ {t}
        PROVE  packets'[u] = packets[u] /\ pc'[u] = pc[u] /\ packet'[u] = packet[u]
    BY <1>2, <1>5
  <2> QED
    BY <1>1, <1>2, <1>5, <2>1, <2>2 DEF OrderOK, Mail!InOrder
<1>7. OneOwner'
  BY <1>1, <1>2, <1>5 DEF OneOwner
<1>8. CallOK'
  BY <1>1, <1>5 DEF CallOK
<1> QED
  BY <1>3, <1>4, <1>6, <1>7, <1>8 DEF IInv

\* A call begins with empty hands.
LEMMA CallInv ==
  ASSUME IInv, NEW t \in Thread, NEW kind \in {"Receive", "ReceiveAll"},
         Call(t, kind)
  PROVE  IInv'
<1>1. packet[t] = 0 /\ pc[t] # "panicked"
  BY DEF IInv, TypeOK, Call, Step
<1>2. returned' \in [Thread -> Seq(Serial)]
  BY DEF IInv, TypeOK, Call
<1> QED
  BY <1>1, <1>2, EmptyHandsInv DEF Call, Step

\* A call ends with empty hands.
LEMMA ReturnInv ==
  ASSUME IInv, NEW t \in Thread, ReceiveNull(t) \/ ReturnPacket(t)
  PROVE  IInv'
<1>1. packet[t] = 0 /\ pc[t] # "panicked"
  BY DEF IInv, TypeOK, ReceiveNull, ReturnPacket, Step
<1>2. returned' \in [Thread -> Seq(Serial)]
  BY DEF IInv, TypeOK, ReceiveNull, ReturnPacket, Return
<1> QED
  BY <1>1, <1>2, EmptyHandsInv
  DEF ReceiveNull, ReturnPacket, Return, Step

\* The packet at the head of the queue passes into the thread's hand.
LEMMA ReceiveInv ==
  ASSUME IInv, NEW t \in Thread, Receive(t)
  PROVE  IInv'
<1> DEFINE p == Head(queue)
<1>1. /\ TypeOK /\ HeapExact /\ OrderOK /\ OneOwner /\ CallOK
      /\ queue # <<>> /\ queue' = Tail(queue)
      /\ pc[t] = "receive" /\ pc' = [pc EXCEPT ![t] = "convert"]
      /\ packet' = [packet EXCEPT ![t] = p]
      /\ UNCHANGED <<heap, family, dropped, call, packets, returned>>
  BY DEF IInv, Receive, Step, HeapAfterReceive
<1>2. /\ queue' \in Seq(Serial) /\ p \in Serial /\ p = queue[1]
      /\ Len(queue) >= 1
      /\ DOMAIN queue' = 1 .. Len(queue) - 1
      /\ \A i \in 1 .. Len(queue) - 1 : queue'[i] = queue[i + 1]
      /\ Contents(queue) = {p} \cup Contents(queue')
  BY <1>1, TailFacts, ContentsOfTail DEF TypeOK
<1>3. packet[t] = 0 /\ p # 0 /\ p \in Nat
  <2>1. packet[t] = 0
    BY <1>1 DEF TypeOK
  <2>2. p \in 1 .. MaxPackets
    BY <1>2 DEF Serial
  <2> QED
    BY <2>1, <2>2, PeerAssumption
<1>4. /\ packet'[t] = p /\ pc'[t] = "convert"
      /\ \A u \in Thread \ {t} : packet'[u] = packet[u] /\ pc'[u] = pc[u]
  BY <1>1 DEF TypeOK
<1>5. TypeOK'
  BY <1>1, <1>2, <1>3, <1>4 DEF TypeOK
<1>6. ASSUME NEW i \in DOMAIN queue, NEW j \in DOMAIN queue, i < j
      PROVE  queue[i] < queue[j]
  <2>1. Mail!InOrder(queue)
    BY <1>1 DEF OrderOK
  <2> QED
    BY <1>6, <2>1 DEF Mail!InOrder
<1>7. /\ 1 \in DOMAIN queue
      /\ \A j \in DOMAIN queue' : /\ j + 1 \in DOMAIN queue /\ 1 < j + 1
                                  /\ queue'[j] = queue[j + 1]
  BY <1>2, Arrived
<1>8. \A j \in DOMAIN queue' : p < queue'[j]
  BY <1>2, <1>6, <1>7
<1>9. HeapExact'
  <2>1. Held(t)' = {p} /\ Held(t) = {}
    BY <1>3, <1>4 DEF Held
  <2>2. \A u \in Thread \ {t} : Held(u)' = Held(u)
    BY <1>4 DEF Held
  <2>3. p \notin Contents(queue')
    <3>1. \A j \in DOMAIN queue' : queue'[j] # p
      BY <1>2, <1>3, <1>7, <1>8, Arrived
    <3> QED
      BY <3>1 DEF Contents
  <2>4. \A u \in Thread : p \notin Held(u)
    BY <1>1, <1>2 DEF HeapExact
  <2>5. heap' = Contents(queue') \cup UNION {Held(u)' : u \in Thread}
    <3>1. UNION {Held(u)' : u \in Thread}
            = {p} \cup UNION {Held(u) : u \in Thread}
      BY <2>1, <2>2
    <3> QED
      BY <1>1, <1>2, <3>1 DEF HeapExact
  <2>6. ASSUME NEW u \in Thread
        PROVE  /\ Held(u)' \cap Contents(queue') = {}
               /\ \A w \in Thread \ {u} : Held(u)' \cap Held(w)' = {}
    BY <1>1, <1>2, <2>1, <2>2, <2>3, <2>4 DEF HeapExact
  <2> QED
    BY <2>5, <2>6 DEF HeapExact
<1>10. OrderOK'
  <2>1. Mail!InOrder(queue')
    BY <1>2, <1>6, <1>7, Arrived DEF Mail!InOrder
  <2>2. ASSUME NEW u \in Thread, NEW j \in DOMAIN queue'
        PROVE  /\ packet'[u] < queue'[j]
               /\ \A i \in DOMAIN packets[u] : packets[u][i] < queue'[j]
    <3>1. j + 1 \in DOMAIN queue /\ queue'[j] = queue[j + 1]
      BY <1>2, <1>7
    <3>2. /\ packet[u] < queue[j + 1]
          /\ \A i \in DOMAIN packets[u] : packets[u][i] < queue[j + 1]
      BY <1>1, <3>1 DEF OrderOK
    <3> QED
      BY <1>4, <1>8, <3>1, <3>2
  <2>3. ASSUME NEW i \in DOMAIN packets[t]
        PROVE  packets[t][i] < p
    <3>1. packets[t][i] < queue[1]
      BY <1>1, <1>7 DEF OrderOK
    <3> QED
      BY <1>2, <3>1
  <2> QED
    BY <1>1, <1>4, <2>1, <2>2, <2>3 DEF OrderOK
<1>11. OneOwner'
  <2>1. ASSUME NEW u \in Thread, NEW i \in DOMAIN packets[u]
        PROVE  packets[u][i] # p
    <3>1. packets[u][i] < queue[1]
      BY <1>1, <1>7 DEF OrderOK
    <3>2. packets[u][i] \in Nat
      BY Arrived
    <3> QED
      BY <1>2, <1>3, <3>1, <3>2
  <2> QED
    BY <1>1, <1>4, <2>1 DEF OneOwner
<1>12. CallOK'
  BY <1>1, <1>4 DEF CallOK, TypeOK
<1> QED
  BY <1>5, <1>9, <1>10, <1>11, <1>12 DEF IInv

\* The packet in the thread's hand is the next one of its Vec.
LEMMA ConvertInv ==
  ASSUME IInv, NEW t \in Thread, Convert(t)
  PROVE  IInv'
<1>1. /\ TypeOK /\ HeapExact /\ OrderOK /\ OneOwner /\ CallOK
      /\ pc[t] = "convert" /\ pc' = [pc EXCEPT ![t] = "deallocate"]
      /\ packets' = [packets EXCEPT ![t] = Append(@, packet[t])]
      /\ UNCHANGED <<queue, heap, family, dropped, call, packet, returned>>
  BY DEF IInv, Convert, Step, netVars
<1> DEFINE mine == packets[t]
           n    == Len(mine)
<1>2. packet[t] \in Serial /\ mine \in Seq(Serial)
  BY <1>1 DEF TypeOK
<1>3. /\ packets'[t] \in Seq(Serial)
      /\ Len(packets'[t]) = n + 1 /\ DOMAIN packets'[t] = 1 .. n + 1
      /\ \A i \in 1 .. n : packets'[t][i] = mine[i]
      /\ packets'[t][n + 1] = packet[t]
      /\ pc'[t] = "deallocate"
      /\ \A u \in Thread \ {t} : packets'[u] = packets[u] /\ pc'[u] = pc[u]
  <2>1. packets'[t] = Append(mine, packet[t])
    BY <1>1 DEF TypeOK
  <2> QED
    BY <1>1, <1>2, <2>1, AppendFacts DEF TypeOK
<1>4. n \in Nat /\ DOMAIN mine = 1 .. n
  BY Arrived
<1>5. \A i \in 1 .. n + 1 : i = n + 1 \/ i \in 1 .. n
  BY <1>4
<1>6. TypeOK'
  <2>1. packets' \in [Thread -> Seq(Serial)]
    BY <1>1, <1>3 DEF TypeOK
  <2> QED
    BY <1>1, <1>3, <2>1 DEF TypeOK
<1>7. HeapExact'
  BY <1>1 DEF HeapExact, Held
<1>8. OrderOK'
  <2>1. Mail!InOrder(packets'[t])
    <3>1. ASSUME NEW i \in 1 .. n + 1, NEW j \in 1 .. n + 1, i < j
          PROVE  packets'[t][i] < packets'[t][j]
      <4>1. i \in 1 .. n
        BY <1>4, <3>1
      <4>2. CASE j = n + 1
        BY <1>1, <1>3, <1>4, <4>1, <4>2 DEF OrderOK
      <4>3. CASE j \in 1 .. n
        BY <1>1, <1>3, <1>4, <3>1, <4>1, <4>3 DEF OrderOK, Mail!InOrder
      <4> QED
        BY <1>5, <4>2, <4>3
    <3> QED
      BY <1>3, <3>1 DEF Mail!InOrder
  <2>2. ASSUME NEW i \in DOMAIN packets'[t]
        PROVE  /\ packets'[t][i] <= Len(family)
               /\ \A j \in DOMAIN queue : packets'[t][i] < queue[j]
    BY <1>1, <1>3, <1>4, <1>5, Arrived DEF OrderOK
  <2>3. packets'[t] # <<>> /\ packets'[t][Len(packets'[t])] = packet[t]
    BY <1>3, <1>4
  <2>4. \A j \in DOMAIN queue : packet[t] < queue[j]
    BY <1>1 DEF OrderOK
  <2> QED
    BY <1>1, <1>3, <2>1, <2>2, <2>3, <2>4 DEF OrderOK
<1>9. OneOwner'
  <2>1. \A u \in Thread \ {t} : packet[u] # packet[t]
    BY <1>1 DEF HeapExact, Held, TypeOK
  <2>2. \A u \in Thread \ {t} : \A j \in DOMAIN packets[u] :
          packets[u][j] # packet[t]
    BY <1>1 DEF OneOwner
  <2>3. ASSUME NEW u \in Thread, NEW w \in Thread \ {u},
               NEW i \in DOMAIN packets'[u]
        PROVE  /\ packets'[u][i] # packet[w]
               /\ \A j \in DOMAIN packets'[w] : packets'[u][i] # packets'[w][j]
    <3>1. CASE u = t
      BY <1>1, <1>3, <1>4, <1>5, <2>1, <2>2, <3>1 DEF OneOwner
    <3>2. CASE w = t
      BY <1>1, <1>3, <1>4, <1>5, <2>2, <3>2 DEF OneOwner
    <3>3. CASE u # t /\ w # t
      BY <1>1, <1>3, <3>3 DEF OneOwner
    <3> QED
      BY <3>1, <3>2, <3>3
  <2> QED
    BY <1>1, <2>3 DEF OneOwner
<1>10. CallOK'
  <2>1. call[t] = "Receive" => n = 0
    BY <1>1 DEF CallOK
  <2> QED
    BY <1>1, <1>3, <2>1 DEF CallOK
<1> QED
  BY <1>6, <1>7, <1>8, <1>9, <1>10 DEF IInv

\* A thread that panics keeps what it holds for good.
LEMMA PanicInv ==
  ASSUME IInv, NEW t \in Thread, ConvertPanics(t)
  PROVE  IInv'
<1>1. /\ TypeOK /\ HeapExact /\ OrderOK /\ OneOwner /\ CallOK
      /\ pc[t] = "convert" /\ pc' = [pc EXCEPT ![t] = "panicked"]
      /\ UNCHANGED <<queue, heap, family, dropped, call, packet, packets,
                     returned>>
  BY DEF IInv, ConvertPanics, Step, netVars
<1>2. pc'[t] = "panicked" /\ \A u \in Thread \ {t} : pc'[u] = pc[u]
  BY <1>1 DEF TypeOK
<1>3. TypeOK'
  BY <1>1, <1>2 DEF TypeOK
<1>4. HeapExact'
  BY <1>1 DEF HeapExact, Held
<1>5. OrderOK'
  BY <1>1, <1>2 DEF OrderOK, Mail!InOrder
<1>6. OneOwner' /\ CallOK'
  BY <1>1, <1>2 DEF OneOwner, CallOK
<1> QED
  BY <1>3, <1>4, <1>5, <1>6 DEF IInv

\* The packet goes back to RakNet's heap and out of the thread's hand.
LEMMA DeallocateInv ==
  ASSUME IInv, NEW t \in Thread, Deallocate(t)
  PROVE  IInv'
<1> DEFINE p  == packet[t]
           to == AfterPacket(call[t])
<1>1. /\ TypeOK /\ HeapExact /\ OrderOK /\ OneOwner /\ CallOK
      /\ pc[t] = "deallocate" /\ pc' = [pc EXCEPT ![t] = to]
      /\ heap' = heap \ {p}
      /\ packet' = [packet EXCEPT ![t] = 0]
      /\ UNCHANGED <<queue, family, dropped, call, packets, returned>>
  BY DEF IInv, Deallocate, Step
<1>2. /\ packet'[t] = 0 /\ pc'[t] = to
      /\ \A u \in Thread \ {t} : packet'[u] = packet[u] /\ pc'[u] = pc[u]
  BY <1>1 DEF TypeOK
<1>3. p # 0 /\ call[t] \in {"Receive", "ReceiveAll"}
  BY <1>1 DEF TypeOK
<1>4. to = IF call[t] = "ReceiveAll" THEN "receive" ELSE "return"
  BY DEF AfterPacket
<1>5. TypeOK'
  BY <1>1, <1>2, <1>3, <1>4 DEF TypeOK
<1>6. HeapExact'
  <2>1. Held(t)' = {} /\ Held(t) = {p}
    BY <1>2, <1>3 DEF Held
  <2>2. \A u \in Thread \ {t} : Held(u)' = Held(u) /\ p \notin Held(u)
    BY <1>1, <1>2, <2>1 DEF HeapExact, Held
  <2>3. p \notin Contents(queue)
    BY <1>1, <2>1 DEF HeapExact
  <2>4. UNION {Held(u)' : u \in Thread}
          = (UNION {Held(u) : u \in Thread}) \ {p}
    BY <2>1, <2>2
  <2> QED
    BY <1>1, <2>1, <2>2, <2>3, <2>4 DEF HeapExact
<1>7. OrderOK'
  <2>1. \A j \in DOMAIN queue : 0 < queue[j]
    BY Arrived
  <2> QED
    BY <1>1, <1>2, <1>4, <2>1, SMTT(20) DEF OrderOK
<1>8. OneOwner'
  <2>1. \A u \in Thread : \A i \in DOMAIN packets[u] : packets[u][i] # 0
    BY Arrived
  <2> QED
    BY <1>1, <1>2, <2>1 DEF OneOwner
<1>9. CallOK'
  BY <1>1, <1>2, <1>3, <1>4 DEF CallOK
<1> QED
  BY <1>5, <1>6, <1>7, <1>8, <1>9 DEF IInv

\* Dropping the peer frees what is queued and nothing else.
LEMMA DropInv ==
  ASSUME IInv, Drop
  PROVE  IInv'
<1>1. /\ TypeOK /\ HeapExact /\ OrderOK /\ OneOwner /\ CallOK
      /\ queue' = <<>> /\ heap' = heap \ Contents(queue) /\ dropped' = TRUE
      /\ UNCHANGED <<family, call, pc, packet, packets, returned>>
  BY DEF IInv, Drop, threadVars
<1>2. Contents(queue') = {} /\ DOMAIN queue' = {}
  BY <1>1 DEF Contents
<1>3. TypeOK'
  <2>1. queue' \in Seq(Serial)
    BY <1>1
  <2>2. heap' \subseteq 1 .. Len(family)
    BY <1>1 DEF TypeOK
  <2>3. dropped' \in BOOLEAN
    BY <1>1
  <2> QED
    BY <1>1, <2>1, <2>2, <2>3 DEF TypeOK
<1>4. HeapExact'
  BY <1>1, <1>2 DEF HeapExact, Held
<1>5. OrderOK'
  BY <1>1, <1>2 DEF OrderOK, Mail!InOrder
<1>6. OneOwner' /\ CallOK'
  BY <1>1 DEF OneOwner, CallOK
<1> QED
  BY <1>3, <1>4, <1>5, <1>6 DEF IInv

\* Every step preserves the invariant.
LEMMA StepInv == IInv /\ [Next]_vars => IInv'
<1> SUFFICES ASSUME IInv, [Next]_vars PROVE IInv'
  OBVIOUS
<1>1. CASE Next
  BY <1>1, ArriveInv, CallInv, ReceiveInv, ConvertInv, PanicInv,
     DeallocateInv, ReturnInv, DropInv DEF Next
<1>2. CASE UNCHANGED vars
  BY <1>2 DEF vars, netVars, threadVars, IInv, TypeOK, HeapExact, Held,
              OrderOK, OneOwner, CallOK, Mail!InOrder
<1> QED
  BY <1>1, <1>2

\* The inductive invariant holds in every reachable state.
THEOREM PeerInvariant == Spec => []IInv
BY InitInv, StepInv, PTL DEF Spec

\* Every variable of the peer and its threads keeps to its type.
THEOREM PeerTypes == Spec => []TypeOK
<1>1. IInv => TypeOK
  BY DEF IInv
<1> QED
  BY <1>1, PeerInvariant, PTL

\* No interleaving of threads in Receive and ReceiveAll makes them read a
\* packet after it was deallocated, deallocate it twice, or leak it without a
\* panic.
THEOREM PacketsOwned == Spec => []HeapExact
<1>1. IInv => HeapExact
  BY DEF IInv
<1> QED
  BY <1>1, PeerInvariant, PTL

-----------------------------------------------------------------------------
(***************************************************************************)
(* The refinement of the mailbox.                                          *)
(***************************************************************************)
\* What is undelivered, element by element.
LEMMA UndeliveredMember ==
  ASSUME NEW x
  PROVE  x \in Undelivered <=>
           \/ x \in Contents(queue)
           \/ \E t \in Thread : /\ pc[t] # "panicked"
                                /\ x \in Held(t) \/ x \in Contents(packets[t])
BY DEF Undelivered, Panicked, InHand

\* A new peer is an empty mailbox.
LEMMA InitMailbox == Init => Mail!Init
<1> SUFFICES ASSUME Init PROVE Mail!Init
  OBVIOUS
<1>1. Len(family) = 0
  BY DEF Init
<1>2. Undelivered = {}
  BY DEF Init, Undelivered, InHand, Held, Contents
<1>3. Receiving = [t \in Thread |-> "none"]
  BY DEF Init, Receiving, Panicked
<1> QED
  BY <1>1, <1>2, <1>3 DEF Init, Mail!Init

\* A packet that arrives is delivered to the mailbox.
LEMMA ArriveMailbox ==
  ASSUME IInv, NEW f \in Family, Arrive(f)
  PROVE  Mail!Deliver
<1>1. /\ Len(family') = Len(family) + 1
      /\ queue' = Append(queue, Len(family) + 1)
      /\ Len(family) + 1 \in Serial
      /\ UNCHANGED <<call, pc, packet, packets, returned>>
  <2>1. family \in Seq(Family)
    BY DEF IInv, TypeOK
  <2> QED
    BY <2>1 DEF Arrive, threadVars
<1>2. Contents(queue') = Contents(queue) \cup {Len(family')}
  BY <1>1, ContentsOfAppend DEF IInv, TypeOK
<1>3. Undelivered' = Undelivered \cup {Len(family')}
  BY <1>1, <1>2 DEF Undelivered, Panicked, InHand, Held
<1>4. Receiving' = Receiving
  BY <1>1 DEF Receiving, Panicked
<1> QED
  BY <1>1, <1>3, <1>4 DEF Mail!Deliver

\* The abstract state of the calls after a step of thread t alone.
LEMMA ReceivingStep ==
  ASSUME IInv, NEW t \in Thread,
         NEW to, to # "panicked", pc' = [pc EXCEPT ![t] = to],
         pc[t] # "panicked",
         NEW kind, call' = [call EXCEPT ![t] = kind]
  PROVE  /\ Receiving' = [Receiving EXCEPT ![t] = kind]
         /\ Receiving[t] = call[t]
<1>1. /\ pc'[t] = to /\ call'[t] = kind
      /\ \A u \in Thread \ {t} : pc'[u] = pc[u] /\ call'[u] = call[u]
  BY DEF IInv, TypeOK
<1> QED
  BY <1>1 DEF Receiving, Panicked

\* A call on the peer is a call on the mailbox.
LEMMA CallMailbox ==
  ASSUME IInv, NEW t \in Thread, NEW kind \in {"Receive", "ReceiveAll"},
         Call(t, kind)
  PROVE  Mail!Call(t)
<1>1. /\ pc[t] = "idle" /\ pc' = [pc EXCEPT ![t] = "receive"]
      /\ call' = [call EXCEPT ![t] = kind] /\ call[t] = "none"
      /\ packets[t] = <<>> /\ packets' = [packets EXCEPT ![t] = <<>>]
      /\ UNCHANGED <<queue, family, packet, returned>>
  BY DEF IInv, TypeOK, CallOK, Call, Step, netVars
<1>2. packets' = packets
  BY <1>1 DEF IInv, TypeOK
<1>3. Receiving' = [Receiving EXCEPT ![t] = kind] /\ Receiving[t] = "none"
  BY <1>1, ReceivingStep
<1>4. Undelivered' = Undelivered
  <2>1. Panicked' = Panicked
    BY <1>1 DEF Panicked, IInv, TypeOK
  <2> QED
    BY <1>1, <1>2, <2>1 DEF Undelivered, InHand, Held
<1> QED
  BY <1>1, <1>3, <1>4 DEF Mail!Call

\* Receiving, copying and giving back a packet changes nothing the mailbox
\* shows.
LEMMA InnerMailbox ==
  ASSUME IInv, NEW t \in Thread, Receive(t) \/ Convert(t) \/ Deallocate(t)
  PROVE  UNCHANGED Mail!mailVars
<1>1. /\ UNCHANGED <<family, call, returned>>
      /\ pc[t] \in {"receive", "convert", "deallocate"}
      /\ pc' \in [Thread -> {"idle", "receive", "convert", "deallocate",
                             "return", "panicked"}]
      /\ pc'[t] # "panicked"
      /\ \A u \in Thread \ {t} : pc'[u] = pc[u]
  BY DEF IInv, TypeOK, Receive, Convert, Deallocate, Step, netVars, AfterPacket
<1>2. Panicked' = Panicked /\ t \in Thread \ Panicked
  BY <1>1 DEF Panicked
<1>3. Receiving' = Receiving
  BY <1>1, <1>2 DEF Receiving
<1>4. Undelivered' = Undelivered
  <2>1. ASSUME \A u \in Thread \ {t} :
                 packet'[u] = packet[u] /\ packets'[u] = packets[u],
               Contents(queue') \cup InHand(t)' = Contents(queue) \cup InHand(t)
        PROVE  Undelivered' = Undelivered
    <3>1. \A u \in Thread \ {t} : InHand(u)' = InHand(u)
      BY <2>1 DEF InHand, Held
    <3>2. Undelivered = (Contents(queue) \cup InHand(t))
            \cup UNION {InHand(u) : u \in (Thread \ Panicked) \ {t}}
      BY <1>2 DEF Undelivered
    <3>3. Undelivered' = (Contents(queue') \cup InHand(t)')
            \cup UNION {InHand(u)' : u \in (Thread \ Panicked) \ {t}}
      BY <1>2 DEF Undelivered
    <3>4. UNION {InHand(u)' : u \in (Thread \ Panicked) \ {t}}
            = UNION {InHand(u) : u \in (Thread \ Panicked) \ {t}}
      BY <3>1
    <3> QED
      BY <2>1, <3>2, <3>3, <3>4
  <2>2. CASE Receive(t)
    <3>1. /\ queue # <<>> /\ queue' = Tail(queue) /\ queue \in Seq(Serial)
          /\ packet[t] = 0 /\ packet'[t] = Head(queue)
          /\ packets' = packets
          /\ \A u \in Thread \ {t} : packet'[u] = packet[u]
      BY <2>2 DEF Receive, Step, IInv, TypeOK
    <3>2. Contents(queue) = {Head(queue)} \cup Contents(queue')
      BY <3>1, ContentsOfTail
    <3>3. Head(queue) # 0
      <4>1. Head(queue) \in Serial
        BY <3>1
      <4> QED
        BY <4>1 DEF Serial
    <3> QED
      BY <2>1, <3>1, <3>2, <3>3 DEF InHand, Held
  <2>3. CASE Convert(t)
    <3>1. /\ UNCHANGED <<queue, packet>>
          /\ packet[t] \in Serial /\ packets[t] \in Seq(Serial)
          /\ packets'[t] = Append(packets[t], packet[t])
          /\ \A u \in Thread \ {t} : packets'[u] = packets[u]
      BY <2>3 DEF Convert, Step, netVars, IInv, TypeOK
    <3>2. Contents(packets'[t]) = Contents(packets[t]) \cup {packet[t]}
      BY <3>1, ContentsOfAppend
    <3>3. packet[t] # 0
      BY <3>1 DEF Serial
    <3> QED
      BY <2>1, <3>1, <3>2, <3>3 DEF InHand, Held
  <2>4. CASE Deallocate(t)
    <3>1. /\ UNCHANGED <<queue, packets>> /\ packet'[t] = 0
          /\ packets[t] # <<>> /\ packets[t][Len(packets[t])] = packet[t]
          /\ \A u \in Thread \ {t} : packet'[u] = packet[u]
      BY <2>4 DEF Deallocate, Step, IInv, TypeOK, OrderOK
    <3>2. packet[t] \in Contents(packets[t])
      <4>1. packets[t] \in Seq(Serial)
        BY DEF IInv, TypeOK
      <4>2. Len(packets[t]) \in DOMAIN packets[t]
        BY <3>1, <4>1
      <4> QED
        BY <3>1, <4>2 DEF Contents
    <3> QED
      BY <2>1, <3>1, <3>2 DEF InHand, Held
  <2> QED
    BY <2>2, <2>3, <2>4
<1> QED
  BY <1>1, <1>3, <1>4 DEF Mail!mailVars

\* Nobody else is in a call: what is undelivered is in the queue or with t.
LEMMA AloneFacts ==
  ASSUME IInv, NEW t \in Thread, pc[t] # "panicked", Mail!Alone(t)
  PROVE  Undelivered = Contents(queue) \cup InHand(t)
<1>1. ASSUME NEW u \in Thread \ {t}, pc[u] # "panicked"
      PROVE  InHand(u) = {}
  <2>1. call[u] = "none"
    BY <1>1 DEF Mail!Alone, Receiving, Panicked
  <2>2. packet[u] = 0 /\ packets[u] = <<>>
    BY <2>1 DEF IInv, TypeOK, CallOK
  <2> QED
    BY <2>2 DEF InHand, Held, Contents
<1> QED
  BY <1>1 DEF Undelivered, Panicked

\* A call that returns has what it collected, and nobody else has any of it.
LEMMA ReturnMailbox ==
  ASSUME IInv, NEW t \in Thread, ReceiveNull(t) \/ ReturnPacket(t)
  PROVE  Mail!Collect(t)
<1> DEFINE mine == packets[t]
<1>1. /\ pc[t] \in {"receive", "return"} /\ pc' = [pc EXCEPT ![t] = "idle"]
      /\ call' = [call EXCEPT ![t] = "none"]
      /\ returned' = [returned EXCEPT ![t] = mine]
      /\ packets' = [packets EXCEPT ![t] = <<>>]
      /\ UNCHANGED <<queue, family, packet>>
      /\ pc[t] = "receive" => queue = <<>>
      /\ call[t] # "none" /\ packet[t] = 0
  BY DEF ReceiveNull, ReturnPacket, Return, Step, netVars, IInv, TypeOK
<1>2. Receiving' = [Receiving EXCEPT ![t] = "none"] /\ Receiving[t] = call[t]
  BY <1>1, ReceivingStep
<1>3. /\ returned'[t] = mine
      /\ packets'[t] = <<>>
      /\ \A u \in Thread \ {t} : packets'[u] = packets[u]
      /\ Panicked' = Panicked /\ t \notin Panicked
      /\ mine \in Seq(Serial)
      /\ DOMAIN mine = 1 .. Len(mine)
  BY <1>1 DEF IInv, TypeOK, Panicked
<1>4. Mail!Collected(mine) = Contents(mine)
  BY DEF Mail!Collected, Contents
<1>5. mine \in Seq(Undelivered)
  <2>1. \A i \in 1 .. Len(mine) : mine[i] \in Undelivered
    BY <1>3 DEF Undelivered, InHand, Contents
  <2> QED
    BY <1>3, <2>1
<1>6. Mail!InOrder(mine)
  BY DEF IInv, OrderOK
<1>7. InHand(t) = Contents(mine) /\ InHand(t)' = {}
  BY <1>1, <1>3 DEF InHand, Held, Contents
<1>8. \A u \in Thread \ {t} : InHand(u)' = InHand(u)
  BY <1>1, <1>3 DEF InHand, Held
<1>9. ASSUME NEW u \in Thread \ {t}
      PROVE  InHand(u) \cap Contents(mine) = {}
  BY DEF IInv, OneOwner, InHand, Held, Contents
<1>10. Contents(queue) \cap Contents(mine) = {}
  <2>1. ASSUME NEW i \in DOMAIN mine, NEW j \in DOMAIN queue
        PROVE  mine[i] # queue[j]
    <3>1. mine[i] < queue[j]
      BY DEF IInv, OrderOK
    <3>2. mine[i] \in Nat
      BY Arrived
    <3> QED
      BY <3>1, <3>2
  <2> QED
    BY <2>1 DEF Contents
<1>11. Undelivered' = Undelivered \ Contents(mine)
  <2> DEFINE others == UNION {InHand(u) : u \in (Thread \ Panicked) \ {t}}
  <2>1. Undelivered = (Contents(queue) \cup InHand(t)) \cup others
    BY <1>3 DEF Undelivered
  <2>2. Undelivered' = (Contents(queue) \cup InHand(t)')
          \cup UNION {InHand(u)' : u \in (Thread \ Panicked) \ {t}}
    BY <1>1, <1>3 DEF Undelivered
  <2>3. UNION {InHand(u)' : u \in (Thread \ Panicked) \ {t}} = others
    BY <1>8
  <2>4. others \cap Contents(mine) = {}
    BY <1>9
  <2> QED
    BY <1>7, <1>10, <2>1, <2>2, <2>3, <2>4
<1>12. call[t] = "Receive" => Len(mine) <= 1
  <2>1. call[t] = "Receive" => Len(mine) = 1 \/ mine = <<>>
    BY <1>1 DEF IInv, CallOK
  <2>2. ASSUME mine = <<>> PROVE Len(mine) <= 1
    BY <2>2
  <2>3. ASSUME Len(mine) = 1 PROVE Len(mine) <= 1
    BY <2>3
  <2> QED
    BY <2>1, <2>2, <2>3
<1>13. ASSUME Mail!Alone(t)
       PROVE  Undelivered' = Contents(queue)
  BY <1>1, <1>3, <1>7, <1>10, <1>11, <1>13, AloneFacts
<1>14. ASSUME Mail!Alone(t), NEW m \in Undelivered', NEW n \in Contents(mine)
       PROVE  n < m
  <2>1. m \in Contents(queue)
    BY <1>13, <1>14
  <2> QED
    BY <1>14, <2>1 DEF IInv, OrderOK, Contents
<1>15. ASSUME Mail!Alone(t), call[t] = "ReceiveAll"
       PROVE  Undelivered' = {}
  <2>1. queue = <<>>
    BY <1>1, <1>15 DEF IInv, CallOK
  <2> QED
    BY <1>13, <1>15, <2>1 DEF Contents
<1>16. Mail!Ends(t)
  BY <1>1, <1>2 DEF Mail!Ends
<1> QED
  BY <1>1, <1>2, <1>3, <1>4, <1>5, <1>6, <1>11, <1>12, <1>14, <1>15, <1>16
  DEF Mail!Collect

\* A call that panics loses what it had collected, which is older than the
\* rest if nobody else was receiving.
LEMMA PanicMailbox ==
  ASSUME IInv, NEW t \in Thread, ConvertPanics(t)
  PROVE  Mail!Fail(t)
<1>1. /\ pc[t] = "convert" /\ pc' = [pc EXCEPT ![t] = "panicked"]
      /\ UNCHANGED <<queue, family, call, packet, packets, returned>>
      /\ call[t] # "none"
  BY DEF ConvertPanics, Step, netVars, IInv, TypeOK
<1>2. Panicked' = Panicked \cup {t} /\ t \notin Panicked
  BY <1>1 DEF Panicked, IInv, TypeOK
<1>3. Mail!Ends(t)
  <2>1. Receiving' = [Receiving EXCEPT ![t] = "none"]
    BY <1>1, <1>2 DEF Receiving
  <2>2. Receiving[t] # "none"
    BY <1>1, <1>2 DEF Receiving
  <2> QED
    BY <1>1, <2>1, <2>2 DEF Mail!Ends
<1>4. \A u \in Thread : InHand(u)' = InHand(u)
  BY <1>1 DEF InHand, Held
<1>5. /\ Undelivered' \subseteq Undelivered
      /\ Undelivered \ Undelivered' \subseteq InHand(t)
      /\ Contents(queue) \subseteq Undelivered'
  BY <1>1, <1>2, <1>4 DEF Undelivered
<1>6. ASSUME Mail!Alone(t), NEW m \in Undelivered',
             NEW n \in Undelivered \ Undelivered'
      PROVE  n < m
  <2>1. n \in InHand(t) /\ Undelivered = Contents(queue) \cup InHand(t)
    BY <1>1, <1>5, <1>6, AloneFacts
  <2>2. m \in Contents(queue)
    <3>1. Undelivered' = Contents(queue)
            \cup UNION {InHand(u) : u \in (Thread \ Panicked) \ {t}}
      BY <1>1, <1>2, <1>4 DEF Undelivered
    <3>2. ASSUME NEW u \in (Thread \ Panicked) \ {t}
          PROVE  InHand(u) = {}
      <4>1. call[u] = "none"
        BY <1>6, <3>2 DEF Mail!Alone, Receiving
      <4>2. packet[u] = 0 /\ packets[u] = <<>>
        BY <4>1 DEF IInv, TypeOK, CallOK
      <4> QED
        BY <4>2 DEF InHand, Held, Contents
    <3> QED
      BY <1>6, <3>1, <3>2
  <2>3. \A j \in DOMAIN queue : /\ packet[t] < queue[j]
                                /\ \A i \in DOMAIN packets[t] :
                                     packets[t][i] < queue[j]
    BY DEF IInv, OrderOK
  <2> QED
    BY <2>1, <2>2, <2>3 DEF InHand, Held, Contents
<1> QED
  BY <1>1, <1>3, <1>5, <1>6 DEF Mail!Fail

\* Dropping the peer closes the mailbox.
LEMMA DropMailbox ==
  ASSUME IInv, Drop
  PROVE  Mail!Close
<1>1. /\ \A t \in Thread : pc[t] \in {"idle", "panicked"}
      /\ queue' = <<>>
      /\ UNCHANGED <<family, call, pc, packet, packets, returned>>
  BY DEF Drop, threadVars
<1>2. \A t \in Thread : Receiving[t] = "none"
  BY <1>1 DEF Receiving, Panicked, IInv, TypeOK
<1>3. ASSUME NEW t \in Thread \ Panicked
      PROVE  InHand(t) = {}
  <2>1. packet[t] = 0 /\ packets[t] = <<>>
    BY <1>1 DEF Panicked, IInv, TypeOK, CallOK
  <2> QED
    BY <2>1 DEF InHand, Held, Contents
<1>4. Undelivered' = {}
  <2>1. Panicked' = Panicked /\ \A t \in Thread : InHand(t)' = InHand(t)
    BY <1>1 DEF Panicked, InHand, Held
  <2>2. Contents(queue') = {}
    BY <1>1 DEF Contents
  <2> QED
    BY <1>3, <2>1, <2>2 DEF Undelivered
<1>5. Receiving' = Receiving
  BY <1>1 DEF Receiving, Panicked
<1> QED
  BY <1>1, <1>2, <1>4, <1>5 DEF Mail!Close

\* Every step of the peer is a step of the mailbox, or one it does not show.
LEMMA StepMailbox == IInv /\ [Next]_vars => [Mail!Next]_(Mail!mailVars)
<1> SUFFICES ASSUME IInv, [Next]_vars PROVE [Mail!Next]_(Mail!mailVars)
  OBVIOUS
<1>1. CASE UNCHANGED vars
  BY <1>1 DEF vars, netVars, threadVars, Mail!mailVars, Undelivered, Receiving,
              Panicked, InHand, Held
<1>2. CASE \E f \in Family : Arrive(f)
  BY <1>2, ArriveMailbox DEF Mail!Next
<1>3. ASSUME NEW t \in Thread, Call(t, "Receive") \/ Call(t, "ReceiveAll")
      PROVE  Mail!Next
  BY <1>3, CallMailbox DEF Mail!Next
<1>4. ASSUME NEW t \in Thread, Receive(t) \/ Convert(t) \/ Deallocate(t)
      PROVE  UNCHANGED Mail!mailVars
  BY <1>4, InnerMailbox
<1>5. ASSUME NEW t \in Thread, ReceiveNull(t) \/ ReturnPacket(t)
      PROVE  Mail!Next
  BY <1>5, ReturnMailbox DEF Mail!Next
<1>6. ASSUME NEW t \in Thread, ConvertPanics(t)
      PROVE  Mail!Next
  BY <1>6, PanicMailbox DEF Mail!Next
<1>7. CASE Drop
  BY <1>7, DropMailbox DEF Mail!Next
<1> QED
  BY <1>1, <1>2, <1>3, <1>4, <1>5, <1>6, <1>7 DEF Next

\* Receive and ReceiveAll, called by any number of threads, behave like calls
\* that collect their packets at once; what they return is complete, in order
\* and nobody else's.
THEOREM ReceiveIsAtomic == Spec => ImplementsMailbox
<1>1. Init => Mail!Init
  BY InitMailbox
<1>2. IInv /\ [Next]_vars => [Mail!Next]_(Mail!mailVars)
  BY StepMailbox
<1> QED
  BY <1>1, <1>2, PeerInvariant, PTL DEF Spec, ImplementsMailbox, Mail!Spec

=============================================================================
