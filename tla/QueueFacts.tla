------------------------------ MODULE QueueFacts ------------------------------
(***************************************************************************)
(* What the proofs need to know of the sequences queues are made of.       *)
(***************************************************************************)
EXTENDS Naturals, Sequences, TLAPS

\* What taking the head off a queue leaves.
LEMMA TailFacts ==
  ASSUME NEW S, NEW seq \in Seq(S), seq # <<>>
  PROVE  /\ Tail(seq) \in Seq(S)
         /\ Head(seq) \in S
         /\ Head(seq) = seq[1]
         /\ Len(seq) >= 1
         /\ Len(Tail(seq)) = Len(seq) - 1
         /\ \A i \in 1 .. Len(seq) - 1 : Tail(seq)[i] = seq[i + 1]
OBVIOUS

\* What a queue is after something has been put at its end.
LEMMA AppendFacts ==
  ASSUME NEW S, NEW seq \in Seq(S), NEW x \in S
  PROVE  /\ Append(seq, x) \in Seq(S)
         /\ Len(Append(seq, x)) = Len(seq) + 1
         /\ \A i \in 1 .. Len(seq) : Append(seq, x)[i] = seq[i]
         /\ Append(seq, x)[Len(seq) + 1] = x
OBVIOUS

=============================================================================
