---------------------------- MODULE EventStories ----------------------------
(***************************************************************************)
(* The events a runtime queues for one request, and what appending an      *)
(* event to the queue and taking one from it does to them.  The proofs     *)
(* about both runtimes of the application rest on these lemmas.            *)
(***************************************************************************)
EXTENDS Naturals, Sequences, SequenceTheorems, TLAPS

(* All events of a queue are of one request, and its terminal event, if    *)
(* there is one, is the last.                                              *)
Story(q, id) == \A k \in 1 .. Len(q) : q[k].id = id /\ (q[k].kind # "progress" => k = Len(q))
Final(q) == \E k \in 1 .. Len(q) : q[k].kind # "progress"
Cancels(q) == \E k \in 1 .. Len(q) : q[k].kind = "cancelled"

-----------------------------------------------------------------------------
LEMMA EmptyStory == \A id : Story(<<>>, id) /\ ~ Final(<<>>) /\ ~ Cancels(<<>>)
BY DEF Story, Final, Cancels

LEMMA AppendStory ==
  ASSUME NEW S, NEW q \in Seq(S), NEW e \in S, NEW id, Story(q, id), ~ Final(q), e.id = id
  PROVE  /\ Append(q, e) \in Seq(S) /\ Append(q, e) # <<>> /\ Story(Append(q, e), id)
         /\ Final(Append(q, e)) <=> e.kind # "progress"
         /\ Cancels(Append(q, e)) <=> e.kind = "cancelled"
<1>1. /\ Append(q, e) \in Seq(S) /\ Len(Append(q, e)) = Len(q) + 1 /\ Len(q) \in Nat
      /\ Append(q, e)[Len(q) + 1] = e
      /\ \A k \in 1 .. Len(q) : Append(q, e)[k] = q[k]
  OBVIOUS
<1>2. \A k \in 1 .. Len(q) + 1 : k \in 1 .. Len(q) \/ k = Len(q) + 1
  BY <1>1
<1>3. \A k \in 1 .. Len(q) : q[k].kind = "progress" /\ q[k].id = id
  BY DEF Story, Final
<1>4. Append(q, e) # <<>>
  BY <1>1
<1>5. Len(q) + 1 \in 1 .. Len(q) + 1
  BY <1>1
<1> QED
  BY <1>1, <1>2, <1>3, <1>4, <1>5 DEF Story, Final, Cancels

LEMMA TailStory ==
  ASSUME NEW S, NEW q \in Seq(S), NEW id, Story(q, id), q # <<>>
  PROVE  /\ Head(q) \in S /\ Head(q).id = id /\ Tail(q) \in Seq(S) /\ Story(Tail(q), id)
         /\ Head(q).kind # "progress" => Tail(q) = <<>> /\ Final(q)
         /\ Head(q).kind = "progress" => (Final(Tail(q)) <=> Final(q))
         /\ Head(q).kind = "cancelled" => Cancels(q)
         /\ Cancels(Tail(q)) => Cancels(q)
<1>1. /\ Len(q) \in Nat /\ Len(q) >= 1 /\ Head(q) = q[1] /\ Tail(q) \in Seq(S)
      /\ Len(Tail(q)) = Len(q) - 1 /\ 1 \in 1 .. Len(q)
      /\ \A k \in 1 .. Len(q) - 1 : Tail(q)[k] = q[k + 1]
  OBVIOUS
<1>2. Head(q) \in S
  BY <1>1, ElementOfSeq
<1>3. \A k \in 1 .. Len(q) - 1 : k + 1 \in 1 .. Len(q) /\ (k + 1 = Len(q) <=> k = Len(q) - 1)
  BY <1>1
<1>4. \A k \in 1 .. Len(q) : k = 1 \/ (k - 1 \in 1 .. Len(q) - 1 /\ (k - 1) + 1 = k)
  BY <1>1
<1>5. Head(q).kind # "progress" => Len(q) = 1
  BY <1>1 DEF Story
<1>6. Len(q) = 1 => Tail(q) = <<>>
  <2>1. Len(q) = 1 => Len(Tail(q)) = 0
    BY <1>1
  <2> QED
    BY <1>1, <2>1, EmptySeq
<1>7. Story(Tail(q), id)
  <2>1. SUFFICES ASSUME NEW k \in 1 .. Len(q) - 1
                 PROVE  Tail(q)[k].id = id /\ (Tail(q)[k].kind # "progress" => k = Len(q) - 1)
    BY <1>1 DEF Story
  <2>2. k + 1 \in 1 .. Len(q) /\ (k + 1 = Len(q) <=> k = Len(q) - 1) /\ Tail(q)[k] = q[k + 1]
    BY <1>1, <1>3
  <2> QED
    BY <2>2 DEF Story
<1>8. Head(q).kind = "progress" /\ Final(q) => Final(Tail(q))
  <2>1. SUFFICES ASSUME Head(q).kind = "progress", NEW k \in 1 .. Len(q), q[k].kind # "progress"
                 PROVE  Final(Tail(q))
    BY DEF Final
  <2>2. k - 1 \in 1 .. Len(q) - 1 /\ Tail(q)[k - 1] = q[k]
    BY <1>1, <1>4, <2>1
  <2> QED
    BY <1>1, <2>1, <2>2 DEF Final
<1>9. (Final(Tail(q)) => Final(q)) /\ (Cancels(Tail(q)) => Cancels(q))
  BY <1>1, <1>3 DEF Final, Cancels
<1>10. (Head(q).kind # "progress" => Final(q)) /\ (Head(q).kind = "cancelled" => Cancels(q))
  BY <1>1 DEF Final, Cancels
<1>11. Head(q).id = id
  BY <1>1 DEF Story
<1> QED
  BY <1>1, <1>2, <1>5, <1>6, <1>7, <1>8, <1>9, <1>10, <1>11

=============================================================================
