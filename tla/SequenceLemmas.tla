--------------------------- MODULE SequenceLemmas ---------------------------
(***************************************************************************)
(* What the refinement proofs need to know of sequences: how appending,    *)
(* taking the head and concatenating act on lengths and elements.          *)
(***************************************************************************)
EXTENDS Naturals, Sequences, TLAPS

\* What the two ends of a queue do to its elements.
LEMMA AppendEnds ==
    ASSUME NEW S, NEW q \in Seq(S), NEW x \in S
    PROVE  /\ Append(q, x) \in Seq(S)
           /\ Len(Append(q, x)) = Len(q) + 1
           /\ \A i \in 1 .. Len(q) : Append(q, x)[i] = q[i]
           /\ Append(q, x)[Len(q) + 1] = x
OBVIOUS

\* Taking the head off a queue shifts the rest by one.
LEMMA HeadTail ==
    ASSUME NEW S, NEW q \in Seq(S), q # <<>>
    PROVE  /\ Tail(q) \in Seq(S)
           /\ Len(Tail(q)) = Len(q) - 1
           /\ Len(q) \in Nat \ {0}
           /\ Head(q) = q[1] /\ Head(q) \in S
           /\ \A i \in 1 .. Len(Tail(q)) : Tail(q)[i] = q[i + 1]
OBVIOUS

\* How concatenation, the abstract queue, meets the ends of its operands.
LEMMA CatAppend ==
    ASSUME NEW S, NEW q \in Seq(S), NEW r \in Seq(S), NEW x \in S
    PROVE  q \o Append(r, x) = Append(q \o r, x)
OBVIOUS

\* The head of a concatenation is taken from a first operand that has one.
LEMMA CatTail ==
    ASSUME NEW S, NEW q \in Seq(S), NEW r \in Seq(S), q # <<>>
    PROVE  /\ Head(q \o r) = Head(q)
           /\ Tail(q \o r) = Tail(q) \o r
           /\ q \o r # <<>>
OBVIOUS

\* The empty sequence is neutral.
LEMMA CatEmpty ==
    ASSUME NEW S, NEW q \in Seq(S)
    PROVE  q \o <<>> = q /\ <<>> \o q = q
OBVIOUS

\* Concatenation is associative.
LEMMA CatAssoc ==
    ASSUME NEW S, NEW q \in Seq(S), NEW r \in Seq(S), NEW t \in Seq(S)
    PROVE  (q \o r) \o t = q \o (r \o t)
OBVIOUS

\* Lengths add up.
LEMMA CatLen ==
    ASSUME NEW S, NEW q \in Seq(S), NEW r \in Seq(S)
    PROVE  Len(q \o r) = Len(q) + Len(r)
OBVIOUS

\* A sequence is its head and then its tail.
LEMMA HeadThenTail ==
    ASSUME NEW S, NEW q \in Seq(S), q # <<>>
    PROVE  <<Head(q)>> \o Tail(q) = q
OBVIOUS

\* Concatenating a sequence of one element appends that element.
LEMMA CatSingle ==
    ASSUME NEW S, NEW q \in Seq(S), NEW r \in Seq(S), Len(r) = 1
    PROVE  r # <<>> /\ Tail(r) = <<>> /\ q \o r = Append(q, Head(r))
<1>1. r # <<>> /\ Len(Tail(r)) = 0
  BY HeadTail
<1>2. Tail(r) = <<>>
  BY <1>1, HeadTail
<1>3. r = <<Head(r)>> /\ Head(r) \in S
  BY <1>1
<1>4. q \o <<Head(r)>> = Append(q, Head(r))
  BY <1>3
<1> QED
  BY <1>1, <1>2, <1>3, <1>4
=============================================================================
