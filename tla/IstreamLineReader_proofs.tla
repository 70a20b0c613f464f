---------------------- MODULE IstreamLineReader_proofs ----------------------
(* Proofs about IstreamLineReader, for streams of any length and any number *)
(* of iterators.                                                           *)
EXTENDS IstreamLineReader, TLAPS

\* The lines read are the ones processed, and the stream's two flags are only
\* set when there is nothing left.
IInv ==
    /\ lines \in Nat
    /\ next \in 1 .. lines + 1
    /\ newline \in BOOLEAN
    /\ eof \in BOOLEAN
    /\ fail \in BOOLEAN
    /\ eof \/ fail => next = lines + 1
    /\ it \in [Iterators -> [line : Nat, open : BOOLEAN]]
    /\ processed \in Seq(Nat)
    /\ Len(processed) = next - 1
    /\ \A n \in 1 .. Len(processed) : processed[n] = n

\* No line is read and no flag set at the start.
LEMMA InitIInv == Init => IInv
<1> SUFFICES ASSUME Init PROVE IInv
  OBVIOUS
<1>1. lines \in Nat /\ next = 1 /\ next \in 1 .. lines + 1
  BY ReaderAssumption DEF Init
<1>2. newline \in BOOLEAN /\ eof = FALSE /\ fail = FALSE
  BY DEF Init
<1>3. it \in [Iterators -> [line : Nat, open : BOOLEAN]]
  BY DEF Init, End
<1>4. processed = <<>> /\ processed \in Seq(Nat) /\ Len(processed) = 0
  BY DEF Init
<1>5. eof \in BOOLEAN /\ fail \in BOOLEAN /\ ~(eof \/ fail)
  BY <1>2
<1>6. Len(processed) = next - 1
  BY <1>1, <1>4
<1>7. \A n \in 1 .. Len(processed) : processed[n] = n
  BY <1>4
<1> QED
  BY <1>1, <1>2, <1>3, <1>4, <1>5, <1>6, <1>7 DEF IInv

\* std::getline() takes the next line, or fails when there is none.
LEMMA ReadOrFail ==
    ASSUME IInv, GetLine
    PROVE  /\ lines' = lines /\ newline' = newline
           /\ eof' \in BOOLEAN /\ fail' \in BOOLEAN
           /\ eof' \/ fail' => next' = lines + 1
           /\ \/ ~fail' /\ next \in 1 .. lines /\ next' = next + 1
              \/ fail' /\ next = lines + 1 /\ next' = next
<1>1. lines' = lines /\ newline' = newline
  BY DEF GetLine
<1>2. lines \in Nat /\ next \in 1 .. lines + 1
  BY DEF IInv
<1>3. CASE ~eof /\ ~fail /\ next <= lines
  <2>1. next' = next + 1 /\ fail' = FALSE
    BY <1>3 DEF GetLine
  <2>2. eof' = (next = lines /\ ~newline)
    <3>1. (next > lines) = FALSE
      BY <1>2, <1>3
    <3>2. eof' = (eof \/ next > lines \/ (next = lines /\ ~newline))
      BY DEF GetLine
    <3>3. eof = FALSE
      BY <1>3 DEF IInv
    <3> HIDE <1>2, <1>3
    <3> QED
      BY <3>1, <3>2, <3>3
  <2>3. next \in 1 .. lines
    BY <1>2, <1>3
  <2>4. eof' => next' = lines + 1
    BY <2>1, <2>2
  <2> QED
    BY <1>1, <2>1, <2>2, <2>3, <2>4
<1>4. CASE ~(~eof /\ ~fail /\ next <= lines)
  <2>1. next' = next /\ fail' = TRUE
    BY <1>4 DEF GetLine
  <2>2. next = lines + 1
    <3>1. CASE eof \/ fail
      BY <3>1 DEF IInv
    <3>2. CASE ~(next <= lines)
      BY <3>2, <1>2
    <3> QED
      BY <3>1, <3>2, <1>4
  <2>3. eof' \in BOOLEAN
    BY DEF GetLine
  <2> QED
    BY <1>1, <2>1, <2>2, <2>3
<1> QED
  BY <1>3, <1>4

\* An increment takes one line, or none and closes the iterator at the end.
LEMMA IncrementStep ==
    ASSUME IInv, NEW i \in Iterators,
           NEW others \in [Iterators -> [line : Nat, open : BOOLEAN]],
           Increment(i, others)
    PROVE  /\ IInv'
           /\ \A j \in Iterators \ {i} : it'[j] = others[j]
           /\ ~it'[i].open => Len(processed) = lines
<1>1. GetLine
  BY DEF Increment
<1>2. next \in Nat /\ lines \in Nat
  BY DEF IInv
<1>3. CASE ~fail'
  <2>1. /\ next' = next + 1 /\ next \in 1 .. lines
        /\ it' = [others EXCEPT ![i] = [line |-> next, open |-> TRUE]]
        /\ processed' = Append(processed, next)
    BY <1>1, <1>3, ReadOrFail DEF Increment, Open
  <2>2. it' \in [Iterators -> [line : Nat, open : BOOLEAN]]
    BY <1>2, <2>1
  <2>3. /\ processed' \in Seq(Nat)
        /\ Len(processed') = next' - 1
        /\ \A n \in 1 .. Len(processed') : processed'[n] = n
    BY <1>2, <2>1 DEF IInv
  <2>4. it'[i].open /\ \A j \in Iterators \ {i} : it'[j] = others[j]
    BY <2>1
  <2> QED
    BY <1>1, <1>2, <2>1, <2>2, <2>3, <2>4, ReadOrFail DEF IInv
<1>4. CASE fail'
  <2>1. /\ next' = next /\ next = lines + 1
        /\ it' = [others EXCEPT ![i] = End]
        /\ processed' = processed
    BY <1>1, <1>4, ReadOrFail DEF Increment, Open
  <2>2. it' \in [Iterators -> [line : Nat, open : BOOLEAN]]
    BY <2>1 DEF End
  <2>3. \A j \in Iterators \ {i} : it'[j] = others[j]
    BY <2>1
  <2> QED
    BY <1>1, <1>2, <2>1, <2>2, <2>3, ReadOrFail DEF IInv
<1> QED
  BY <1>3, <1>4

\* A step of the property: an iterator ends by ++ only when all was read.
EndsExhausted ==
    \A i \in Iterators :
        it[i].open /\ ~it'[i].open /\ (fail \/ stream' # stream)
            => Len(processed) = lines

\* Every step keeps the invariant, and closes an iterator at the end only.
LEMMA Step ==
    ASSUME IInv, [Next]_vars
    PROVE  IInv' /\ EndsExhausted
<1> DEFINE Its == [Iterators -> [line : Nat, open : BOOLEAN]]
<1>0. it \in Its
  BY DEF IInv
<1>1. ASSUME NEW i \in Iterators, Begin(i) \/ Advance(i)
      PROVE  IInv' /\ EndsExhausted
  <2>1. Increment(i, it)
    BY <1>1 DEF Begin, Advance
  <2> QED
    BY <1>0, <2>1, IncrementStep DEF EndsExhausted
<1>2. ASSUME NEW i \in Iterators, NEW j \in Iterators, PostIncrement(i, j)
      PROVE  IInv' /\ EndsExhausted
  <2> DEFINE others == [it EXCEPT ![j] = it[i]]
  <2>1. others \in Its /\ Increment(i, others)
    BY <1>0, <1>2 DEF PostIncrement
  <2>2. ~it[j].open /\ \A k \in Iterators \ {j} : others[k] = it[k]
    BY <1>0, <1>2 DEF PostIncrement
  <2> HIDE DEF others
  <2>3. /\ IInv'
        /\ \A k \in Iterators \ {i} : it'[k] = others[k]
        /\ ~it'[i].open => Len(processed) = lines
    BY <2>1, IncrementStep
  <2> QED
    BY <2>2, <2>3 DEF EndsExhausted
<1>3. ASSUME NEW i \in Iterators, Break(i)
      PROVE  IInv' /\ EndsExhausted
  <2>1. UNCHANGED <<stream, processed>> /\ it' \in Its
    BY <1>0, <1>3 DEF Break, End
  <2>2. IInv'
    BY <2>1 DEF IInv, stream
  <2>3. fail => Len(processed) = lines
    BY DEF IInv
  <2> QED
    BY <2>1, <2>2, <2>3 DEF EndsExhausted
<1>4. CASE UNCHANGED vars
  <2>1. IInv'
    BY <1>4 DEF IInv, vars, stream
  <2>2. it' = it
    BY <1>4 DEF vars
  <2> QED
    BY <2>1, <2>2 DEF EndsExhausted
<1> QED
  BY <1>1, <1>2, <1>3, <1>4 DEF Next, Done

\* The inductive invariant holds in every state the reader reaches.
LEMMA SpecIInv == Spec => []IInv
BY InitIInv, Step, PTL DEF Spec

\* The loops of a program process every line they read once and in order.
THEOREM EveryLineOnce == Spec => []LinesOnce
<1>1. IInv => LinesOnce
  BY DEF IInv, LinesOnce
<1> QED
  BY <1>1, SpecIInv, PTL

\* No iterator becomes equal to end() by ++ while a line is left.
THEOREM EndIsTheEnd == Spec => EndMeansExhausted
<1>1. IInv /\ [Next]_vars => [EndsExhausted]_vars
  BY Step
<1>2. Spec => [][EndsExhausted]_vars
  BY <1>1, SpecIInv, PTL DEF Spec
<1> QED
  BY <1>2 DEF EndMeansExhausted, EndsExhausted
=============================================================================
