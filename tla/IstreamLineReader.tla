------------------------- MODULE IstreamLineReader -------------------------
(***************************************************************************)
(* IstreamLineReader (src/istream_line_reader/istream_line_reader.h): a    *)
(* reader over a std::istream and the iterators it hands out.  An iterator *)
(* keeps the line it has read, but the position is the stream's: begin()   *)
(* and ++ of any iterator take the next line away from all others.         *)
(*                                                                         *)
(* The program is sequential: loops, nested or one after the other, may be *)
(* left by break and begun again, and iterators copied by i++.  Lines are  *)
(* numbered.                                                               *)
(***************************************************************************)
EXTENDS Naturals, Sequences

CONSTANTS
    Iterators,      \* the iterators of the program
    MaxLines        \* bound: lines of the stream

ASSUME ReaderAssumption == MaxLines \in Nat

VARIABLES
    lines,          \* lines in the stream
    newline,        \* the last line ends in a newline
    next,           \* the line getline() would read
    eof, fail,      \* the stream's eofbit and failbit
    it,             \* of each iterator: its line, and whether m_stream is set
    processed       \* history: the lines iterators have arrived at

stream == <<lines, newline, next, eof, fail>>
vars == <<stream, it, processed>>

End == [line |-> 0, open |-> FALSE]

Init ==
    /\ lines \in 0 .. MaxLines
    /\ newline \in BOOLEAN
    /\ next = 1
    /\ eof = FALSE
    /\ fail = FALSE
    /\ it = [i \in Iterators |-> End]
    /\ processed = <<>>

\* std::getline(): it fails on a stream that is not good, and on one with
\* nothing left; a last line without a newline is read, with the end seen.
GetLine ==
    LET got == ~eof /\ ~fail /\ next <= lines
    IN  /\ next' = IF got THEN next + 1 ELSE next
        /\ eof' = (eof \/ next > lines \/ (next = lines /\ ~newline))
        /\ fail' = ~got
        /\ UNCHANGED <<lines, newline>>

\* Mutations: the iterator ends when the end of the stream was seen; it looks
\* at the stream before it reads.
OpenUnlessEof == ~eof'
OpenBefore == ~fail

\* operator!() of the stream, after the read.
Open == ~fail'

\* ++ of iterator i: reads a line, or becomes equal to end().
Increment(i, others) ==
    /\ GetLine
    /\ it' = [others EXCEPT ![i] =
                 IF Open THEN [line |-> next, open |-> TRUE] ELSE End]
    /\ processed' = IF Open THEN Append(processed, next) ELSE processed

\* begin(): it throws on a failed stream, else makes an iterator and reads.
Begin(i) ==
    /\ ~it[i].open
    /\ ~fail
    /\ Increment(i, it)

\* The program processes the line and goes on ...
Advance(i) ==
    /\ it[i].open
    /\ Increment(i, it)

\* ... or keeps a copy of the iterator, as i++ does ...
PostIncrement(i, j) ==
    /\ i # j
    /\ it[i].open
    /\ ~it[j].open
    /\ Increment(i, [it EXCEPT ![j] = it[i]])

\* ... or drops it: it leaves the loop.
Break(i) ==
    /\ it[i].open
    /\ it' = [it EXCEPT ![i] = End]
    /\ UNCHANGED <<stream, processed>>

\* Every loop is over.
Done == (\A i \in Iterators : ~it[i].open) /\ UNCHANGED vars

Next ==
    \/ \E i \in Iterators : Begin(i) \/ Advance(i) \/ Break(i)
    \/ \E i, j \in Iterators : PostIncrement(i, j)
    \/ Done

Spec == Init /\ [][Next]_vars

-----------------------------------------------------------------------------

\* Whatever the loops do, every line is processed once and in order: an
\* iterator never arrives at a line that was not read.
LinesOnce ==
    /\ Len(processed) <= lines
    /\ \A n \in 1 .. Len(processed) : processed[n] = n

\* An iterator that becomes equal to end() by ++, and not because its loop was
\* left, has left no line behind, not even a last line without a newline.
EndMeansExhausted ==
    [][\A i \in Iterators :
          it[i].open /\ ~it'[i].open /\ (fail \/ stream' # stream)
              => Len(processed) = lines]_vars
=============================================================================
