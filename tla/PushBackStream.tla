------------------------------ MODULE PushBackStream ------------------------------
(***************************************************************************)
(* PushBackStream: the characters a source has given, the stack of those   *)
(* that were pushed back, and the two counters.  An operation takes a      *)
(* stream and returns the stream after it; `given' is not a member of the  *)
(* class, it remembers what the function behind the stream has returned.   *)
(***************************************************************************)
EXTENDS Integers, Sequences, FiniteSets

CONSTANT Char   \* what the input function may return

NewLine == "nl"

Stream == [given : Seq(Char), stack : Seq(Char), line : Int, index : Int]
EmptyStream == [given |-> <<>>, stack |-> <<>>, line |-> 0, index |-> 0]

Lines(c) == IF c = NewLine THEN 1 ELSE 0

\* operator()(): the character c comes from the stack, or else from the input.
FromStack(s) == s.stack # <<>>
Read(s, c) ==
  [given |-> IF FromStack(s) THEN s.given ELSE Append(s.given, c),
   stack |-> IF FromStack(s) THEN SubSeq(s.stack, 1, Len(s.stack) - 1) ELSE s.stack,
   line  |-> s.line + Lines(c),
   index |-> s.index + 1]

\* Mutant of PushBack: the line counter is forgotten.
PushBackKeepsLine(s, c) ==
  [s EXCEPT !.stack = Append(@, c), !.index = @ - 1]

PushBack(s, c) ==
  [given |-> s.given,
   stack |-> Append(s.stack, c),
   line  |-> s.line - Lines(c),
   index |-> s.index - 1]

---------------------------------------------------------------------------
\* How much of the input is in front of the reader.
Position(s) == Len(s.given) - Len(s.stack)
LinesBefore(s, n) == Cardinality({i \in 1..n : s.given[i] = NewLine})

\* What was pushed back is what was read, in order.
InOrder(s) == /\ Len(s.stack) <= Len(s.given)
              /\ \A j \in 1..Len(s.stack) : s.stack[j] = s.given[Len(s.given) + 1 - j]

\* The counters are those of the position, whatever was pushed back; they are
\* unsigned in the code and never wrap.
CountersTrue(s) == /\ s.index = Position(s)
                   /\ s.line = LinesBefore(s, Position(s))

Aligned(s) == InOrder(s) /\ CountersTrue(s)
=============================================================================
