----------------------------- MODULE Tokenizer_proofs -----------------------------
(***************************************************************************)
(* For texts of any length over any of the characters: the push-back       *)
(* stream is always at one position of the text, with the counters of that *)
(* position; the tokens cover the text, an operator is the longest one     *)
(* there, and an exception has its reason in the text.                     *)
(*                                                                         *)
(* A character may be pushed back only if it is the one in front of the    *)
(* position.  The inductive invariant IndInv therefore says of each        *)
(* scanner that goes back more than one character that what it has         *)
(* collected is the text just before the position.  Scanning says what     *)
(* each scanner knows of the text it has read: which piece of it has begun *)
(* where, and why no text that is still to come can make a token that was  *)
(* returned wrong.                                                         *)
(***************************************************************************)
EXTENDS TokenGrammar, SequenceTheorems, FiniteSetTheorems, TLAPS

Here == Position(stream)

\* The characters w are the last that were read.
JustRead(s, w) ==
  /\ Len(w) <= Position(s)
  /\ \A i \in 1..Len(w) : w[i] = s.given[Position(s) - Len(w) + i]

IndInv ==
  /\ stream \in Stream /\ chars \in Seq(Char) /\ matched \in Nat
  /\ Aligned(stream)
  /\ pc \in {"word", "operator", "unread"} => JustRead(stream, chars)
  /\ pc = "word" => chars # <<>>
  /\ pc = "slash" => JustRead(stream, <<"/">>)

---------------------------------------------------------------------------
(* Sequences *)

LEMMA ElementLemma ==
  ASSUME NEW S, NEW s \in Seq(S)
  PROVE  Len(s) \in Nat /\ (s # <<>> => Len(s) \in Nat \ {0}) /\ \A i \in 1..Len(s) : s[i] \in S
<1>1. Len(s) \in Nat /\ \A i \in 1..Len(s) : s[i] \in S
  BY ElementOfSeq, LenProperties
<1>2. s # <<>> => Len(s) # 0
  BY EmptySeq
<1> QED
  BY <1>1, <1>2

LEMMA AppendLemma ==
  ASSUME NEW S, NEW s \in Seq(S), NEW e \in S
  PROVE  /\ Append(s, e) \in Seq(S) /\ Len(Append(s, e)) = Len(s) + 1
         /\ \A i \in 1..Len(s) : Append(s, e)[i] = s[i]
         /\ Append(s, e)[Len(s) + 1] = e
         /\ Append(s, e) # <<>>
<1>1. Len(Append(s, e)) = Len(s) + 1 /\ Len(s) \in Nat
  BY LenProperties
<1>2. Append(s, e) # <<>>
  BY <1>1, EmptySeq
<1> QED
  BY <1>1, <1>2

\* The first k elements of a sequence.
LEMMA PrefixLemma ==
  ASSUME NEW S, NEW s \in Seq(S), NEW k \in Nat, k <= Len(s)
  PROVE  /\ SubSeq(s, 1, k) \in Seq(S)
         /\ Len(SubSeq(s, 1, k)) = k
         /\ \A i \in 1..k : SubSeq(s, 1, k)[i] = s[i]
<1>1. \A i \in 1..k : s[i] \in S
  BY ElementOfSeq, LenProperties
<1> QED
  BY <1>1, SubSeqProperties, LenProperties

LEMMA PopLemma ==
  ASSUME NEW S, NEW s \in Seq(S), s # <<>>
  PROVE  /\ SubSeq(s, 1, Len(s) - 1) \in Seq(S)
         /\ Len(SubSeq(s, 1, Len(s) - 1)) = Len(s) - 1
         /\ \A i \in 1..Len(s) - 1 : SubSeq(s, 1, Len(s) - 1)[i] = s[i]
         /\ Len(s) \in Nat \ {0} /\ s[Len(s)] \in S
<1>1. Len(s) \in Nat \ {0} /\ \A i \in 1..Len(s) : s[i] \in S
  BY ElementLemma
<1>2. Len(s) - 1 \in Nat /\ Len(s) - 1 <= Len(s) /\ Len(s) \in 1..Len(s)
  BY <1>1
<1> QED
  BY <1>1, <1>2, PrefixLemma

---------------------------------------------------------------------------
(* The stream *)

\* A text of a characters, b of which were pushed back.
LEMMA CountLemma ==
  ASSUME NEW a \in Nat, NEW b \in Nat, b <= a
  PROVE  a - b \in Nat /\ a - b <= a /\ (b # 0 <=> a - b < a)
  OBVIOUS

LEMMA RecordLemma ==
  ASSUME NEW given \in Seq(Char), NEW stack \in Seq(Char), NEW line \in Int, NEW index \in Int
  PROVE  [given |-> given, stack |-> stack, line |-> line, index |-> index] \in Stream
  BY DEF Stream

LEMMA StreamLemma ==
  ASSUME NEW s \in Stream, InOrder(s)
  PROVE  /\ s.given \in Seq(Char) /\ s.stack \in Seq(Char)
         /\ Len(s.given) \in Nat /\ Len(s.stack) \in Nat
         /\ s.line \in Int /\ s.index \in Int
         /\ Position(s) \in Nat /\ Position(s) <= Len(s.given)
         /\ Position(s) = Len(s.given) - Len(s.stack)
         /\ (FromStack(s) <=> Position(s) < Len(s.given))
<1>1. /\ s.given \in Seq(Char) /\ s.stack \in Seq(Char) /\ s.line \in Int /\ s.index \in Int
      /\ Len(s.stack) <= Len(s.given)
  BY DEF Stream, InOrder
<1>2. Len(s.given) \in Nat /\ Len(s.stack) \in Nat /\ (s.stack # <<>> <=> Len(s.stack) # 0)
  BY <1>1, EmptySeq, LenProperties
<1>3. FromStack(s) <=> Len(s.stack) # 0
  BY <1>2 DEF FromStack
<1> DEFINE a == Len(s.given)
           b == Len(s.stack)
<1>4. a \in Nat /\ b \in Nat /\ b <= a /\ Position(s) = a - b
  BY <1>1, <1>2 DEF Position
<1> HIDE DEF a, b
<1>5. a - b \in Nat /\ a - b <= a /\ (b # 0 <=> a - b < a)
  BY <1>4, CountLemma
<1>6. /\ Position(s) \in Nat /\ Position(s) <= a
      /\ (b # 0 <=> Position(s) < a)
  BY <1>4, <1>5
<1> QED
  BY <1>1, <1>2, <1>3, <1>4, <1>6 DEF a, b

\* The number of newlines depends on the characters that are counted only.
LEMMA LinesLemma ==
  ASSUME NEW s \in Stream, NEW t \in Stream, NEW n \in Nat,
         \A i \in 1..n : s.given[i] = t.given[i]
  PROVE  /\ LinesBefore(s, n) = LinesBefore(t, n)
         /\ LinesBefore(t, n) \in Nat
         /\ LinesBefore(t, n + 1) = LinesBefore(t, n) + Lines(t.given[n + 1])
<1> DEFINE A(k) == {i \in 1..k : t.given[i] = NewLine}
<1>1. {i \in 1..n : s.given[i] = NewLine} = A(n)
  OBVIOUS
<1>2. IsFiniteSet(A(n)) /\ Cardinality(A(n)) \in Nat
  <2>1. IsFiniteSet(1..n)
    BY FS_Interval
  <2>2. IsFiniteSet(A(n))
    BY <2>1, FS_Subset
  <2> QED
    BY <2>2, FS_CardinalityType
<1>3. 1..(n + 1) = 1..n \cup {n + 1} /\ n + 1 \notin A(n)
  OBVIOUS
<1>4. CASE t.given[n + 1] = NewLine
  <2>1. A(n + 1) = A(n) \cup {n + 1}
    BY <1>3, <1>4
  <2>2. Cardinality(A(n + 1)) = Cardinality(A(n)) + 1
    BY <2>1, <1>2, <1>3, FS_AddElement
  <2> QED
    BY <2>2, <1>1, <1>2, <1>4 DEF LinesBefore, Lines
<1>5. CASE t.given[n + 1] # NewLine
  <2>1. A(n + 1) = A(n)
    BY <1>3, <1>5
  <2> QED
    BY <2>1, <1>1, <1>2, <1>5 DEF LinesBefore, Lines
<1> QED
  BY <1>4, <1>5

\* What operator()() does.
LEMMA ReadLemma ==
  ASSUME NEW s \in Stream, Aligned(s), NEW c \in Char, FromStack(s) => c = Top(s.stack)
  PROVE  /\ Read(s, c) \in Stream /\ Aligned(Read(s, c))
         /\ Position(Read(s, c)) = Position(s) + 1
         /\ Read(s, c).given[Position(s) + 1] = c
         /\ Len(s.given) <= Len(Read(s, c).given)
         /\ \A i \in 1..Len(s.given) : Read(s, c).given[i] = s.given[i]
<1> DEFINE r == Read(s, c)
           p == Position(s)
<1>1. /\ s.given \in Seq(Char) /\ s.stack \in Seq(Char)
      /\ Len(s.given) \in Nat /\ Len(s.stack) \in Nat /\ p \in Nat /\ p <= Len(s.given)
      /\ p = Len(s.given) - Len(s.stack) /\ s.line \in Int /\ s.index \in Int
      /\ (FromStack(s) <=> p < Len(s.given))
  BY StreamLemma DEF Aligned
<1>2. /\ r.given = IF FromStack(s) THEN s.given ELSE Append(s.given, c)
      /\ r.stack = IF FromStack(s) THEN SubSeq(s.stack, 1, Len(s.stack) - 1) ELSE s.stack
      /\ r.line = s.line + Lines(c) /\ r.index = s.index + 1 /\ Lines(c) \in Nat
      /\ r = [given |-> r.given, stack |-> r.stack, line |-> r.line, index |-> r.index]
  BY DEF Read, Lines
<1> SUFFICES /\ r \in Stream /\ Aligned(r) /\ Position(r) = p + 1 /\ r.given[p + 1] = c
             /\ Len(s.given) <= Len(r.given)
             /\ \A i \in 1..Len(s.given) : r.given[i] = s.given[i]
  OBVIOUS
<1> HIDE DEF r
<1>3. ASSUME r.given \in Seq(Char), r.stack \in Seq(Char)
      PROVE  r \in Stream
  <2>1. r.line \in Int /\ r.index \in Int
    <3> DEFINE l == s.line
               i == s.index
               n == Lines(c)
    <3>1. l \in Int /\ i \in Int /\ n \in Nat /\ r.line = l + n /\ r.index = i + 1
      BY <1>1, <1>2
    <3> HIDE DEF l, i, n
    <3> QED
      BY <3>1
  <2>2. [given |-> r.given, stack |-> r.stack, line |-> r.line, index |-> r.index] \in Stream
    BY <1>3, <2>1, RecordLemma
  <2> QED
    BY <2>2, <1>2
<1>4. s.index = p /\ s.line = LinesBefore(s, p) /\ InOrder(s)
  BY DEF Aligned, CountersTrue
<1> HIDE DEF p
<1>5. CASE FromStack(s)
  <2>1. r.given = s.given /\ r.stack = SubSeq(s.stack, 1, Len(s.stack) - 1)
    BY <1>2, <1>5
  <2>2. /\ r.stack \in Seq(Char) /\ Len(r.stack) = Len(s.stack) - 1
        /\ \A i \in 1..Len(s.stack) - 1 : r.stack[i] = s.stack[i]
        /\ Len(s.stack) \in Nat \ {0}
    BY <2>1, <1>1, <1>5, PopLemma DEF FromStack
  <2>3. r \in Stream
    BY <2>1, <2>2, <1>1, <1>3
  <2>4. Position(r) = p + 1
    <3> DEFINE a == Len(s.given)
               b == Len(s.stack)
    <3>1. a \in Nat /\ b \in Nat /\ p = a - b /\ Position(r) = a - (b - 1)
      BY <2>1, <2>2, <1>1 DEF Position
    <3> HIDE DEF a, b
    <3> QED
      BY <3>1
  <2>5. c = s.given[p + 1]
    <3>1. Len(s.stack) \in 1..Len(s.stack)
      BY <2>2
    <3>2. s.stack[Len(s.stack)] = s.given[Len(s.given) + 1 - Len(s.stack)]
      BY <3>1, <1>4 DEF InOrder
    <3>3. Len(s.given) + 1 - Len(s.stack) = p + 1
      BY <1>1
    <3> QED
      BY <3>2, <3>3, <1>5 DEF Top
  <2>6. InOrder(r)
    <3>1. \A j \in 1..Len(r.stack) : j \in 1..Len(s.stack) /\ r.stack[j] = s.stack[j]
      BY <2>2
    <3>2. Len(r.stack) <= Len(r.given)
      BY <2>1, <2>2, <1>1
    <3> QED
      BY <3>1, <3>2, <2>1, <1>4 DEF InOrder
  <2>7. LinesBefore(r, p + 1) = LinesBefore(s, p) + Lines(c)
    <3>1. LinesBefore(s, p) = LinesBefore(r, p)
          /\ LinesBefore(r, p + 1) = LinesBefore(r, p) + Lines(r.given[p + 1])
      BY <2>1, <2>3, <1>1, LinesLemma
    <3> QED
      BY <3>1, <2>1, <2>5
  <2>8. CountersTrue(r)
    BY <2>4, <2>7, <1>2, <1>4 DEF CountersTrue
  <2>9. Len(s.given) <= Len(r.given) /\ r.given[p + 1] = c
    BY <2>1, <2>5, <1>1
  <2> QED
    BY <2>1, <2>3, <2>4, <2>6, <2>8, <2>9 DEF Aligned
<1>6. CASE ~FromStack(s)
  <2>1. r.given = Append(s.given, c) /\ r.stack = s.stack /\ s.stack = <<>>
    BY <1>2, <1>6 DEF FromStack
  <2>2. /\ r.given \in Seq(Char) /\ Len(r.given) = Len(s.given) + 1
        /\ \A i \in 1..Len(s.given) : r.given[i] = s.given[i]
        /\ r.given[Len(s.given) + 1] = c
    BY <2>1, <1>1, AppendLemma
  <2>3. r \in Stream
    BY <2>1, <2>2, <1>1, <1>3
  <2>4. p = Len(s.given) /\ Len(s.stack) = 0
    BY <1>1, <1>6, <2>1
  <2>5. Position(r) = p + 1
    BY <2>1, <2>2, <2>4 DEF Position
  <2>6. InOrder(r)
    BY <2>1, <2>2, <2>4, <1>1 DEF InOrder
  <2>7. LinesBefore(r, p + 1) = LinesBefore(s, p) + Lines(c)
    <3>1. \A i \in 1..p : s.given[i] = r.given[i]
      BY <2>2, <2>4
    <3>2. LinesBefore(s, p) = LinesBefore(r, p)
          /\ LinesBefore(r, p + 1) = LinesBefore(r, p) + Lines(r.given[p + 1])
      BY <3>1, <2>3, <1>1, LinesLemma
    <3> QED
      BY <3>2, <2>2, <2>4
  <2>8. CountersTrue(r)
    BY <2>5, <2>7, <1>2, <1>4 DEF CountersTrue
  <2>9. Len(s.given) <= Len(r.given)
    BY <2>2, <1>1
  <2> QED
    BY <2>2, <2>3, <2>4, <2>5, <2>6, <2>8, <2>9 DEF Aligned
<1> QED
  BY <1>5, <1>6

\* What pushBack() does to the character in front of the position.
LEMMA PushBackLemma ==
  ASSUME NEW s \in Stream, Aligned(s), Position(s) > 0, NEW c, c = s.given[Position(s)]
  PROVE  /\ PushBack(s, c) \in Stream /\ Aligned(PushBack(s, c))
         /\ Position(PushBack(s, c)) = Position(s) - 1
         /\ PushBack(s, c).given = s.given
         /\ FromStack(PushBack(s, c)) /\ Top(PushBack(s, c).stack) = c
         /\ c \in Char
<1> DEFINE r == PushBack(s, c)
           p == Position(s)
<1>1. /\ s.given \in Seq(Char) /\ s.stack \in Seq(Char)
      /\ Len(s.given) \in Nat /\ Len(s.stack) \in Nat /\ p \in Nat \ {0} /\ p <= Len(s.given)
      /\ p = Len(s.given) - Len(s.stack) /\ s.line \in Int /\ s.index \in Int
  <2>1. InOrder(s)
    BY DEF Aligned
  <2> HIDE DEF p
  <2> DEFINE n == Position(s)
  <2>2. n \in Nat /\ n > 0
    BY <2>1, StreamLemma
  <2> HIDE DEF n
  <2>3. n # 0
    BY <2>2
  <2> QED
    BY <2>1, <2>2, <2>3, StreamLemma DEF p, n
<1>2. c \in Char
  BY <1>1, ElementLemma
<1>3. /\ r.given = s.given /\ r.stack = Append(s.stack, c)
      /\ r.line = s.line - Lines(c) /\ r.index = s.index - 1 /\ Lines(c) \in Nat
      /\ r = [given |-> r.given, stack |-> r.stack, line |-> r.line, index |-> r.index]
  BY DEF PushBack, Lines
<1> HIDE DEF r
<1>4. s.index = p /\ s.line = LinesBefore(s, p) /\ InOrder(s)
  BY DEF Aligned, CountersTrue
<1>5. c = s.given[p]
  OBVIOUS
<1> HIDE DEF p
<1>6. /\ r.stack \in Seq(Char) /\ Len(r.stack) = Len(s.stack) + 1 /\ r.stack # <<>>
      /\ \A i \in 1..Len(s.stack) : r.stack[i] = s.stack[i]
      /\ r.stack[Len(s.stack) + 1] = c
  <2> HIDE <1>5
  <2> QED
    BY <1>1, <1>2, <1>3, AppendLemma
<1>7. r \in Stream
  <2>1. r.line \in Int /\ r.index \in Int
    <3> DEFINE l == s.line
               i == s.index
               n == Lines(c)
    <3>1. l \in Int /\ i \in Int /\ n \in Nat /\ r.line = l - n /\ r.index = i - 1
      BY <1>1, <1>3
    <3> HIDE DEF l, i, n
    <3> QED
      BY <3>1
  <2>2. r.given \in Seq(Char)
    BY <1>1, <1>3
  <2>3. [given |-> r.given, stack |-> r.stack, line |-> r.line, index |-> r.index] \in Stream
    BY <2>1, <2>2, <1>6, RecordLemma
  <2> QED
    BY <2>3, <1>3
<1>8. Position(r) = p - 1
  BY <1>1, <1>3, <1>6 DEF Position
<1>9. InOrder(r)
  <2>1. Len(r.stack) <= Len(r.given)
    BY <1>1, <1>3, <1>6
  <2>2. ASSUME NEW j \in 1..Len(r.stack)
        PROVE  r.stack[j] = r.given[Len(r.given) + 1 - j]
    <3>1. CASE j \in 1..Len(s.stack)
      BY <3>1, <1>3, <1>4, <1>6 DEF InOrder
    <3>2. CASE j = Len(s.stack) + 1
      <4>1. Len(s.given) + 1 - (Len(s.stack) + 1) = p
        <5> DEFINE a == Len(s.given)
                   b == Len(s.stack)
        <5>1. a \in Nat /\ b \in Nat /\ p = a - b
          BY <1>1
        <5> HIDE DEF a, b
        <5>2. a + 1 - (b + 1) = p
          BY <5>1
        <5> QED
          BY <5>2 DEF a, b
      <4> QED
        BY <4>1, <3>2, <1>3, <1>5, <1>6
    <3> QED
      BY <3>1, <3>2, <1>1, <1>6
  <2> QED
    BY <2>1, <2>2 DEF InOrder
<1>10. LinesBefore(r, p - 1) = LinesBefore(s, p) - Lines(c)
  <2>1. p - 1 \in Nat /\ p - 1 + 1 = p
    BY <1>1
  <2>2. /\ LinesBefore(s, (p - 1) + 1) = LinesBefore(s, p - 1) + Lines(s.given[(p - 1) + 1])
        /\ LinesBefore(r, p - 1) = LinesBefore(s, p - 1)
        /\ LinesBefore(s, p - 1) \in Nat
    BY <2>1, <1>3, <1>7, LinesLemma
  <2> QED
    BY <2>1, <2>2, <1>3, <1>5
<1>11. CountersTrue(r)
  BY <1>3, <1>4, <1>8, <1>10 DEF CountersTrue
<1> QED
  BY <1>2, <1>3, <1>6, <1>7, <1>8, <1>9, <1>11, <1>1 DEF Aligned, FromStack, Top, r, p

\* operator()() and pushBack() of the same character: nothing but the stack has
\* changed.
LEMMA PeekLemma ==
  ASSUME NEW s \in Stream, Aligned(s), NEW c \in Char, FromStack(s) => c = Top(s.stack)
  PROVE  LET t == PushBack(Read(s, c), c) IN
         /\ t \in Stream /\ Aligned(t) /\ Position(t) = Position(s)
         /\ FromStack(t) /\ Top(t.stack) = c
         /\ \A i \in 1..Len(s.given) : t.given[i] = s.given[i]
<1> DEFINE r == Read(s, c)
           n == Position(r)
           p == Position(s)
<1>1. /\ r \in Stream /\ Aligned(r) /\ n = p + 1 /\ r.given[p + 1] = c
      /\ \A i \in 1..Len(s.given) : r.given[i] = s.given[i]
  BY ReadLemma
<1>2. p \in Nat
  BY StreamLemma DEF Aligned
<1> HIDE DEF n, p
<1>3. n > 0 /\ n - 1 = p
  BY <1>1, <1>2
<1>4. Position(r) > 0 /\ c = r.given[Position(r)] /\ Position(r) - 1 = p
  BY <1>1, <1>3 DEF n
<1> HIDE DEF r
<1>5. /\ PushBack(r, c) \in Stream /\ Aligned(PushBack(r, c))
      /\ Position(PushBack(r, c)) = p
      /\ PushBack(r, c).given = r.given
      /\ FromStack(PushBack(r, c)) /\ Top(PushBack(r, c).stack) = c
  BY <1>1, <1>4, PushBackLemma
<1> QED
  BY <1>1, <1>5 DEF r, p

---------------------------------------------------------------------------
(* What was just read *)

LEMMA NothingRead ==
  ASSUME NEW s \in Stream, Aligned(s)
  PROVE  JustRead(s, <<>>)
<1>1. Position(s) \in Nat
  BY StreamLemma DEF Aligned
<1>2. Len(<<>>) = 0
  OBVIOUS
<1> QED
  BY <1>1, <1>2 DEF JustRead

LEMMA ReadOn ==
  ASSUME NEW s \in Stream, Aligned(s), NEW c \in Char, FromStack(s) => c = Top(s.stack),
         NEW w \in Seq(Char), JustRead(s, w)
  PROVE  JustRead(Read(s, c), Append(w, c))
<1> DEFINE r == Read(s, c)
           v == Append(w, c)
           p == Position(s)
           n == Len(w)
           g == Len(s.given)
<1>1. /\ Position(r) = p + 1 /\ r.given[p + 1] = c
      /\ \A i \in 1..g : r.given[i] = s.given[i]
  BY ReadLemma
<1>2. Len(v) = n + 1 /\ v[n + 1] = c /\ \A i \in 1..n : v[i] = w[i]
  BY AppendLemma
<1>3. n <= p /\ \A i \in 1..n : w[i] = s.given[p - n + i]
  BY DEF JustRead
<1>4. p \in Nat /\ g \in Nat /\ p <= g
  BY StreamLemma DEF Aligned
<1>5. n \in Nat
  BY LenProperties
<1> HIDE DEF r, v, p, n, g
<1>6. n + 1 <= p + 1
  BY <1>3, <1>4, <1>5
<1>7. ASSUME NEW i \in 1..(n + 1)
      PROVE  v[i] = r.given[p + 1 - (n + 1) + i]
  <2>1. CASE i \in 1..n
    <3>1. p - n + i \in 1..g /\ p + 1 - (n + 1) + i = p - n + i
      BY <2>1, <1>3, <1>4, <1>5
    <3> QED
      BY <3>1, <2>1, <1>1, <1>2, <1>3
  <2>2. CASE i = n + 1
    <3>1. p + 1 - (n + 1) + i = p + 1
      BY <2>2, <1>4, <1>5
    <3> QED
      BY <3>1, <2>2, <1>1, <1>2
  <2> QED
    BY <2>1, <2>2, <1>5
<1>8. JustRead(r, v)
  <2>1. Len(v) <= Position(r)
    BY <1>1, <1>2, <1>6
  <2>2. ASSUME NEW i \in 1..Len(v)
        PROVE  v[i] = r.given[Position(r) - Len(v) + i]
    <3>1. Position(r) = p + 1 /\ Len(v) = n + 1
      BY <1>1, <1>2
    <3>2. i \in 1..(n + 1)
      BY ONLY <3>1, i \in 1..Len(v)
    <3>3. v[i] = r.given[p + 1 - (n + 1) + i]
      BY ONLY <3>2, <1>7
    <3> DEFINE q == Position(r)
               m == Len(v)
    <3>4. q = p + 1 /\ m = n + 1 /\ i \in 1..m
      BY <3>1
    <3> HIDE DEF q, m
    <3>5. q - m + i = p + 1 - (n + 1) + i
      BY <3>4, <1>4, <1>5
    <3> QED
      BY ONLY <3>3, <3>5 DEF q, m
  <2> QED
    BY ONLY <2>1, <2>2 DEF JustRead
<1> QED
  BY <1>8 DEF r, v

LEMMA ReadOne ==
  ASSUME NEW s \in Stream, Aligned(s), NEW c \in Char, FromStack(s) => c = Top(s.stack)
  PROVE  JustRead(Read(s, c), <<c>>)
<1>1. JustRead(s, <<>>) /\ <<>> \in Seq(Char) /\ Append(<<>>, c) = <<c>>
  BY NothingRead
<1> QED
  BY <1>1, ReadOn

LEMMA PeekKeeps ==
  ASSUME NEW s \in Stream, Aligned(s), NEW c \in Char, FromStack(s) => c = Top(s.stack),
         NEW w \in Seq(Char), JustRead(s, w)
  PROVE  JustRead(PushBack(Read(s, c), c), w)
<1> DEFINE t == PushBack(Read(s, c), c)
           p == Position(s)
           n == Len(w)
           g == Len(s.given)
<1>1. Position(t) = p /\ \A i \in 1..g : t.given[i] = s.given[i]
  BY PeekLemma
<1>2. n <= p /\ \A i \in 1..n : w[i] = s.given[p - n + i]
  BY DEF JustRead
<1>3. p \in Nat /\ g \in Nat /\ p <= g
  BY StreamLemma DEF Aligned
<1>4. n \in Nat
  BY LenProperties
<1> HIDE DEF t, p, n, g
<1>5. ASSUME NEW i \in 1..n
      PROVE  w[i] = t.given[p - n + i]
  <2>1. p - n + i \in 1..g
    BY <1>2, <1>3, <1>4
  <2> QED
    BY <2>1, <1>1, <1>2
<1>6. JustRead(t, w)
  BY <1>1, <1>2, <1>5 DEF JustRead, n
<1> QED
  BY <1>6 DEF t

\* The last character of what was just read may be pushed back.
LEMMA ReadBack ==
  ASSUME NEW s \in Stream, Aligned(s), NEW w \in Seq(Char), w # <<>>, JustRead(s, w)
  PROVE  LET t == PushBack(s, Top(w)) IN
         t \in Stream /\ Aligned(t) /\ Pop(w) \in Seq(Char) /\ JustRead(t, Pop(w))
<1> DEFINE c == Top(w)
           p == Position(s)
           n == Len(w)
           v == Pop(w)
<1>1. /\ n \in Nat \ {0} /\ v \in Seq(Char) /\ Len(v) = n - 1
      /\ \A i \in 1..n - 1 : v[i] = w[i]
  BY PopLemma DEF Pop
<1>2. n <= p /\ \A i \in 1..n : w[i] = s.given[p - n + i]
  BY DEF JustRead
<1>3. p \in Nat
  BY StreamLemma DEF Aligned
<1>4. c = w[n]
  BY DEF Top
<1> HIDE DEF c, p, n, v
<1>5. p > 0 /\ p - n + n = p /\ n \in 1..n /\ n - 1 <= p - 1
  BY <1>1, <1>2, <1>3
<1>6. c = s.given[p]
  BY <1>2, <1>4, <1>5
<1>7. /\ PushBack(s, c) \in Stream /\ Aligned(PushBack(s, c))
      /\ Position(PushBack(s, c)) = p - 1
      /\ PushBack(s, c).given = s.given
  BY <1>5, <1>6, PushBackLemma DEF p
<1>8. ASSUME NEW i \in 1..n - 1
      PROVE  v[i] = s.given[p - 1 - (n - 1) + i]
  <2>1. i \in 1..n /\ p - 1 - (n - 1) + i = p - n + i
    BY <1>1, <1>3
  <2> QED
    BY <2>1, <1>1, <1>2
<1>9. JustRead(PushBack(s, c), v)
  BY <1>1, <1>5, <1>7, <1>8 DEF JustRead
<1> QED
  BY <1>1, <1>7, <1>9 DEF c, v

---------------------------------------------------------------------------
(* The steps *)

LEMMA NextCharsLemma ==
  ASSUME IndInv, NEW c \in NextChars
  PROVE  c \in Char /\ (FromStack(stream) => c = Top(stream.stack))
<1>1. CASE FromStack(stream)
  <2>1. stream.stack \in Seq(Char) /\ stream.stack # <<>>
    BY <1>1 DEF IndInv, Stream, FromStack
  <2>2. Top(stream.stack) \in Char
    BY <2>1, PopLemma DEF Top
  <2> QED
    BY <1>1, <2>2 DEF NextChars
<1>2. CASE ~FromStack(stream)
  <2>1. c \in Input(stream.given)
    BY <1>2 DEF NextChars
  <2>2. "eof" \in Char
    BY DEF Char, Ends
  <2>3. c = "eof" \/ \E t \in Sources : c \in t.chars
    BY <2>1 DEF Input
  <2> QED
    BY <1>2, <2>2, <2>3, SourcesAssumption
<1> QED
  BY <1>1, <1>2

LEMMA ReadsLemma ==
  ASSUME IndInv, NEW c \in NextChars
  PROVE  /\ Read(stream, c) \in Stream /\ Aligned(Read(stream, c))
         /\ JustRead(Read(stream, c), <<c>>)
         /\ \A w \in Seq(Char) :
              JustRead(stream, w) => JustRead(Read(stream, c), Append(w, c))
<1>1. /\ c \in Char /\ (FromStack(stream) => c = Top(stream.stack))
      /\ stream \in Stream /\ Aligned(stream)
  BY NextCharsLemma DEF IndInv
<1> QED
  BY <1>1, ReadLemma, ReadOne, ReadOn

LEMMA PeeksLemma ==
  ASSUME IndInv, NEW c \in NextChars
  PROVE  LET t == PushBack(Read(stream, c), c) IN
         /\ t \in Stream /\ Aligned(t) /\ JustRead(t, <<>>)
         /\ \A w \in Seq(Char) : JustRead(stream, w) => JustRead(t, w)
<1>1. /\ c \in Char /\ (FromStack(stream) => c = Top(stream.stack))
      /\ stream \in Stream /\ Aligned(stream)
  BY NextCharsLemma DEF IndInv
<1> DEFINE t == PushBack(Read(stream, c), c)
<1>2. t \in Stream /\ Aligned(t)
  BY <1>1, PeekLemma
<1>3. \A w \in Seq(Char) : JustRead(stream, w) => JustRead(t, w)
  BY <1>1, PeekKeeps
<1> HIDE DEF t
<1>4. JustRead(t, <<>>)
  BY <1>2, NothingRead
<1> QED
  BY <1>2, <1>3, <1>4 DEF t

\* Outside the scanners that go back, only the stream matters.
LEMMA Elsewhere ==
  ASSUME stream' \in Stream, Aligned(stream)', chars' \in Seq(Char), matched' \in Nat,
         pc' \notin {"word", "operator", "unread", "slash"}
  PROVE  IndInv'
  BY DEF IndInv

LEMMA ReturnWordLemma ==
  ASSUME IndInv, NEW w, ReturnWord(w)
  PROVE  pc' \in {"tokenize", "bad_number"} /\ chars' \in Seq(Char) /\ matched' \in Nat
<1>1. \/ pc' = "tokenize" /\ chars' = <<>> /\ matched' = 0
      \/ pc' = "bad_number" /\ chars' = chars /\ matched' = matched
  BY DEF ReturnWord, Return, Throw
<1>2. <<>> \in Seq(Char) /\ chars \in Seq(Char) /\ matched \in Nat
  BY DEF IndInv
<1>3. CASE pc' = "tokenize" /\ chars' = <<>> /\ matched' = 0
  BY <1>3, <1>2
<1>4. CASE pc' = "bad_number" /\ chars' = chars /\ matched' = matched
  BY <1>4, <1>2
<1> QED
  BY <1>1, <1>3, <1>4

LEMMA InitLemma ==
  Init => IndInv
<1> SUFFICES ASSUME Init
             PROVE  IndInv
  OBVIOUS
<1>1. stream = EmptyStream /\ chars = <<>> /\ matched = 0 /\ pc = "tokenize"
  BY DEF Init
<1>2. /\ stream.given = <<>> /\ stream.stack = <<>> /\ stream.line = 0 /\ stream.index = 0
      /\ <<>> \in Seq(Char) /\ Len(<<>>) = 0
  BY <1>1 DEF EmptyStream
<1>3. stream \in Stream
  BY <1>1 DEF EmptyStream, Stream
<1>4. Position(stream) = 0 /\ InOrder(stream)
  BY <1>2 DEF Position, InOrder
<1>5. LinesBefore(stream, 0) = 0
  <2>1. {i \in 1..0 : stream.given[i] = NewLine} = {}
    OBVIOUS
  <2> QED
    BY <2>1, FS_EmptySet DEF LinesBefore
<1> QED
  BY <1>1, <1>2, <1>3, <1>4, <1>5 DEF IndInv, Aligned, CountersTrue

LEMMA StartWordLemma ==
  ASSUME IndInv, StartWord
  PROVE  IndInv'
<1>1. PICK c \in NextChars :
        LET back == PushBack(Read(stream, c), c) IN
        stream' = Read(back, c) /\ Start("word", <<c>>)
  BY DEF StartWord
<1>2. c \in Char /\ (FromStack(stream) => c = Top(stream.stack))
  BY NextCharsLemma
<1> DEFINE back == PushBack(Read(stream, c), c)
<1>3. back \in Stream /\ Aligned(back) /\ FromStack(back) /\ Top(back.stack) = c
  BY <1>2, PeekLemma DEF IndInv
<1>4. stream' = Read(back, c) /\ pc' = "word" /\ chars' = <<c>> /\ matched' = 0
  BY <1>1 DEF Start
<1> HIDE DEF back
<1>5. stream' \in Stream /\ Aligned(stream') /\ JustRead(stream', <<c>>)
  BY <1>2, <1>3, <1>4, ReadLemma, ReadOne
<1>6. chars' \in Seq(Char) /\ chars' # <<>>
  BY <1>2, <1>4
<1> QED
  BY <1>4, <1>5, <1>6 DEF IndInv

LEMMA StartSlashLemma ==
  ASSUME IndInv, StartSlash
  PROVE  IndInv'
<1>1. "/" \in NextChars /\ stream' = Read(stream, "/")
      /\ pc' = "slash" /\ chars' = <<>> /\ matched' = 0
  BY DEF StartSlash, Reads, Start
<1>2. stream' \in Stream /\ Aligned(stream') /\ JustRead(stream', <<"/">>)
  BY <1>1, ReadsLemma
<1> QED
  BY <1>1, <1>2 DEF IndInv

LEMMA StartOperatorLemma ==
  ASSUME IndInv, StartOperator
  PROVE  IndInv'
<1>1. PICK c \in NextChars : stream' = PushBack(Read(stream, c), c)
  BY DEF StartOperator, Peeks
<1>2. pc' = "operator" /\ chars' = <<>> /\ matched' = 0
  BY DEF StartOperator, Start
<1>3. stream' \in Stream /\ Aligned(stream') /\ JustRead(stream', <<>>)
  BY <1>1, PeeksLemma
<1> QED
  BY <1>2, <1>3 DEF IndInv

LEMMA SlashIsOperatorLemma ==
  ASSUME IndInv, SlashIsOperator
  PROVE  IndInv'
<1>1. PICK c \in NextChars : stream' = PushBack(PushBack(Read(stream, c), c), "/")
  BY DEF SlashIsOperator
<1>2. pc = "slash" /\ pc' = "operator" /\ chars' = <<>> /\ matched' = 0
  BY DEF SlashIsOperator, Start
<1> DEFINE t == PushBack(Read(stream, c), c)
<1>3. "/" \in Char
  BY DEF Char, Puncts
<1>4. <<"/">> \in Seq(Char) /\ Top(<<"/">>) = "/" /\ <<"/">> # <<>> /\ Pop(<<"/">>) = <<>>
  BY <1>3 DEF Top, Pop
<1>5. JustRead(stream, <<"/">>)
  BY <1>2 DEF IndInv
<1>6. t \in Stream /\ Aligned(t) /\ JustRead(t, <<"/">>)
  BY <1>4, <1>5, PeeksLemma
<1>7. stream' = PushBack(t, "/")
  BY <1>1
<1> HIDE DEF t
<1>8. stream' \in Stream /\ Aligned(stream') /\ JustRead(stream', <<>>)
  <2>1. LET u == PushBack(t, Top(<<"/">>)) IN
        u \in Stream /\ Aligned(u) /\ JustRead(u, Pop(<<"/">>))
    BY <1>4, <1>6, ReadBack
  <2> QED
    BY <2>1, <1>4, <1>7
<1> QED
  BY <1>2, <1>8 DEF IndInv

LEMMA WordGoesOnLemma ==
  ASSUME IndInv, WordGoesOn
  PROVE  IndInv'
<1>1. PICK c \in NextChars : stream' = Read(stream, c) /\ chars' = Append(chars, c)
  BY DEF WordGoesOn, Reads
<1>2. pc = "word" /\ pc' = pc /\ matched' = matched
  BY DEF WordGoesOn
<1>3. chars \in Seq(Char) /\ JustRead(stream, chars) /\ matched \in Nat
  BY <1>2 DEF IndInv
<1>4. stream' \in Stream /\ Aligned(stream') /\ JustRead(stream', chars')
  BY <1>1, <1>3, ReadsLemma
<1>5. c \in Char
  BY NextCharsLemma
<1>6. chars' \in Seq(Char) /\ chars' # <<>>
  BY <1>1, <1>3, <1>5, AppendLemma
<1> QED
  BY <1>2, <1>3, <1>4, <1>6 DEF IndInv

LEMMA WordEndsLemma ==
  ASSUME IndInv, WordEnds
  PROVE  IndInv'
<1>1. PICK c \in NextChars :
        IF c = "." /\ Top(chars) = "."
        THEN /\ stream' = PushBack(PushBack(Read(stream, c), Top(chars)), c)
             /\ ReturnWord(Pop(chars))
        ELSE Peeks(c) /\ ReturnWord(chars)
  BY DEF WordEnds
<1>2. pc' \in {"tokenize", "bad_number"} /\ chars' \in Seq(Char) /\ matched' \in Nat
  BY <1>1, ReturnWordLemma
<1>3. stream' \in Stream /\ Aligned(stream')
  <2>1. CASE c = "." /\ Top(chars) = "."
    <3> DEFINE t == PushBack(Read(stream, c), c)
    <3>1. chars \in Seq(Char) /\ chars # <<>> /\ JustRead(stream, chars)
      BY DEF IndInv, WordEnds
    <3>2. t \in Stream /\ Aligned(t) /\ JustRead(t, chars)
      BY <3>1, PeeksLemma
    <3>3. stream' = PushBack(t, Top(chars))
      BY <1>1, <2>1
    <3> HIDE DEF t
    <3> QED
      BY <3>1, <3>2, <3>3, ReadBack
  <2>2. CASE ~(c = "." /\ Top(chars) = ".")
    <3>1. stream' = PushBack(Read(stream, c), c)
      BY <1>1, <2>2 DEF Peeks
    <3> QED
      BY <3>1, PeeksLemma
  <2> QED
    BY <2>1, <2>2
<1> QED
  BY <1>2, <1>3, Elsewhere

LEMMA MunchLemma ==
  ASSUME IndInv, Munch
  PROVE  IndInv'
<1>1. PICK c \in NextChars :
        /\ stream' = Read(stream, c) /\ chars' = Append(chars, c)
        /\ matched' \in {Len(chars'), matched} /\ pc' \in {"operator", "unread"}
  BY DEF Munch, Reads
<1>2. chars \in Seq(Char) /\ JustRead(stream, chars) /\ matched \in Nat
  BY DEF IndInv, Munch
<1>3. stream' \in Stream /\ Aligned(stream') /\ JustRead(stream', chars')
  BY <1>1, <1>2, ReadsLemma
<1>4. c \in Char
  BY NextCharsLemma
<1>5. chars' \in Seq(Char)
  BY <1>1, <1>2, <1>4, AppendLemma
<1>6. matched' \in Nat
  BY <1>1, <1>2, <1>5, LenProperties
<1> QED
  BY <1>1, <1>3, <1>5, <1>6 DEF IndInv

LEMMA UnreadLemma ==
  ASSUME IndInv, Unread
  PROVE  IndInv'
<1>1. /\ pc = "unread" /\ pc' = pc /\ matched' = matched /\ Len(chars) > matched
      /\ stream' = PushBack(stream, Top(chars)) /\ chars' = Pop(chars)
  BY DEF Unread
<1>2. /\ chars \in Seq(Char) /\ JustRead(stream, chars) /\ matched \in Nat
      /\ stream \in Stream /\ Aligned(stream)
  BY <1>1 DEF IndInv
<1>3. chars # <<>>
  <2>1. Len(<<>>) = 0
    OBVIOUS
  <2> QED
    BY <2>1, <1>1, <1>2
<1>4. stream' \in Stream /\ Aligned(stream') /\ chars' \in Seq(Char) /\ JustRead(stream', chars')
  BY <1>1, <1>2, <1>3, ReadBack
<1> QED
  BY <1>1, <1>2, <1>4 DEF IndInv

\* The scanners that only read, or look at a character and put it back.
LEMMA OtherLemma ==
  ASSUME IndInv,
         \/ Blank \/ EndOfText \/ StartString \/ StartComment
         \/ OperatorFound \/ NoOperator \/ Unexpected
         \/ Escape \/ StringEnds \/ StringGoesOn \/ StringIsOpen
         \/ LineComment \/ BlockComment \/ CommentIsOpen
  PROVE  IndInv'
<1>1. \/ \E c \in NextChars : Reads(c) \/ Peeks(c)
      \/ stream' = stream
  BY DEF Blank, EndOfText, StartString, StartComment, OperatorFound, NoOperator, Unexpected,
         Escape, StringEnds, StringGoesOn, StringIsOpen, LineComment, BlockComment,
         CommentIsOpen
<1>2. stream' \in Stream /\ Aligned(stream')
  BY <1>1, ReadsLemma, PeeksLemma DEF Reads, Peeks, IndInv
<1>3. pc' \notin {"word", "operator", "unread", "slash"}
  BY DEF Blank, EndOfText, StartString, StartComment, OperatorFound, NoOperator, Unexpected,
         Escape, StringEnds, StringGoesOn, StringIsOpen, LineComment, BlockComment,
         CommentIsOpen, Start, Return, Throw
<1>4. \/ chars' \in {chars, <<>>}
      \/ \E c \in NextChars : chars' \in {Append(chars, c), Append(chars, "nl")}
  BY DEF Blank, EndOfText, StartString, StartComment, OperatorFound, NoOperator, Unexpected,
         Escape, StringEnds, StringGoesOn, StringIsOpen, LineComment, BlockComment,
         CommentIsOpen, Start, Return, Throw, Escaped
<1>5. chars' \in Seq(Char)
  <2>1. chars \in Seq(Char) /\ <<>> \in Seq(Char) /\ "nl" \in Char
    BY DEF IndInv, Char, Spaces
  <2>2. \A c \in Char : Append(chars, c) \in Seq(Char)
    BY <2>1, AppendLemma
  <2>3. \A c \in NextChars : c \in Char
    BY NextCharsLemma
  <2> QED
    BY <2>1, <2>2, <2>3, <1>4
<1>6. matched' \in {matched, 0}
  BY DEF Blank, EndOfText, StartString, StartComment, OperatorFound, NoOperator, Unexpected,
         Escape, StringEnds, StringGoesOn, StringIsOpen, LineComment, BlockComment,
         CommentIsOpen, Start, Return, Throw
<1> QED
  BY <1>2, <1>3, <1>5, <1>6, Elsewhere DEF IndInv

LEMMA StepLemma ==
  IndInv /\ [Next]_vars => IndInv'
<1> SUFFICES ASSUME IndInv, [Next]_vars
             PROVE  IndInv'
  OBVIOUS
<1>1. CASE StartWord
  BY <1>1, StartWordLemma
<1>2. CASE StartSlash
  BY <1>2, StartSlashLemma
<1>3. CASE StartOperator
  BY <1>3, StartOperatorLemma
<1>4. CASE SlashIsOperator
  BY <1>4, SlashIsOperatorLemma
<1>5. CASE WordGoesOn
  BY <1>5, WordGoesOnLemma
<1>6. CASE WordEnds
  BY <1>6, WordEndsLemma
<1>7. CASE Munch
  BY <1>7, MunchLemma
<1>8. CASE Unread
  BY <1>8, UnreadLemma
<1>9. CASE UNCHANGED vars
  BY <1>9 DEF IndInv, vars
<1> QED
  BY <1>1, <1>2, <1>3, <1>4, <1>5, <1>6, <1>7, <1>8, <1>9, OtherLemma
     DEF Next, Step, Finished

---------------------------------------------------------------------------
\* However far a scanner goes back, the reader is at one position of the text and
\* the line and the character that a message would name are those of it
\* (PushBackStream::pushBack and its callers in tokenizer.cc).
THEOREM PositionIsKept ==
  Spec => []StreamIsPosition
<1>1. IndInv => StreamIsPosition
  BY DEF IndInv, StreamIsPosition
<1> QED
  BY <1>1, InitLemma, StepLemma, PTL DEF Spec

---------------------------------------------------------------------------
(* The text grows while it is read.                                        *)

Longer(T, U) == Len(T) <= Len(U) /\ \A i \in 1..Len(T) : U[i] = T[i]

\* The text from position i on is not o.
Excluded(T, i, o) == \E k \in 1..Len(o) : i + k <= Len(T) /\ T[i + k] # o[k]

LEMMA Within ==
  ASSUME NEW T \in Seq(Char), NEW U \in Seq(Char), Longer(T, U)
  PROVE  /\ Len(T) \in Nat /\ Len(U) \in Nat /\ Len(T) <= Len(U)
         /\ \A i \in Int : i >= 1 /\ i <= Len(T) => U[i] = T[i]
  BY LenProperties DEF Longer

\* What a text has it keeps.
LEMMA IsKept ==
  ASSUME NEW T \in Seq(Char), NEW U \in Seq(Char), Longer(T, U), NEW i \in Int, i >= 0
  PROVE  /\ \A c : Is(T, i, c) => Is(U, i, c)
         /\ i < Len(T) => \A c : Is(U, i, c) => Is(T, i, c)
<1>1. /\ Len(T) \in Nat /\ Len(U) \in Nat /\ Len(T) <= Len(U)
      /\ \A k \in Int : k >= 1 /\ k <= Len(T) => U[k] = T[k]
  BY Within
<1>2. i < Len(T) => U[i + 1] = T[i + 1]
  BY <1>1
<1> QED
  BY <1>1, <1>2 DEF Is

LEMMA HasKept ==
  ASSUME NEW T \in Seq(Char), NEW U \in Seq(Char), Longer(T, U), NEW i \in Int, i >= 0,
         NEW w, Len(w) \in Nat
  PROVE  /\ Has(T, i, w) => Has(U, i, w)
         /\ i + Len(w) <= Len(T) => (Has(U, i, w) => Has(T, i, w))
<1>1. /\ Len(T) \in Nat /\ Len(U) \in Nat /\ Len(T) <= Len(U)
      /\ \A k \in Int : k >= 1 /\ k <= Len(T) => U[k] = T[k]
  BY Within
<1>2. i + Len(w) <= Len(T) => \A k \in 1..Len(w) : U[i + k] = T[i + k]
  BY <1>1
<1> QED
  BY <1>1, <1>2 DEF Has

LEMMA ExcludedKept ==
  ASSUME NEW T \in Seq(Char), NEW U \in Seq(Char), Longer(T, U), NEW i \in Int, i >= 0,
         NEW o, Len(o) \in Nat, Excluded(T, i, o)
  PROVE  Excluded(U, i, o) /\ ~Has(U, i, o)
<1>1. /\ Len(T) \in Nat /\ Len(U) \in Nat /\ Len(T) <= Len(U)
      /\ \A k \in Int : k >= 1 /\ k <= Len(T) => U[k] = T[k]
  BY Within
<1>2. PICK k \in 1..Len(o) : i + k <= Len(T) /\ T[i + k] # o[k]
  BY DEF Excluded
<1>3. i + k <= Len(U) /\ U[i + k] # o[k]
  BY <1>1, <1>2
<1> QED
  BY <1>2, <1>3 DEF Excluded, Has

LEMMA AvoidsKept ==
  ASSUME NEW T \in Seq(Char), NEW U \in Seq(Char), Longer(T, U), NEW i \in Int, i >= 0,
         NEW j \in Int, NEW S
  PROVE  /\ Avoids(T, i, j, S) => Avoids(U, i, j, S)
<1>1. /\ Len(T) \in Nat /\ Len(U) \in Nat /\ Len(T) <= Len(U)
      /\ \A k \in Int : k >= 1 /\ k <= Len(T) => U[k] = T[k]
  BY Within
<1> QED
  BY <1>1 DEF Avoids

LEMMA Pair == \A a, b : Len(<<a, b>>) = 2 /\ <<a, b>>[1] = a /\ <<a, b>>[2] = b /\ Len(<<a>>) = 1 /\ <<a>>[1] = a
  OBVIOUS

LEMMA PieceKept ==
  ASSUME NEW T \in Seq(Char), NEW U \in Seq(Char), Longer(T, U), NEW i \in Int, i >= 0,
         NEW j \in Int, IsPiece(T, i, j)
  PROVE  IsPiece(U, i, j) /\ i < j
<1>0. Len(T) \in Nat
  BY LenProperties
<1>1. CASE IsBlank(T, i, j)
  BY <1>1, IsKept DEF IsBlank, IsPiece
<1>2. CASE IsLineComment(T, i, j)
  <2>1. Has(U, i, <<"/", "/">>)
    BY <1>2, HasKept, Pair DEF IsLineComment
  <2>2. CASE j > i + 2 /\ Avoids(T, i + 2, j - 1, Ends \cup {"nl"}) /\ Is(T, j - 1, "nl")
    <3>1. i + 2 \in Int /\ i + 2 >= 0 /\ j - 1 \in Int /\ j - 1 >= 0
      BY <2>2
    <3>2. Avoids(U, i + 2, j - 1, Ends \cup {"nl"}) /\ Is(U, j - 1, "nl")
      BY <2>2, <3>1, AvoidsKept, IsKept
    <3> QED
      BY <2>1, <2>2, <3>2 DEF IsLineComment, IsPiece
  <2>3. CASE j >= i + 2 /\ Avoids(T, i + 2, j, Ends \cup {"nl"}) /\ \E c \in Ends : Is(T, j, c)
    <3>1. i + 2 \in Int /\ i + 2 >= 0 /\ j >= 0
      BY <2>3
    <3>2. Avoids(U, i + 2, j, Ends \cup {"nl"}) /\ \E c \in Ends : Is(U, j, c)
      BY <2>3, <3>1, AvoidsKept, IsKept
    <3> QED
      BY <2>1, <2>3, <3>2 DEF IsLineComment, IsPiece
  <2> QED
    BY <1>2, <2>2, <2>3 DEF IsLineComment
<1>3. CASE IsBlockComment(T, i, j)
  <2>1. /\ j >= i + 4 /\ Has(T, i, <<"/", "*">>) /\ Avoids(T, i + 2, j, Ends)
        /\ Has(T, j - 2, <<"*", "/">>)
        /\ \A k \in (i + 2)..(j - 3) : ~Has(T, k, <<"*", "/">>)
    BY <1>3 DEF IsBlockComment
  <2>2. j - 2 \in Int /\ j - 2 >= 0 /\ i + 2 \in Int /\ i + 2 >= 0 /\ j <= Len(T)
    BY <2>1, Pair, <1>0 DEF Has
  <2>3. Has(U, i, <<"/", "*">>) /\ Has(U, j - 2, <<"*", "/">>) /\ Avoids(U, i + 2, j, Ends)
    BY <2>1, <2>2, HasKept, AvoidsKept, Pair
  <2>4. ASSUME NEW k \in (i + 2)..(j - 3) PROVE ~Has(U, k, <<"*", "/">>)
    <3>1. k \in Int /\ k >= 0 /\ k + 2 <= Len(T)
      BY <2>2, <1>0
    <3> QED
      BY <2>1, <3>1, HasKept, Pair
  <2> QED
    BY <2>1, <2>3, <2>4 DEF IsBlockComment, IsPiece
<1> QED
  BY <1>1, <1>2, <1>3 DEF IsPiece

LEMMA GapKept ==
  ASSUME NEW T \in Seq(Char), NEW U \in Seq(Char), Longer(T, U), NEW i \in Int, i >= 0,
         NEW j \in Int, IsGap(T, i, j)
  PROVE  IsGap(U, i, j) /\ i <= j
<1>1. PICK cuts \in SUBSET (i..j) :
        /\ {i, j} \subseteq cuts
        /\ \A k \in cuts \ {j} : \E m \in cuts : IsPiece(T, k, m)
  BY DEF IsGap
<1>2. ASSUME NEW k \in cuts \ {j} PROVE \E m \in cuts : IsPiece(U, k, m)
  <2>1. PICK m \in cuts : IsPiece(T, k, m)
    BY <1>1
  <2>2. k \in Int /\ k >= 0 /\ m \in Int
    BY <1>1
  <2> QED
    BY <2>1, <2>2, PieceKept
<1>3. i \in i..j
  BY <1>1
<1> QED
  BY <1>1, <1>2, <1>3 DEF IsGap

\* An empty gap, and a gap with one more piece.
LEMMA EmptyGap ==
  ASSUME NEW T, NEW i \in Int
  PROVE  IsGap(T, i, i)
<1>1. {i} \in SUBSET (i..i)
  OBVIOUS
<1> QED
  BY <1>1 DEF IsGap

LEMMA GapGrows ==
  ASSUME NEW T, NEW i \in Int, NEW j \in Int, NEW m \in Int, IsGap(T, i, j), IsPiece(T, j, m), j < m
  PROVE  IsGap(T, i, m)
<1>1. PICK cuts \in SUBSET (i..j) :
        /\ {i, j} \subseteq cuts
        /\ \A k \in cuts \ {j} : \E n \in cuts : IsPiece(T, k, n)
  BY DEF IsGap
<1> DEFINE more == cuts \cup {m}
<1>2. more \in SUBSET (i..m) /\ {i, m} \subseteq more
  BY <1>1
<1>3. \A k \in more \ {m} : \E n \in more : IsPiece(T, k, n)
  BY <1>1
<1> QED
  BY <1>2, <1>3 DEF IsGap

LEMMA EscapedKept ==
  ASSUME NEW T \in Seq(Char), NEW U \in Seq(Char), Longer(T, U), NEW i \in Int, i >= 0,
         NEW k \in Int, k <= Len(T)
  PROVE  IsEscaped(T, i, k) <=> IsEscaped(U, i, k)
<1>1. CASE k > i + 1
  <2>1. k - 1 \in Int /\ k - 1 >= 0 /\ k - 1 < Len(T)
    BY <1>1, LenProperties
  <2> QED
    BY <2>1, IsKept DEF IsEscaped
<1>2. CASE ~(k > i + 1)
  BY <1>2 DEF IsEscaped
<1> QED
  BY <1>1, <1>2

LEMMA FitsKept ==
  ASSUME NEW T \in Seq(Char), NEW U \in Seq(Char), Longer(T, U), NEW i \in Int, i >= 0,
         NEW j \in Int, FitsString(T, i, j)
  PROVE  FitsString(U, i, j) /\ j <= Len(T)
<1>1. /\ Len(T) \in Nat /\ Len(U) \in Nat /\ Len(T) <= Len(U)
      /\ \A k \in Int : k >= 1 /\ k <= Len(T) => U[k] = T[k]
  BY Within
<1>2. /\ Is(T, i, "quote") /\ Avoids(T, i + 1, j, Ends) /\ j <= Len(T)
      /\ \A k \in (i + 1)..(j - 1) : T[k + 1] \in Unfit => IsEscaped(T, i, k)
  BY DEF FitsString, Avoids
<1>3. Is(U, i, "quote") /\ Avoids(U, i + 1, j, Ends)
  BY <1>2, IsKept, AvoidsKept
<1>4. ASSUME NEW k \in (i + 1)..(j - 1), U[k + 1] \in Unfit PROVE IsEscaped(U, i, k)
  <2>1. k \in Int /\ k <= Len(T) /\ k + 1 \in Int /\ k + 1 >= 1 /\ k + 1 <= Len(T)
    BY <1>1, <1>2
  <2>2. U[k + 1] = T[k + 1]
    BY <1>1, <2>1
  <2> QED
    BY <1>2, <1>4, <2>1, <2>2, EscapedKept
<1> QED
  BY <1>2, <1>3, <1>4 DEF FitsString

LEMMA StringKept ==
  ASSUME NEW T \in Seq(Char), NEW U \in Seq(Char), Longer(T, U), NEW i \in Int, i >= 0,
         NEW j \in Int, IsString(T, i, j)
  PROVE  IsString(U, i, j) /\ j - 1 <= Len(T)
<1>1. /\ j >= i + 2 /\ FitsString(T, i, j - 1) /\ Is(T, j - 1, "quote") /\ ~IsEscaped(T, i, j - 1)
      /\ j - 1 \in Int /\ j - 1 >= 0
  BY DEF IsString
<1>2. FitsString(U, i, j - 1) /\ j - 1 <= Len(T) /\ Is(U, j - 1, "quote")
  BY <1>1, FitsKept, IsKept
<1>3. ~IsEscaped(U, i, j - 1)
  BY <1>1, <1>2, EscapedKept
<1> QED
  BY <1>1, <1>2, <1>3 DEF IsString

LEMMA DenotesKept ==
  ASSUME NEW T \in Seq(Char), NEW U \in Seq(Char), Longer(T, U), NEW i \in Int, i >= 0,
         NEW j \in Int, j <= Len(T), NEW w, Denotes(T, i, j, w)
  PROVE  Denotes(U, i, j, w)
<1> DEFINE kept(V) == {k \in (i + 1)..(j - 1) : ~Is(V, k, "\\")}
           as(V, k) == IF IsEscaped(V, i, k) THEN Escaped(V[k + 1]) ELSE V[k + 1]
<1>1. \A k \in (i + 1)..(j - 1) : k \in Int /\ k >= 0 /\ k < Len(T) /\ k <= Len(T) /\ k + 1 >= 1 /\ k + 1 <= Len(T)
  BY LenProperties
<1>2. kept(T) = kept(U)
  BY <1>1, IsKept
<1>3. \A k \in kept(T) : as(T, k) = as(U, k)
  <2> SUFFICES ASSUME NEW k \in (i + 1)..(j - 1) PROVE as(T, k) = as(U, k)
    OBVIOUS
  <2>1. U[k + 1] = T[k + 1]
    BY <1>1, Within
  <2>2. IsEscaped(T, i, k) <=> IsEscaped(U, i, k)
    BY <1>1, EscapedKept
  <2> QED
    BY <2>1, <2>2
<1>4. /\ Len(w) = Cardinality(kept(T))
      /\ \A k \in kept(T) : w[Cardinality({m \in kept(T) : m <= k})] = as(T, k)
  BY DEF Denotes
<1> HIDE DEF kept, as
<1>5. /\ Len(w) = Cardinality(kept(U))
      /\ \A k \in kept(U) : w[Cardinality({m \in kept(U) : m <= k})] = as(U, k)
  BY <1>2, <1>3, <1>4
<1> QED
  BY <1>5 DEF Denotes, kept, as

---------------------------------------------------------------------------
(* Tokens.                                                                 *)

Kinds == Words \cup {"eof", "string", "operator"}
TokenType == [kind : Kinds, value : Seq(Char), line : Int, index : Int, upto : Int]

\* What the run checks of a token of the stream s that follows a token that ended
\* at position last, and why no text behind it can make it wrong.
Fits(s, last, t) ==
  /\ FirstOf(t) >= last /\ t.upto >= last /\ t.upto <= Len(s.given)
  /\ IsGap(s.given, last, FirstOf(t))
  /\ IsLexeme(s.given, FirstOf(t), t)
  /\ t.line = LinesBefore(s, FirstOf(t))
  /\ FirstOf(t) <= t.upto
  /\ t.kind = "operator" =>
       \A o \in Operators : Len(o) > Len(t.value) => Excluded(s.given, t.index, o)
  /\ t.kind \in Words => \E c \in Char \ AlphaNum : Is(s.given, t.upto, c)

LastOf(ts) == EndBefore(ts, Len(ts) + 1)
AllFit(s, ts) == /\ \A i \in 1..Len(ts) : EndBefore(ts, i) >= 0 /\ Fits(s, EndBefore(ts, i), ts[i])
                 /\ LastOf(ts) \in Int /\ LastOf(ts) >= 0

LEMMA OperatorsAre == \A o \in Operators : Len(o) \in 1..3 /\ o \in Seq(Char) /\ o # <<>>
<1>1. Brackets \subseteq Seq(Char) /\ \A o \in Brackets : Len(o) = 1
  <2>1. \A c \in Char : <<c>> \in Seq(Char) /\ Len(<<c>>) = 1
    OBVIOUS
  <2>2. {"(", ")", "{", "}", "[", "]"} \subseteq Char
    BY DEF Char, Puncts
  <2> QED
    BY <2>1, <2>2 DEF Brackets
<1>2. Assigns \subseteq Seq(Char) /\ \A o \in Assigns : Len(o) \in 1..3
  BY DEF Assigns, Char, Puncts
<1>3. Relations \subseteq Seq(Char) /\ \A o \in Relations : Len(o) \in 1..3
  BY DEF Relations, Char, Puncts
<1>4. Arithmetics \subseteq Seq(Char) /\ \A o \in Arithmetics : Len(o) \in 1..3
  BY DEF Arithmetics, Char, Puncts
<1>5. {<<"?">>, <<":">>, <<",">>, <<";">>} \subseteq Seq(Char)
      /\ \A o \in {<<"?">>, <<":">>, <<",">>, <<";">>} : Len(o) = 1
  BY DEF Char, Puncts
<1> HIDE DEF Char
<1>6. \A o \in Operators : Len(o) \in 1..3 /\ o \in Seq(Char)
  <2>1. 1 \in 1..3
    OBVIOUS
  <2>2. \A o \in Operators : \/ o \in Brackets \/ o \in Assigns \/ o \in Relations \/ o \in Arithmetics
                             \/ o \in {<<"?">>, <<":">>, <<",">>, <<";">>}
    BY Zenon DEF Operators
  <2> QED
    BY <1>1, <1>2, <1>3, <1>4, <1>5, <2>1, <2>2
<1>7. \A o \in Operators : o # <<>>
  BY <1>6
<1> QED
  BY <1>6, <1>7

LEMMA LexemeKept ==
  ASSUME NEW T \in Seq(Char), NEW U \in Seq(Char), Longer(T, U), NEW i \in Int, i >= 0,
         NEW t \in TokenType, IsLexeme(T, i, t)
  PROVE  IsLexeme(U, i, t)
<1>1. t.kind \in Kinds /\ t.value \in Seq(Char) /\ t.upto \in Int /\ Len(t.value) \in Nat
  BY LenProperties DEF TokenType
<1>2. CASE t.kind = "eof"
  <2>1. t.upto = i + 1 /\ \E c \in Ends : Is(U, i, c)
    BY <1>2, IsKept DEF IsLexeme
  <2> QED
    BY <1>2, <2>1 DEF IsLexeme, Words
<1>3. CASE t.kind = "string"
  <2>1. IsString(T, i, t.upto) /\ Denotes(T, i, t.upto - 1, t.value)
    BY <1>3 DEF IsLexeme
  <2>2. IsString(U, i, t.upto) /\ t.upto - 1 <= Len(T) /\ t.upto - 1 \in Int
    BY <1>1, <2>1, StringKept
  <2>3. Denotes(U, i, t.upto - 1, t.value)
    BY <2>1, <2>2, DenotesKept
  <2> QED
    BY <1>3, <2>2, <2>3 DEF IsLexeme, Words
<1>4. Spells(T, i, t.upto, t.value) => Spells(U, i, t.upto, t.value)
  BY <1>1, HasKept DEF Spells
<1>5. CASE t.kind = "operator"
  BY <1>4, <1>5 DEF IsLexeme, Words
<1>6. CASE t.kind \in Words
  BY <1>4, <1>6 DEF IsLexeme, Words
<1> QED
  BY <1>1, <1>2, <1>3, <1>5, <1>6 DEF Kinds

\* A token that fits goes on to fit.
LEMMA FitsOn ==
  ASSUME NEW s \in Stream, NEW u \in Stream, Longer(s.given, u.given),
         NEW last \in Int, last >= 0, NEW t \in TokenType, Fits(s, last, t)
  PROVE  Fits(u, last, t)
<1> DEFINE i == FirstOf(t)
           T == s.given
           U == u.given
<1>1. /\ t.kind \in Kinds /\ t.value \in Seq(Char) /\ t.upto \in Int /\ t.index \in Int
      /\ T \in Seq(Char) /\ U \in Seq(Char) /\ Longer(T, U) /\ i \in Int
  BY DEF TokenType, FirstOf, Stream
<1>2. /\ i >= last /\ t.upto >= last /\ t.upto <= Len(T)
      /\ IsGap(T, last, i) /\ IsLexeme(T, i, t) /\ t.line = LinesBefore(s, i) /\ i <= t.upto
      /\ t.kind = "operator" =>
           \A o \in Operators : Len(o) > Len(t.value) => Excluded(T, t.index, o)
      /\ t.kind \in Words => \E c \in Char \ AlphaNum : Is(T, t.upto, c)
  BY DEF Fits
<1>3. /\ Len(T) \in Nat /\ Len(U) \in Nat /\ Len(T) <= Len(U)
      /\ \A k \in Int : k >= 1 /\ k <= Len(T) => U[k] = T[k]
  BY <1>1, Within
<1>4. i >= 0 /\ t.upto >= 0 /\ i \in Nat
  BY <1>1, <1>2
<1>5. t.kind = "operator" => t.index >= 0
  BY <1>4 DEF FirstOf
<1> HIDE DEF i
<1>6. IsGap(U, last, i) /\ IsLexeme(U, i, t)
  BY <1>1, <1>2, <1>4, GapKept, LexemeKept
<1>7. t.line = LinesBefore(u, i)
  <2>1. \A k \in 1..i : s.given[k] = u.given[k]
    BY <1>1, <1>2, <1>3, <1>4
  <2> QED
    BY <1>2, <1>4, <2>1, LinesLemma
<1>8. t.kind = "operator" =>
        \A o \in Operators : Len(o) > Len(t.value) => Excluded(U, t.index, o)
  <2> SUFFICES ASSUME t.kind = "operator", NEW o \in Operators, Len(o) > Len(t.value)
               PROVE  Excluded(U, t.index, o)
    OBVIOUS
  <2>1. Len(o) \in Nat
    BY OperatorsAre
  <2> QED
    BY <1>1, <1>2, <1>5, <2>1, ExcludedKept
<1>9. t.kind \in Words => \E c \in Char \ AlphaNum : Is(U, t.upto, c)
  BY <1>1, <1>2, <1>4, IsKept
<1>10. t.upto <= Len(U)
  BY <1>1, <1>2, <1>3
<1> QED
  BY <1>2, <1>6, <1>7, <1>8, <1>9, <1>10 DEF Fits, i

LEMMA AllFitOn ==
  ASSUME NEW s \in Stream, NEW u \in Stream, Longer(s.given, u.given),
         NEW ts \in Seq(TokenType), AllFit(s, ts)
  PROVE  AllFit(u, ts)
<1>1. ASSUME NEW i \in 1..Len(ts)
      PROVE  EndBefore(ts, i) >= 0 /\ Fits(u, EndBefore(ts, i), ts[i])
  <2>1. /\ EndBefore(ts, i) >= 0 /\ Fits(s, EndBefore(ts, i), ts[i])
    BY DEF AllFit
  <2>2. ts[i] \in TokenType
    BY ElementOfSeq
  <2>3. EndBefore(ts, i) \in Int
    <3>1. CASE i = 1
      BY <3>1 DEF EndBefore
    <3>2. CASE i # 1
      <4>1. i - 1 \in 1..Len(ts)
        BY <3>2, LenProperties
      <4>2. ts[i - 1] \in TokenType
        BY <4>1, ElementOfSeq
      <4> QED
        BY <3>2, <4>2 DEF EndBefore, TokenType
    <3> QED
      BY <3>1, <3>2
  <2> QED
    BY <2>1, <2>2, <2>3, FitsOn
<1> QED
  BY <1>1 DEF AllFit

\* One more token that fits.
LEMMA AllFitAppend ==
  ASSUME NEW s, NEW ts \in Seq(TokenType), AllFit(s, ts), NEW t \in TokenType,
         Fits(s, LastOf(ts), t)
  PROVE  /\ Append(ts, t) \in Seq(TokenType)
         /\ AllFit(s, Append(ts, t))
         /\ LastOf(Append(ts, t)) = t.upto
<1> DEFINE us == Append(ts, t)
           n == Len(ts)
<1>1. /\ us \in Seq(TokenType) /\ Len(us) = n + 1 /\ us[n + 1] = t /\ n \in Nat
      /\ \A i \in 1..n : us[i] = ts[i]
  BY AppendProperties, LenProperties
<1>2. LastOf(ts) \in Int /\ LastOf(ts) >= 0
      /\ \A i \in 1..n : EndBefore(ts, i) >= 0 /\ Fits(s, EndBefore(ts, i), ts[i])
  BY DEF AllFit
<1> HIDE DEF us, n
<1>3. \A i \in 1..(n + 1) : EndBefore(us, i) = EndBefore(ts, i)
  <2> SUFFICES ASSUME NEW i \in 1..(n + 1) PROVE EndBefore(us, i) = EndBefore(ts, i)
    OBVIOUS
  <2>1. i # 1 => i - 1 \in 1..n
    BY <1>1
  <2> QED
    BY <1>1, <2>1 DEF EndBefore
<1>4. LastOf(us) = t.upto
  BY <1>1 DEF LastOf, EndBefore
<1>5. t.upto \in Int /\ t.upto >= 0
  BY <1>2 DEF Fits, TokenType
<1>6. ASSUME NEW i \in 1..(n + 1) PROVE EndBefore(us, i) >= 0 /\ Fits(s, EndBefore(us, i), us[i])
  <2>1. CASE i \in 1..n
    BY <1>1, <1>2, <1>3, <2>1
  <2>2. CASE i = n + 1
    BY <1>1, <1>2, <1>3, <2>2 DEF LastOf, n
  <2> QED
    BY <2>1, <2>2, <1>1
<1>7. AllFit(s, us)
  BY <1>1, <1>4, <1>5, <1>6 DEF AllFit
<1> QED
  BY <1>1, <1>4, <1>7 DEF us

---------------------------------------------------------------------------
(* What the scanners know of the text.                                     *)

Where == LastOf(tokens)

\* A token starts at position b, behind a gap.
Begun(s, last, b, line) == /\ b \in Int /\ b >= last /\ IsGap(s.given, last, b)
                           /\ line = LinesBefore(s, b)

\* No operator longer than m is at position b, but for those longer than n.
Refuted(T, b, m, n) == \A o \in Operators : Len(o) > m /\ Len(o) <= n => Excluded(T, b, o)
\* One of m characters is.
Spelled(T, b, m) == m > 0 => \E o \in Operators : Len(o) = m /\ Has(T, b, o)
Longest == 3

\* Position p is inside a string, a line comment, a block comment.
InString(T, q, p, w, escaped) == /\ p > q /\ FitsString(T, q, p) /\ Denotes(T, q, p, w)
                                 /\ escaped <=> IsEscaped(T, q, p)
InLine(T, last, p) == \E k \in last..(p - 2) : /\ IsGap(T, last, k) /\ Has(T, k, <<"/", "/">>)
                                               /\ Avoids(T, k + 2, p, Ends \cup {"nl"})
InBlock(T, last, p, closing) ==
  \E k \in last..(p - 2) : /\ IsGap(T, last, k) /\ Has(T, k, <<"/", "*">>)
                           /\ Avoids(T, k + 2, p, Ends)
                           /\ \A m \in (k + 2)..(p - 2) : ~Has(T, m, <<"*", "/">>)
                           /\ closing <=> (p > k + 2 /\ Is(T, p - 1, "*"))

\* The characters of a number are letters, digits and dots, no two dots in a row.
DotsApart(w) == IsNumber(w) =>
                  \A k \in 2..Len(w) : w[k] \in AlphaNum \/ (w[k] = "." /\ w[k - 1] # ".")

Sure == /\ tokens \in Seq(TokenType) /\ AllFit(stream, tokens)
        /\ begin \in [line : Int, index : Int] /\ flag \in BOOLEAN

Scanning ==
  /\ Sure
  /\ pc = "tokenize" => IsGap(Text, Where, Here)
  /\ pc = "slash" => /\ Here > Where /\ Is(Text, Here - 1, "/") /\ IsGap(Text, Where, Here - 1)
  /\ pc \in {"word", "operator", "unread"} => begin.index = Here - Len(chars)
  /\ pc \in {"word", "operator", "unread", "unexpected"} =>
       Begun(stream, Where, begin.index, begin.line)
  /\ pc = "word" => /\ chars[1] \in AlphaNum /\ (Top(chars) = "." => Len(chars) > 1)
                    /\ DotsApart(chars)
  /\ pc \in {"operator", "unread", "unexpected"} => \E c \in Puncts : Is(Text, begin.index, c)
  /\ pc \in {"operator", "unread"} => Spelled(Text, begin.index, matched) /\ matched <= Len(chars)
  /\ pc = "operator" => Refuted(Text, begin.index, matched, Len(chars))
  /\ pc = "unread" => Refuted(Text, begin.index, matched, Longest)
  /\ pc = "unexpected" => Refuted(Text, begin.index, 0, Longest)
  /\ pc = "string" => /\ Begun(stream, Where, begin.index - 1, begin.line)
                      /\ InString(Text, begin.index - 1, Here, chars, flag)
  /\ pc = "line_comment" => InLine(Text, Where, Here)
  /\ pc = "block_comment" => InBlock(Text, Where, Here, flag)
  /\ FailsOnlyOnBadText

---------------------------------------------------------------------------
(* The text while a character is read or looked at.                        *)

\* The stream u follows on the stream s.
Follows(u, s) == /\ u \in Stream /\ Aligned(u) /\ s \in Stream
                 /\ s.given \in Seq(Char) /\ u.given \in Seq(Char) /\ Longer(s.given, u.given)
                 /\ Position(s) \in Nat /\ Position(s) <= Len(s.given)
                 /\ Position(u) \in Nat /\ Position(u) <= Len(u.given)
                 /\ u.index = Position(u) /\ u.line = LinesBefore(u, Position(u)) /\ u.line \in Int
                 /\ Len(s.given) \in Nat /\ Len(u.given) \in Nat

LEMMA StreamFacts ==
  ASSUME NEW s \in Stream, Aligned(s)
  PROVE  /\ s.given \in Seq(Char) /\ Len(s.given) \in Nat
         /\ Position(s) \in Nat /\ Position(s) <= Len(s.given)
         /\ s.index = Position(s) /\ s.line = LinesBefore(s, Position(s)) /\ s.line \in Int
  BY StreamLemma DEF Aligned, CountersTrue

\* operator()() returns the next character of the text.
LEMMA ReadFollows ==
  ASSUME NEW s \in Stream, Aligned(s), NEW c \in Char, FromStack(s) => c = Top(s.stack)
  PROVE  /\ Follows(Read(s, c), s)
         /\ Position(Read(s, c)) = Position(s) + 1
         /\ Is(Read(s, c).given, Position(s), c)
<1> DEFINE u == Read(s, c)
<1>1. /\ u \in Stream /\ Aligned(u) /\ Position(u) = Position(s) + 1
      /\ u.given[Position(s) + 1] = c /\ Longer(s.given, u.given)
  BY ReadLemma DEF Longer
<1> HIDE DEF u
<1>2. /\ s.given \in Seq(Char) /\ Len(s.given) \in Nat
      /\ Position(s) \in Nat /\ Position(s) <= Len(s.given)
  BY StreamFacts
<1>3. /\ u.given \in Seq(Char) /\ Len(u.given) \in Nat
      /\ Position(u) \in Nat /\ Position(u) <= Len(u.given)
      /\ u.index = Position(u) /\ u.line = LinesBefore(u, Position(u)) /\ u.line \in Int
  BY <1>1, StreamFacts
<1>4. Follows(u, s)
  BY <1>1, <1>2, <1>3 DEF Follows
<1>5. Is(u.given, Position(s), c)
  BY <1>1, <1>2, <1>3 DEF Is
<1> QED
  BY <1>1, <1>4, <1>5 DEF u

\* A character that was read goes back.
LEMMA BackFollows ==
  ASSUME NEW s \in Stream, Aligned(s), Position(s) > 0, NEW c, c = s.given[Position(s)]
  PROVE  /\ Follows(PushBack(s, c), s)
         /\ Position(PushBack(s, c)) = Position(s) - 1
         /\ PushBack(s, c).given = s.given
         /\ FromStack(PushBack(s, c)) /\ Top(PushBack(s, c).stack) = c
<1> DEFINE u == PushBack(s, c)
<1>1. /\ u \in Stream /\ Aligned(u) /\ Position(u) = Position(s) - 1 /\ u.given = s.given
      /\ FromStack(u) /\ Top(u.stack) = c
  BY PushBackLemma
<1> HIDE DEF u
<1>2. /\ s.given \in Seq(Char) /\ Len(s.given) \in Nat
      /\ Position(s) \in Nat /\ Position(s) <= Len(s.given)
  BY StreamFacts
<1>3. /\ u.given \in Seq(Char) /\ Len(u.given) \in Nat
      /\ Position(u) \in Nat /\ Position(u) <= Len(u.given)
      /\ u.index = Position(u) /\ u.line = LinesBefore(u, Position(u)) /\ u.line \in Int
  BY <1>1, StreamFacts
<1>4. Longer(s.given, u.given)
  BY <1>1, <1>2 DEF Longer
<1>5. Follows(u, s)
  BY <1>1, <1>2, <1>3, <1>4 DEF Follows
<1> QED
  BY <1>1, <1>5 DEF u

LEMMA LongerTwice ==
  ASSUME NEW T, NEW U, NEW V, Longer(T, U), Longer(U, V), Len(T) \in Nat, Len(U) \in Nat, Len(V) \in Nat
  PROVE  Longer(T, V)
  BY DEF Longer

\* A character that was looked at.
LEMMA PeekFollows ==
  ASSUME NEW s \in Stream, Aligned(s), NEW c \in Char, FromStack(s) => c = Top(s.stack)
  PROVE  LET u == PushBack(Read(s, c), c) IN
         /\ Follows(u, s) /\ Position(u) = Position(s) /\ Is(u.given, Position(s), c)
         /\ FromStack(u) /\ Top(u.stack) = c
<1> DEFINE r == Read(s, c)
           u == PushBack(r, c)
<1>1. /\ Follows(r, s) /\ Position(r) = Position(s) + 1 /\ Is(r.given, Position(s), c)
  BY ReadFollows
<1> HIDE DEF r
<1>2. /\ r \in Stream /\ Aligned(r) /\ Position(s) \in Nat /\ Position(r) > 0
      /\ c = r.given[Position(r)]
  BY <1>1 DEF Follows, Is
<1>3. /\ Follows(u, r) /\ Position(u) = Position(r) - 1 /\ u.given = r.given
      /\ FromStack(u) /\ Top(u.stack) = c
  BY <1>2, BackFollows
<1> HIDE DEF u
<1>4. Position(u) = Position(s) /\ Is(u.given, Position(s), c)
  BY <1>1, <1>2, <1>3
<1>5. Follows(u, s)
  BY <1>1, <1>3, LongerTwice DEF Follows
<1> QED
  BY <1>3, <1>4, <1>5 DEF u, r

---------------------------------------------------------------------------
(* What each step makes of what was known.                                 *)

\* A character is read, looked at, or none is.
LEMMA ReadsOn ==
  ASSUME IndInv, NEW c \in NextChars, Reads(c)
  PROVE  c \in Char /\ Follows(stream', stream) /\ Here' = Here + 1 /\ Is(Text', Here, c)
<1>1. /\ c \in Char /\ (FromStack(stream) => c = Top(stream.stack))
      /\ stream \in Stream /\ Aligned(stream)
  BY NextCharsLemma DEF IndInv
<1> DEFINE u == Read(stream, c)
<1>2. Follows(u, stream) /\ Position(u) = Position(stream) + 1 /\ Is(u.given, Position(stream), c)
  BY <1>1, ReadFollows
<1>3. stream' = u
  BY DEF Reads
<1> HIDE DEF u
<1> QED
  BY <1>1, <1>2, <1>3 DEF Here, Text

LEMMA PeeksOn ==
  ASSUME IndInv, NEW c \in NextChars, Peeks(c)
  PROVE  c \in Char /\ Follows(stream', stream) /\ Here' = Here /\ Is(Text', Here, c)
<1>1. /\ c \in Char /\ (FromStack(stream) => c = Top(stream.stack))
      /\ stream \in Stream /\ Aligned(stream)
  BY NextCharsLemma DEF IndInv
<1> DEFINE u == PushBack(Read(stream, c), c)
<1>2. Follows(u, stream) /\ Position(u) = Position(stream) /\ Is(u.given, Position(stream), c)
  BY <1>1, PeekFollows
<1>3. stream' = u
  BY DEF Peeks
<1> HIDE DEF u
<1> QED
  BY <1>1, <1>2, <1>3 DEF Here, Text

LEMMA Itself ==
  ASSUME NEW s \in Stream, Aligned(s)
  PROVE  Follows(s, s)
<1>1. Longer(s.given, s.given)
  BY StreamFacts DEF Longer
<1> QED
  BY <1>1, StreamFacts DEF Follows

LEMMA Still ==
  ASSUME IndInv, UNCHANGED stream
  PROVE  Follows(stream', stream) /\ Here' = Here /\ Text' = Text
<1>1. Follows(stream, stream)
  BY Itself DEF IndInv
<1> QED
  BY <1>1 DEF Here, Text

\* What the proof knows of a state and of the one after it.
LEMMA Now ==
  ASSUME IndInv, Scanning
  PROVE  /\ Where \in Int /\ Where >= 0 /\ Here \in Nat /\ Here <= Len(Text)
         /\ Text \in Seq(Char) /\ Len(Text) \in Nat
         /\ begin \in [line : Int, index : Int] /\ begin.index \in Int /\ begin.line \in Int
         /\ flag \in BOOLEAN /\ chars \in Seq(Char) /\ Len(chars) \in Nat /\ matched \in Nat
         /\ tokens \in Seq(TokenType) /\ AllFit(stream, tokens)
         /\ stream.index = Here /\ stream.line = LinesBefore(stream, Here) /\ stream.line \in Int
<1>1. /\ begin \in [line : Int, index : Int] /\ flag \in BOOLEAN /\ tokens \in Seq(TokenType)
      /\ AllFit(stream, tokens)
  BY DEF Scanning, Sure
<1>2. Where \in Int /\ Where >= 0
  BY <1>1 DEF AllFit, Where
<1>3. chars \in Seq(Char) /\ matched \in Nat /\ stream \in Stream /\ Aligned(stream)
  BY DEF IndInv
<1>4. Len(chars) \in Nat
  BY <1>3, LenProperties
<1>5. begin.index \in Int /\ begin.line \in Int
  BY <1>1
<1> QED
  BY <1>1, <1>2, <1>3, <1>4, <1>5, StreamFacts DEF Here, Text

LEMMA Then ==
  ASSUME IndInv, Scanning, Follows(stream', stream)
  PROVE  /\ Here' \in Nat /\ Here' <= Len(Text') /\ Text' \in Seq(Char) /\ Len(Text') \in Nat
         /\ stream' \in Stream /\ Longer(Text, Text') /\ stream'.given = Text'
         /\ stream'.index = Here' /\ stream'.line = LinesBefore(stream', Here')
         /\ stream'.line \in Int /\ Position(stream') = Here' /\ Mark(stream') \in [line : Int, index : Int]
         /\ AllFit(stream', tokens)
         /\ tokens' = tokens => Where' = Where /\ tokens' \in Seq(TokenType) /\ AllFit(stream', tokens')
<1>1. /\ stream \in Stream /\ stream' \in Stream /\ Longer(Text, Text') /\ stream'.given = Text'
      /\ Here' \in Nat /\ Here' <= Len(Text') /\ Text' \in Seq(Char) /\ Len(Text') \in Nat
      /\ stream'.index = Here' /\ stream'.line = LinesBefore(stream', Here')
      /\ stream'.line \in Int /\ Position(stream') = Here' /\ stream.given = Text
  BY DEF Follows, Here, Text
<1>2. tokens \in Seq(TokenType) /\ AllFit(stream, tokens)
  BY DEF Scanning, Sure
<1>3. AllFit(stream', tokens)
  BY <1>1, <1>2, AllFitOn DEF Text
<1>4. Mark(stream') \in [line : Int, index : Int]
  BY <1>1 DEF Mark
<1> QED
  BY <1>1, <1>2, <1>3, <1>4 DEF Where

\* What was known of the text is known of more of it.
LEMMA BegunOn ==
  ASSUME NEW s, NEW u, Follows(u, s), NEW last \in Int, last >= 0,
         NEW b, NEW line, Begun(s, last, b, line), b <= Len(s.given)
  PROVE  Begun(u, last, b, line)
<1>1. /\ s \in Stream /\ u \in Stream /\ s.given \in Seq(Char) /\ u.given \in Seq(Char)
      /\ Longer(s.given, u.given) /\ Len(s.given) \in Nat
  BY DEF Follows
<1>2. b \in Int /\ b >= last /\ IsGap(s.given, last, b) /\ line = LinesBefore(s, b)
  BY DEF Begun
<1>3. b \in Nat
  BY <1>2
<1>4. IsGap(u.given, last, b)
  BY <1>1, <1>2, GapKept
<1>5. LinesBefore(s, b) = LinesBefore(u, b)
  <2>1. \A k \in 1..b : s.given[k] = u.given[k]
    BY <1>1, <1>3 DEF Longer
  <2> QED
    BY <1>1, <1>3, <2>1, LinesLemma
<1> QED
  BY <1>2, <1>4, <1>5 DEF Begun

LEMMA RefutedOn ==
  ASSUME NEW T \in Seq(Char), NEW U \in Seq(Char), Longer(T, U), NEW b \in Int, b >= 0,
         NEW m \in Int, NEW n \in Int
  PROVE  /\ Refuted(T, b, m, n) => Refuted(U, b, m, n)
         /\ Spelled(T, b, m) => Spelled(U, b, m)
<1>1. \A o \in Operators : Len(o) \in Nat
  BY OperatorsAre
<1>2. Refuted(T, b, m, n) => Refuted(U, b, m, n)
  BY <1>1, ExcludedKept DEF Refuted
<1>3. Spelled(T, b, m) => Spelled(U, b, m)
  BY <1>1, HasKept DEF Spelled
<1> QED
  BY <1>2, <1>3

\* The invariant in the next state, by the scanner that is at work in it.
LEMMA IntoTokenize ==
  ASSUME Sure', pc' = "tokenize", IsGap(Text', Where', Here')
  PROVE  Scanning'
  BY DEF Scanning, FailsOnlyOnBadText

LEMMA IntoEnd ==
  ASSUME Sure', pc' = "eof"
  PROVE  Scanning'
  BY DEF Scanning, FailsOnlyOnBadText

LEMMA IntoSlash ==
  ASSUME Sure', pc' = "slash",
         Here' > Where', Is(Text', Here' - 1, "/"), IsGap(Text', Where', Here' - 1)
  PROVE  Scanning'
  BY DEF Scanning, FailsOnlyOnBadText

LEMMA IntoWord ==
  ASSUME Sure', pc' = "word", begin'.index = Here' - Len(chars'),
         Begun(stream', Where', begin'.index, begin'.line),
         chars'[1] \in AlphaNum, Top(chars') = "." => Len(chars') > 1, DotsApart(chars')
  PROVE  Scanning'
  BY DEF Scanning, FailsOnlyOnBadText

LEMMA IntoOperator ==
  ASSUME Sure', pc' = "operator", begin'.index = Here' - Len(chars'),
         Begun(stream', Where', begin'.index, begin'.line),
         \E c \in Puncts : Is(Text', begin'.index, c),
         Spelled(Text', begin'.index, matched'), matched' <= Len(chars'),
         Refuted(Text', begin'.index, matched', Len(chars'))
  PROVE  Scanning'
  BY DEF Scanning, FailsOnlyOnBadText

LEMMA IntoUnread ==
  ASSUME Sure', pc' = "unread", begin'.index = Here' - Len(chars'),
         Begun(stream', Where', begin'.index, begin'.line),
         \E c \in Puncts : Is(Text', begin'.index, c),
         Spelled(Text', begin'.index, matched'), matched' <= Len(chars'),
         Refuted(Text', begin'.index, matched', Longest)
  PROVE  Scanning'
  BY DEF Scanning, FailsOnlyOnBadText

LEMMA IntoUnexpected ==
  ASSUME Sure', pc' = "unexpected",
         Begun(stream', Where', begin'.index, begin'.line),
         \E c \in Puncts : Is(Text', begin'.index, c),
         Refuted(Text', begin'.index, 0, Longest)
  PROVE  Scanning'
  BY DEF Scanning, FailsOnlyOnBadText

LEMMA IntoString ==
  ASSUME Sure', pc' = "string", Begun(stream', Where', begin'.index - 1, begin'.line),
         InString(Text', begin'.index - 1, Here', chars', flag')
  PROVE  Scanning'
  BY DEF Scanning, FailsOnlyOnBadText

LEMMA IntoLine ==
  ASSUME Sure', pc' = "line_comment", InLine(Text', Where', Here')
  PROVE  Scanning'
  BY DEF Scanning, FailsOnlyOnBadText

LEMMA IntoBlock ==
  ASSUME Sure', pc' = "block_comment", InBlock(Text', Where', Here', flag')
  PROVE  Scanning'
  BY DEF Scanning, FailsOnlyOnBadText

\* A token is returned: its value, and where its lexeme starts.
LEMMA Emitted ==
  ASSUME IndInv, Scanning, Follows(stream', stream),
         NEW kind \in Kinds, NEW value \in Seq(Char), NEW line \in Int, NEW index \in Int,
         NEW from, from.line = line, from.index = index, Emit(kind, value, from),
         LET first == IF kind = "string" THEN index - 1 ELSE index IN
         /\ Begun(stream', Where, first, line) /\ first <= Here'
         /\ IsLexeme(Text', first, [kind |-> kind, value |-> value, line |-> line,
                                    index |-> index, upto |-> Here'])
         /\ kind = "operator" =>
              \A o \in Operators : Len(o) > Len(value) => Excluded(Text', index, o)
         /\ kind \in Words => \E c \in Char \ AlphaNum : Is(Text', Here', c)
  PROVE  /\ tokens' \in Seq(TokenType) /\ AllFit(stream', tokens')
         /\ IsGap(Text', Where', Here')
<1> DEFINE t == [kind |-> kind, value |-> value, line |-> line, index |-> index, upto |-> Here']
           first == IF kind = "string" THEN index - 1 ELSE index
<1>1. /\ Here' \in Nat /\ Here' <= Len(Text') /\ stream'.given = Text' /\ Position(stream') = Here'
      /\ AllFit(stream', tokens)
  BY Then
<1>2. tokens \in Seq(TokenType) /\ Where \in Int /\ Where >= 0
  BY Now
<1>3. tokens' = Append(tokens, t)
  BY <1>1 DEF Emit
<1>4. /\ t.kind = kind /\ t.value = value /\ t.line = line /\ t.index = index /\ t.upto = Here'
      /\ t \in TokenType
  BY <1>1 DEF TokenType
<1>5. FirstOf(t) = first
  BY <1>4 DEF FirstOf
<1>6. first \in Int /\ first >= Where /\ IsGap(Text', Where, first) /\ line = LinesBefore(stream', first)
  BY <1>1 DEF Begun
<1>7. IsLexeme(Text', first, t)
  OBVIOUS
<1> HIDE DEF t, first
<1>8. Fits(stream', Where, t)
  <2>1. /\ FirstOf(t) >= Where /\ t.upto >= Where /\ t.upto <= Len(stream'.given)
        /\ FirstOf(t) <= t.upto
    BY <1>1, <1>2, <1>4, <1>5, <1>6 DEF first
  <2>2. /\ IsGap(stream'.given, Where, FirstOf(t)) /\ IsLexeme(stream'.given, FirstOf(t), t)
        /\ t.line = LinesBefore(stream', FirstOf(t))
    BY <1>1, <1>4, <1>5, <1>6, <1>7
  <2>3. /\ t.kind = "operator" =>
             \A o \in Operators : Len(o) > Len(t.value) => Excluded(stream'.given, t.index, o)
        /\ t.kind \in Words => \E c \in Char \ AlphaNum : Is(stream'.given, t.upto, c)
    BY <1>1, <1>4
  <2> QED
    BY <2>1, <2>2, <2>3 DEF Fits
<1>9. /\ Append(tokens, t) \in Seq(TokenType) /\ AllFit(stream', Append(tokens, t))
      /\ LastOf(Append(tokens, t)) = t.upto
  BY <1>1, <1>2, <1>4, <1>8, AllFitAppend DEF Where
<1>10. Where' = Here'
  BY <1>3, <1>4, <1>9 DEF Where
<1>11. IsGap(Text', Here', Here')
  BY <1>1, EmptyGap
<1> QED
  BY <1>3, <1>9, <1>10, <1>11

\* tokenize().
LEMMA BlankStep ==
  ASSUME IndInv, Scanning, Blank
  PROVE  Scanning'
<1>1. PICK c \in NextChars \cap Spaces : Reads(c)
  BY DEF Blank
<1>2. Follows(stream', stream) /\ Here' = Here + 1 /\ Is(Text', Here, c)
  BY <1>1, ReadsOn
<1>3. /\ pc = "tokenize" /\ pc' = "tokenize" /\ tokens' = tokens /\ begin' = begin /\ flag' = flag
  BY DEF Blank
<1>4. IsGap(Text, Where, Here)
  BY <1>3 DEF Scanning
<1>5. /\ Where \in Int /\ Where >= 0 /\ Here \in Nat /\ Text \in Seq(Char)
      /\ begin \in [line : Int, index : Int] /\ flag \in BOOLEAN
  BY Now
<1>6. /\ Text' \in Seq(Char) /\ Longer(Text, Text') /\ Where' = Where /\ tokens' \in Seq(TokenType)
      /\ AllFit(stream', tokens')
  BY <1>2, <1>3, Then
<1>7. IsGap(Text', Where, Here)
  BY <1>4, <1>5, <1>6, GapKept
<1>8. IsPiece(Text', Here, Here + 1)
  BY <1>1, <1>2 DEF IsPiece, IsBlank
<1>9. IsGap(Text', Where, Here + 1)
  <2>1. Here \in Int /\ Here + 1 \in Int /\ Here < Here + 1
    BY <1>5
  <2> QED
    BY <1>5, <1>7, <1>8, <2>1, GapGrows
<1> QED
  BY <1>2, <1>3, <1>5, <1>6, <1>9, IntoTokenize DEF Sure

\* A token starts at the position of the reader.
LEMMA StartsHere ==
  ASSUME IndInv, Scanning, pc = "tokenize", Follows(stream', stream)
  PROVE  Begun(stream', Where, Here, stream.line) /\ Begun(stream, Where, Here, stream.line)
<1>1. IsGap(Text, Where, Here)
  BY DEF Scanning
<1>2. /\ Where \in Int /\ Where >= 0 /\ Here \in Nat /\ Here <= Len(Text) /\ Text \in Seq(Char)
      /\ stream.line = LinesBefore(stream, Here)
  BY Now
<1>3. Here >= Where
  <2>1. Longer(Text, Text)
    BY <1>2 DEF Longer
  <2> QED
    BY <1>1, <1>2, <2>1, GapKept
<1>4. Begun(stream, Where, Here, stream.line)
  BY <1>1, <1>2, <1>3 DEF Begun, Text
<1>5. Here <= Len(stream.given)
  BY <1>2 DEF Text
<1> QED
  BY <1>2, <1>4, <1>5, BegunOn

LEMMA EndOfTextStep ==
  ASSUME IndInv, Scanning, EndOfText
  PROVE  Scanning'
<1>1. PICK c \in NextChars \cap Ends : Reads(c)
  BY DEF EndOfText
<1>2. Follows(stream', stream) /\ Here' = Here + 1 /\ Is(Text', Here, c)
  BY <1>1, ReadsOn
<1>3. /\ pc = "tokenize" /\ pc' = "eof" /\ begin' = begin /\ flag' = flag
      /\ Emit("eof", <<>>, Mark(stream))
  BY DEF EndOfText
<1>4. /\ Where \in Int /\ Where >= 0 /\ Here \in Nat /\ stream.index = Here /\ stream.line \in Int
      /\ begin \in [line : Int, index : Int] /\ flag \in BOOLEAN
  BY Now
<1>5. Begun(stream', Where, Here, stream.line) /\ Here <= Here'
  BY <1>2, <1>3, <1>4, StartsHere
<1>6. IsLexeme(Text', Here, [kind |-> "eof", value |-> <<>>, line |-> stream.line,
                             index |-> Here, upto |-> Here'])
  BY <1>1, <1>2 DEF IsLexeme, Words
<1>7. Mark(stream).line = stream.line /\ Mark(stream).index = Here
  BY <1>4 DEF Mark
<1>8. "eof" \in Kinds /\ "eof" \notin Words /\ <<>> \in Seq(Char) /\ Here \in Int
  BY <1>4 DEF Kinds, Words
<1>9. /\ tokens' \in Seq(TokenType) /\ AllFit(stream', tokens')
  BY <1>2, <1>3, <1>4, <1>5, <1>6, <1>7, <1>8, Emitted
<1> QED
  BY <1>3, <1>4, <1>9, IntoEnd DEF Sure

LEMMA StartWordStep ==
  ASSUME IndInv, Scanning, StartWord
  PROVE  Scanning'
<1>1. PICK c \in NextChars \cap AlphaNum :
        LET back == PushBack(Read(stream, c), c) IN
        begin' = Mark(back) /\ stream' = Read(back, c) /\ Start("word", <<c>>)
  BY DEF StartWord
<1>2. pc = "tokenize"
  BY DEF StartWord
<1>3. /\ c \in Char /\ (FromStack(stream) => c = Top(stream.stack))
      /\ stream \in Stream /\ Aligned(stream)
  BY NextCharsLemma DEF IndInv
<1> DEFINE back == PushBack(Read(stream, c), c)
<1>4. /\ Follows(back, stream) /\ Position(back) = Position(stream)
      /\ FromStack(back) /\ Top(back.stack) = c
  BY <1>3, PeekFollows
<1>5. begin' = Mark(back) /\ stream' = Read(back, c) /\ Start("word", <<c>>)
  BY <1>1
<1> HIDE DEF back
<1>6. back \in Stream /\ Aligned(back) /\ back.index = Position(back)
      /\ back.line = LinesBefore(back, Position(back)) /\ back.line \in Int /\ Position(back) \in Nat
  BY <1>4 DEF Follows
<1> DEFINE u == Read(back, c)
<1>7. Follows(u, back) /\ Position(u) = Position(back) + 1
  BY <1>3, <1>4, <1>6, ReadFollows
<1> HIDE DEF u
<1>8. Follows(u, stream)
  BY <1>4, <1>7, LongerTwice DEF Follows
<1>9. stream' = u
  BY <1>5 DEF u
<1>10. Follows(stream', stream) /\ Here' = Here + 1 /\ Follows(stream', back)
  BY <1>4, <1>7, <1>8, <1>9 DEF Here
<1>11. /\ pc' = "word" /\ chars' = <<c>> /\ flag' = FALSE /\ tokens' = tokens
       /\ begin' = [line |-> back.line, index |-> Here]
  BY <1>4, <1>5, <1>6 DEF Start, Mark, Here
<1>12. Begun(stream', Where, Here, stream.line)
  BY <1>2, <1>10, StartsHere
<1>13. back.line = stream.line
  <2>1. stream.line = LinesBefore(stream, Here) /\ Here \in Nat /\ Here <= Len(Text)
    BY Now
  <2>2. \A k \in 1..Here : stream.given[k] = back.given[k]
    BY <1>4, <2>1 DEF Follows, Longer, Text
  <2>3. LinesBefore(stream, Here) = LinesBefore(back, Here)
    BY <1>3, <1>6, <2>1, <2>2, LinesLemma
  <2> QED
    BY <1>4, <1>6, <2>1, <2>3 DEF Here
<1>14. /\ Where' = Where /\ tokens' \in Seq(TokenType) /\ AllFit(stream', tokens')
  BY <1>10, <1>11, Then
<1>15. Here \in Nat
  BY Now
<1>16. /\ Len(chars') = 1 /\ chars'[1] = c /\ Top(chars') = c /\ c # "."
  <2>1. c # "."
    BY DEF AlphaNum, Letters, Digits
  <2> QED
    BY <1>11, <2>1 DEF Top
<1>20. DotsApart(chars')
  BY <1>16 DEF DotsApart
<1>17. begin' \in [line : Int, index : Int] /\ begin'.index = Here /\ begin'.line = stream.line
  BY <1>6, <1>11, <1>13, <1>15
<1>18. Sure'
  BY <1>11, <1>14, <1>17 DEF Sure
<1>19. begin'.index = Here' - Len(chars')
  BY <1>10, <1>15, <1>16, <1>17
<1> QED
  BY <1>11, <1>12, <1>14, <1>16, <1>17, <1>18, <1>19, <1>20, IntoWord

\* The empty string.
LEMMA NothingDenoted ==
  ASSUME NEW T, NEW q \in Int
  PROVE  Denotes(T, q, q + 1, <<>>)
<1> DEFINE kept == {k \in (q + 1)..((q + 1) - 1) : ~Is(T, k, "\\")}
<1>1. kept = {}
  OBVIOUS
<1>2. Cardinality(kept) = 0
  BY <1>1, FS_EmptySet
<1>3. Len(<<>>) = Cardinality(kept) /\ \A k \in kept : FALSE
  BY <1>1, <1>2
<1> HIDE DEF kept
<1> QED
  BY <1>3 DEF Denotes, kept

LEMMA StartStringStep ==
  ASSUME IndInv, Scanning, StartString
  PROVE  Scanning'
<1>1. /\ pc = "tokenize" /\ "quote" \in NextChars /\ Reads("quote") /\ begin' = Mark(stream')
      /\ pc' = "string" /\ chars' = <<>> /\ flag' = FALSE /\ tokens' = tokens
  BY DEF StartString, Start
<1>2. Follows(stream', stream) /\ Here' = Here + 1 /\ Is(Text', Here, "quote")
  BY <1>1, ReadsOn
<1>3. Here \in Nat /\ stream.line \in Int
  BY Now
<1>4. /\ Where' = Where /\ tokens' \in Seq(TokenType) /\ AllFit(stream', tokens')
      /\ stream'.index = Here' /\ Mark(stream') \in [line : Int, index : Int]
      /\ Here' <= Len(Text') /\ stream'.line = LinesBefore(stream', Here') /\ stream' \in Stream
      /\ stream'.given = Text'
  BY <1>1, <1>2, Then
<1>5. Begun(stream', Where, Here, stream.line)
  BY <1>1, <1>2, StartsHere
<1>6. begin'.index = Here + 1 /\ begin'.index - 1 = Here /\ begin'.line = stream'.line
  BY <1>1, <1>2, <1>3, <1>4 DEF Mark
<1>7. stream'.line = stream.line
  <2>1. LinesBefore(stream', Here + 1) = LinesBefore(stream', Here) + Lines(stream'.given[Here + 1])
        /\ LinesBefore(stream', Here) \in Nat
    BY <1>3, <1>4, LinesLemma
  <2>2. Lines(stream'.given[Here + 1]) = 0
    BY <1>2, <1>4 DEF Is, Lines, NewLine
  <2>3. stream.line = LinesBefore(stream', Here)
    BY <1>5 DEF Begun
  <2> QED
    BY <1>2, <1>4, <2>1, <2>2, <2>3
<1>8. FitsString(Text', Here, Here + 1)
  <2>1. Avoids(Text', Here + 1, Here + 1, Ends)
    BY <1>2, <1>3, <1>4 DEF Avoids
  <2>2. \A k \in (Here + 1)..((Here + 1) - 1) : FALSE
    BY <1>3
  <2> QED
    BY <1>2, <2>1, <2>2 DEF FitsString
<1>9. ~IsEscaped(Text', Here, Here + 1)
  BY <1>3 DEF IsEscaped
<1>10. Denotes(Text', Here, Here + 1, <<>>)
  BY <1>3, NothingDenoted
<1>11. InString(Text', Here, Here + 1, <<>>, FALSE)
  BY <1>3, <1>8, <1>9, <1>10 DEF InString
<1>12. Sure'
  BY <1>1, <1>4 DEF Sure
<1>13. Begun(stream', Where', begin'.index - 1, begin'.line)
  BY <1>4, <1>5, <1>6, <1>7
<1> QED
  BY <1>1, <1>2, <1>6, <1>11, <1>12, <1>13, IntoString

LEMMA StartSlashStep ==
  ASSUME IndInv, Scanning, StartSlash
  PROVE  Scanning'
<1>1. /\ pc = "tokenize" /\ "/" \in NextChars /\ Reads("/") /\ begin' = begin
      /\ pc' = "slash" /\ flag' = FALSE /\ tokens' = tokens
  BY DEF StartSlash, Start
<1>2. Follows(stream', stream) /\ Here' = Here + 1 /\ Is(Text', Here, "/")
  BY <1>1, ReadsOn
<1>3. Here \in Nat /\ Where \in Int /\ begin \in [line : Int, index : Int]
  BY Now
<1>4. Where' = Where /\ tokens' \in Seq(TokenType) /\ AllFit(stream', tokens') /\ stream'.given = Text'
  BY <1>1, <1>2, Then
<1>5. Here >= Where /\ IsGap(Text', Where, Here)
  BY <1>1, <1>2, <1>4, StartsHere DEF Begun
<1>6. Here' - 1 = Here /\ Here' > Where'
  BY <1>2, <1>3, <1>4, <1>5
<1>7. Sure'
  BY <1>1, <1>3, <1>4 DEF Sure
<1> QED
  BY <1>1, <1>2, <1>4, <1>5, <1>6, <1>7, IntoSlash

\* An operator scanner starts with nothing read.
LEMMA NothingFound ==
  ASSUME NEW T, NEW b
  PROVE  Refuted(T, b, 0, 0) /\ Spelled(T, b, 0)
<1>1. \A o \in Operators : ~(Len(o) > 0 /\ Len(o) <= 0)
  BY OperatorsAre
<1> QED
  BY <1>1 DEF Refuted, Spelled

LEMMA StartOperatorStep ==
  ASSUME IndInv, Scanning, StartOperator
  PROVE  Scanning'
<1>1. PICK c \in NextChars \cap (Puncts \ {"quote", "/"}) : Peeks(c)
  BY DEF StartOperator
<1>2. /\ pc = "tokenize" /\ begin' = Mark(stream') /\ pc' = "operator" /\ chars' = <<>>
      /\ matched' = 0 /\ flag' = FALSE /\ tokens' = tokens
  BY DEF StartOperator, Start
<1>3. Follows(stream', stream) /\ Here' = Here /\ Is(Text', Here, c)
  BY <1>1, PeeksOn
<1>4. Here \in Nat
  BY Now
<1>5. /\ Where' = Where /\ tokens' \in Seq(TokenType) /\ AllFit(stream', tokens')
      /\ stream'.index = Here' /\ Mark(stream') \in [line : Int, index : Int]
      /\ stream'.line = LinesBefore(stream', Here')
  BY <1>2, <1>3, Then
<1>6. Begun(stream', Where, Here, stream.line)
  BY <1>2, <1>3, StartsHere
<1>7. begin'.index = Here /\ begin'.line = stream'.line /\ stream'.line = stream.line
  BY <1>2, <1>3, <1>5, <1>6 DEF Mark, Begun
<1>8. Begun(stream', Where', begin'.index, begin'.line)
  BY <1>5, <1>6, <1>7
<1>9. Len(chars') = 0 /\ Here - 0 = Here /\ 0 <= 0
  BY <1>2, <1>4
<1>10. Refuted(Text', begin'.index, matched', Len(chars')) /\ Spelled(Text', begin'.index, matched')
  BY <1>2, <1>9, NothingFound
<1>11. Sure'
  BY <1>2, <1>5 DEF Sure
<1> QED
  BY <1>1, <1>2, <1>3, <1>7, <1>8, <1>9, <1>10, <1>11, IntoOperator

LEMMA StartCommentStep ==
  ASSUME IndInv, Scanning, StartComment
  PROVE  Scanning'
<1>1. PICK c \in NextChars \cap {"/", "*"} :
        Reads(c) /\ Start(IF c = "/" THEN "line_comment" ELSE "block_comment", <<>>)
  BY DEF StartComment
<1>2. /\ pc = "slash" /\ begin' = begin /\ flag' = FALSE /\ tokens' = tokens
      /\ pc' = IF c = "/" THEN "line_comment" ELSE "block_comment"
  BY <1>1 DEF StartComment, Start
<1>3. Follows(stream', stream) /\ Here' = Here + 1 /\ Is(Text', Here, c)
  BY <1>1, ReadsOn
<1>4. /\ Here \in Nat /\ Where \in Int /\ Where >= 0 /\ Text \in Seq(Char)
      /\ begin \in [line : Int, index : Int]
  BY Now
<1>5. /\ Where' = Where /\ tokens' \in Seq(TokenType) /\ AllFit(stream', tokens')
      /\ Text' \in Seq(Char) /\ Longer(Text, Text') /\ Here' <= Len(Text') /\ Len(Text') \in Nat
  BY <1>2, <1>3, Then
<1>6. Here > Where /\ Is(Text, Here - 1, "/") /\ IsGap(Text, Where, Here - 1)
  BY <1>2 DEF Scanning
<1>7. Here - 1 \in Int /\ Here - 1 >= 0
  BY <1>4, <1>6
<1>8. Is(Text', Here - 1, "/") /\ IsGap(Text', Where, Here - 1)
  BY <1>4, <1>5, <1>6, <1>7, IsKept, GapKept
<1>9. Has(Text', Here - 1, <<"/", c>>)
  <2>1. Text'[Here - 1 + 1] = "/" /\ Text'[Here + 1] = c
    BY <1>3, <1>8 DEF Is
  <2>2. Here - 1 + 2 <= Len(Text') /\ \A k \in 1..2 : k = 1 \/ k = 2
    BY <1>3, <1>4, <1>5
  <2>3. Here - 1 + 2 = Here + 1
    BY <1>4
  <2> QED
    BY <2>1, <2>2, <2>3, Pair DEF Has
<1>10. Here - 1 \in Where..(Here' - 2) /\ Here - 1 + 2 = Here'
  BY <1>3, <1>4, <1>6
<1>11. \A S : Avoids(Text', Here - 1 + 2, Here', S)
  BY <1>5, <1>10, <1>3, <1>4 DEF Avoids
<1>12. Sure'
  BY <1>2, <1>4, <1>5 DEF Sure
<1>13. CASE c = "/"
  <2>1. InLine(Text', Where, Here')
    BY <1>8, <1>9, <1>10, <1>11, <1>13 DEF InLine
  <2> QED
    BY <1>2, <1>5, <1>12, <1>13, <2>1, IntoLine
<1>14. CASE c = "*"
  <2>1. \A m \in (Here - 1 + 2)..(Here' - 2) : FALSE
    BY <1>3, <1>4
  <2>2. ~(Here' > Here - 1 + 2)
    BY <1>3, <1>4
  <2>3. InBlock(Text', Where, Here', FALSE)
    BY <1>8, <1>9, <1>10, <1>11, <1>14, <2>1, <2>2 DEF InBlock
  <2>4. pc' = "block_comment"
    BY <1>2, <1>14
  <2> QED
    BY <1>2, <1>5, <1>12, <2>3, <2>4, IntoBlock
<1> QED
  BY <1>1, <1>13, <1>14

LEMMA SlashIsOperatorStep ==
  ASSUME IndInv, Scanning, SlashIsOperator
  PROVE  Scanning'
<1>1. PICK c \in NextChars \ {"/", "*"} : stream' = PushBack(PushBack(Read(stream, c), c), "/")
  BY DEF SlashIsOperator
<1>2. /\ pc = "slash" /\ begin' = Mark(stream') /\ pc' = "operator" /\ chars' = <<>>
      /\ matched' = 0 /\ flag' = FALSE /\ tokens' = tokens
  BY DEF SlashIsOperator, Start
<1>3. /\ c \in Char /\ (FromStack(stream) => c = Top(stream.stack))
      /\ stream \in Stream /\ Aligned(stream)
  BY NextCharsLemma DEF IndInv
<1> DEFINE back == PushBack(Read(stream, c), c)
<1>4. Follows(back, stream) /\ Position(back) = Here
  BY <1>3, PeekFollows DEF Here
<1>5. stream' = PushBack(back, "/")
  BY <1>1
<1> HIDE DEF back
<1>6. /\ Here \in Nat /\ Where \in Int /\ Where >= 0 /\ Text \in Seq(Char) /\ Here <= Len(Text)
      /\ stream.line = LinesBefore(stream, Here)
  BY Now
<1>7. Here > Where /\ Is(Text, Here - 1, "/") /\ IsGap(Text, Where, Here - 1)
  BY <1>2 DEF Scanning
<1>8. Here - 1 \in Int /\ Here - 1 >= 0 /\ Here - 1 <= Len(Text) /\ Here - 1 >= Where /\ Here > 0
      /\ Here - 1 + 1 = Here
  BY <1>6, <1>7
<1>9. /\ back \in Stream /\ Aligned(back) /\ back.given \in Seq(Char) /\ Longer(Text, back.given)
  BY <1>4 DEF Follows, Text
<1>10. "/" = back.given[Position(back)]
  <2>1. Is(back.given, Here - 1, "/")
    BY <1>6, <1>7, <1>8, <1>9, IsKept
  <2> QED
    BY <1>4, <1>8, <2>1 DEF Is
<1> DEFINE u == PushBack(back, "/")
<1>11. /\ Follows(u, back) /\ Position(u) = Position(back) - 1 /\ u.given = back.given
  BY <1>4, <1>8, <1>9, <1>10, BackFollows
<1> HIDE DEF u
<1>12. Follows(u, stream) /\ Position(u) = Here - 1
  BY <1>4, <1>11, LongerTwice DEF Follows
<1>13. Follows(stream', stream) /\ Here' = Here - 1
  BY <1>5, <1>12 DEF u, Here
<1>14. /\ Where' = Where /\ tokens' \in Seq(TokenType) /\ AllFit(stream', tokens')
       /\ stream'.index = Here' /\ Mark(stream') \in [line : Int, index : Int]
       /\ stream'.line = LinesBefore(stream', Here')
       /\ Text' \in Seq(Char) /\ Longer(Text, Text') /\ stream'.given = Text'
  BY <1>2, <1>13, Then
<1>15. IsGap(Text', Where, Here - 1) /\ Is(Text', Here - 1, "/")
  BY <1>6, <1>7, <1>8, <1>14, GapKept, IsKept
<1>16. begin'.index = Here - 1 /\ begin'.line = stream'.line
  BY <1>2, <1>13, <1>14 DEF Mark
<1>17. Begun(stream', Where', begin'.index, begin'.line)
  BY <1>8, <1>13, <1>14, <1>15, <1>16 DEF Begun
<1>18. Len(chars') = 0 /\ (Here - 1) - 0 = Here - 1 /\ 0 <= 0 /\ "/" \in Puncts
  BY <1>2, <1>6 DEF Puncts
<1>19. Refuted(Text', begin'.index, matched', Len(chars')) /\ Spelled(Text', begin'.index, matched')
  BY <1>2, <1>18, NothingFound
<1>20. Sure'
  BY <1>2, <1>14 DEF Sure
<1> QED
  BY <1>2, <1>13, <1>15, <1>16, <1>17, <1>18, <1>19, <1>20, IntoOperator

\* fetch_word(), and what getOperator() has read: the characters of the token.
LEMMA CollectedIs ==
  ASSUME IndInv, Scanning, pc \in {"word", "operator", "unread"}
  PROVE  /\ Has(Text, begin.index, chars) /\ begin.index = Here - Len(chars)
         /\ begin.index \in Int /\ begin.index >= 0 /\ begin.index <= Len(Text)
         /\ Begun(stream, Where, begin.index, begin.line)
<1>1. JustRead(stream, chars)
  BY DEF IndInv
<1>2. begin.index = Here - Len(chars) /\ Begun(stream, Where, begin.index, begin.line)
  BY DEF Scanning
<1>3. /\ Here \in Nat /\ Here <= Len(Text) /\ Len(Text) \in Nat /\ Len(chars) \in Nat
      /\ Where \in Int /\ Where >= 0
  BY Now
<1>4. Len(chars) <= Here /\ \A i \in 1..Len(chars) : chars[i] = Text[Here - Len(chars) + i]
  BY <1>1 DEF JustRead, Here, Text
<1> QED
  BY <1>2, <1>3, <1>4 DEF Has

LEMMA WordGoesOnStep ==
  ASSUME IndInv, Scanning, WordGoesOn
  PROVE  Scanning'
<1>1. PICK c \in NextChars : GoesOn(chars, c) /\ Reads(c) /\ chars' = Append(chars, c)
  BY DEF WordGoesOn
<1>2. /\ pc = "word" /\ pc' = "word" /\ begin' = begin /\ flag' = flag /\ tokens' = tokens
  BY DEF WordGoesOn
<1>3. c \in Char /\ Follows(stream', stream) /\ Here' = Here + 1
  BY <1>1, ReadsOn
<1>4. /\ Here \in Nat /\ Where \in Int /\ Where >= 0 /\ begin \in [line : Int, index : Int]
      /\ flag \in BOOLEAN /\ chars \in Seq(Char)
  BY Now
<1>5. /\ Where' = Where /\ tokens' \in Seq(TokenType) /\ AllFit(stream', tokens')
  BY <1>2, <1>3, Then
<1>6. /\ begin.index = Here - Len(chars) /\ begin.index <= Len(Text)
      /\ Begun(stream, Where, begin.index, begin.line)
  BY <1>2, CollectedIs
<1>7. Begun(stream', Where, begin.index, begin.line)
  BY <1>3, <1>4, <1>6, BegunOn DEF Text
<1>8. chars # <<>> /\ chars[1] \in AlphaNum
  BY <1>2 DEF Scanning, IndInv
<1>9. /\ Len(chars') = Len(chars) + 1 /\ chars'[Len(chars) + 1] = c
      /\ \A i \in 1..Len(chars) : chars'[i] = chars[i]
  BY <1>1, <1>3, <1>4, AppendLemma
<1>10. Len(chars) \in Nat \ {0}
  BY <1>4, <1>8, ElementLemma
<1>11. begin.index = Here' - Len(chars') /\ Len(chars') > 1 /\ chars'[1] \in AlphaNum
  BY <1>3, <1>4, <1>6, <1>8, <1>9, <1>10
<1>12. Sure'
  BY <1>2, <1>4, <1>5 DEF Sure
<1>13. DotsApart(chars')
  <2> SUFFICES ASSUME IsNumber(chars'), NEW k \in 2..Len(chars')
               PROVE  chars'[k] \in AlphaNum \/ (chars'[k] = "." /\ chars'[k - 1] # ".")
    BY DEF DotsApart
  <2>1. chars'[1] = chars[1] /\ IsNumber(chars)
    <3>1. chars'[1] = chars[1]
      BY <1>9, <1>10
    <3> QED
      BY <3>1 DEF IsNumber
  <2>2. CASE k = Len(chars) + 1
    <3>1. c \in AlphaNum \/ (c = "." /\ chars[Len(chars)] # ".")
      BY <1>1 DEF GoesOn, Top
    <3>2. k - 1 = Len(chars) /\ Len(chars) \in 1..Len(chars)
      BY <1>10, <2>2
    <3> QED
      BY <1>9, <2>2, <3>1, <3>2
  <2>3. CASE k # Len(chars) + 1
    <3>1. k \in 2..Len(chars) /\ k - 1 \in 1..Len(chars) /\ k \in 1..Len(chars)
      BY <1>9, <1>10, <2>3
    <3>2. chars[k] \in AlphaNum \/ (chars[k] = "." /\ chars[k - 1] # ".")
      BY <1>2, <2>1, <3>1 DEF Scanning, DotsApart
    <3> QED
      BY <1>9, <3>1, <3>2
  <2> QED
    BY <2>2, <2>3
<1> QED
  BY <1>2, <1>5, <1>7, <1>11, <1>12, <1>13, IntoWord

\* The characters of a text are those of what it has.
LEMMA SpelledIs ==
  ASSUME NEW T \in Seq(Char), NEW j \in Int, j >= 0, NEW w \in Seq(Char), Has(T, j, w)
  PROVE  SubSeq(T, j + 1, j + Len(w)) = w
<1> DEFINE n == Len(w)
           v == SubSeq(T, j + 1, j + n)
<1>1. n \in Nat /\ Len(T) \in Nat /\ j + n <= Len(T) /\ \A k \in 1..n : T[j + k] = w[k]
  BY LenProperties DEF Has
<1> HIDE DEF n
<1>2. j + 1 \in 1..(Len(T) + 1) /\ j + n \in (j + 1 - 1)..Len(T)
  BY <1>1
<1>3. \A i \in (j + 1)..(j + n) : T[i] \in Char
  BY <1>1, ElementOfSeq
<1>4. v \in Seq(Char) /\ Len(v) = n
  <2>1. v \in Seq(Char)
    BY <1>2, <1>3, <1>1, SubSeqProperties
  <2>2. Len(v) = IF j + 1 <= j + n THEN j + n - (j + 1) + 1 ELSE 0
    BY <1>2, <1>3, <1>1, SubSeqProperties
  <2> QED
    BY <2>1, <2>2, <1>1
<1>5. \A k \in 1..n : v[k] = w[k]
  <2> SUFFICES ASSUME NEW k \in 1..n PROVE v[k] = w[k]
    OBVIOUS
  <2>1. k \in 1..(j + n - (j + 1) + 1)
    BY <1>1
  <2>2. v[k] = T[j + 1 + k - 1]
    BY <2>1, <1>2, <1>3, <1>1, SubSeqProperties
  <2>3. j + 1 + k - 1 = j + k
    BY <1>1
  <2> QED
    BY <2>2, <2>3, <1>1
<1>6. Len(v) = Len(w)
  BY <1>4 DEF n
<1> HIDE DEF v
<1>7. v = w
  BY <1>4, <1>5, <1>6, SeqEqual DEF n
<1> QED
  BY <1>7 DEF v, n

LEMMA IntoBadNumber ==
  ASSUME Sure', pc' = "bad_number", Where' \in Int, Len(Text') \in Nat,
         NEW j \in Int, j >= Where', NEW m \in Int, m > j, m <= Len(Text'),
         IsNumberWord(Text', j, m), IsGap(Text', Where', j),
         NEW w, w = SubSeq(Text', j + 1, m), Top(w) = "f" \/ ~(AllDigits(w) \/ Decimal(w))
  PROVE  Scanning'
<1>1. j \in Where'..(Len(Text') - 1) /\ m \in (j + 1)..Len(Text')
  OBVIOUS
<1>2. FailsOnlyOnBadText'
  BY <1>1 DEF FailsOnlyOnBadText, Where, LastOf
<1> QED
  BY <1>2 DEF Scanning

\* A word that ends at the position of the reader.
LEMMA WordReturned ==
  ASSUME IndInv, Scanning, pc = "word", Follows(stream', stream),
         NEW w \in Seq(Char), w # <<>>, w[1] \in AlphaNum, Spells(Text', begin.index, Here', w),
         \E c \in Char \ AlphaNum : Is(Text', Here', c),
         IsNumber(w) => IsNumberWord(Text', begin.index, Here'), ReturnWord(w)
  PROVE  Scanning'
<1>1. /\ Where \in Int /\ Where >= 0 /\ begin \in [line : Int, index : Int]
      /\ begin.index \in Int /\ begin.line \in Int /\ flag \in BOOLEAN
  BY Now
<1>2. /\ begin.index >= 0 /\ begin.index <= Len(Text) /\ Begun(stream, Where, begin.index, begin.line)
  BY CollectedIs
<1>3. Begun(stream', Where, begin.index, begin.line)
  BY <1>1, <1>2, BegunOn DEF Text
<1>4. /\ Here' \in Nat /\ Here' <= Len(Text') /\ Text' \in Seq(Char) /\ Len(Text') \in Nat
      /\ stream'.given = Text'
      /\ tokens' = tokens => Where' = Where /\ tokens' \in Seq(TokenType) /\ AllFit(stream', tokens')
  BY Then
<1>5. Len(w) \in Nat \ {0}
  BY ElementLemma
<1>6. Has(Text', begin.index, w) /\ Here' = begin.index + Len(w)
  BY DEF Spells
<1>7. begin.index <= Here' /\ begin.index < Here'
  BY <1>1, <1>5, <1>6
<1>8. ASSUME NEW kind \in Words, kind = "keyword" <=> w \in Keywords,
             kind \in {"int", "float", "double"} <=> w[1] \in Digits,
             Emit(kind, w, begin), Return
      PROVE  Scanning'
  <2>1. IsLexeme(Text', begin.index, [kind |-> kind, value |-> w, line |-> begin.line,
                                      index |-> begin.index, upto |-> Here'])
    BY <1>8 DEF IsLexeme, Words
  <2>2. kind \in Kinds /\ kind # "string" /\ kind # "operator"
    BY <1>8 DEF Kinds, Words
  <2>3. /\ tokens' \in Seq(TokenType) /\ AllFit(stream', tokens') /\ IsGap(Text', Where', Here')
    BY <1>1, <1>3, <1>7, <1>8, <2>1, <2>2, Emitted
  <2>4. pc' = "tokenize" /\ begin' = begin /\ flag' = FALSE
    BY <1>8 DEF Return
  <2>5. Sure'
    BY <1>1, <2>3, <2>4 DEF Sure
  <2> QED
    BY <2>3, <2>4, <2>5, IntoTokenize
<1>9. w \in Keywords => w[1] \notin Digits
  BY DEF Keywords, Digits
<1>10. CASE w \in Keywords /\ Emit("keyword", w, begin) /\ Return
  BY <1>8, <1>9, <1>10 DEF Words
<1>11. CASE w \notin Keywords /\ ~IsNumber(w) /\ Emit("identifier", w, begin) /\ Return
  BY <1>8, <1>11 DEF Words, IsNumber
<1>12. CASE w \notin Keywords /\ IsNumber(w) /\ Emit("float", w, begin) /\ Return
  BY <1>8, <1>12 DEF Words, IsNumber
<1>13. CASE w \notin Keywords /\ IsNumber(w) /\ Emit("double", w, begin) /\ Return
  BY <1>8, <1>13 DEF Words, IsNumber
<1>14. CASE w \notin Keywords /\ IsNumber(w) /\ Emit("int", w, begin) /\ Return
  BY <1>8, <1>14 DEF Words, IsNumber
<1>15. CASE IsNumber(w) /\ (Top(w) = "f" \/ ~(Decimal(w) \/ AllDigits(w))) /\ Throw("bad_number")
  <2>1. pc' = "bad_number" /\ begin' = begin /\ flag' = flag /\ tokens' = tokens
    BY <1>15 DEF Throw
  <2>2. Sure'
    BY <1>1, <1>4, <2>1 DEF Sure
  <2>3. begin.index >= Where /\ IsGap(Text', Where, begin.index)
    BY <1>3, <1>4 DEF Begun
  <2>4. IsNumberWord(Text', begin.index, Here')
    BY <1>15
  <2>5. w = SubSeq(Text', begin.index + 1, Here')
    BY <1>1, <1>2, <1>4, <1>6, SpelledIs
  <2>6. Where' = Where /\ Here' > begin.index /\ Here' \in Int
    BY <1>4, <1>7, <2>1
  <2> QED
    BY <1>1, <1>4, <1>15, <2>1, <2>2, <2>3, <2>4, <2>5, <2>6, IntoBadNumber
<1> QED
  BY <1>10, <1>11, <1>12, <1>13, <1>14, <1>15 DEF ReturnWord

\* The word w that the text has at position j is all of the word, if c, or two dots,
\* follow on it.
LEMMA WholeWord ==
  ASSUME NEW T \in Seq(Char), NEW j \in Int, j >= 0, NEW w \in Seq(Char), w # <<>>,
         Has(T, j, w), DotsApart(w), IsNumber(w), NEW m \in Int, m = j + Len(w),
         NEW c \in Char \ AlphaNum, Is(T, m, c),
         c = "." => Top(w) # "." /\ Is(T, m + 1, ".")
  PROVE  IsNumberWord(T, j, m)
<1>1. /\ Len(w) \in Nat \ {0} /\ Len(T) \in Nat /\ j + Len(w) <= Len(T)
      /\ \A k \in 1..Len(w) : T[j + k] = w[k]
  BY ElementLemma, LenProperties DEF Has
<1>2. m < Len(T) /\ T[m + 1] = c
  BY DEF Is
<1>3. \E d \in Digits : Is(T, j, d)
  <2>1. w[1] \in Digits /\ 1 \in 1..Len(w)
    BY <1>1 DEF IsNumber
  <2>2. T[j + 1] = w[1] /\ j < Len(T)
    BY <1>1, <2>1
  <2> QED
    BY <2>1, <2>2 DEF Is
<1>4. ASSUME NEW k \in (j + 2)..m
      PROVE  T[k] \in AlphaNum \/ (T[k] = "." /\ T[k - 1] # ".")
  <2> DEFINE i == k - j
  <2>1. i \in 2..Len(w) /\ i - 1 \in 1..Len(w) /\ i \in 1..Len(w) /\ j + i = k /\ j + (i - 1) = k - 1
    BY <1>1
  <2> HIDE DEF i
  <2>2. T[k] = w[i] /\ T[k - 1] = w[i - 1]
    BY <1>1, <2>1
  <2> QED
    BY <2>1, <2>2 DEF DotsApart
<1>5. T[m + 1] = "." => T[m] # "." /\ Is(T, m + 1, ".")
  <2>1. T[m] = Top(w)
    BY <1>1 DEF Top
  <2> QED
    BY <1>2, <2>1
<1> QED
  BY <1>2, <1>3, <1>4, <1>5 DEF IsNumberWord

LEMMA WordEndsStep ==
  ASSUME IndInv, Scanning, WordEnds
  PROVE  Scanning'
<1>1. PICK c \in NextChars :
        /\ ~GoesOn(chars, c)
        /\ IF c = "." /\ Top(chars) = "."
           THEN /\ stream' = PushBack(PushBack(Read(stream, c), Top(chars)), c)
                /\ ReturnWord(Pop(chars))
           ELSE Peeks(c) /\ ReturnWord(chars)
  BY DEF WordEnds
<1>2. pc = "word"
  BY DEF WordEnds
<1>3. /\ c \in Char /\ (FromStack(stream) => c = Top(stream.stack))
      /\ stream \in Stream /\ Aligned(stream)
  BY NextCharsLemma DEF IndInv
<1>4. c \notin AlphaNum
  BY <1>1 DEF GoesOn
<1>5. /\ Here \in Nat /\ chars \in Seq(Char) /\ Len(chars) \in Nat /\ Text \in Seq(Char)
      /\ Len(Text) \in Nat
  BY Now
<1>6. /\ Has(Text, begin.index, chars) /\ begin.index = Here - Len(chars)
      /\ begin.index \in Int /\ begin.index >= 0
  BY <1>2, CollectedIs
<1>7. /\ chars # <<>> /\ chars[1] \in AlphaNum /\ (Top(chars) = "." => Len(chars) > 1)
      /\ DotsApart(chars)
  BY <1>2 DEF IndInv, Scanning
<1>8. CASE ~(c = "." /\ Top(chars) = ".")
  <2>1. Peeks(c) /\ ReturnWord(chars)
    BY <1>1, <1>8
  <2>2. Follows(stream', stream) /\ Here' = Here /\ Is(Text', Here, c)
    BY <2>1, PeeksOn
  <2>3. Text' \in Seq(Char) /\ Longer(Text, Text')
    BY <2>2 DEF Follows, Text
  <2>4. Has(Text', begin.index, chars)
    BY <1>5, <1>6, <2>3, HasKept
  <2>5. Here = begin.index + Len(chars)
    BY <1>5, <1>6
  <2>6. Spells(Text', begin.index, Here', chars)
    BY <2>2, <2>4, <2>5 DEF Spells
  <2>7. IsNumber(chars) => IsNumberWord(Text', begin.index, Here')
    <3>1. ASSUME IsNumber(chars) PROVE c # "."
      BY <1>1, <1>8, <3>1 DEF GoesOn
    <3> QED
      BY <1>3, <1>4, <1>5, <1>6, <1>7, <2>2, <2>3, <2>4, <2>5, <3>1, WholeWord
  <2> QED
    BY <1>2, <1>3, <1>4, <1>5, <1>7, <2>1, <2>2, <2>6, <2>7, WordReturned
<1>9. CASE c = "." /\ Top(chars) = "."
  <2>1. stream' = PushBack(PushBack(Read(stream, c), "."), ".") /\ ReturnWord(Pop(chars))
    BY <1>1, <1>9
  <2> DEFINE back == PushBack(Read(stream, c), c)
             u == PushBack(back, ".")
  <2>2. Follows(back, stream) /\ Position(back) = Here /\ Is(back.given, Here, c)
    BY <1>3, PeekFollows DEF Here
  <2>3. stream' = u
    BY <1>9, <2>1
  <2> HIDE DEF back
  <2>4. Len(chars) > 1 /\ Len(chars) \in 1..Len(chars)
    BY <1>5, <1>7, <1>9
  <2>5. Text[begin.index + Len(chars)] = "." /\ begin.index + Len(chars) = Here /\ Here <= Len(Text)
    BY <1>5, <1>6, <1>9, <2>4 DEF Has, Top
  <2>6. "." = back.given[Position(back)] /\ Here > 0
    <3>1. Here \in 1..Len(Text)
      BY <1>5, <1>6, <2>4, <2>5
    <3>2. back.given[Here] = Text[Here]
      BY <2>2, <3>1 DEF Follows, Longer, Text
    <3> QED
      BY <2>2, <2>5, <3>1, <3>2
  <2>7. back \in Stream /\ Aligned(back)
    BY <2>2 DEF Follows
  <2>8. /\ Follows(u, back) /\ Position(u) = Position(back) - 1 /\ u.given = back.given
    BY <2>2, <2>6, <2>7, BackFollows
  <2> HIDE DEF u
  <2>9. Follows(u, stream) /\ Position(u) = Here - 1
    BY <2>2, <2>8, LongerTwice DEF Follows
  <2>10. Follows(stream', stream) /\ Here' = Here - 1
    BY <2>3, <2>9 DEF Here
  <2>11. Text' \in Seq(Char) /\ Longer(Text, Text')
    BY <2>10 DEF Follows, Text
  <2>12. Has(Text', begin.index, chars)
    BY <1>5, <1>6, <2>11, HasKept
  <2> DEFINE w == Pop(chars)
  <2>13. w \in Seq(Char) /\ Len(w) = Len(chars) - 1 /\ \A i \in 1..Len(chars) - 1 : w[i] = chars[i]
    BY <1>5, <1>7, PopLemma DEF Pop
  <2> HIDE DEF w
  <2>14. Len(w) >= 1 /\ w[1] = chars[1]
    BY <1>5, <2>4, <2>13
  <2>15. w # <<>>
    BY <2>13, <2>14, EmptySeq
  <2>16. Has(Text', begin.index, w)
    BY <1>5, <1>6, <2>12, <2>13, LenProperties DEF Has
  <2>17. Spells(Text', begin.index, Here', w)
    <3>1. Here' = begin.index + Len(w)
      BY <1>5, <1>6, <2>10, <2>13
    <3> QED
      BY <2>16, <3>1 DEF Spells
  <2>18. Is(Text', Here', ".")
    <3>1. Is(Text, Here - 1, ".")
      BY <1>5, <2>5, <2>6 DEF Is
    <3>2. Here - 1 \in Int /\ Here - 1 >= 0
      BY <1>5, <2>6
    <3> QED
      BY <1>5, <2>10, <2>11, <3>1, <3>2, IsKept
  <2>19. Is(Text', Here' + 1, ".")
    <3>1. Text' = back.given
      BY <2>3, <2>8 DEF Text
    <3>2. Here' + 1 = Here
      BY <1>5, <2>10
    <3> QED
      BY <1>9, <2>2, <3>1, <3>2
  <2>21. IsNumber(w) => IsNumberWord(Text', begin.index, Here')
    <3> SUFFICES ASSUME IsNumber(w) PROVE IsNumberWord(Text', begin.index, Here')
      OBVIOUS
    <3>1. IsNumber(chars)
      BY <2>14 DEF IsNumber
    <3>2. DotsApart(w)
      <4> SUFFICES ASSUME NEW k \in 2..Len(w)
                   PROVE  w[k] \in AlphaNum \/ (w[k] = "." /\ w[k - 1] # ".")
        BY DEF DotsApart
      <4>1. k \in 2..Len(chars) /\ w[k] = chars[k] /\ w[k - 1] = chars[k - 1]
        BY <1>5, <2>13
      <4> QED
        BY <1>7, <3>1, <4>1 DEF DotsApart
    <3>3. Top(w) # "."
      <4>1. Len(chars) \in 2..Len(chars) /\ Len(chars) - 1 \in 1..Len(chars) - 1
        BY <1>5, <2>4
      <4>2. chars[Len(chars)] = "." /\ chars[Len(chars)] \notin AlphaNum
        BY <1>4, <1>9 DEF Top
      <4>3. chars[Len(chars) - 1] # "."
        BY <1>7, <3>1, <4>1, <4>2 DEF DotsApart
      <4> QED
        BY <2>13, <4>1, <4>3 DEF Top
    <3>4. Here' = begin.index + Len(w) /\ Here' \in Int
      BY <2>17, <1>5, <2>10 DEF Spells
    <3>5. "." \in Char \ AlphaNum
      BY <1>3, <1>4, <1>9
    <3> QED
      BY <1>6, <2>11, <2>13, <2>15, <2>16, <2>18, <2>19, <3>2, <3>3, <3>4, <3>5, WholeWord
  <2>22. \E d \in Char \ AlphaNum : Is(Text', Here', d)
    BY <1>3, <1>4, <1>9, <2>18
  <2>20. ReturnWord(w)
    BY <2>1 DEF w
  <2> QED
    BY <1>2, <1>7, <2>10, <2>13, <2>14, <2>15, <2>17, <2>20, <2>21, <2>22,
       WordReturned
<1> QED
  BY <1>8, <1>9

\* fetch_operator().
LEMMA Lengths == \A o \in Operators : Len(o) \in Nat /\ Len(o) > 0 /\ Len(o) <= Longest
<1> SUFFICES ASSUME NEW o \in Operators PROVE Len(o) \in Nat /\ Len(o) > 0 /\ Len(o) <= 3
  BY DEF Longest
<1> DEFINE n == Len(o)
<1>1. n \in 1..3
  BY OperatorsAre
<1> HIDE DEF n
<1>2. n \in Nat /\ n > 0 /\ n <= 3
  BY <1>1
<1> QED
  BY <1>2 DEF n

LEMMA Differs ==
  ASSUME NEW T \in Seq(Char), NEW b \in Int, b >= 0, NEW w \in Seq(Char), NEW o \in Seq(Char),
         Has(T, b, w), Len(o) >= Len(w), SubSeq(o, 1, Len(w)) # w
  PROVE  Excluded(T, b, o)
<1> DEFINE v == SubSeq(o, 1, Len(w))
<1>1. Len(w) \in Nat /\ Len(o) \in Nat /\ Len(T) \in Nat
  BY LenProperties
<1>2. v \in Seq(Char) /\ Len(v) = Len(w) /\ \A k \in 1..Len(w) : v[k] = o[k]
  BY <1>1, PrefixLemma
<1>3. v # w
  OBVIOUS
<1> HIDE DEF v
<1>4. PICK k \in 1..Len(w) : v[k] # w[k]
  BY <1>2, <1>3, SeqEqual
<1>5. k \in 1..Len(o) /\ b + k <= Len(T) /\ T[b + k] = w[k] /\ o[k] = v[k]
  BY <1>1, <1>2 DEF Has
<1> QED
  BY <1>4, <1>5 DEF Excluded

LEMMA MunchStep ==
  ASSUME IndInv, Scanning, Munch
  PROVE  Scanning'
<1>1. PICK c \in NextChars :
        LET read == Append(chars, c) IN
        /\ Reads(c)
        /\ chars' = read
        /\ matched' = IF read \in Operators THEN Len(read) ELSE matched
        /\ pc' = IF Candidates(read) = {} THEN "unread" ELSE pc
  BY DEF Munch
<1>2. pc = "operator" /\ begin' = begin /\ flag' = flag /\ tokens' = tokens
  BY DEF Munch
<1>3. c \in Char /\ Follows(stream', stream) /\ Here' = Here + 1 /\ Is(Text', Here, c)
  BY <1>1, ReadsOn
<1>4. /\ Here \in Nat /\ Where \in Int /\ Where >= 0 /\ begin \in [line : Int, index : Int]
      /\ flag \in BOOLEAN /\ chars \in Seq(Char) /\ Len(chars) \in Nat /\ matched \in Nat
      /\ Text \in Seq(Char) /\ Len(Text) \in Nat
  BY Now
<1>5. /\ Where' = Where /\ tokens' \in Seq(TokenType) /\ AllFit(stream', tokens')
      /\ Text' \in Seq(Char) /\ Longer(Text, Text') /\ Len(Text') \in Nat /\ Here' <= Len(Text')
  BY <1>2, <1>3, Then
<1> DEFINE b == begin.index
           n == Len(chars)
           read == Append(chars, c)
<1>6. /\ Has(Text, b, chars) /\ b = Here - n /\ b \in Int /\ b >= 0 /\ b <= Len(Text)
      /\ Begun(stream, Where, b, begin.line)
  BY <1>2, CollectedIs
<1>7. Begun(stream', Where', b, begin'.line)
  BY <1>2, <1>3, <1>4, <1>5, <1>6, BegunOn DEF Text
<1>8. /\ \E d \in Puncts : Is(Text, b, d)
      /\ Spelled(Text, b, matched) /\ matched <= n /\ Refuted(Text, b, matched, n)
  BY <1>2 DEF Scanning
<1>9. /\ read \in Seq(Char) /\ Len(read) = n + 1 /\ read[n + 1] = c
      /\ \A i \in 1..n : read[i] = chars[i]
  BY <1>3, <1>4, AppendLemma
<1>10. /\ chars' = read /\ matched' = IF read \in Operators THEN n + 1 ELSE matched
       /\ pc' = IF Candidates(read) = {} THEN "unread" ELSE "operator"
  BY <1>1, <1>2, <1>9
<1>11. Sure' /\ begin'.index = b
  BY <1>2, <1>4, <1>5 DEF Sure
<1> HIDE DEF b, n, read
<1>12. n \in Nat
  BY <1>4 DEF n
<1>13. Has(Text', b, chars)
  BY <1>4, <1>5, <1>6, HasKept
<1>14. Has(Text', b, read)
  <2>1. b + (n + 1) <= Len(Text')
    BY <1>3, <1>4, <1>5, <1>6, <1>12
  <2>2. Text'[b + (n + 1)] = c
    <3>1. b + (n + 1) = Here + 1
      BY <1>4, <1>6, <1>12
    <3> QED
      BY <1>3, <3>1 DEF Is
  <2>3. \A k \in 1..n : Text'[b + k] = read[k]
    BY <1>9, <1>13 DEF Has, n
  <2> QED
    BY <1>9, <1>12, <2>1, <2>2, <2>3 DEF Has
<1>15. /\ \E d \in Puncts : Is(Text', b, d)
       /\ Spelled(Text', b, matched) /\ Refuted(Text', b, matched, n)
  BY <1>4, <1>5, <1>6, <1>8, <1>12, IsKept, RefutedOn
<1>16. b = Here' - Len(chars')
  BY <1>3, <1>4, <1>6, <1>9, <1>10, <1>12
<1>17. matched' <= Len(chars') /\ matched' >= matched /\ matched' \in Nat
  BY <1>4, <1>8, <1>9, <1>10, <1>12 DEF n
<1>18. Spelled(Text', b, matched')
  <2>1. CASE read \in Operators
    BY <1>9, <1>10, <1>14, <2>1 DEF Spelled
  <2>2. CASE read \notin Operators
    BY <1>10, <1>15, <2>2
  <2> QED
    BY <2>1, <2>2
<1>19. Refuted(Text', b, matched', n + 1)
  <2> SUFFICES ASSUME NEW o \in Operators, Len(o) > matched', Len(o) <= n + 1
               PROVE  Excluded(Text', b, o)
    BY DEF Refuted
  <2>1. o \in Seq(Char) /\ Len(o) \in Nat
    BY OperatorsAre, LenProperties
  <2>2. CASE Len(o) <= n
    <3>1. Len(o) > matched
      BY <1>4, <1>17, <2>1
    <3> QED
      BY <1>15, <2>2, <3>1 DEF Refuted
  <2>3. CASE Len(o) = n + 1
    <3>1. o # read
      <4> SUFFICES ASSUME read \in Operators PROVE o # read
        OBVIOUS
      <4>1. matched' = n + 1
        BY <1>10
      <4>2. Len(o) # matched'
        BY <1>17, <2>1
      <4> QED
        BY <2>3, <4>1, <4>2
    <3>2. SubSeq(o, 1, Len(read)) = o
      BY <1>9, <2>1, <2>3, SubSeqFull
    <3>3. Len(o) >= Len(read)
      BY <1>9, <2>3, <1>12
    <3> QED
      BY <1>5, <1>6, <1>9, <1>14, <2>1, <3>1, <3>2, <3>3, Differs
  <2> QED
    BY <1>12, <2>1, <2>2, <2>3
<1>20. CASE Candidates(read) # {}
  <2>1. pc' = "operator" /\ Len(chars') = n + 1
    BY <1>9, <1>10, <1>20
  <2> QED
    BY <1>7, <1>11, <1>15, <1>16, <1>17, <1>18, <1>19, <2>1, IntoOperator
<1>21. CASE Candidates(read) = {}
  <2>1. pc' = "unread"
    BY <1>10, <1>21
  <2>2. ASSUME NEW o \in Operators, Len(o) > matched', Len(o) <= Longest
        PROVE  Excluded(Text', b, o)
    <3>1. o \in Seq(Char) /\ Len(o) \in Nat
      BY OperatorsAre, LenProperties
    <3>2. CASE Len(o) <= n + 1
      BY <1>19, <2>2, <3>2 DEF Refuted
    <3>3. CASE Len(o) > n + 1
      <4>1. ~IsPrefixOf(read, o)
        BY <1>21 DEF Candidates
      <4>2. Len(o) >= Len(read)
        BY <1>9, <1>12, <3>1, <3>3
      <4>3. SubSeq(o, 1, Len(read)) # read
        BY <4>1, <4>2 DEF IsPrefixOf
      <4> QED
        BY <1>5, <1>6, <1>9, <1>14, <3>1, <4>2, <4>3, Differs
    <3> QED
      BY <1>12, <3>1, <3>2, <3>3
  <2>3. Refuted(Text', b, matched', Longest)
    BY <2>2 DEF Refuted
  <2> QED
    BY <1>7, <1>11, <1>15, <1>16, <1>17, <1>18, <2>1, <2>3, IntoUnread
<1> QED
  BY <1>20, <1>21

LEMMA UnreadStep ==
  ASSUME IndInv, Scanning, Unread
  PROVE  Scanning'
<1>1. /\ pc = "unread" /\ Len(chars) > matched /\ stream' = PushBack(stream, Top(chars))
      /\ chars' = Pop(chars) /\ pc' = pc /\ begin' = begin /\ matched' = matched
      /\ flag' = flag /\ tokens' = tokens
  BY DEF Unread
<1>2. /\ Here \in Nat /\ Where \in Int /\ Where >= 0 /\ begin \in [line : Int, index : Int]
      /\ flag \in BOOLEAN /\ chars \in Seq(Char) /\ Len(chars) \in Nat /\ matched \in Nat
      /\ Text \in Seq(Char) /\ Len(Text) \in Nat
  BY Now
<1> DEFINE b == begin.index
           n == Len(chars)
<1>3. /\ Has(Text, b, chars) /\ b = Here - n /\ b \in Int /\ b >= 0 /\ b <= Len(Text)
      /\ Begun(stream, Where, b, begin.line)
  BY <1>1, CollectedIs
<1>4. /\ \E d \in Puncts : Is(Text, b, d)
      /\ Spelled(Text, b, matched) /\ Refuted(Text, b, matched, Longest)
  BY <1>1 DEF Scanning
<1>5. n \in Nat \ {0} /\ chars # <<>> /\ n > matched
  <2>1. chars # <<>>
    BY <1>1, <1>2, EmptySeq
  <2> QED
    BY <1>1, <1>2, <2>1
<1>6. Len(chars') = n - 1
  BY <1>1, <1>2, <1>5, PopLemma DEF Pop
<1>7. Here > 0 /\ Top(chars) = Text[Here]
  <2>1. n \in 1..n /\ b + n = Here
    BY <1>2, <1>3, <1>5
  <2>2. Text[b + n] = chars[n]
    BY <1>3, <2>1 DEF Has
  <2> QED
    BY <1>2, <1>3, <1>5, <2>1, <2>2 DEF Top
<1>8. stream \in Stream /\ Aligned(stream)
  BY DEF IndInv
<1> DEFINE c == Top(chars)
           u == PushBack(stream, c)
<1>9. Position(stream) > 0 /\ c = stream.given[Position(stream)]
  BY <1>7 DEF Here, Text
<1> HIDE DEF c
<1>10. Follows(u, stream) /\ Position(u) = Position(stream) - 1 /\ u.given = stream.given
  BY <1>8, <1>9, BackFollows
<1>11. stream' = u
  BY <1>1 DEF c
<1> HIDE DEF u
<1>12. Follows(stream', stream) /\ Here' = Here - 1 /\ Text' = Text
  BY <1>10, <1>11 DEF Here, Text
<1>13. Where' = Where /\ tokens' \in Seq(TokenType) /\ AllFit(stream', tokens')
  BY <1>1, <1>12, Then
<1>14. Begun(stream', Where', b, begin'.line)
  BY <1>1, <1>2, <1>3, <1>12, <1>13, BegunOn DEF Text
<1>15. Sure' /\ begin'.index = b
  BY <1>1, <1>2, <1>13 DEF Sure
<1> HIDE DEF b, n
<1>16. b = Here' - Len(chars') /\ matched' <= Len(chars')
  BY <1>1, <1>2, <1>3, <1>5, <1>6, <1>12
<1> QED
  BY <1>1, <1>4, <1>12, <1>14, <1>15, <1>16, IntoUnread

LEMMA OperatorFoundStep ==
  ASSUME IndInv, Scanning, OperatorFound
  PROVE  Scanning'
<1>1. /\ pc = "unread" /\ Len(chars) = matched /\ matched > 0 /\ stream' = stream
      /\ Emit("operator", chars, begin) /\ pc' = "tokenize" /\ flag' = FALSE /\ begin' = begin
  BY DEF OperatorFound, Return
<1>2. /\ Here \in Nat /\ Where \in Int /\ Where >= 0 /\ begin \in [line : Int, index : Int]
      /\ begin.line \in Int /\ chars \in Seq(Char) /\ Len(chars) \in Nat /\ Text \in Seq(Char)
  BY Now
<1>3. Follows(stream', stream) /\ Here' = Here /\ Text' = Text
  BY <1>1, Still
<1>4. /\ Has(Text, begin.index, chars) /\ begin.index = Here - Len(chars)
      /\ begin.index \in Int /\ Begun(stream, Where, begin.index, begin.line)
  BY <1>1, CollectedIs
<1>5. Spelled(Text, begin.index, matched) /\ Refuted(Text, begin.index, matched, Longest)
  BY <1>1 DEF Scanning
<1>6. PICK o \in Operators : Len(o) = Len(chars) /\ Has(Text, begin.index, o)
  BY <1>1, <1>5 DEF Spelled
<1>7. chars = o
  <2>1. o \in Seq(Char)
    BY OperatorsAre
  <2>2. \A k \in 1..Len(chars) : chars[k] = o[k]
    BY <1>4, <1>6 DEF Has
  <2> QED
    BY <1>2, <1>6, <2>1, <2>2, SeqEqual
<1>8. Begun(stream', Where, begin.index, begin.line) /\ begin.index <= Here'
  BY <1>1, <1>2, <1>3, <1>4
<1>9. Spells(Text', begin.index, Here', chars)
  <2>1. Here = begin.index + Len(chars)
    BY <1>2, <1>4
  <2> QED
    BY <1>3, <1>4, <2>1 DEF Spells
<1>10. IsLexeme(Text', begin.index, [kind |-> "operator", value |-> chars, line |-> begin.line,
                                     index |-> begin.index, upto |-> Here'])
  BY <1>7, <1>9 DEF IsLexeme, Words
<1>11. \A p \in Operators : Len(p) > Len(chars) => Excluded(Text', begin.index, p)
  <2>1. \A p \in Operators : Len(p) <= Longest
    BY Lengths
  <2> QED
    BY <1>1, <1>3, <1>5, <2>1 DEF Refuted
<1>12. "operator" \in Kinds /\ "operator" \notin Words
  BY DEF Kinds, Words
<1>13. tokens' \in Seq(TokenType) /\ AllFit(stream', tokens') /\ IsGap(Text', Where', Here')
  BY <1>1, <1>2, <1>3, <1>4, <1>8, <1>10, <1>11, <1>12, Emitted
<1> QED
  BY <1>1, <1>2, <1>13, IntoTokenize DEF Sure

LEMMA NoOperatorStep ==
  ASSUME IndInv, Scanning, NoOperator
  PROVE  Scanning'
<1>1. /\ pc = "unread" /\ matched = 0 /\ stream' = stream /\ begin' = begin /\ pc' = "unexpected"
      /\ flag' = FALSE /\ tokens' = tokens
  BY DEF NoOperator, Start
<1>2. Follows(stream', stream) /\ Here' = Here /\ Text' = Text
  BY <1>1, Still
<1>3. begin \in [line : Int, index : Int]
  BY Now
<1>4. Where' = Where /\ tokens' \in Seq(TokenType) /\ AllFit(stream', tokens')
  BY <1>1, <1>2, Then
<1>5. /\ Begun(stream, Where, begin.index, begin.line) /\ \E c \in Puncts : Is(Text, begin.index, c)
      /\ Refuted(Text, begin.index, 0, Longest)
  BY <1>1 DEF Scanning
<1>6. Sure'
  BY <1>1, <1>3, <1>4 DEF Sure
<1> QED
  BY <1>1, <1>2, <1>4, <1>5, <1>6, IntoUnexpected

LEMMA IntoUnexpectedText ==
  ASSUME Sure', pc' = "unexpected_text", Where' \in Int, Len(Text') \in Nat,
         NEW j \in Int, j >= Where', \E c \in Puncts : Is(Text', j, c),
         \A o \in Operators : ~Has(Text', j, o), IsGap(Text', Where', j)
  PROVE  Scanning'
<1>1. j \in Where'..(Len(Text') - 1)
  BY DEF Is
<1>2. FailsOnlyOnBadText'
  BY <1>1 DEF FailsOnlyOnBadText, Where, LastOf
<1> QED
  BY <1>2 DEF Scanning

LEMMA UnexpectedStep ==
  ASSUME IndInv, Scanning, Unexpected
  PROVE  Scanning'
<1>1. PICK c \in NextChars :
        /\ Reads(c)
        /\ IF c \in Puncts
           THEN chars' = Append(chars, c) /\ UNCHANGED <<pc, begin, matched, flag, tokens>>
           ELSE Throw("unexpected_text")
  BY DEF Unexpected
<1>2. pc = "unexpected"
  BY DEF Unexpected
<1>3. begin' = begin /\ flag' = flag /\ tokens' = tokens /\ pc' \in {"unexpected", "unexpected_text"}
  BY <1>1, <1>2 DEF Throw
<1>4. Follows(stream', stream)
  BY <1>1, ReadsOn
<1>5. /\ Where \in Int /\ Where >= 0 /\ begin \in [line : Int, index : Int] /\ flag \in BOOLEAN
      /\ Text \in Seq(Char) /\ Len(Text) \in Nat /\ begin.index \in Int
  BY Now
<1>6. /\ Where' = Where /\ tokens' \in Seq(TokenType) /\ AllFit(stream', tokens')
      /\ Text' \in Seq(Char) /\ Longer(Text, Text') /\ Len(Text') \in Nat
  BY <1>3, <1>4, Then
<1> DEFINE b == begin.index
<1>7. /\ Begun(stream, Where, b, begin.line) /\ \E d \in Puncts : Is(Text, b, d)
      /\ Refuted(Text, b, 0, Longest)
  BY <1>2 DEF Scanning
<1>8. b \in Int /\ b >= Where /\ b >= 0 /\ b <= Len(Text)
  BY <1>5, <1>7 DEF Begun, Is
<1>9. Begun(stream', Where', b, begin'.line)
  BY <1>3, <1>4, <1>5, <1>6, <1>7, <1>8, BegunOn DEF Text
<1>10. Sure' /\ begin'.index = b
  BY <1>3, <1>5, <1>6 DEF Sure
<1> HIDE DEF b
<1>11. (\E d \in Puncts : Is(Text', b, d)) /\ Refuted(Text', b, 0, Longest)
  <2>1. 0 \in Int /\ Longest \in Int
    BY DEF Longest
  <2> QED
    BY <1>5, <1>6, <1>7, <1>8, <2>1, IsKept, RefutedOn
<1>12. CASE pc' = "unexpected"
  BY <1>9, <1>10, <1>11, <1>12, IntoUnexpected
<1>13. CASE pc' = "unexpected_text"
  <2>1. ASSUME NEW o \in Operators PROVE ~Has(Text', b, o)
    <3>1. Len(o) \in Nat /\ Len(o) > 0 /\ Len(o) <= Longest
      BY Lengths
    <3>2. Excluded(Text', b, o)
      BY <1>11, <3>1 DEF Refuted
    <3>3. Longer(Text', Text')
      BY <1>6 DEF Longer
    <3> QED
      BY <1>6, <1>8, <3>1, <3>2, <3>3, ExcludedKept
  <2>2. IsGap(Text', Where', b)
    BY <1>9 DEF Begun, Text
  <2> QED
    BY <1>5, <1>6, <1>8, <1>10, <1>11, <1>13, <2>1, <2>2, IntoUnexpectedText
<1> QED
  BY <1>3, <1>12, <1>13

\* fetch_string().
LEMMA InStringOn ==
  ASSUME NEW T \in Seq(Char), NEW U \in Seq(Char), Longer(T, U), NEW q \in Int, q >= 0,
         NEW p \in Int, NEW w, NEW e, InString(T, q, p, w, e)
  PROVE  InString(U, q, p, w, e) /\ p <= Len(T) /\ Is(U, q, "quote")
<1>1. p > q /\ FitsString(T, q, p) /\ Denotes(T, q, p, w) /\ (e <=> IsEscaped(T, q, p))
  BY DEF InString
<1>2. FitsString(U, q, p) /\ p <= Len(T)
  BY <1>1, FitsKept
<1>3. Denotes(U, q, p, w) /\ (IsEscaped(T, q, p) <=> IsEscaped(U, q, p))
  BY <1>1, <1>2, DenotesKept, EscapedKept
<1>4. Is(U, q, "quote")
  BY <1>2 DEF FitsString
<1> QED
  BY <1>1, <1>2, <1>3, <1>4 DEF InString

LEMMA FitsGrows ==
  ASSUME NEW T \in Seq(Char), NEW q \in Int, q >= 0, NEW p \in Int, p > q, FitsString(T, q, p),
         NEW c, Is(T, p, c), c \notin Ends, c \in Unfit => IsEscaped(T, q, p)
  PROVE  FitsString(T, q, p + 1)
<1>1. Len(T) \in Nat
  BY LenProperties
<1>2. /\ Is(T, q, "quote") /\ Avoids(T, q + 1, p, Ends)
      /\ \A k \in (q + 1)..(p - 1) : T[k + 1] \in Unfit => IsEscaped(T, q, k)
  BY DEF FitsString
<1>3. p < Len(T) /\ T[p + 1] = c
  BY DEF Is
<1>4. Avoids(T, q + 1, p + 1, Ends)
  BY <1>1, <1>2, <1>3 DEF Avoids
<1>5. \A k \in (q + 1)..((p + 1) - 1) : T[k + 1] \in Unfit => IsEscaped(T, q, k)
  <2> SUFFICES ASSUME NEW k \in (q + 1)..p, T[k + 1] \in Unfit PROVE IsEscaped(T, q, k)
    OBVIOUS
  <2>1. CASE k = p
    BY <1>3, <2>1
  <2>2. CASE k # p
    BY <1>2, <2>2
  <2> QED
    BY <2>1, <2>2
<1> QED
  BY <1>2, <1>4, <1>5 DEF FitsString

\* The characters that a string keeps, and the rank of one of them.
KeptOf(T, q, p) == {k \in (q + 1)..(p - 1) : ~Is(T, k, "\\")}
Rank(K, k) == Cardinality({m \in K : m <= k})
AsIs(T, q, k) == IF IsEscaped(T, q, k) THEN Escaped(T[k + 1]) ELSE T[k + 1]

LEMMA DenotesIs ==
  ASSUME NEW T, NEW q, NEW p, NEW w
  PROVE  Denotes(T, q, p, w) <=>
           /\ Len(w) = Cardinality(KeptOf(T, q, p))
           /\ \A k \in KeptOf(T, q, p) : w[Rank(KeptOf(T, q, p), k)] = AsIs(T, q, k)
  BY DEF Denotes, KeptOf, Rank, AsIs

LEMMA KeptGrows ==
  ASSUME NEW T, NEW q \in Int, NEW p \in Int, p > q
  PROVE  /\ IsFiniteSet(KeptOf(T, q, p)) /\ p \notin KeptOf(T, q, p)
         /\ \A k \in KeptOf(T, q, p) : k \in Int /\ k < p
         /\ Is(T, p, "\\") => KeptOf(T, q, p + 1) = KeptOf(T, q, p)
         /\ ~Is(T, p, "\\") => KeptOf(T, q, p + 1) = KeptOf(T, q, p) \cup {p}
<1>1. IsFiniteSet(KeptOf(T, q, p))
  <2>1. IsFiniteSet((q + 1)..(p - 1))
    BY FS_Interval
  <2> QED
    BY <2>1, FS_Subset DEF KeptOf
<1>2. \A k \in KeptOf(T, q, p) : k \in Int /\ k < p
  BY DEF KeptOf
<1>3. \A k : k \in (q + 1)..((p + 1) - 1) <=> k \in (q + 1)..(p - 1) \/ k = p
  OBVIOUS
<1>4. Is(T, p, "\\") => KeptOf(T, q, p + 1) = KeptOf(T, q, p)
  BY <1>3 DEF KeptOf
<1>5. ~Is(T, p, "\\") => KeptOf(T, q, p + 1) = KeptOf(T, q, p) \cup {p}
  BY <1>3 DEF KeptOf
<1> QED
  BY <1>1, <1>2, <1>4, <1>5

LEMMA RankLemma ==
  ASSUME NEW K, IsFiniteSet(K), \A m \in K : m \in Int, NEW p \in Int, \A m \in K : m < p
  PROVE  /\ \A k \in K : /\ Rank(K, k) \in Nat \ {0} /\ Rank(K, k) <= Cardinality(K)
                         /\ Rank(K \cup {p}, k) = Rank(K, k)
         /\ Rank(K \cup {p}, p) = Cardinality(K) + 1
         /\ Cardinality(K \cup {p}) = Cardinality(K) + 1 /\ Cardinality(K) \in Nat
<1>1. Cardinality(K) \in Nat
  BY FS_CardinalityType
<1>2. p \notin K
  OBVIOUS
<1>3. Cardinality(K \cup {p}) = Cardinality(K) + 1
  BY <1>2, FS_AddElement
<1>4. {m \in K \cup {p} : m <= p} = K \cup {p}
  OBVIOUS
<1>5. ASSUME NEW k \in K
      PROVE  /\ Rank(K, k) \in Nat \ {0} /\ Rank(K, k) <= Cardinality(K)
             /\ Rank(K \cup {p}, k) = Rank(K, k)
  <2> DEFINE M == {m \in K : m <= k}
  <2>1. M \subseteq K /\ k \in M
    OBVIOUS
  <2>2. {m \in K \cup {p} : m <= k} = M
    OBVIOUS
  <2>3. Rank(K, k) = Cardinality(M) /\ Rank(K \cup {p}, k) = Cardinality(M)
    BY <2>2 DEF Rank
  <2> HIDE DEF M
  <2>4. IsFiniteSet(M) /\ Cardinality(M) <= Cardinality(K)
    BY <2>1, FS_Subset
  <2>5. Cardinality(M) \in Nat /\ Cardinality(M) # 0
    BY <2>1, <2>4, FS_CardinalityType, FS_EmptySet
  <2> QED
    BY <2>3, <2>4, <2>5
<1> QED
  BY <1>1, <1>3, <1>4, <1>5 DEF Rank

LEMMA DenotesGrows ==
  ASSUME NEW T \in Seq(Char), NEW q \in Int, q >= 0, NEW p \in Int, p > q, p < Len(T),
         NEW w \in Seq(Char), Denotes(T, q, p, w)
  PROVE  /\ Is(T, p, "\\") => Denotes(T, q, p + 1, w)
         /\ \A e \in Char : ~Is(T, p, "\\") /\ e = AsIs(T, q, p) => Denotes(T, q, p + 1, Append(w, e))
<1> DEFINE K == KeptOf(T, q, p)
<1>1. /\ Len(w) = Cardinality(K) /\ \A k \in K : w[Rank(K, k)] = AsIs(T, q, k)
  BY DenotesIs
<1>2. /\ IsFiniteSet(K) /\ \A k \in K : k \in Int /\ k < p
      /\ Is(T, p, "\\") => KeptOf(T, q, p + 1) = K
      /\ ~Is(T, p, "\\") => KeptOf(T, q, p + 1) = K \cup {p}
  BY KeptGrows
<1> HIDE DEF K
<1>3. Is(T, p, "\\") => Denotes(T, q, p + 1, w)
  BY <1>1, <1>2, DenotesIs
<1>4. ASSUME NEW e \in Char, ~Is(T, p, "\\"), e = AsIs(T, q, p)
      PROVE  Denotes(T, q, p + 1, Append(w, e))
  <2> DEFINE L == K \cup {p}
             v == Append(w, e)
  <2>1. KeptOf(T, q, p + 1) = L
    BY <1>2, <1>4
  <2>2. /\ \A k \in K : /\ Rank(K, k) \in Nat \ {0} /\ Rank(K, k) <= Cardinality(K)
                        /\ Rank(L, k) = Rank(K, k)
        /\ Rank(L, p) = Cardinality(K) + 1
        /\ Cardinality(L) = Cardinality(K) + 1 /\ Cardinality(K) \in Nat
    BY <1>2, RankLemma
  <2>3. /\ Len(v) = Len(w) + 1 /\ v[Len(w) + 1] = e /\ \A i \in 1..Len(w) : v[i] = w[i]
    BY AppendLemma
  <2> HIDE DEF v
  <2>4. Len(v) = Cardinality(L)
    BY <1>1, <2>2, <2>3
  <2>5. ASSUME NEW k \in L PROVE v[Rank(L, k)] = AsIs(T, q, k)
    <3>1. CASE k \in K
      <4>1. Rank(K, k) \in 1..Len(w) /\ Rank(L, k) = Rank(K, k)
        <5> DEFINE r == Rank(K, k)
                   n == Cardinality(K)
        <5>1. r \in Nat \ {0} /\ r <= n /\ n \in Nat /\ Rank(L, k) = r /\ Len(w) = n
          BY <1>1, <2>2, <3>1
        <5> HIDE DEF r, n
        <5>2. r \in 1..n
          BY <5>1
        <5> QED
          BY <5>1, <5>2 DEF r
      <4>2. w[Rank(K, k)] = AsIs(T, q, k)
        BY <1>1, <3>1
      <4> QED
        BY <2>3, <4>1, <4>2
    <3>2. CASE k = p
      <4>1. Rank(L, k) = Len(w) + 1
        BY <1>1, <2>2, <3>2
      <4> QED
        BY <1>4, <2>3, <3>2, <4>1
    <3> QED
      BY <2>5, <3>1, <3>2
  <2> HIDE DEF L
  <2> QED
    BY <2>1, <2>4, <2>5, DenotesIs DEF v
<1> QED
  BY <1>3, <1>4

\* Where the scanner of strings is.
LEMMA StringIs ==
  ASSUME IndInv, Scanning, pc = "string", Follows(stream', stream)
  PROVE  LET q == begin.index - 1 IN
         /\ q \in Int /\ q >= 0 /\ q >= Where /\ q < Here /\ q < Len(Text') /\ Here \in Int
         /\ Begun(stream', Where, q, begin.line)
         /\ InString(Text', q, Here, chars, flag) /\ Is(Text', q, "quote")
         /\ Where \in Int /\ Where >= 0 /\ begin \in [line : Int, index : Int]
         /\ begin.index \in Int /\ begin.line \in Int /\ flag \in BOOLEAN /\ chars \in Seq(Char)
         /\ Text' \in Seq(Char) /\ Len(Text') \in Nat
<1> DEFINE q == begin.index - 1
<1>1. Begun(stream, Where, q, begin.line) /\ InString(Text, q, Here, chars, flag)
  BY DEF Scanning
<1>2. /\ Here \in Nat /\ Where \in Int /\ Where >= 0 /\ begin \in [line : Int, index : Int]
      /\ begin.index \in Int /\ begin.line \in Int /\ flag \in BOOLEAN /\ chars \in Seq(Char)
      /\ Text \in Seq(Char) /\ Len(Text) \in Nat /\ Here <= Len(Text)
  BY Now
<1>3. Text' \in Seq(Char) /\ Longer(Text, Text') /\ Len(Text') \in Nat
  BY Then
<1>4. q \in Int
  BY <1>2
<1> HIDE DEF q
<1>5. q >= Where /\ q < Here
  BY <1>1 DEF Begun, InString
<1>6. q >= 0 /\ q <= Len(Text)
  BY <1>2, <1>4, <1>5
<1>7. InString(Text', q, Here, chars, flag) /\ Is(Text', q, "quote")
  BY <1>1, <1>2, <1>3, <1>4, <1>6, InStringOn
<1>8. Begun(stream', Where, q, begin.line)
  BY <1>1, <1>2, <1>6, BegunOn DEF Text
<1>9. q < Len(Text') /\ Here \in Int
  BY <1>2, <1>7 DEF Is
<1> QED
  BY <1>2, <1>3, <1>4, <1>5, <1>6, <1>7, <1>8, <1>9 DEF q

LEMMA EscapeStep ==
  ASSUME IndInv, Scanning, Escape
  PROVE  Scanning'
<1>1. /\ pc = "string" /\ "\\" \in NextChars /\ Reads("\\") /\ flag' = TRUE
      /\ pc' = pc /\ chars' = chars /\ begin' = begin /\ tokens' = tokens
  BY DEF Escape
<1>2. Follows(stream', stream) /\ Here' = Here + 1 /\ Is(Text', Here, "\\")
  BY <1>1, ReadsOn
<1> DEFINE q == begin.index - 1
<1>3. /\ q \in Int /\ q >= 0 /\ q < Here /\ Here \in Int
      /\ Begun(stream', Where, q, begin.line) /\ InString(Text', q, Here, chars, flag)
      /\ begin \in [line : Int, index : Int] /\ chars \in Seq(Char)
      /\ Text' \in Seq(Char) /\ Len(Text') \in Nat
  BY <1>1, <1>2, StringIs
<1> HIDE DEF q
<1>4. /\ Where' = Where /\ tokens' \in Seq(TokenType) /\ AllFit(stream', tokens')
  BY <1>1, <1>2, Then
<1>5. FitsString(Text', q, Here) /\ Denotes(Text', q, Here, chars)
  BY <1>3 DEF InString
<1>6. FitsString(Text', q, Here + 1)
  <2>1. "\\" \notin Ends /\ "\\" \notin Unfit
    BY DEF Ends, Unfit
  <2> QED
    BY <1>2, <1>3, <1>5, <2>1, FitsGrows
<1>7. Here < Len(Text')
  BY <1>2 DEF Is
<1>8. Denotes(Text', q, Here + 1, chars)
  BY <1>2, <1>3, <1>5, <1>7, DenotesGrows
<1>9. IsEscaped(Text', q, Here + 1)
  <2> DEFINE p == Here + 1
  <2>1. p - 1 = Here /\ p > q + 1
    BY <1>3
  <2> HIDE DEF p
  <2>2. IsEscaped(Text', q, p)
    BY <1>2, <2>1 DEF IsEscaped
  <2> QED
    BY <2>2 DEF p
<1>10. InString(Text', q, Here + 1, chars, TRUE)
  BY <1>3, <1>6, <1>8, <1>9 DEF InString
<1>11. Sure'
  BY <1>1, <1>3, <1>4 DEF Sure
<1> QED
  BY <1>1, <1>2, <1>3, <1>4, <1>10, <1>11, IntoString DEF q

LEMMA StringGoesOnStep ==
  ASSUME IndInv, Scanning, StringGoesOn
  PROVE  Scanning'
<1>1. PICK c \in NextChars \ (Ends \cup {"\\"}) :
        /\ flag \/ c \notin {"quote", "tab", "nl", "cr"}
        /\ Reads(c)
        /\ chars' = Append(chars, IF flag THEN Escaped(c) ELSE c)
  BY DEF StringGoesOn
<1>2. pc = "string" /\ flag' = FALSE /\ pc' = pc /\ begin' = begin /\ tokens' = tokens
  BY DEF StringGoesOn
<1>3. c \in Char /\ Follows(stream', stream) /\ Here' = Here + 1 /\ Is(Text', Here, c)
  BY <1>1, ReadsOn
<1> DEFINE q == begin.index - 1
           e == IF flag THEN Escaped(c) ELSE c
<1>4. /\ q \in Int /\ q >= 0 /\ q < Here /\ Here \in Int
      /\ Begun(stream', Where, q, begin.line) /\ InString(Text', q, Here, chars, flag)
      /\ begin \in [line : Int, index : Int] /\ chars \in Seq(Char)
      /\ Text' \in Seq(Char) /\ Len(Text') \in Nat
  BY <1>2, <1>3, StringIs
<1>5. e \in Char /\ chars' = Append(chars, e)
  <2>1. "nl" \in Char
    BY DEF Char, Spaces
  <2> QED
    BY <1>1, <1>3, <2>1 DEF Escaped
<1>6. /\ Where' = Where /\ tokens' \in Seq(TokenType) /\ AllFit(stream', tokens')
  BY <1>2, <1>3, Then
<1> HIDE DEF q
<1>7. FitsString(Text', q, Here) /\ Denotes(Text', q, Here, chars) /\ (flag <=> IsEscaped(Text', q, Here))
  BY <1>4 DEF InString
<1>8. FitsString(Text', q, Here + 1)
  <2>1. c \notin Ends /\ (c \in Unfit => IsEscaped(Text', q, Here))
    BY <1>1, <1>7 DEF Unfit
  <2> QED
    BY <1>3, <1>4, <1>7, <2>1, FitsGrows
<1>9. Here < Len(Text') /\ Text'[Here + 1] = c /\ ~Is(Text', Here, "\\")
  BY <1>1, <1>3 DEF Is
<1>10. e = AsIs(Text', q, Here)
  BY <1>7, <1>9 DEF AsIs
<1> HIDE DEF e
<1>11. Denotes(Text', q, Here + 1, chars')
  BY <1>4, <1>5, <1>7, <1>9, <1>10, DenotesGrows
<1>12. ~IsEscaped(Text', q, Here + 1)
  <2> DEFINE p == Here + 1
  <2>1. p - 1 = Here
    BY <1>4
  <2> HIDE DEF p
  <2>2. ~IsEscaped(Text', q, p)
    BY <1>9, <2>1 DEF IsEscaped
  <2> QED
    BY <2>2 DEF p
<1>13. InString(Text', q, Here + 1, chars', FALSE)
  BY <1>4, <1>8, <1>11, <1>12 DEF InString
<1>14. Sure'
  BY <1>2, <1>4, <1>6 DEF Sure
<1> QED
  BY <1>2, <1>3, <1>4, <1>6, <1>13, <1>14, IntoString DEF q

LEMMA StringEndsStep ==
  ASSUME IndInv, Scanning, StringEnds
  PROVE  Scanning'
<1>1. /\ pc = "string" /\ ~flag /\ "quote" \in NextChars /\ Reads("quote")
      /\ Emit("string", chars, begin) /\ pc' = "tokenize" /\ flag' = FALSE /\ begin' = begin
  BY DEF StringEnds, Return
<1>2. Follows(stream', stream) /\ Here' = Here + 1 /\ Is(Text', Here, "quote")
  BY <1>1, ReadsOn
<1> DEFINE q == begin.index - 1
<1>3. /\ q \in Int /\ q >= 0 /\ q < Here /\ Here \in Int
      /\ Begun(stream', Where, q, begin.line) /\ InString(Text', q, Here, chars, flag)
      /\ begin \in [line : Int, index : Int] /\ chars \in Seq(Char)
      /\ begin.index \in Int /\ begin.line \in Int
  BY <1>1, <1>2, StringIs
<1> HIDE DEF q
<1>4. FitsString(Text', q, Here) /\ Denotes(Text', q, Here, chars) /\ ~IsEscaped(Text', q, Here)
  BY <1>1, <1>3 DEF InString
<1>5. Here' - 1 = Here /\ Here' >= q + 2 /\ q <= Here'
  BY <1>2, <1>3
<1>6. IsString(Text', q, Here') /\ Denotes(Text', q, Here' - 1, chars)
  BY <1>2, <1>4, <1>5 DEF IsString
<1>7. IsLexeme(Text', q, [kind |-> "string", value |-> chars, line |-> begin.line,
                          index |-> begin.index, upto |-> Here'])
  BY <1>6 DEF IsLexeme, Words
<1>8. "string" \in Kinds /\ "string" \notin Words
  BY DEF Kinds, Words
<1>9. tokens' \in Seq(TokenType) /\ AllFit(stream', tokens') /\ IsGap(Text', Where', Here')
  BY <1>1, <1>2, <1>3, <1>5, <1>7, <1>8, Emitted DEF q
<1> QED
  BY <1>1, <1>3, <1>9, IntoTokenize DEF Sure

LEMMA IntoOpenString ==
  ASSUME Sure', pc' = "open_string", Where' \in Int, Len(Text') \in Nat,
         NEW j \in Int, j >= Where', Is(Text', j, "quote"),
         \A m \in j..Len(Text') : ~IsString(Text', j, m), IsGap(Text', Where', j)
  PROVE  Scanning'
<1>1. j \in Where'..(Len(Text') - 1)
  BY DEF Is
<1>2. FailsOnlyOnBadText'
  BY <1>1 DEF FailsOnlyOnBadText, Where, LastOf
<1> QED
  BY <1>2 DEF Scanning

LEMMA StringIsOpenStep ==
  ASSUME IndInv, Scanning, StringIsOpen
  PROVE  Scanning'
<1>1. PICK c \in NextChars : (c \in Ends \/ (~flag /\ c \in {"tab", "nl", "cr"})) /\ Peeks(c)
  BY DEF StringIsOpen
<1>2. /\ pc = "string" /\ pc' = "open_string" /\ begin' = begin /\ flag' = flag
      /\ tokens' = tokens
  BY DEF StringIsOpen, Throw
<1>3. Follows(stream', stream) /\ Here' = Here /\ Is(Text', Here, c)
  BY <1>1, PeeksOn
<1> DEFINE q == begin.index - 1
           T == Text'
<1>4. /\ q \in Int /\ q >= 0 /\ q >= Where /\ q < Here /\ Here \in Int
      /\ Begun(stream', Where, q, begin.line) /\ InString(T, q, Here, chars, flag)
      /\ Is(T, q, "quote") /\ Where \in Int /\ begin \in [line : Int, index : Int]
      /\ flag \in BOOLEAN /\ Len(T) \in Nat
  BY <1>2, <1>3, StringIs
<1>5. /\ Where' = Where /\ tokens' \in Seq(TokenType) /\ AllFit(stream', tokens')
      /\ stream'.given = T
  BY <1>2, <1>3, Then
<1> HIDE DEF q
<1>6. FitsString(T, q, Here) /\ (flag <=> IsEscaped(T, q, Here)) /\ Is(T, Here, c)
  BY <1>3, <1>4 DEF InString
<1> HIDE DEF T
<1>7. ASSUME NEW m \in q..Len(T), IsString(T, q, m) PROVE FALSE
  <2>1. /\ m >= q + 2 /\ FitsString(T, q, m - 1) /\ Is(T, m - 1, "quote") /\ ~IsEscaped(T, q, m - 1)
        /\ m \in Int
    BY <1>4, <1>7 DEF IsString
  <2>2. CASE m - 1 > Here
    <3>1. Avoids(T, q + 1, m - 1, Ends)
          /\ \A k \in (q + 1)..((m - 1) - 1) : T[k + 1] \in Unfit => IsEscaped(T, q, k)
      BY <2>1 DEF FitsString
    <3>2. T[Here + 1] = c /\ Here + 1 \in ((q + 1) + 1)..(m - 1) /\ Here \in (q + 1)..((m - 1) - 1)
      BY <1>4, <1>6, <2>1, <2>2 DEF Is
    <3>3. c \notin Ends
      BY <3>1, <3>2 DEF Avoids
    <3>4. c \in Unfit /\ ~flag
      BY <1>1, <3>3 DEF Unfit
    <3> QED
      BY <1>6, <3>1, <3>2, <3>4
  <2>3. CASE m - 1 = Here
    <3>1. c = "quote"
      BY <1>6, <2>1, <2>3 DEF Is
    <3> QED
      BY <1>1, <3>1 DEF Ends
  <2>4. CASE m - 1 < Here
    <3>1. \A k \in (q + 1)..(Here - 1) : T[k + 1] \in Unfit => IsEscaped(T, q, k)
      BY <1>6 DEF FitsString
    <3>2. m - 1 \in (q + 1)..(Here - 1)
      BY <1>4, <2>1, <2>4
    <3>3. T[(m - 1) + 1] \in Unfit
      BY <2>1 DEF Is, Unfit
    <3> QED
      BY <2>1, <3>1, <3>2, <3>3
  <2> QED
    BY <1>4, <2>1, <2>2, <2>3, <2>4
<1>8. Sure'
  BY <1>2, <1>4, <1>5 DEF Sure
<1>9. IsGap(T, Where, q)
  BY <1>4, <1>5 DEF Begun
<1> QED
  BY <1>2, <1>4, <1>5, <1>7, <1>8, <1>9, IntoOpenString DEF T

\* The comments.
LEMMA LineCommentStep ==
  ASSUME IndInv, Scanning, LineComment
  PROVE  Scanning'
<1>1. PICK c \in NextChars : /\ IF c \in Ends THEN Peeks(c) ELSE Reads(c)
                             /\ pc' = IF c \in Ends \cup {"nl"} THEN "tokenize" ELSE pc
  BY DEF LineComment
<1>2. pc = "line_comment" /\ begin' = begin /\ flag' = flag /\ tokens' = tokens
  BY DEF LineComment
<1> DEFINE T == Text'
           p == Here
<1>3. /\ Follows(stream', stream) /\ Is(T, p, c)
      /\ Here' = IF c \in Ends THEN p ELSE p + 1
  BY <1>1, ReadsOn, PeeksOn
<1>4. /\ p \in Nat /\ Where \in Int /\ Where >= 0 /\ begin \in [line : Int, index : Int]
      /\ flag \in BOOLEAN /\ Text \in Seq(Char) /\ Len(Text) \in Nat
  BY Now
<1>5. /\ Where' = Where /\ tokens' \in Seq(TokenType) /\ AllFit(stream', tokens')
      /\ T \in Seq(Char) /\ Longer(Text, T) /\ Len(T) \in Nat
  BY <1>2, <1>3, Then
<1> HIDE DEF T, p
<1>6. InLine(Text, Where, p)
  BY <1>2 DEF Scanning, p
<1>7. PICK k \in Where..(p - 2) : /\ IsGap(Text, Where, k) /\ Has(Text, k, <<"/", "/">>)
                                  /\ Avoids(Text, k + 2, p, Ends \cup {"nl"})
  BY <1>6 DEF InLine
<1>8. k \in Int /\ k >= 0 /\ k + 2 \in Int /\ k + 2 >= 0 /\ k <= p - 2 /\ k + 2 <= p
  BY <1>4, <1>7
<1>9. /\ IsGap(T, Where, k) /\ Has(T, k, <<"/", "/">>) /\ Avoids(T, k + 2, p, Ends \cup {"nl"})
  BY <1>4, <1>5, <1>7, <1>8, GapKept, HasKept, AvoidsKept, Pair
<1>10. p < Len(T) /\ T[p + 1] = c
  BY <1>3 DEF Is
<1>11. Sure'
  BY <1>2, <1>4, <1>5 DEF Sure
<1>12. CASE c \in Ends
  <2>1. IsLineComment(T, k, p)
    BY <1>3, <1>8, <1>9, <1>12 DEF IsLineComment
  <2>2. IsGap(T, Where, p)
    <3>1. k < p /\ IsPiece(T, k, p)
      BY <1>4, <1>8, <2>1 DEF IsPiece
    <3> QED
      BY <1>4, <1>8, <1>9, <3>1, GapGrows
  <2> QED
    BY <1>1, <1>3, <1>5, <1>11, <1>12, <2>2, IntoTokenize DEF T
<1>13. CASE c = "nl"
  <2>1. "nl" \notin Ends
    BY DEF Ends
  <2>2. IsLineComment(T, k, p + 1)
    <3>1. (p + 1) - 1 = p /\ p + 1 > k + 2
      BY <1>4, <1>8
    <3> QED
      BY <1>3, <1>9, <1>13, <3>1 DEF IsLineComment
  <2>3. IsGap(T, Where, p + 1)
    <3>1. k < p + 1 /\ IsPiece(T, k, p + 1) /\ p + 1 \in Int
      BY <1>4, <1>8, <2>2 DEF IsPiece
    <3> QED
      BY <1>4, <1>8, <1>9, <3>1, GapGrows
  <2> QED
    BY <1>1, <1>3, <1>5, <1>11, <1>13, <2>1, <2>3, IntoTokenize DEF T
<1>14. CASE c \notin Ends \cup {"nl"}
  <2>1. Avoids(T, k + 2, p + 1, Ends \cup {"nl"})
    <3>1. p + 1 <= Len(T) /\ \A m \in ((k + 2) + 1)..(p + 1) : m = p + 1 \/ m \in ((k + 2) + 1)..p
      BY <1>4, <1>5, <1>8, <1>10
    <3> QED
      BY <1>9, <1>10, <1>14, <3>1 DEF Avoids
  <2>2. k \in Where..((p + 1) - 2)
    BY <1>4, <1>7
  <2>3. InLine(T, Where, p + 1)
    BY <1>9, <2>1, <2>2 DEF InLine
  <2> QED
    BY <1>1, <1>2, <1>3, <1>5, <1>11, <1>14, <2>3, IntoLine DEF T
<1> QED
  BY <1>12, <1>13, <1>14

\* Where the scanner of block comments is.
LEMMA BlockIs ==
  ASSUME IndInv, Scanning, pc = "block_comment", Follows(stream', stream)
  PROVE  \E k \in Int :
           /\ k >= Where /\ k >= 0 /\ k + 2 <= Here
           /\ IsGap(Text', Where, k) /\ Has(Text', k, <<"/", "*">>) /\ Avoids(Text', k + 2, Here, Ends)
           /\ \A m \in (k + 2)..(Here - 2) : ~Has(Text', m, <<"*", "/">>)
           /\ flag <=> (Here > k + 2 /\ Is(Text', Here - 1, "*"))
<1> DEFINE T == Text'
           p == Here
<1>1. /\ p \in Nat /\ p <= Len(Text) /\ Where \in Int /\ Where >= 0
      /\ Text \in Seq(Char) /\ Len(Text) \in Nat
  BY Now
<1>2. T \in Seq(Char) /\ Longer(Text, T) /\ Len(T) \in Nat
  BY Then
<1> HIDE DEF T, p
<1>3. InBlock(Text, Where, p, flag)
  BY DEF Scanning, p
<1>4. PICK k \in Where..(p - 2) :
        /\ IsGap(Text, Where, k) /\ Has(Text, k, <<"/", "*">>) /\ Avoids(Text, k + 2, p, Ends)
        /\ \A m \in (k + 2)..(p - 2) : ~Has(Text, m, <<"*", "/">>)
        /\ flag <=> (p > k + 2 /\ Is(Text, p - 1, "*"))
  BY <1>3 DEF InBlock
<1>5. k \in Int /\ k >= Where /\ k >= 0 /\ k + 2 \in Int /\ k + 2 >= 0 /\ k + 2 <= p
  BY <1>1, <1>4
<1>6. /\ IsGap(T, Where, k) /\ Has(T, k, <<"/", "*">>) /\ Avoids(T, k + 2, p, Ends)
  BY <1>1, <1>2, <1>4, <1>5, GapKept, HasKept, AvoidsKept, Pair
<1>7. ASSUME NEW m \in (k + 2)..(p - 2) PROVE ~Has(T, m, <<"*", "/">>)
  <2>1. m \in Int /\ m >= 0 /\ m + 2 <= Len(Text)
    BY <1>1, <1>5
  <2> QED
    BY <1>1, <1>2, <1>4, <2>1, HasKept, Pair
<1>8. flag <=> (p > k + 2 /\ Is(T, p - 1, "*"))
  <2>1. p > k + 2 => p - 1 \in Int /\ p - 1 >= 0 /\ p - 1 < Len(Text)
    BY <1>1, <1>5
  <2> QED
    BY <1>1, <1>2, <1>4, <2>1, IsKept
<1> QED
  BY <1>5, <1>6, <1>7, <1>8 DEF T, p

LEMMA BlockCommentStep ==
  ASSUME IndInv, Scanning, BlockComment
  PROVE  Scanning'
<1>1. PICK c \in NextChars \ Ends : /\ Reads(c)
                                    /\ pc' = IF flag /\ c = "/" THEN "tokenize" ELSE pc
                                    /\ flag' = (c = "*")
  BY DEF BlockComment
<1>2. pc = "block_comment" /\ begin' = begin /\ tokens' = tokens
  BY DEF BlockComment
<1> DEFINE T == Text'
           p == Here
<1>3. Follows(stream', stream) /\ Is(T, p, c) /\ Here' = p + 1
  BY <1>1, ReadsOn
<1>4. p \in Nat /\ Where \in Int /\ begin \in [line : Int, index : Int] /\ flag \in BOOLEAN
  BY Now
<1>5. /\ Where' = Where /\ tokens' \in Seq(TokenType) /\ AllFit(stream', tokens')
      /\ T \in Seq(Char) /\ Len(T) \in Nat
  BY <1>2, <1>3, Then
<1>6. PICK k \in Int :
        /\ k >= Where /\ k >= 0 /\ k + 2 <= p
        /\ IsGap(T, Where, k) /\ Has(T, k, <<"/", "*">>) /\ Avoids(T, k + 2, p, Ends)
        /\ \A m \in (k + 2)..(p - 2) : ~Has(T, m, <<"*", "/">>)
        /\ flag <=> (p > k + 2 /\ Is(T, p - 1, "*"))
  BY <1>2, <1>3, BlockIs
<1> HIDE DEF T, p
<1>7. p < Len(T) /\ T[p + 1] = c
  BY <1>3 DEF Is
<1>8. Sure'
  BY <1>1, <1>2, <1>4, <1>5 DEF Sure
<1>9. Avoids(T, k + 2, p + 1, Ends)
  <2>1. p + 1 <= Len(T) /\ \A m \in ((k + 2) + 1)..(p + 1) : m = p + 1 \/ m \in ((k + 2) + 1)..p
    BY <1>4, <1>5, <1>6, <1>7
  <2> QED
    BY <1>1, <1>6, <1>7, <2>1 DEF Avoids
<1>10. Has(T, p - 1, <<"*", "/">>) <=> Is(T, p - 1, "*") /\ c = "/"
  <2>1. p - 1 + 1 = p /\ p - 1 + 2 = p + 1 /\ p - 1 + 2 <= Len(T) /\ p - 1 < Len(T)
    BY <1>4, <1>5, <1>7
  <2>2. Has(T, p - 1, <<"*", "/">>) <=> T[p - 1 + 1] = "*" /\ T[p - 1 + 2] = "/"
    <3>1. \A i : i \in 1..2 <=> i = 1 \/ i = 2
      OBVIOUS
    <3> QED
      BY <2>1, <3>1, Pair DEF Has
  <2> QED
    BY <1>7, <2>1, <2>2 DEF Is
<1>11. CASE flag /\ c = "/"
  <2>1. p > k + 2 /\ Is(T, p - 1, "*")
    BY <1>6, <1>11
  <2>2. (p + 1) - 2 = p - 1 /\ (p + 1) - 3 = p - 2 /\ p + 1 >= k + 4
    BY <1>4, <2>1
  <2>3. IsBlockComment(T, k, p + 1)
    BY <1>6, <1>9, <1>10, <1>11, <2>1, <2>2 DEF IsBlockComment
  <2>4. IsGap(T, Where, p + 1)
    <3>1. k < p + 1 /\ IsPiece(T, k, p + 1) /\ p + 1 \in Int
      BY <1>4, <1>6, <2>3 DEF IsPiece
    <3> QED
      BY <1>4, <1>6, <3>1, GapGrows
  <2> QED
    BY <1>1, <1>3, <1>5, <1>8, <1>11, <2>4, IntoTokenize DEF T
<1>12. CASE ~(flag /\ c = "/")
  <2>1. ASSUME NEW m \in (k + 2)..((p + 1) - 2) PROVE ~Has(T, m, <<"*", "/">>)
    <3>1. CASE m = p - 1
      <4>1. p > k + 2
        BY <1>4, <3>1
      <4> QED
        BY <1>6, <1>10, <1>12, <3>1, <4>1
    <3>2. CASE m # p - 1
      <4>1. m \in (k + 2)..(p - 2)
        BY <1>4, <1>6, <3>2
      <4> QED
        BY <1>6, <4>1
    <3> QED
      BY <3>1, <3>2
  <2>2. (c = "*") <=> (p + 1 > k + 2 /\ Is(T, (p + 1) - 1, "*"))
    <3>1. (p + 1) - 1 = p /\ p + 1 > k + 2
      BY <1>4, <1>6
    <3> QED
      BY <1>7, <3>1 DEF Is
  <2>3. k \in Where..((p + 1) - 2)
    BY <1>4, <1>6
  <2>4. InBlock(T, Where, p + 1, c = "*")
    BY <1>6, <1>9, <2>1, <2>2, <2>3 DEF InBlock
  <2>5. pc' = "block_comment"
    BY <1>1, <1>2, <1>12
  <2> QED
    BY <1>1, <1>3, <1>5, <1>8, <2>4, <2>5, IntoBlock DEF T
<1> QED
  BY <1>11, <1>12

LEMMA IntoOpenComment ==
  ASSUME Sure', pc' = "open_comment", Where' \in Int, Len(Text') \in Nat,
         NEW j \in Int, j >= Where', j < Len(Text'), Has(Text', j, <<"/", "*">>),
         \A m \in j..Len(Text') : ~IsBlockComment(Text', j, m), IsGap(Text', Where', j)
  PROVE  Scanning'
<1>1. j \in Where'..(Len(Text') - 1)
  OBVIOUS
<1>2. FailsOnlyOnBadText'
  BY <1>1 DEF FailsOnlyOnBadText, Where, LastOf
<1> QED
  BY <1>2 DEF Scanning

LEMMA CommentIsOpenStep ==
  ASSUME IndInv, Scanning, CommentIsOpen
  PROVE  Scanning'
<1>1. PICK c \in NextChars \cap Ends : Peeks(c)
  BY DEF CommentIsOpen
<1>2. /\ pc = "block_comment" /\ pc' = "open_comment" /\ begin' = begin /\ flag' = flag
      /\ tokens' = tokens
  BY DEF CommentIsOpen, Throw
<1> DEFINE T == Text'
           p == Here
<1>3. Follows(stream', stream) /\ Is(T, p, c)
  BY <1>1, PeeksOn
<1>4. p \in Nat /\ Where \in Int /\ begin \in [line : Int, index : Int] /\ flag \in BOOLEAN
  BY Now
<1>5. /\ Where' = Where /\ tokens' \in Seq(TokenType) /\ AllFit(stream', tokens')
      /\ T \in Seq(Char) /\ Len(T) \in Nat
  BY <1>2, <1>3, Then
<1>6. PICK k \in Int :
        /\ k >= Where /\ k >= 0 /\ k + 2 <= p
        /\ IsGap(T, Where, k) /\ Has(T, k, <<"/", "*">>) /\ Avoids(T, k + 2, p, Ends)
        /\ \A m \in (k + 2)..(p - 2) : ~Has(T, m, <<"*", "/">>)
        /\ flag <=> (p > k + 2 /\ Is(T, p - 1, "*"))
  BY <1>2, <1>3, BlockIs
<1> HIDE DEF T, p
<1>7. p < Len(T) /\ T[p + 1] = c
  BY <1>3 DEF Is
<1>8. Sure'
  BY <1>2, <1>4, <1>5 DEF Sure
<1>9. ASSUME NEW m \in k..Len(T), IsBlockComment(T, k, m) PROVE FALSE
  <2>1. m >= k + 4 /\ Avoids(T, k + 2, m, Ends) /\ Has(T, m - 2, <<"*", "/">>) /\ m \in Int
    BY <1>9 DEF IsBlockComment
  <2>2. CASE m > p
    <3>1. p + 1 \in ((k + 2) + 1)..m
      BY <1>4, <1>6, <2>1, <2>2
    <3> QED
      BY <1>1, <1>7, <2>1, <3>1 DEF Avoids
  <2>3. CASE m <= p
    <3>1. m - 2 \in (k + 2)..(p - 2)
      BY <1>4, <1>6, <2>1, <2>3
    <3> QED
      BY <1>6, <2>1, <3>1
  <2> QED
    BY <1>4, <2>1, <2>2, <2>3
<1>10. k < Len(T)
  BY <1>4, <1>5, <1>6, <1>7
<1> QED
  BY <1>2, <1>4, <1>5, <1>6, <1>8, <1>9, <1>10, IntoOpenComment DEF T

LEMMA InitScanning ==
  Init => Scanning
<1> SUFFICES ASSUME Init PROVE Scanning
  OBVIOUS
<1>1. /\ stream = EmptyStream /\ pc = "tokenize" /\ tokens = <<>> /\ flag = FALSE
      /\ begin = [line |-> 0, index |-> 0]
  BY DEF Init, Mark, EmptyStream
<1>2. Here = 0
  BY <1>1 DEF EmptyStream, Here, Position
<1>3. tokens \in Seq(TokenType) /\ Len(tokens) = 0
  BY <1>1
<1>4. Where = 0
  BY <1>3 DEF Where, LastOf, EndBefore
<1>5. AllFit(stream, tokens)
  <2>1. \A i \in 1..Len(tokens) : FALSE
    BY <1>3
  <2> QED
    BY <1>4, <2>1 DEF AllFit, Where
<1>6. IsGap(Text, Where, Here)
  BY <1>2, <1>4, EmptyGap
<1>7. Sure
  <2>1. [line |-> 0, index |-> 0] \in [line : Int, index : Int]
    OBVIOUS
  <2>2. begin \in [line : Int, index : Int] /\ flag \in BOOLEAN
    BY <1>1, <2>1
  <2> QED
    BY <1>3, <1>5, <2>2 DEF Sure
<1> QED
  BY <1>1, <1>6, <1>7 DEF Scanning, FailsOnlyOnBadText

LEMMA StepScanning ==
  IndInv /\ Scanning /\ [Next]_vars => Scanning'
<1> SUFFICES ASSUME IndInv, Scanning, [Next]_vars PROVE Scanning'
  OBVIOUS
<1>1. CASE Blank \/ EndOfText \/ StartWord \/ StartString \/ StartSlash \/ StartOperator
  BY <1>1, BlankStep, EndOfTextStep, StartWordStep, StartStringStep, StartSlashStep,
     StartOperatorStep
<1>2. CASE StartComment \/ SlashIsOperator \/ WordGoesOn \/ WordEnds
  BY <1>2, StartCommentStep, SlashIsOperatorStep, WordGoesOnStep, WordEndsStep
<1>3. CASE Munch \/ Unread \/ OperatorFound \/ NoOperator \/ Unexpected
  BY <1>3, MunchStep, UnreadStep, OperatorFoundStep, NoOperatorStep, UnexpectedStep
<1>4. CASE Escape \/ StringEnds \/ StringGoesOn \/ StringIsOpen
  BY <1>4, EscapeStep, StringEndsStep, StringGoesOnStep, StringIsOpenStep
<1>5. CASE LineComment \/ BlockComment \/ CommentIsOpen
  BY <1>5, LineCommentStep, BlockCommentStep, CommentIsOpenStep
<1>6. CASE UNCHANGED vars
  BY <1>6 DEF Scanning, Sure, Where, Here, Text, FailsOnlyOnBadText, vars
<1> QED
  BY <1>1, <1>2, <1>3, <1>4, <1>5, <1>6 DEF Next, Step, Finished

---------------------------------------------------------------------------
\* Whatever the text, its tokens cover it: nothing but blanks and whole comments is
\* between two lexemes, a token denotes its lexeme, and it carries the line on which
\* the lexeme starts (tokenize() and the scanners it calls).
THEOREM TokensAreTheText ==
  Spec => []TokensTileText
<1>1. IndInv /\ Scanning => TokensTileText
  BY DEF Scanning, Sure, AllFit, Fits, TokensTileText, Text
<1> QED
  BY <1>1, InitLemma, StepLemma, InitScanning, StepScanning, PTL DEF Spec

\* An operator token is the longest operator that the text spells there, and a word
\* or number ends where its characters do, however much was read beyond it and put
\* back (getOperator and fetch_word).
THEOREM LongestOperatorWins ==
  Spec => []LongestMatch
<1>1. IndInv /\ Scanning => LongestMatch
  <2> SUFFICES ASSUME Scanning, NEW i \in 1..Len(tokens)
               PROVE  /\ tokens[i].kind = "operator" =>
                           \A o \in Operators :
                             Has(Text, tokens[i].index, o) => Len(o) <= Len(tokens[i].value)
                      /\ tokens[i].kind \in Words =>
                           \A c \in AlphaNum : ~Is(Text, tokens[i].upto, c)
    BY DEF LongestMatch
  <2> DEFINE t == tokens[i]
  <2>1. Fits(stream, EndBefore(tokens, i), t) /\ t \in TokenType
    BY ElementOfSeq DEF Scanning, Sure, AllFit
  <2>2. /\ t.kind = "operator" =>
             \A o \in Operators : Len(o) > Len(t.value) => Excluded(Text, t.index, o)
        /\ t.kind \in Words => \E c \in Char \ AlphaNum : Is(Text, t.upto, c)
        /\ Len(t.value) \in Nat
    BY <2>1, LenProperties DEF Fits, Text, TokenType
  <2> HIDE DEF t
  <2>3. ASSUME t.kind = "operator", NEW o \in Operators, Has(Text, t.index, o)
        PROVE  Len(o) <= Len(t.value)
    <3>1. ~Excluded(Text, t.index, o)
      BY <2>3 DEF Excluded, Has
    <3> QED
      BY <2>2, <2>3, <3>1, Lengths
  <2>4. ASSUME t.kind \in Words, NEW c \in AlphaNum
        PROVE  ~Is(Text, t.upto, c)
    BY <2>2, <2>4 DEF Is
  <2> QED
    BY <2>3, <2>4 DEF t
<1> QED
  BY <1>1, InitLemma, StepLemma, InitScanning, StepScanning, PTL DEF Spec

\* An exception of the tokenizer has its reason in the text, right behind the last
\* token: a string or comment that nothing closes, a character that starts no
\* operator, a word of a digit that is no number (the throws of tokenizer.cc).
THEOREM FailureHasReasonInText ==
  Spec => []FailsOnlyOnBadText
<1>1. IndInv /\ Scanning => FailsOnlyOnBadText
  BY DEF Scanning
<1> QED
  BY <1>1, InitLemma, StepLemma, InitScanning, StepScanning, PTL DEF Spec
=============================================================================
