------------------------ MODULE ExpressionParser_proofs ------------------------
(***************************************************************************)
(* Proofs about parseExpression, for every set of tokens and every length  *)
(* of the text.                                                            *)
(***************************************************************************)
EXTENDS ExpressionGrammar, Ownership_proofs, SequenceTheorems, TLAPS

---------------------------------------------------------------------------
(* Stacks.                                                                 *)

\* Pushing: the new stack is typed, one longer, and ends in the new element.
LEMMA PushLemma ==
  ASSUME NEW S, NEW s \in Seq(S), NEW e \in S
  PROVE  /\ Append(s, e) \in Seq(S)
         /\ Len(Append(s, e)) = Len(s) + 1
         /\ \A i \in 1..Len(s) : Append(s, e)[i] = s[i]
         /\ Append(s, e)[Len(s) + 1] = e
         /\ Top(Append(s, e)) = e
         /\ Append(s, e) # <<>>
<1>1. Len(s) \in Nat
  BY LenProperties
<1>2. Len(Append(s, e)) = Len(s) + 1
  OBVIOUS
<1>3. Append(s, e) # <<>>
  BY <1>1, <1>2, EmptySeq
<1> QED
  BY <1>1, <1>3 DEF Top

\* The first k elements of a stack are a stack of the same type.
LEMMA PrefixLemma ==
  ASSUME NEW S, NEW s \in Seq(S), NEW k \in Nat, k <= Len(s)
  PROVE  /\ SubSeq(s, 1, k) \in Seq(S)
         /\ Len(SubSeq(s, 1, k)) = k
         /\ \A i \in 1..k : SubSeq(s, 1, k)[i] = s[i]
<1>1. \A i \in 1..k : s[i] \in S
  BY ElementOfSeq, LenProperties
<1> QED
  BY <1>1, SubSeqProperties, LenProperties

\* Popping a stack that is not empty.
LEMMA PopLemma ==
  ASSUME NEW S, NEW s \in Seq(S), s # <<>>
  PROVE  /\ Pop(s) \in Seq(S)
         /\ Len(Pop(s)) = Len(s) - 1
         /\ \A i \in 1..(Len(s) - 1) : Pop(s)[i] = s[i]
         /\ Top(s) \in S
         /\ Len(s) \in Nat \ {0}
<1>1. Len(s) \in Nat \ {0}
  BY EmptySeq
<1>2. Top(s) \in S
  BY <1>1, ElementOfSeq DEF Top
<1>3. Len(s) - 1 \in Nat /\ Len(s) - 1 <= Len(s)
  BY <1>1
<1>4. /\ SubSeq(s, 1, Len(s) - 1) \in Seq(S)
      /\ Len(SubSeq(s, 1, Len(s) - 1)) = Len(s) - 1
      /\ \A i \in 1..(Len(s) - 1) : SubSeq(s, 1, Len(s) - 1)[i] = s[i]
  BY <1>3, PrefixLemma
<1> QED
  BY <1>1, <1>2, <1>4 DEF Pop

---------------------------------------------------------------------------
(* The pieces the actions are made of.                                     *)

\* What the program counter says about the stacks.
Shape ==
  /\ pc = "reduce" => consumed # <<>> /\ Top(consumed) \in Binary
  /\ pc = "target" => held # <<>>
  /\ pc = "return" => operands # <<>>

TypeInv == TypeOK /\ Shape

\* The text is made of tokens.
LEMMA NextTokenLemma ==
  ASSUME NEW text
  PROVE  NextToken(text) \subseteq AllTokens
<1>1. LongerThan(text) \subseteq [tokens : SUBSET AllTokens, length : Nat]
  BY SourcesAssumption DEF LongerThan
<1>2. ";" \in AllTokens
  BY DEF AllTokens
<1>3. UNION {s.tokens : s \in LongerThan(text)} \subseteq AllTokens
  BY <1>1
<1> QED
  BY <1>2, <1>3 DEF NextToken

\* ++it reads a token.
LEMMA AdvanceLemma ==
  ASSUME TypeOK, Advance
  PROVE  /\ consumed' \in Seq(AllTokens) /\ it' \in AllTokens
         /\ consumed' # <<>> /\ Top(consumed') = it
<1>1. consumed' \in Seq(AllTokens) /\ Len(consumed') = Len(consumed) + 1 /\ Top(consumed') = it
  BY PushLemma DEF Advance, TypeOK
<1>2. consumed' # <<>>
  BY <1>1, EmptySeq, LenProperties DEF TypeOK
<1>3. it' \in AllTokens
  BY NextTokenLemma DEF Advance
<1> QED
  BY <1>1, <1>2, <1>3

LEMMA StayLemma ==
  ASSUME TypeOK, Stay
  PROVE  consumed' \in Seq(AllTokens) /\ it' \in AllTokens
BY DEF Stay, TypeOK

\* Positions and depths are numbers.
LEMMA NodeLemma ==
  ASSUME TypeOK, NEW kind \in Kinds, NEW at \in Nat, NEW ks \in Seq(Nat)
  PROVE  Node(kind, at, ks) \in NodeRecord
<1>1. Len(callers) \in Nat
  BY LenProperties DEF TypeOK
<1> QED
  BY <1>1 DEF Node, NodeRecord

\* Making a node.
LEMMA AllocLemma ==
  ASSUME TypeOK, NEW r \in NodeRecord, heap' = Append(heap, r)
  PROVE  /\ heap' \in Seq(NodeRecord)
         /\ NodeIds \subseteq NodeIds'
         /\ Fresh \in NodeIds'
<1>1. heap' \in Seq(NodeRecord) /\ Len(heap') = Len(heap) + 1
  BY PushLemma DEF TypeOK
<1>2. Len(heap) \in Nat
  BY LenProperties DEF TypeOK
<1> QED
  BY <1>1, <1>2 DEF NodeIds, Fresh

\* Nodes are never forgotten, so what was a frame stays one.
LEMMA FrameLemma ==
  ASSUME NodeIds \subseteq NodeIds'
  PROVE  /\ Seq(NodeIds) \subseteq Seq(NodeIds')
         /\ Frame \subseteq Frame'
         /\ Seq(Frame) \subseteq Seq(Frame')
<1>1. Seq(NodeIds) \subseteq Seq(NodeIds')
  BY SeqMonotonic
<1>2. Frame \subseteq Frame'
  BY <1>1 DEF Frame
<1> QED
  BY <1>1, <1>2, SeqMonotonic

\* Nodes are numbers.
LEMMA IdsLemma == ASSUME TypeOK PROVE NodeIds \subseteq Nat /\ Seq(NodeIds) \subseteq Seq(Nat)
<1>1. NodeIds \subseteq Nat
  BY LenProperties DEF TypeOK, NodeIds
<1> QED
  BY <1>1, SeqMonotonic

LEMMA SameHeapLemma == ASSUME heap' = heap PROVE NodeIds' = NodeIds /\ Frame' = Frame
BY DEF NodeIds, Frame

---------------------------------------------------------------------------
(* Type correctness.                                                       *)

\* The frame conditions most actions share.
Same == UNCHANGED <<heap, operands, operator_stack, held, callers>>

\* A step that moves the program counter and perhaps the iterator.
LEMMA MoveLemma ==
  ASSUME TypeInv, Same, consumed' \in Seq(AllTokens), it' \in AllTokens, pc' \in Places
  PROVE  TypeOK'
BY SameHeapLemma DEF TypeInv, TypeOK, Same, OperatorEntry

\* Combining two operands under the topmost operator.
LEMMA CombineLemma ==
  ASSUME TypeInv, Combine, Stay, operator_stack # <<>>, Len(operands) >= 2,
         UNCHANGED <<held, callers>>, pc' \in Places
  PROVE  TypeOK' /\ operands' # <<>>
<1> DEFINE n == Len(operands)
<1>1. n \in Nat /\ operands \in Seq(NodeIds) /\ Seq(NodeIds) \subseteq Seq(Nat) /\ NodeIds \subseteq Nat
  BY IdsLemma, LenProperties DEF TypeInv, TypeOK
<1>2. operands[n - 1] \in Nat /\ operands[n] \in Nat
  BY <1>1, ElementOfSeq
<1>3. /\ Top(operator_stack) \in OperatorEntry
      /\ Pop(operator_stack) \in Seq(OperatorEntry)
  BY PopLemma DEF TypeInv, TypeOK
<1>4. Node("binary", Top(operator_stack).at, <<operands[n - 1], operands[n]>>) \in NodeRecord
  <2>1. Top(operator_stack).at \in Nat
    BY <1>3 DEF OperatorEntry
  <2>2. <<operands[n - 1], operands[n]>> \in Seq(Nat)
    BY <1>2
  <2> QED
    BY <2>1, <2>2, NodeLemma DEF TypeInv, Kinds
<1>5. heap' \in Seq(NodeRecord) /\ NodeIds \subseteq NodeIds' /\ Fresh \in NodeIds'
  BY <1>4, AllocLemma DEF TypeInv, Combine
<1>6. SubSeq(operands, 1, n - 2) \in Seq(NodeIds')
  <2>1. n - 2 \in Nat /\ n - 2 <= n
    BY <1>1
  <2>2. SubSeq(operands, 1, n - 2) \in Seq(NodeIds)
    BY <1>1, <2>1, PrefixLemma
  <2> QED
    BY <1>5, <2>2, FrameLemma
<1>7. operands' \in Seq(NodeIds') /\ operands' # <<>>
  <2>1. operands' = Append(SubSeq(operands, 1, n - 2), Fresh)
    BY DEF Combine
  <2>2. /\ Append(SubSeq(operands, 1, n - 2), Fresh) \in Seq(NodeIds')
        /\ Append(SubSeq(operands, 1, n - 2), Fresh) # <<>>
    <3> HIDE DEF n
    <3> QED
      BY <1>5, <1>6, PushLemma
  <2> QED
    BY <2>1, <2>2
<1>8. held' \in Seq(NodeIds') /\ callers' \in Seq(Frame')
  BY <1>5, FrameLemma DEF TypeInv, TypeOK
<1>9. consumed' \in Seq(AllTokens) /\ it' \in AllTokens
  BY StayLemma DEF TypeInv
<1> QED
  BY <1>3, <1>5, <1>7, <1>8, <1>9 DEF TypeOK, Combine, OperatorEntry

\* A new node on top of a stack.
LEMMA GrowLemma ==
  ASSUME TypeOK, NEW r \in NodeRecord, heap' = Append(heap, r), NEW s \in Seq(NodeIds)
  PROVE  /\ heap' \in Seq(NodeRecord)
         /\ s \in Seq(NodeIds')
         /\ Append(s, Fresh) \in Seq(NodeIds')
         /\ Append(s, Fresh) # <<>>
         /\ Seq(NodeIds) \subseteq Seq(NodeIds')
         /\ Seq(Frame) \subseteq Seq(Frame')
<1>1. heap' \in Seq(NodeRecord) /\ NodeIds \subseteq NodeIds' /\ Fresh \in NodeIds'
  BY AllocLemma
<1>2. Seq(NodeIds) \subseteq Seq(NodeIds') /\ Seq(Frame) \subseteq Seq(Frame')
  BY <1>1, FrameLemma
<1>3. s \in Seq(NodeIds')
  BY <1>2
<1>4. Append(s, Fresh) \in Seq(NodeIds') /\ Append(s, Fresh) # <<>>
  BY <1>1, <1>3, PushLemma
<1> QED
  BY <1>1, <1>2, <1>3, <1>4

\* The iterator's next position is a number.
LEMMA HereLemma == ASSUME TypeOK PROVE Here \in Nat
BY LenProperties DEF TypeOK, Here

\* Binary operators.
LEMMA BinaryStep ==
  ASSUME TypeInv, ReadBinary \/ RejectOperator \/ Reduce \/ Underflow \/ PushBinary
  PROVE  TypeInv'
<1>1. CASE ReadBinary
  <2>1. consumed' \in Seq(AllTokens) /\ it' \in AllTokens /\ consumed' # <<>> /\ Top(consumed') = it
    BY <1>1, AdvanceLemma DEF ReadBinary, TypeInv
  <2>2. TypeOK'
    BY <1>1, <2>1, MoveLemma DEF ReadBinary, Same, Places
  <2> QED
    BY <1>1, <2>1, <2>2 DEF ReadBinary, TypeInv, Shape, Top
<1>2. CASE RejectOperator
  <2>1. TypeOK'
    BY <1>2, StayLemma, MoveLemma DEF RejectOperator, Throw, Same, Places, TypeInv
  <2> QED
    BY <1>2, <2>1 DEF RejectOperator, Throw, TypeInv, Shape
<1>3. CASE Reduce
  <2>1. TypeOK' /\ pc' = "reduce"
    BY <1>3, CombineLemma DEF Reduce, MustReduce, Places
  <2> QED
    BY <1>3, <2>1 DEF Reduce, TypeInv, Shape, Stay, Top
<1>4. CASE Underflow
  <2>1. TypeOK'
    BY <1>4, StayLemma, MoveLemma DEF Underflow, Same, Places, TypeInv
  <2> QED
    BY <1>4, <2>1 DEF Underflow, TypeInv, Shape
<1>5. CASE PushBinary
  <2>1. op1 \in OperatorEntry
    <3>1. consumed # <<>> /\ Top(consumed) \in Binary
      BY <1>5 DEF PushBinary, TypeInv, Shape
    <3>2. Len(consumed) \in Nat
      BY LenProperties DEF TypeInv, TypeOK
    <3> QED
      BY <3>1, <3>2 DEF op1, OperatorEntry, Operators
  <2>2. operator_stack' \in Seq(OperatorEntry)
    BY <1>5, <2>1, PushLemma DEF PushBinary, TypeInv, TypeOK
  <2>3. heap' = heap /\ NodeIds' = NodeIds /\ Frame' = Frame
    BY <1>5, SameHeapLemma DEF PushBinary
  <2>4. TypeOK'
    BY <1>5, <2>2, <2>3, StayLemma DEF PushBinary, TypeInv, TypeOK, Places, OperatorEntry
  <2> QED
    BY <1>5, <2>4 DEF PushBinary, TypeInv, Shape
<1> QED
  BY <1>1, <1>2, <1>3, <1>4, <1>5

\* Unary and postfix operators.
LEMMA UnaryStep ==
  ASSUME TypeInv, ReadUnary \/ ReadPostFix \/ RejectPostFix \/ ApplyUnary \/ EndIteration
  PROVE  TypeInv'
<1>1. CASE ReadUnary
  <2>1. [op |-> it, at |-> Here] \in OperatorEntry
    BY <1>1, HereLemma DEF ReadUnary, OperatorEntry, Operators, TypeInv
  <2>2. operator_stack' \in Seq(OperatorEntry)
    BY <1>1, <2>1, PushLemma DEF ReadUnary, TypeInv, TypeOK
  <2>3. consumed' \in Seq(AllTokens) /\ it' \in AllTokens
    BY <1>1, AdvanceLemma DEF ReadUnary, TypeInv
  <2>4. NodeIds' = NodeIds /\ Frame' = Frame
    BY <1>1, SameHeapLemma DEF ReadUnary
  <2>5. TypeOK'
    BY <1>1, <2>2, <2>3, <2>4 DEF ReadUnary, TypeInv, TypeOK, Places, OperatorEntry
  <2> QED
    BY <1>1, <2>5 DEF ReadUnary, TypeInv, Shape
<1>3. CASE RejectPostFix
  <2>1. TypeOK'
    BY <1>3, StayLemma, MoveLemma DEF RejectPostFix, Throw, Same, Places, TypeInv
  <2> QED
    BY <1>3, <2>1 DEF RejectPostFix, Throw, TypeInv, Shape
<1>4. CASE ApplyUnary
  <2>1. /\ Top(operator_stack) \in OperatorEntry /\ Pop(operator_stack) \in Seq(OperatorEntry)
        /\ Top(operands) \in NodeIds /\ Pop(operands) \in Seq(NodeIds)
    BY <1>4, PopLemma DEF ApplyUnary, UnaryReady, TypeInv, TypeOK
  <2>2. Node("unary", Top(operator_stack).at, <<Top(operands)>>) \in NodeRecord
    <3>1. Top(operator_stack).at \in Nat
      BY <2>1 DEF OperatorEntry
    <3>2. Top(operands) \in Nat
      BY <2>1, IdsLemma DEF TypeInv
    <3>3. <<Top(operands)>> \in Seq(Nat)
      BY <3>2
    <3> QED
      BY <3>1, <3>3, NodeLemma DEF TypeInv, Kinds
  <2>3. /\ heap' \in Seq(NodeRecord)
        /\ Append(Pop(operands), Fresh) \in Seq(NodeIds')
        /\ Seq(NodeIds) \subseteq Seq(NodeIds')
        /\ Seq(Frame) \subseteq Seq(Frame')
    BY <1>4, <2>1, <2>2, GrowLemma DEF ApplyUnary, TypeInv
  <2>4. pc' \in {"loop", "cleanup"}
    BY <1>4 DEF ApplyUnary, AfterIteration
  <2>5. TypeOK'
    BY <1>4, <2>1, <2>3, <2>4, StayLemma
       DEF ApplyUnary, TypeInv, TypeOK, Places, OperatorEntry
  <2> QED
    BY <2>4, <2>5 DEF TypeInv, Shape
<1>5. CASE EndIteration
  <2>1. pc' \in {"loop", "cleanup"}
    BY <1>5 DEF EndIteration, AfterIteration
  <2>2. TypeOK'
    BY <1>5, <2>1, StayLemma, MoveLemma DEF EndIteration, Same, Places, TypeInv
  <2> QED
    BY <2>1, <2>2 DEF TypeInv, Shape
<1>2. CASE ReadPostFix
  <2>1. /\ Top(operands) \in NodeIds /\ Pop(operands) \in Seq(NodeIds)
        /\ Top(operands) \in Nat /\ Len(heap) \in Nat
    BY <1>2, PopLemma, IdsLemma, LenProperties DEF ReadPostFix, TypeInv, TypeOK
  <2> DEFINE one == Node("literal", Here, <<>>)
             sum == Node("binary", Here, <<Top(operands), Fresh>>)
  <2>2. one \in NodeRecord /\ sum \in NodeRecord
    <3>1. <<>> \in Seq(Nat)
      OBVIOUS
    <3>2. Fresh \in Nat
      BY <2>1 DEF Fresh
    <3>3. <<Top(operands), Fresh>> \in Seq(Nat)
      BY <2>1, <3>2
    <3> QED
      BY <3>1, <3>3, HereLemma, NodeLemma DEF TypeInv, Kinds
  <2>3. heap' \in Seq(NodeRecord) /\ Len(heap') = Len(heap) + 2
    <3>1. heap' = heap \o <<one, sum>>
      BY <1>2 DEF ReadPostFix
    <3>2. heap \in Seq(NodeRecord)
      BY DEF TypeInv, TypeOK
    <3> HIDE DEF one, sum
    <3>3. <<one, sum>> \in Seq(NodeRecord) /\ Len(<<one, sum>>) = 2
      BY <2>2
    <3> QED
      BY <3>1, <3>2, <3>3, ConcatProperties
  <2>4. NodeIds \subseteq NodeIds' /\ Fresh + 1 \in NodeIds'
    BY <2>1, <2>3 DEF NodeIds, Fresh
  <2>5. Seq(NodeIds) \subseteq Seq(NodeIds') /\ Seq(Frame) \subseteq Seq(Frame')
    BY <2>4, FrameLemma
  <2>6. Append(Pop(operands), Fresh + 1) \in Seq(NodeIds')
    <3>1. Pop(operands) \in Seq(NodeIds')
      BY <2>1, <2>5
    <3> QED
      BY <3>1, <2>4, PushLemma
  <2>7. TypeOK'
    BY <1>2, <2>3, <2>5, <2>6, StayLemma
       DEF ReadPostFix, TypeInv, TypeOK, Places, OperatorEntry
  <2> QED
    BY <1>2, <2>7 DEF ReadPostFix, TypeInv, Shape
<1> QED
  BY <1>1, <1>2, <1>3, <1>4, <1>5

\* Literals, variables and their indices.
LEMMA OperandStep ==
  ASSUME TypeInv,
         ReadLiteral \/ RejectNegative \/ ReadVariable \/ BuildIndexAccess \/ EndTarget
  PROVE  TypeInv'
<1>a. <<>> \in Seq(Nat) /\ <<>> \in Seq(NodeIds) /\ <<>> \in Seq(NodeIds')
  OBVIOUS
<1>1. CASE ReadLiteral
  <2> DEFINE kind == IF Negative /\ it = "int" THEN "negative" ELSE "literal"
             r == Node(kind, Here, <<>>)
  <2>1. r \in NodeRecord
    <3>1. kind \in Kinds
      BY DEF Kinds
    <3> HIDE DEF kind
    <3> QED
      BY <1>a, <3>1, HereLemma, NodeLemma DEF TypeInv
  <2>2. heap' = Append(heap, r)
    BY <1>1 DEF ReadLiteral
  <2> HIDE DEF r
  <2>3. /\ heap' \in Seq(NodeRecord)
        /\ Append(operands, Fresh) \in Seq(NodeIds')
        /\ Seq(NodeIds) \subseteq Seq(NodeIds')
        /\ Seq(Frame) \subseteq Seq(Frame')
    BY <2>1, <2>2, GrowLemma DEF TypeInv, TypeOK
  <2>4. operator_stack' \in Seq(OperatorEntry)
    BY <1>1, PopLemma DEF ReadLiteral, Negative, TypeInv, TypeOK
  <2>5. consumed' \in Seq(AllTokens) /\ it' \in AllTokens
    BY <1>1, AdvanceLemma DEF ReadLiteral, TypeInv
  <2>6. TypeOK'
    BY <1>1, <2>3, <2>4, <2>5 DEF ReadLiteral, TypeInv, TypeOK, Places, OperatorEntry
  <2> QED
    BY <1>1, <2>6 DEF ReadLiteral, TypeInv, Shape
<1>2. CASE RejectNegative
  <2>1. Node("literal", Here, <<>>) \in NodeRecord
    BY <1>a, HereLemma, NodeLemma DEF TypeInv, Kinds
  <2>2. /\ heap' \in Seq(NodeRecord)
        /\ Seq(NodeIds) \subseteq Seq(NodeIds')
        /\ Seq(Frame) \subseteq Seq(Frame')
    BY <1>2, <1>a, <2>1, GrowLemma DEF RejectNegative, TypeInv
  <2>3. TypeOK'
    BY <1>2, <2>2, StayLemma
       DEF RejectNegative, Throw, TypeInv, TypeOK, Places, OperatorEntry
  <2> QED
    BY <1>2, <2>3 DEF RejectNegative, Throw, TypeInv, Shape
<1>3. CASE ReadVariable
  <2>1. Node("variable", Here, <<>>) \in NodeRecord
    BY <1>a, HereLemma, NodeLemma DEF TypeInv, Kinds
  <2>2. /\ heap' \in Seq(NodeRecord)
        /\ Seq(NodeIds) \subseteq Seq(NodeIds')
        /\ Seq(Frame) \subseteq Seq(Frame')
    BY <1>3, <1>a, <2>1, GrowLemma DEF ReadVariable, TypeInv
  <2>3. Fresh \in NodeIds'
    BY <1>3, <2>1, AllocLemma DEF ReadVariable, TypeInv
  <2>4. consumed' \in Seq(AllTokens) /\ it' \in AllTokens
    BY <1>3, AdvanceLemma DEF ReadVariable, TypeInv
  <2>5. held' \in Seq(NodeIds') /\ held' # <<>>
    BY <1>3, <2>3 DEF ReadVariable
  <2>6. TypeOK'
    BY <1>3, <2>2, <2>4, <2>5 DEF ReadVariable, TypeInv, TypeOK, Places, OperatorEntry
  <2> QED
    BY <1>3, <2>5, <2>6 DEF ReadVariable, TypeInv, Shape
<1>4. CASE BuildIndexAccess
  <2>1. held \in Seq(NodeIds) /\ Len(held) \in Nat /\ Len(held) > 1
    BY <1>4, LenProperties DEF BuildIndexAccess, TypeInv, TypeOK
  <2>2. held[1] \in Nat /\ held[2] \in Nat
    BY <2>1, ElementOfSeq, IdsLemma DEF TypeInv
  <2>3. Node("index", 0, <<held[1], held[2]>>) \in NodeRecord
    <3>1. <<held[1], held[2]>> \in Seq(Nat)
      BY <2>2
    <3> QED
      BY <3>1, NodeLemma DEF TypeInv, Kinds
  <2>4. /\ heap' \in Seq(NodeRecord)
        /\ Seq(NodeIds) \subseteq Seq(NodeIds')
        /\ Seq(Frame) \subseteq Seq(Frame')
    BY <1>4, <1>a, <2>3, GrowLemma DEF BuildIndexAccess, TypeInv
  <2>5. Fresh \in NodeIds'
    BY <1>4, <2>3, AllocLemma DEF BuildIndexAccess, TypeInv
  <2>6. SubSeq(held, 3, Len(held)) \in Seq(NodeIds')
    <3>1. SubSeq(held, 3, Len(held)) \in Seq(NodeIds)
      <4>1. \A i \in 3..Len(held) : held[i] \in NodeIds
        BY <2>1, ElementOfSeq
      <4> QED
        BY <2>1, <4>1, SubSeqProperties
    <3> QED
      BY <2>4, <3>1
  <2>7. held' \in Seq(NodeIds') /\ held' # <<>>
    <3>1. <<Fresh>> \in Seq(NodeIds') /\ Len(<<Fresh>>) = 1
      BY <2>5
    <3>2. /\ <<Fresh>> \o SubSeq(held, 3, Len(held)) \in Seq(NodeIds')
          /\ Len(<<Fresh>> \o SubSeq(held, 3, Len(held))) # 0
      BY <2>6, <3>1, ConcatProperties, LenProperties
    <3> QED
      BY <1>4, <3>2, EmptySeq DEF BuildIndexAccess
  <2>8. TypeOK'
    BY <1>4, <2>4, <2>7, StayLemma
       DEF BuildIndexAccess, TypeInv, TypeOK, Places, OperatorEntry
  <2> QED
    BY <1>4, <2>7, <2>8 DEF BuildIndexAccess, TypeInv, Shape
<1>5. CASE EndTarget
  <2>1. held[1] \in NodeIds
    <3>1. held \in Seq(NodeIds) /\ 1 \in 1..Len(held)
      BY <1>5 DEF EndTarget, TypeInv, TypeOK
    <3> QED
      BY <3>1, ElementOfSeq
  <2>2. operands' \in Seq(NodeIds)
    BY <1>5, <2>1, PushLemma DEF EndTarget, TypeInv, TypeOK
  <2>3. NodeIds' = NodeIds /\ Frame' = Frame
    BY <1>5, SameHeapLemma DEF EndTarget
  <2>4. TypeOK'
    BY <1>5, <1>a, <2>2, <2>3, StayLemma
       DEF EndTarget, TypeInv, TypeOK, Places, OperatorEntry
  <2> QED
    BY <1>5, <2>4 DEF EndTarget, TypeInv, Shape
<1> QED
  BY <1>1, <1>2, <1>3, <1>4, <1>5

\* Opening a bracket, a list or the arguments of a call suspends the caller.
LEMMA EnterLemma ==
  ASSUME TypeInv, NEW why \in {"(", "[", "{", "rotate"}, Enter(why), heap' = heap, Advance
  PROVE  TypeInv'
<1>1. NodeIds' = NodeIds /\ Frame' = Frame
  BY SameHeapLemma
<1> DEFINE f == [operands |-> operands, operators |-> operator_stack,
                 why |-> why, held |-> held]
<1>2. f \in Frame
  BY DEF TypeInv, TypeOK, Frame
<1>3. callers' = Append(callers, f)
  BY DEF Enter
<1> HIDE DEF f
<1>4. callers' \in Seq(Frame)
  BY <1>2, <1>3, PushLemma DEF TypeInv, TypeOK
<1>5. <<>> \in Seq(NodeIds) /\ <<>> \in Seq(OperatorEntry)
  BY EmptySeq
<1>6. TypeOK'
  BY <1>1, <1>4, <1>5, AdvanceLemma DEF Enter, TypeInv, TypeOK, Places, OperatorEntry
<1> QED
  BY <1>6 DEF Enter, TypeInv, Shape

LEMMA OpenStep ==
  ASSUME TypeInv, OpenBracket \/ ReadRotate \/ OpenRotate \/ RejectRotate
  PROVE  TypeInv'
<1>1. CASE OpenBracket
  BY <1>1, EnterLemma DEF OpenBracket
<1>2. CASE ReadRotate
  <2>1. TypeOK'
    BY <1>2, AdvanceLemma, MoveLemma DEF ReadRotate, Same, Places, TypeInv
  <2> QED
    BY <1>2, <2>1 DEF ReadRotate, TypeInv, Shape
<1>3. CASE OpenRotate
  BY <1>3, EnterLemma DEF OpenRotate
<1>4. CASE RejectRotate
  <2>1. TypeOK'
    BY <1>4, StayLemma, MoveLemma DEF RejectRotate, Throw, Same, Places, TypeInv
  <2> QED
    BY <1>4, <2>1 DEF RejectRotate, Throw, TypeInv, Shape
<1> QED
  BY <1>1, <1>2, <1>3, <1>4

\* The end of the loop and of the call.
LEMMA EndStep ==
  ASSUME TypeInv, Stop \/ CleanUp \/ RejectExpression \/ Return
  PROVE  TypeInv'
<1>1. CASE Stop
  <2>1. TypeOK'
    BY <1>1, StayLemma, MoveLemma DEF Stop, Same, Places, TypeInv
  <2> QED
    BY <1>1, <2>1 DEF Stop, TypeInv, Shape
<1>2. CASE CleanUp
  <2>1. TypeOK' /\ pc' = "cleanup"
    BY <1>2, CombineLemma DEF CleanUp, Places
  <2> QED
    BY <2>1 DEF TypeInv, Shape
<1>3. CASE RejectExpression
  <2>1. TypeOK' /\ pc' = "threw"
    BY <1>3, StayLemma, MoveLemma DEF RejectExpression, Throw, Same, Places, TypeInv
  <2> QED
    BY <2>1 DEF TypeInv, Shape
<1>4. CASE Return
  <2>1. TypeOK'
    BY <1>4, StayLemma, MoveLemma DEF Return, Same, Places, TypeInv
  <2>2. operands' # <<>>
    BY <1>4, EmptySeq DEF Return
  <2> QED
    BY <1>4, <2>1, <2>2 DEF Return, TypeInv, Shape
<1> QED
  BY <1>1, <1>2, <1>3, <1>4

\* What a suspended caller left in its frame.
LEMMA CallerLemma ==
  ASSUME TypeInv, pc = "return", callers # <<>>
  PROVE  /\ Top(callers) \in Frame
         /\ Top(callers).operands \in Seq(NodeIds)
         /\ Top(callers).operators \in Seq(OperatorEntry)
         /\ Top(callers).held \in Seq(NodeIds)
         /\ Pop(callers) \in Seq(Frame)
         /\ operands[1] \in NodeIds
<1>1. Top(callers) \in Frame /\ Pop(callers) \in Seq(Frame)
  BY PopLemma DEF TypeInv, TypeOK
<1>2. operands \in Seq(NodeIds) /\ operands # <<>>
  BY DEF TypeInv, TypeOK, Shape
<1>3. 1 \in 1..Len(operands)
  BY <1>2, EmptySeq, LenProperties
<1>4. operands[1] \in NodeIds
  BY <1>2, <1>3, ElementOfSeq
<1> QED
  BY <1>1, <1>4 DEF Frame

\* The next argument is put into the frame of the list or the call.
LEMMA ArgumentLemma ==
  ASSUME TypeInv, NextArgument
  PROVE  callers' \in Seq(Frame) /\ Len(callers') = Len(callers)
<1> DEFINE f == [callers[Len(callers)] EXCEPT
                   !.held = Append(callers[Len(callers)].held, operands[1])]
<1>1. pc = "return" /\ callers # <<>>
  BY DEF NextArgument, Returning
<1>2. f \in Frame
  <2>1. Top(callers).held \in Seq(NodeIds) /\ operands[1] \in NodeIds /\ Top(callers) \in Frame
    BY <1>1, CallerLemma
  <2>2. Append(Top(callers).held, operands[1]) \in Seq(NodeIds)
    BY <2>1, PushLemma
  <2> QED
    BY <2>1, <2>2 DEF Frame, Top
<1>3. callers' = [callers EXCEPT ![Len(callers)] = f]
  BY DEF NextArgument
<1> HIDE DEF f
<1>4. callers \in Seq(Frame) /\ Len(callers) \in 1..Len(callers)
  BY <1>1, EmptySeq, LenProperties DEF TypeInv, TypeOK
<1> QED
  BY <1>2, <1>3, <1>4, ExceptSeq

\* Back in the caller, after the closing bracket or the next comma.
LEMMA CloseStep ==
  ASSUME TypeInv,
         CloseRound \/ CloseSquare \/ NextArgument \/ CloseGroup \/ RejectClose
  PROVE  TypeInv'
<1>a. pc = "return" /\ callers # <<>>
  BY DEF CloseRound, CloseSquare, NextArgument, CloseGroup, RejectClose, Returning
<1>b. /\ Top(callers).operands \in Seq(NodeIds)
      /\ Top(callers).operators \in Seq(OperatorEntry)
      /\ Top(callers).held \in Seq(NodeIds)
      /\ Pop(callers) \in Seq(Frame)
      /\ operands[1] \in NodeIds
      /\ <<>> \in Seq(NodeIds')
  BY <1>a, CallerLemma, EmptySeq
<1>1. CASE CloseRound
  <2>1. operands' \in Seq(NodeIds)
    BY <1>1, <1>b, PushLemma DEF CloseRound, Resume
  <2>2. NodeIds' = NodeIds /\ Frame' = Frame
    BY <1>1, SameHeapLemma DEF CloseRound
  <2>3. TypeOK'
    BY <1>1, <1>b, <2>1, <2>2, AdvanceLemma
       DEF CloseRound, Resume, TypeInv, TypeOK, Places, OperatorEntry
  <2> QED
    BY <1>1, <2>3 DEF CloseRound, Resume, TypeInv, Shape
<1>2. CASE CloseSquare
  <2>1. held' \in Seq(NodeIds) /\ held' # <<>>
    BY <1>2, <1>b, PushLemma DEF CloseSquare, Resume
  <2>2. NodeIds' = NodeIds /\ Frame' = Frame
    BY <1>2, SameHeapLemma DEF CloseSquare
  <2>3. TypeOK'
    BY <1>2, <1>b, <2>1, <2>2, AdvanceLemma
       DEF CloseSquare, Resume, TypeInv, TypeOK, Places, OperatorEntry
  <2> QED
    BY <1>2, <2>1, <2>3 DEF CloseSquare, Resume, TypeInv, Shape
<1>3. CASE NextArgument
  <2>1. NodeIds' = NodeIds /\ Frame' = Frame
    BY <1>3, SameHeapLemma DEF NextArgument
  <2>4. callers' \in Seq(Frame)
    BY <1>3, ArgumentLemma
  <2>5. TypeOK'
    BY <1>3, <1>b, <2>1, <2>4, AdvanceLemma
       DEF NextArgument, TypeInv, TypeOK, Places, OperatorEntry
  <2> QED
    BY <1>3, <2>5 DEF NextArgument, TypeInv, Shape
<1>4. CASE CloseGroup
  <2> DEFINE kind == IF it = "}" THEN "list" ELSE "call"
             ks == Append(Top(callers).held, operands[1])
  <2>1. Node(kind, 0, ks) \in NodeRecord
    <3>1. ks \in Seq(Nat)
      <4>1. Append(Top(callers).held, operands[1]) \in Seq(NodeIds)
        BY <1>b, PushLemma
      <4> QED
        BY <4>1, IdsLemma DEF TypeInv
    <3>2. kind \in Kinds
      BY DEF Kinds
    <3> HIDE DEF kind, ks
    <3> QED
      BY <3>1, <3>2, NodeLemma DEF TypeInv
  <2>2. heap' = Append(heap, Node(kind, 0, ks))
    BY <1>4 DEF CloseGroup
  <2> HIDE DEF kind, ks
  <2>3. /\ heap' \in Seq(NodeRecord)
        /\ Append(Top(callers).operands, Fresh) \in Seq(NodeIds')
        /\ Seq(NodeIds) \subseteq Seq(NodeIds')
        /\ Seq(Frame) \subseteq Seq(Frame')
    BY <1>b, <2>1, <2>2, GrowLemma DEF TypeInv
  <2>4. TypeOK'
    BY <1>4, <1>b, <2>3, AdvanceLemma
       DEF CloseGroup, Resume, TypeInv, TypeOK, Places, OperatorEntry
  <2> QED
    BY <1>4, <2>4 DEF CloseGroup, Resume, TypeInv, Shape
<1>5. CASE RejectClose
  <2>1. TypeOK' /\ pc' = "threw"
    BY <1>5, StayLemma, MoveLemma DEF RejectClose, Throw, Same, Places, TypeInv
  <2> QED
    BY <2>1 DEF TypeInv, Shape
<1> QED
  BY <1>1, <1>2, <1>3, <1>4, <1>5

LEMMA TypeStep == TypeInv /\ [Next]_vars => TypeInv'
<1> SUFFICES ASSUME TypeInv, [Next]_vars PROVE TypeInv'
  OBVIOUS
<1>1. CASE Step
  BY <1>1, BinaryStep, UnaryStep, OperandStep, OpenStep, EndStep, CloseStep DEF Step
<1>2. CASE UNCHANGED vars
  <2>1. NodeIds' = NodeIds /\ Frame' = Frame
    BY <1>2, SameHeapLemma DEF vars
  <2> QED
    BY <1>2, <2>1 DEF vars, TypeInv, TypeOK, Shape, Top, OperatorEntry
<1> QED
  BY <1>1, <1>2 DEF Next, Finished

LEMMA TypeInit == Init => TypeInv
<1> SUFFICES ASSUME Init PROVE TypeInv
  OBVIOUS
<1>1. it \in AllTokens
  BY NextTokenLemma DEF Init
<1>2. /\ consumed \in Seq(AllTokens) /\ heap \in Seq(NodeRecord)
      /\ operands \in Seq(NodeIds) /\ operator_stack \in Seq(OperatorEntry)
      /\ held \in Seq(NodeIds) /\ callers \in Seq(Frame)
  BY EmptySeq DEF Init
<1> QED
  BY <1>1, <1>2 DEF Init, TypeInv, TypeOK, Shape, Places

\* parseExpression keeps its stacks, its nodes and the frames of its callers
\* well formed: in particular every node a stack or a frame refers to has been
\* made, whatever the text.
THEOREM TypeCorrect == Spec => []TypeOK
<1>1. Spec => []TypeInv
  BY TypeInit, TypeStep, PTL DEF Spec
<1> QED
  BY <1>1, PTL DEF TypeInv

---------------------------------------------------------------------------
(* The order of the operator stacks.                                       *)

\* Precedences are numbers, and every unary operator binds tighter than every
\* binary one.
LEMMA LevelLemma ==
  /\ \A o \in Unary : Level(o) = 3
  /\ \A o \in Binary : Level(o) \in Nat /\ Level(o) > 3
<1>1. \A o \in Unary : Level(o) = 3
  BY DEF Unary, Level
<1>2. \A o \in Binary : o \notin Unary
  BY DEF Binary, Unary
<1>3. \A o \in Binary : Level(o) \in {5, 6, 9, 10, 11, 12, 13, 14, 15}
  <2> SUFFICES ASSUME NEW o \in Binary
               PROVE  Level(o) \in {5, 6, 9, 10, 11, 12, 13, 14, 15}
    OBVIOUS
  <2>1. CASE o \in {"*", "***", "/", "%", "+", "+++", "-", "---"}
    BY <1>2, <2>1 DEF Level
  <2>2. CASE o \in {"<", "<=", ">=", ">", "==", "!="}
    BY <1>2, <2>2 DEF Level
  <2>3. CASE o \in {"&", "^", "|", "&&", "||"}
    BY <1>2, <2>3 DEF Level
  <2> QED
    BY <2>1, <2>2, <2>3 DEF Binary
<1> QED
  BY <1>1, <1>3

LEMMA OperatorLevel == \A o \in Operators : Level(o) \in Nat
BY LevelLemma DEF Operators

LEMMA RisePop ==
  ASSUME NEW s \in Seq(OperatorEntry), s # <<>>, Rising(s)
  PROVE  Rising(Pop(s))
<1>1. /\ Len(Pop(s)) = Len(s) - 1 /\ Len(s) \in Nat \ {0}
      /\ \A i \in 1..(Len(s) - 1) : Pop(s)[i] = s[i]
  BY PopLemma
<1> QED
  BY <1>1 DEF Rising

\* An operator may be pushed when it binds tighter than the top, or when both
\* are unary.
LEMMA RisePush ==
  ASSUME NEW s \in Seq(OperatorEntry), NEW e \in OperatorEntry, Rising(s),
         s # <<>> => \/ Level(e.op) < Level(Top(s).op)
                     \/ Top(s).op \in Unary /\ e.op \in Unary
  PROVE  Rising(Append(s, e))
<1>1. /\ Len(Append(s, e)) = Len(s) + 1
      /\ \A i \in 1..Len(s) : Append(s, e)[i] = s[i]
      /\ Append(s, e)[Len(s) + 1] = e
  BY PushLemma
<1>2. Len(s) \in Nat
  BY LenProperties
<1> SUFFICES ASSUME NEW i \in 1..Len(s)
             PROVE  \/ Level(Append(s, e)[i + 1].op) < Level(Append(s, e)[i].op)
                    \/ Append(s, e)[i].op \in Unary /\ Append(s, e)[i + 1].op \in Unary
  BY <1>1, <1>2 DEF Rising
<1>3. CASE i = Len(s)
  <2>1. s # <<>>
    BY <1>2, <1>3
  <2>2. Append(s, e)[i] = Top(s) /\ Append(s, e)[i + 1] = e
    BY <1>1, <1>3 DEF Top
  <2> QED
    BY <2>1, <2>2
<1>4. CASE i # Len(s)
  <2>1. i \in 1..Len(s) - 1 /\ i + 1 \in 1..Len(s)
    BY <1>2, <1>4
  <2>2. Append(s, e)[i] = s[i] /\ Append(s, e)[i + 1] = s[i + 1]
    BY <1>1, <2>1
  <2> QED
    BY <2>1, <2>2 DEF Rising
<1> QED
  BY <1>3, <1>4

LEMMA RiseEmpty == Rising(<<>>)
BY DEF Rising

\* The actions that leave the frames alone and do nothing to the stack but pop it.
LEMMA RiseSame ==
  ASSUME TypeInv, OperatorStacksRise, UNCHANGED callers,
         \/ UNCHANGED operator_stack
         \/ operator_stack # <<>> /\ operator_stack' = Pop(operator_stack)
  PROVE  OperatorStacksRise'
<1>1. Rising(operator_stack')
  BY RisePop DEF OperatorStacksRise, TypeInv, TypeOK
<1> QED
  BY <1>1 DEF OperatorStacksRise, Rising

LEMMA RiseBinary ==
  ASSUME TypeInv, OperatorStacksRise, PushBinary
  PROVE  OperatorStacksRise'
<1>1. operator_stack \in Seq(OperatorEntry) /\ Rising(operator_stack)
  BY DEF TypeInv, TypeOK, OperatorStacksRise
<1>2. op1 \in OperatorEntry /\ op1.op \in Binary
  <2>1. consumed # <<>> /\ Top(consumed) \in Binary
    BY DEF PushBinary, TypeInv, Shape
  <2>2. Len(consumed) \in Nat
    BY LenProperties DEF TypeInv, TypeOK
  <2> QED
    BY <2>1, <2>2 DEF op1, OperatorEntry, Operators
<1>3. operator_stack # <<>> => Level(op1.op) < Level(Top(operator_stack).op)
  <2> SUFFICES ASSUME operator_stack # <<>>
               PROVE  Level(op1.op) < Level(Top(operator_stack).op)
    OBVIOUS
  <2>1. Top(operator_stack).op \in Operators
    <3>1. Top(operator_stack) \in OperatorEntry
      BY <1>1, PopLemma
    <3> QED
      BY <3>1 DEF OperatorEntry
  <2>2. ~ (Level(Top(operator_stack).op) <= Level(op1.op))
    BY DEF PushBinary, MustReduce, BindsFirst
  <2>3. Level(Top(operator_stack).op) \in Nat /\ Level(op1.op) \in Nat
    BY <1>2, <2>1, OperatorLevel DEF Operators
  <2> QED
    BY <2>2, <2>3
<1>4. Rising(operator_stack')
  <2>1. Rising(Append(operator_stack, op1))
    BY <1>1, <1>2, <1>3, RisePush
  <2> QED
    BY <2>1 DEF PushBinary
<1> QED
  BY <1>4 DEF OperatorStacksRise, PushBinary, Rising

LEMMA RiseUnary ==
  ASSUME TypeInv, OperatorStacksRise, ReadUnary
  PROVE  OperatorStacksRise'
<1> DEFINE e == [op |-> it, at |-> Here]
<1>1. operator_stack \in Seq(OperatorEntry) /\ Rising(operator_stack)
  BY DEF TypeInv, TypeOK, OperatorStacksRise
<1>2. e \in OperatorEntry /\ e.op \in Unary
  BY HereLemma DEF ReadUnary, OperatorEntry, Operators, TypeInv
<1> HIDE DEF e
<1>3. operator_stack # <<>> => \/ Level(e.op) < Level(Top(operator_stack).op)
                               \/ Top(operator_stack).op \in Unary /\ e.op \in Unary
  <2> SUFFICES ASSUME operator_stack # <<>>, Top(operator_stack).op \notin Unary
               PROVE  Level(e.op) < Level(Top(operator_stack).op)
    BY <1>2
  <2>1. Top(operator_stack).op \in Binary
    <3>1. Top(operator_stack) \in OperatorEntry
      BY <1>1, PopLemma
    <3> QED
      BY <3>1 DEF OperatorEntry, Operators
  <2> QED
    BY <1>2, <2>1, LevelLemma
<1>4. Rising(Append(operator_stack, e))
  BY <1>1, <1>2, <1>3, RisePush
<1>5. Rising(operator_stack')
  BY <1>4 DEF ReadUnary, e
<1> QED
  BY <1>5 DEF OperatorStacksRise, ReadUnary, Rising

LEMMA RiseEnter ==
  ASSUME TypeInv, OperatorStacksRise, NEW why, Enter(why)
  PROVE  OperatorStacksRise'
<1> DEFINE f == [operands |-> operands, operators |-> operator_stack,
                 why |-> why, held |-> held]
<1>1. callers \in Seq({callers[i] : i \in 1..Len(callers)} \cup {f})
  <2>1. callers \in Seq(Frame)
    BY DEF TypeInv, TypeOK
  <2> HIDE DEF f
  <2> QED
    BY <2>1, LenProperties, IsASeq
<1>2. callers' = Append(callers, f) /\ f.operators = operator_stack
  BY DEF Enter
<1> HIDE DEF f
<1>3. /\ Len(callers') = Len(callers) + 1
      /\ \A i \in 1..Len(callers) : callers'[i] = callers[i]
      /\ callers'[Len(callers) + 1] = f
      /\ Len(callers) \in Nat
  BY <1>1, <1>2, PushLemma, LenProperties
<1>4. \A i \in 1..Len(callers') : Rising(callers'[i].operators)
  BY <1>2, <1>3 DEF OperatorStacksRise
<1>5. Rising(operator_stack')
  BY RiseEmpty DEF Enter
<1> QED
  BY <1>4, <1>5 DEF OperatorStacksRise, Rising

LEMMA RiseResume ==
  ASSUME TypeInv, OperatorStacksRise, callers # <<>>,
         NEW stack, NEW h, NEW at, Resume(stack, h, at)
  PROVE  OperatorStacksRise'
<1>1. /\ Len(Pop(callers)) = Len(callers) - 1
      /\ \A i \in 1..(Len(callers) - 1) : Pop(callers)[i] = callers[i]
      /\ Len(callers) \in Nat \ {0}
  BY PopLemma DEF TypeInv, TypeOK
<1>2. Rising(operator_stack')
  BY <1>1 DEF Resume, Top, OperatorStacksRise
<1>3. \A i \in 1..Len(callers') : Rising(callers'[i].operators)
  BY <1>1 DEF Resume, OperatorStacksRise
<1> QED
  BY <1>2, <1>3 DEF OperatorStacksRise, Rising

LEMMA RiseNextArgument ==
  ASSUME TypeInv, OperatorStacksRise, NextArgument
  PROVE  OperatorStacksRise'
<1>1. \A i \in 1..Len(callers) : callers'[i].operators = callers[i].operators
  <2>1. \A i \in 1..Len(callers) : callers[i] \in Frame /\ i \in DOMAIN callers
    BY ElementOfSeq, LenProperties DEF TypeInv, TypeOK
  <2> QED
    BY <2>1 DEF NextArgument, Frame
<1>2. Len(callers') = Len(callers)
  BY ArgumentLemma
<1>3. \A i \in 1..Len(callers') : Rising(callers'[i].operators)
  BY <1>1, <1>2 DEF OperatorStacksRise
<1>4. Rising(operator_stack')
  BY DEF NextArgument, OperatorStacksRise
<1> QED
  BY <1>3, <1>4 DEF OperatorStacksRise, Rising

LEMMA RiseStep == TypeInv /\ OperatorStacksRise /\ [Next]_vars => OperatorStacksRise'
<1> SUFFICES ASSUME TypeInv, OperatorStacksRise, [Next]_vars PROVE OperatorStacksRise'
  OBVIOUS
<1>1. CASE ReadBinary \/ RejectOperator \/ Underflow \/ ReadPostFix \/ RejectPostFix
           \/ EndIteration \/ RejectNegative \/ ReadVariable \/ BuildIndexAccess
           \/ EndTarget \/ ReadRotate \/ RejectRotate \/ Stop \/ RejectExpression
           \/ Return \/ RejectClose \/ UNCHANGED vars
  BY <1>1, RiseSame
     DEF ReadBinary, RejectOperator, Underflow, ReadPostFix, RejectPostFix, EndIteration,
         RejectNegative, ReadVariable, BuildIndexAccess, EndTarget, ReadRotate, RejectRotate,
         Stop, RejectExpression, Return, RejectClose, Throw, vars
<1>2. CASE Reduce \/ CleanUp \/ ApplyUnary \/ ReadLiteral
  BY <1>2, RiseSame
     DEF Reduce, CleanUp, ApplyUnary, ReadLiteral, Combine, MustReduce, UnaryReady, Negative
<1>3. CASE PushBinary
  BY <1>3, RiseBinary
<1>4. CASE ReadUnary
  BY <1>4, RiseUnary
<1>5. CASE OpenBracket \/ OpenRotate
  BY <1>5, RiseEnter DEF OpenBracket, OpenRotate
<1>6. CASE CloseRound \/ CloseSquare \/ CloseGroup
  BY <1>6, RiseResume DEF CloseRound, CloseSquare, CloseGroup, Returning
<1>7. CASE NextArgument
  BY <1>7, RiseNextArgument
<1> QED
  BY <1>1, <1>2, <1>3, <1>4, <1>5, <1>6, <1>7 DEF Next, Step, Finished

\* Whatever the text, every operator stack binds tighter towards its top, in
\* the active call and in every suspended one: the cleanup may combine from the
\* top without comparing precedences.
THEOREM StacksRise == Spec => []OperatorStacksRise
<1>1. Init => OperatorStacksRise
  BY EmptySeq, RiseEmpty DEF Init, OperatorStacksRise
<1>2. TypeInv /\ OperatorStacksRise /\ [Next]_vars => TypeInv' /\ OperatorStacksRise'
  BY TypeStep, RiseStep
<1> QED
  BY <1>1, <1>2, TypeInit, PTL DEF Spec

---------------------------------------------------------------------------
(* The operand stack does not run dry.                                     *)

\* Every operator read so far follows a finished operand.
NoneLacks == \A i \in 1..Len(consumed) : ~LacksLeftOperand(i)

\* The token behind the iterator finishes an operand.
AfterOperand == /\ consumed # <<>>
                /\ Top(consumed) \notin Operators \cup {"(", "[", "{", ","}

AllBinary(ops) == \A i \in 1..Len(ops) : ops[i].op \in Binary

\* Binary operators that wait for their right operand, with at least one
\* operand each.
Supplied(ops, args) == Len(ops) <= Len(args) /\ AllBinary(ops)

\* One operand more than operators after an operand and before a reduction; a
\* unary operator is on the stack only right after it was read, and has an
\* operand to be applied to.
SuppliedHere ==
  /\ pc \in {"loop", "target", "rotate", "reduce"} => Supplied(operator_stack, operands)
  /\ pc \in {"loop", "apply"} /\ AfterOperand => Len(operator_stack) < Len(operands)
  /\ pc = "reduce" => Len(operator_stack) < Len(operands)
  /\ pc = "apply" => /\ Len(operator_stack) <= Len(operands)
                     /\ \A i \in 1..Len(operator_stack) - 1 : operator_stack[i].op \in Binary
  /\ pc # "undefined"

SuppliedBelow ==
  \A f \in 1..Len(callers) : Supplied(callers[f].operators, callers[f].operands)

Enough == /\ pc = "return" => operator_stack = <<>>
          /\ NoneLacks => SuppliedHere /\ SuppliedBelow

\* What was read stays read.
LEMMA TextLemma ==
  ASSUME TypeInv, Advance \/ Stay, NoneLacks'
  PROVE  NoneLacks
<1>1. CASE Stay
  BY <1>1 DEF Stay, NoneLacks, LacksLeftOperand
<1>2. CASE Advance
  <2>1. /\ consumed \in Seq(AllTokens) /\ it \in AllTokens /\ consumed' = Append(consumed, it)
        /\ Len(consumed) \in Nat
    BY <1>2, LenProperties DEF Advance, TypeInv, TypeOK
  <2>2. /\ Len(consumed') = Len(consumed) + 1
        /\ \A i \in 1..Len(consumed) : consumed'[i] = consumed[i]
    BY <2>1, PushLemma
  <2> SUFFICES ASSUME NEW i \in 1..Len(consumed)
               PROVE  ~LacksLeftOperand(i)
    BY DEF NoneLacks
  <2>3. i \in 1..Len(consumed')
    BY <2>1, <2>2
  <2>4. ~ (/\ consumed'[i] \in Operators
           /\ \/ i = 1
              \/ consumed'[i - 1] \in Operators \cup {"(", "[", "{", ","})
    BY <2>3 DEF NoneLacks, LacksLeftOperand
  <2>5. consumed'[i] = consumed[i] /\ (i # 1 => consumed'[i - 1] = consumed[i - 1])
    BY <2>1, <2>2
  <2> QED
    BY <2>4, <2>5 DEF LacksLeftOperand
<1> QED
  BY <1>1, <1>2

\* An operator that was just read and lacks nothing follows an operand.
LEMMA AfterLemma ==
  ASSUME TypeInv, Advance
  PROVE  /\ NoneLacks' /\ it \in Operators => AfterOperand
         /\ AfterOperand' <=> it \notin Operators \cup {"(", "[", "{", ","}
<1>1. /\ consumed \in Seq(AllTokens) /\ it \in AllTokens /\ consumed' = Append(consumed, it)
      /\ Len(consumed) \in Nat
  BY LenProperties DEF Advance, TypeInv, TypeOK
<1>2. /\ Len(consumed') = Len(consumed) + 1 /\ consumed' # <<>> /\ Top(consumed') = it
      /\ consumed'[Len(consumed) + 1] = it
      /\ \A i \in 1..Len(consumed) : consumed'[i] = consumed[i]
  BY <1>1, PushLemma
<1>3. NoneLacks' /\ it \in Operators => AfterOperand
  <2> SUFFICES ASSUME NoneLacks', it \in Operators PROVE AfterOperand
    OBVIOUS
  <2>1. Len(consumed) + 1 \in 1..Len(consumed') /\ (Len(consumed) + 1) - 1 = Len(consumed)
    BY <1>1, <1>2
  <2>2. \A i \in 1..Len(consumed') :
           ~ (/\ consumed'[i] \in Operators
              /\ \/ i = 1
                 \/ consumed'[i - 1] \in Operators \cup {"(", "[", "{", ","})
    BY DEF NoneLacks, LacksLeftOperand
  <2>3. consumed'[Len(consumed)] \notin Operators \cup {"(", "[", "{", ","}
    BY <1>2, <2>1, <2>2
  <2>4. Len(consumed) \in 1..Len(consumed) /\ consumed # <<>>
    <3>1. Len(consumed) + 1 # 1
      BY <1>2, <2>1, <2>2
    <3>2. Len(consumed) \in Nat
      BY <1>1
    <3>3. Len(consumed) # 0 /\ consumed # <<>>
      BY <3>1, <3>2
    <3> QED
      BY <3>2, <3>3
  <2>5. consumed'[Len(consumed)] = consumed[Len(consumed)]
    BY <1>2, <2>4
  <2> QED
    BY <2>3, <2>4, <2>5 DEF AfterOperand, Top
<1>4. AfterOperand' <=> it \notin Operators \cup {"(", "[", "{", ","}
  <2>1. AfterOperand' <=> Top(consumed') \notin Operators \cup {"(", "[", "{", ","}
    BY <1>2 DEF AfterOperand, Top
  <2> QED
    BY <1>2, <2>1
<1> QED
  BY <1>3, <1>4

\* Taking the topmost operator away.
LEMMA BinaryPop ==
  ASSUME NEW s \in Seq(OperatorEntry), s # <<>>,
         \A i \in 1..Len(s) - 1 : s[i].op \in Binary
  PROVE  AllBinary(Pop(s)) /\ Len(Pop(s)) = Len(s) - 1 /\ Len(s) \in Nat \ {0}
BY PopLemma DEF AllBinary

LEMMA BinaryPush ==
  ASSUME NEW s \in Seq(OperatorEntry), AllBinary(s), NEW e \in OperatorEntry
  PROVE  /\ Len(Append(s, e)) = Len(s) + 1
         /\ \A i \in 1..Len(Append(s, e)) - 1 : Append(s, e)[i].op \in Binary
         /\ e.op \in Binary => AllBinary(Append(s, e))
<1>1. Len(s) \in Nat
  BY LenProperties
<1> QED
  BY <1>1, PushLemma DEF AllBinary

\* The actions that leave the frames alone.
LEMMA BelowSame == ASSUME SuppliedBelow, UNCHANGED callers PROVE SuppliedBelow'
BY DEF SuppliedBelow, Supplied, AllBinary

\* Combining the two topmost operands uses one operator up.
LEMMA CombineSupplied ==
  ASSUME TypeInv, Combine, operator_stack # <<>>, Len(operands) >= 2,
         Supplied(operator_stack, operands)
  PROVE  /\ Supplied(operator_stack', operands')
         /\ Len(operator_stack) < Len(operands) => Len(operator_stack') < Len(operands')
<1>1. /\ operator_stack \in Seq(OperatorEntry) /\ operands \in Seq(NodeIds)
      /\ Len(operator_stack) \in Nat /\ Len(operands) \in Nat
  BY LenProperties DEF TypeInv, TypeOK
<1>2. AllBinary(operator_stack') /\ Len(operator_stack') = Len(operator_stack) - 1
  BY <1>1, BinaryPop DEF Combine, Supplied, AllBinary
<1>3. Len(operands') = Len(operands) - 1
  <2>1. Len(operands) - 2 \in Nat /\ Len(operands) - 2 <= Len(operands)
    BY <1>1
  <2>2. /\ SubSeq(operands, 1, Len(operands) - 2) \in Seq(NodeIds)
        /\ Len(SubSeq(operands, 1, Len(operands) - 2)) = Len(operands) - 2
    BY <1>1, <2>1, PrefixLemma
  <2>3. Len(Append(SubSeq(operands, 1, Len(operands) - 2), Fresh)) = Len(operands) - 1
    BY <1>1, <2>2
  <2> QED
    BY <2>3 DEF Combine
<1> QED
  BY <1>1, <1>2, <1>3 DEF Supplied

LEMMA EnoughBinary ==
  ASSUME TypeInv, Enough, ReadBinary \/ RejectOperator \/ Reduce \/ Underflow \/ PushBinary
  PROVE  Enough'
<1>a. pc' # "return"
  BY DEF ReadBinary, RejectOperator, Reduce, Underflow, PushBinary, Throw
<1> SUFFICES ASSUME NoneLacks' PROVE SuppliedHere' /\ SuppliedBelow'
  BY <1>a DEF Enough
<1>b. NoneLacks
  BY TextLemma DEF ReadBinary, RejectOperator, Reduce, Underflow, PushBinary
<1>c. SuppliedHere /\ SuppliedBelow
  BY <1>b DEF Enough
<1>d. SuppliedBelow'
  BY <1>c, BelowSame DEF ReadBinary, RejectOperator, Reduce, Underflow, PushBinary, Throw
<1>1. CASE ReadBinary
  <2>1. AfterOperand
    BY <1>1, AfterLemma DEF ReadBinary, Operators
  <2> QED
    BY <1>1, <1>c, <1>d, <2>1 DEF ReadBinary, SuppliedHere, Supplied, AllBinary
<1>2. CASE RejectOperator
  BY <1>2, <1>d DEF RejectOperator, Throw, SuppliedHere
<1>3. CASE Reduce
  <2>1. Supplied(operator_stack, operands) /\ Len(operator_stack) < Len(operands)
    BY <1>3, <1>c DEF Reduce, SuppliedHere
  <2>2. Supplied(operator_stack', operands') /\ Len(operator_stack') < Len(operands')
    BY <1>3, <2>1, CombineSupplied DEF Reduce, MustReduce
  <2> QED
    BY <1>3, <1>d, <2>2 DEF Reduce, SuppliedHere, Supplied, AllBinary
<1>4. CASE Underflow
  <2>1. Len(operator_stack) < Len(operands) /\ Len(operands) < 2 /\ operator_stack # <<>>
    BY <1>4, <1>c DEF Underflow, MustReduce, SuppliedHere
  <2>2. Len(operator_stack) \in Nat \ {0} /\ Len(operands) \in Nat
    BY <2>1, EmptySeq, LenProperties DEF TypeInv, TypeOK
  <2> QED
    BY <2>1, <2>2
<1>5. CASE PushBinary
  <2>1. op1 \in OperatorEntry /\ op1.op \in Binary
    <3>1. consumed # <<>> /\ Top(consumed) \in Binary
      BY <1>5 DEF PushBinary, TypeInv, Shape
    <3>2. Len(consumed) \in Nat
      BY LenProperties DEF TypeInv, TypeOK
    <3> QED
      BY <3>1, <3>2 DEF op1, OperatorEntry, Operators
  <2>2. /\ operator_stack \in Seq(OperatorEntry) /\ AllBinary(operator_stack)
        /\ Len(operator_stack) < Len(operands)
        /\ Len(operator_stack) \in Nat /\ Len(operands) \in Nat
    BY <1>5, <1>c, LenProperties DEF PushBinary, SuppliedHere, Supplied, TypeInv, TypeOK
  <2>3. operator_stack' = Append(operator_stack, op1) /\ pc' = "apply" /\ operands' = operands
    BY <1>5 DEF PushBinary
  <2>4. /\ Len(operator_stack') = Len(operator_stack) + 1
        /\ \A i \in 1..Len(operator_stack') - 1 : operator_stack'[i].op \in Binary
    BY <2>1, <2>2, <2>3, BinaryPush
  <2>5. ~AfterOperand'
    BY <1>5 DEF PushBinary, TypeInv, Shape, AfterOperand, Stay, Operators, Top
  <2> QED
    BY <1>d, <2>2, <2>3, <2>4, <2>5 DEF SuppliedHere
<1> QED
  BY <1>1, <1>2, <1>3, <1>4, <1>5

LEMMA EnoughUnary ==
  ASSUME TypeInv, Enough,
         ReadUnary \/ ReadPostFix \/ RejectPostFix \/ ApplyUnary \/ EndIteration
  PROVE  Enough'
<1>a. pc' # "return"
  BY DEF ReadUnary, ReadPostFix, RejectPostFix, ApplyUnary, EndIteration, Throw, AfterIteration
<1> SUFFICES ASSUME NoneLacks' PROVE SuppliedHere' /\ SuppliedBelow'
  BY <1>a DEF Enough
<1>b. NoneLacks
  BY TextLemma DEF ReadUnary, ReadPostFix, RejectPostFix, ApplyUnary, EndIteration
<1>c. SuppliedHere /\ SuppliedBelow
  BY <1>b DEF Enough
<1>d. SuppliedBelow'
  BY <1>c, BelowSame DEF ReadUnary, ReadPostFix, RejectPostFix, ApplyUnary, EndIteration, Throw
<1>e. /\ operator_stack \in Seq(OperatorEntry) /\ operands \in Seq(NodeIds)
      /\ Len(operator_stack) \in Nat /\ Len(operands) \in Nat
  BY LenProperties DEF TypeInv, TypeOK
<1>f. operands # <<>> => /\ Len(operands) \in Nat \ {0} /\ Pop(operands) \in Seq(NodeIds)
                         /\ Len(Pop(operands)) = Len(operands) - 1
  BY <1>e, PopLemma
<1>g. \A s \in Seq(NodeIds) : \A e : Len(Append(s, e)) = Len(s) + 1
  OBVIOUS
<1>1. CASE ReadUnary
  <2>1. AfterOperand /\ ~AfterOperand'
    BY <1>1, AfterLemma DEF ReadUnary, Operators
  <2>2. [op |-> it, at |-> Here] \in OperatorEntry
    BY <1>1, HereLemma DEF ReadUnary, OperatorEntry, Operators, TypeInv
  <2>3. /\ Len(operator_stack') = Len(operator_stack) + 1
        /\ \A i \in 1..Len(operator_stack') - 1 : operator_stack'[i].op \in Binary
    BY <1>1, <1>c, <1>e, <2>2, BinaryPush DEF ReadUnary, SuppliedHere, Supplied
  <2> QED
    BY <1>1, <1>c, <1>d, <1>e, <2>1, <2>3 DEF ReadUnary, SuppliedHere
<1>2. CASE ReadPostFix
  <2>1. Len(operands') = Len(operands)
    <3>1. operands' = Append(Pop(operands), Fresh + 1) /\ operands # <<>>
      BY <1>2 DEF ReadPostFix
    <3> QED
      BY <1>f, <1>g, <3>1
  <2>2. /\ pc = "loop" /\ pc' = "apply" /\ operator_stack' = operator_stack
        /\ AfterOperand' = AfterOperand
    BY <1>2 DEF ReadPostFix, AfterOperand, Stay
  <2> QED
    BY <1>c, <1>d, <1>e, <2>1, <2>2 DEF SuppliedHere, Supplied, AllBinary
<1>3. CASE RejectPostFix
  BY <1>3, <1>d DEF RejectPostFix, Throw, SuppliedHere
<1>4. CASE ApplyUnary
  <2>1. /\ operands' = Append(Pop(operands), Fresh) /\ operands # <<>>
        /\ operator_stack' = Pop(operator_stack) /\ operator_stack # <<>>
        /\ pc' \in {"loop", "cleanup"} /\ (pc' = "loop" => pc = "apply")
    BY <1>4 DEF ApplyUnary, UnaryReady, AfterIteration, IterationEnd
  <2>2. Len(operands') = Len(operands)
    BY <1>f, <1>g, <2>1
  <2>3. CASE pc = "apply"
    <3>1. /\ Len(operator_stack) <= Len(operands)
          /\ \A i \in 1..Len(operator_stack) - 1 : operator_stack[i].op \in Binary
      BY <1>c, <2>3 DEF SuppliedHere
    <3>2. AllBinary(operator_stack') /\ Len(operator_stack') = Len(operator_stack) - 1
      BY <1>e, <2>1, <3>1, BinaryPop
    <3> QED
      BY <1>d, <1>e, <2>1, <2>2, <3>1, <3>2 DEF SuppliedHere, Supplied
  <2>4. CASE pc # "apply"
    BY <1>d, <2>1, <2>4 DEF SuppliedHere
  <2> QED
    BY <2>3, <2>4
<1>5. CASE EndIteration
  <2>1. /\ UNCHANGED <<operands, operator_stack>> /\ ~UnaryReady /\ AfterOperand' = AfterOperand
        /\ pc' \in {"loop", "cleanup"} /\ (pc' = "loop" => pc = "apply")
    BY <1>5 DEF EndIteration, AfterIteration, IterationEnd, AfterOperand, Stay
  <2>2. CASE pc = "apply"
    <3>1. /\ Len(operator_stack) <= Len(operands)
          /\ \A i \in 1..Len(operator_stack) - 1 : operator_stack[i].op \in Binary
          /\ AfterOperand => Len(operator_stack) < Len(operands)
      BY <1>c, <2>2 DEF SuppliedHere
    <3>2. AllBinary(operator_stack)
      <4>1. CASE operator_stack = <<>>
        BY <4>1 DEF AllBinary
      <4>2. CASE operator_stack # <<>>
        <5>1. Len(operator_stack) \in Nat \ {0} /\ Top(operator_stack) \in OperatorEntry
          BY <1>e, <4>2, PopLemma
        <5>2. operands # <<>>
          BY <1>e, <3>1, <5>1
        <5>3. Top(operator_stack).op \notin Unary
          BY <2>1, <4>2, <5>2 DEF UnaryReady
        <5>4. operator_stack[Len(operator_stack)].op \in Binary
          BY <5>1, <5>3 DEF OperatorEntry, Operators, Top
        <5> QED
          BY <3>1, <5>1, <5>4 DEF AllBinary
      <4> QED
        BY <4>1, <4>2
    <3> QED
      BY <1>d, <2>1, <3>1, <3>2 DEF SuppliedHere, Supplied, AllBinary
  <2>3. CASE pc # "apply"
    BY <1>d, <2>1, <2>3 DEF SuppliedHere
  <2> QED
    BY <2>2, <2>3
<1> QED
  BY <1>1, <1>2, <1>3, <1>4, <1>5

LEMMA EnoughOperand ==
  ASSUME TypeInv, Enough,
         ReadLiteral \/ RejectNegative \/ ReadVariable \/ BuildIndexAccess \/ EndTarget
  PROVE  Enough'
<1>a. pc' # "return"
  BY DEF ReadLiteral, RejectNegative, ReadVariable, BuildIndexAccess, EndTarget, Throw
<1> SUFFICES ASSUME NoneLacks' PROVE SuppliedHere' /\ SuppliedBelow'
  BY <1>a DEF Enough
<1>b. NoneLacks
  BY TextLemma DEF ReadLiteral, RejectNegative, ReadVariable, BuildIndexAccess, EndTarget
<1>c. SuppliedHere /\ SuppliedBelow
  BY <1>b DEF Enough
<1>d. SuppliedBelow'
  BY <1>c, BelowSame
     DEF ReadLiteral, RejectNegative, ReadVariable, BuildIndexAccess, EndTarget, Throw
<1>e. /\ operator_stack \in Seq(OperatorEntry) /\ operands \in Seq(NodeIds)
      /\ Len(operator_stack) \in Nat /\ Len(operands) \in Nat
  BY LenProperties DEF TypeInv, TypeOK
<1>g. \A e : Len(Append(operands, e)) = Len(operands) + 1
  BY <1>e
\* A minus sign that lacks nothing has an operand in front of it.
<1>n. pc = "loop" => ~Negative
  <2> SUFFICES ASSUME pc = "loop", Negative PROVE FALSE
    OBVIOUS
  <2>1. Len(operator_stack) <= Len(operands) /\ operator_stack # <<>> /\ operands = <<>>
    BY <1>c DEF SuppliedHere, Supplied, Negative
  <2>2. Len(operator_stack) \in Nat \ {0} /\ Len(operands) = 0
    BY <1>e, <2>1
  <2> QED
    BY <2>1, <2>2
<1>1. CASE ReadLiteral
  <2>1. Len(operands') = Len(operands) + 1 /\ operator_stack' = operator_stack
        /\ pc' = "apply" /\ pc = "loop"
    BY <1>1, <1>g, <1>n DEF ReadLiteral
  <2> QED
    BY <1>c, <1>d, <1>e, <2>1 DEF SuppliedHere, Supplied, AllBinary
<1>2. CASE RejectNegative
  BY <1>2, <1>d DEF RejectNegative, Throw, SuppliedHere
<1>3. CASE ReadVariable
  BY <1>3, <1>c, <1>d DEF ReadVariable, SuppliedHere, Supplied, AllBinary
<1>4. CASE BuildIndexAccess
  BY <1>4, <1>c, <1>d DEF BuildIndexAccess, SuppliedHere, Supplied, AllBinary
<1>5. CASE EndTarget
  <2>1. Len(operands') = Len(operands) + 1 /\ operator_stack' = operator_stack
        /\ pc' = "apply" /\ pc = "target"
    BY <1>5, <1>g DEF EndTarget
  <2> QED
    BY <1>c, <1>d, <1>e, <2>1 DEF SuppliedHere, Supplied, AllBinary
<1> QED
  BY <1>1, <1>2, <1>3, <1>4, <1>5

\* A suspended call leaves its stacks as they were.
LEMMA EnoughEnter ==
  ASSUME TypeInv, SuppliedHere, SuppliedBelow, pc \in {"loop", "target", "rotate"},
         NEW why, Enter(why), ~AfterOperand'
  PROVE  SuppliedHere' /\ SuppliedBelow'
<1> DEFINE f == [operands |-> operands, operators |-> operator_stack,
                 why |-> why, held |-> held]
<1>1. Supplied(f.operators, f.operands)
  BY DEF SuppliedHere
<1>2. callers' = Append(callers, f)
  BY DEF Enter
<1> HIDE DEF f
<1>3. /\ Len(callers') = Len(callers) + 1 /\ Len(callers) \in Nat
      /\ \A i \in 1..Len(callers) : callers'[i] = callers[i]
      /\ callers'[Len(callers) + 1] = f
  <2>1. callers \in Seq(Frame)
    BY DEF TypeInv, TypeOK
  <2> QED
    BY <1>2, <2>1, LenProperties
<1>4. SuppliedBelow'
  <2> SUFFICES ASSUME NEW d \in 1..Len(callers')
               PROVE  Supplied(callers'[d].operators, callers'[d].operands)
    BY DEF SuppliedBelow, Supplied, AllBinary
  <2>1. CASE d \in 1..Len(callers)
    BY <1>3, <2>1 DEF SuppliedBelow
  <2>2. CASE d = Len(callers) + 1
    BY <1>1, <1>3, <2>2
  <2> QED
    BY <1>3, <2>1, <2>2
<1>5. SuppliedHere'
  BY DEF Enter, SuppliedHere, Supplied, AllBinary
<1> QED
  BY <1>4, <1>5

LEMMA EnoughOpen ==
  ASSUME TypeInv, Enough, OpenBracket \/ ReadRotate \/ OpenRotate \/ RejectRotate
  PROVE  Enough'
<1>a. pc' # "return"
  BY DEF OpenBracket, ReadRotate, OpenRotate, RejectRotate, Enter, Throw
<1> SUFFICES ASSUME NoneLacks' PROVE SuppliedHere' /\ SuppliedBelow'
  BY <1>a DEF Enough
<1>b. NoneLacks
  BY TextLemma DEF OpenBracket, ReadRotate, OpenRotate, RejectRotate
<1>c. SuppliedHere /\ SuppliedBelow
  BY <1>b DEF Enough
<1>1. CASE OpenBracket
  <2>1. ~AfterOperand'
    BY <1>1, AfterLemma DEF OpenBracket
  <2> QED
    BY <1>1, <1>c, <2>1, EnoughEnter DEF OpenBracket
<1>2. CASE ReadRotate
  <2>1. SuppliedBelow'
    BY <1>2, <1>c, BelowSame DEF ReadRotate
  <2> QED
    BY <1>2, <1>c, <2>1 DEF ReadRotate, SuppliedHere, Supplied, AllBinary
<1>3. CASE OpenRotate
  <2>1. ~AfterOperand'
    BY <1>3, AfterLemma DEF OpenRotate
  <2> QED
    BY <1>3, <1>c, <2>1, EnoughEnter DEF OpenRotate
<1>4. CASE RejectRotate
  <2>1. SuppliedBelow'
    BY <1>4, <1>c, BelowSame DEF RejectRotate, Throw
  <2> QED
    BY <1>4, <2>1 DEF RejectRotate, Throw, SuppliedHere
<1> QED
  BY <1>1, <1>2, <1>3, <1>4

LEMMA EnoughEnd ==
  ASSUME TypeInv, Enough, Stop \/ CleanUp \/ RejectExpression \/ Return
  PROVE  Enough'
<1>a. pc' = "return" => operator_stack' = <<>>
  BY DEF Stop, CleanUp, RejectExpression, Return, Throw
<1> SUFFICES ASSUME NoneLacks' PROVE SuppliedHere' /\ SuppliedBelow'
  BY <1>a DEF Enough
<1>b. NoneLacks
  BY TextLemma DEF Stop, CleanUp, RejectExpression, Return
<1>c. SuppliedBelow
  BY <1>b DEF Enough
<1>d. SuppliedBelow'
  BY <1>c, BelowSame DEF Stop, CleanUp, RejectExpression, Return, Throw
<1>e. pc' \in {"apply_last", "cleanup", "threw", "return"}
  BY DEF Stop, CleanUp, RejectExpression, Return, Throw
<1> QED
  BY <1>d, <1>e DEF SuppliedHere

\* A call returns: the stacks of its caller come back, with an operand more or
\* with a target that is not finished.
LEMMA EnoughResume ==
  ASSUME TypeInv, SuppliedBelow, pc = "return", callers # <<>>,
         NEW stack, NEW h, NEW at \in {"apply", "target"}, Resume(stack, h, at),
         Len(stack) \in Nat,
         Len(stack) >= Len(Top(callers).operands),
         at = "apply" => Len(stack) > Len(Top(callers).operands)
  PROVE  SuppliedHere' /\ SuppliedBelow'
<1>1. /\ Len(Pop(callers)) = Len(callers) - 1
      /\ \A i \in 1..(Len(callers) - 1) : Pop(callers)[i] = callers[i]
      /\ Len(callers) \in Nat \ {0}
  BY PopLemma DEF TypeInv, TypeOK
<1>2. Supplied(Top(callers).operators, Top(callers).operands)
  BY <1>1 DEF Top, SuppliedBelow
<1>3. SuppliedBelow'
  <2>1. callers' = Pop(callers)
    BY DEF Resume
  <2>2. \A i \in 1..Len(callers') : callers'[i] = callers[i] /\ i \in 1..Len(callers)
    BY <1>1, <2>1
  <2> QED
    BY <2>2 DEF SuppliedBelow, Supplied, AllBinary
<1>4. Len(Top(callers).operators) \in Nat /\ Len(Top(callers).operands) \in Nat
  BY CallerLemma, LenProperties
<1>5. Len(operator_stack') <= Len(operands') /\ AllBinary(operator_stack')
      /\ (at = "apply" => Len(operator_stack') < Len(operands'))
      /\ Len(operator_stack') \in Nat
  BY <1>2, <1>4 DEF Resume, Supplied
<1>6. SuppliedHere'
  BY <1>5 DEF Resume, SuppliedHere, Supplied, AllBinary
<1> QED
  BY <1>3, <1>6

LEMMA EnoughClose ==
  ASSUME TypeInv, Enough,
         CloseRound \/ CloseSquare \/ NextArgument \/ CloseGroup \/ RejectClose
  PROVE  Enough'
<1>a. pc' # "return"
  BY DEF CloseRound, CloseSquare, NextArgument, CloseGroup, RejectClose, Resume, Throw
<1> SUFFICES ASSUME NoneLacks' PROVE SuppliedHere' /\ SuppliedBelow'
  BY <1>a DEF Enough
<1>b. NoneLacks
  BY TextLemma DEF CloseRound, CloseSquare, NextArgument, CloseGroup, RejectClose
<1>c. SuppliedBelow /\ pc = "return" /\ callers # <<>> /\ operator_stack = <<>>
  BY <1>b DEF Enough, CloseRound, CloseSquare, NextArgument, CloseGroup, RejectClose, Returning
<1>d. /\ Top(callers).operands \in Seq(NodeIds) /\ Len(Top(callers).operands) \in Nat
      /\ \A e : Len(Append(Top(callers).operands, e)) = Len(Top(callers).operands) + 1
  BY <1>c, CallerLemma, LenProperties
\* The caller gets an operand.
<1>g. ASSUME NEW e, NEW h, Resume(Append(Top(callers).operands, e), h, "apply")
      PROVE  SuppliedHere' /\ SuppliedBelow'
  <2> DEFINE s == Append(Top(callers).operands, e)
  <2>1. Len(s) = Len(Top(callers).operands) + 1
    BY <1>d
  <2>2. Resume(s, h, "apply")
    BY <1>g
  <2> HIDE DEF s
  <2>3. Len(s) \in Nat /\ Len(s) >= Len(Top(callers).operands)
        /\ Len(s) > Len(Top(callers).operands)
    BY <1>d, <2>1
  <2> QED
    BY <1>c, <2>2, <2>3, EnoughResume
<1>1. CASE CloseRound
  BY <1>1, <1>g DEF CloseRound
<1>2. CASE CloseSquare
  BY <1>2, <1>c, <1>d, EnoughResume DEF CloseSquare
<1>3. CASE NextArgument
  <2>1. \A i \in 1..Len(callers) : /\ callers'[i].operators = callers[i].operators
                                   /\ callers'[i].operands = callers[i].operands
    <3>1. \A i \in 1..Len(callers) : callers[i] \in Frame /\ i \in DOMAIN callers
      BY ElementOfSeq, LenProperties DEF TypeInv, TypeOK
    <3> QED
      BY <1>3, <3>1 DEF NextArgument, Frame
  <2>2. Len(callers') = Len(callers)
    BY <1>3, ArgumentLemma
  <2>3. SuppliedBelow'
    BY <1>c, <2>1, <2>2 DEF SuppliedBelow, Supplied, AllBinary
  <2>4. ~AfterOperand' /\ operator_stack' = <<>> /\ operands' = <<>> /\ pc' = "loop"
    BY <1>3, <1>c, AfterLemma DEF NextArgument
  <2> QED
    BY <2>3, <2>4 DEF SuppliedHere, Supplied, AllBinary
<1>4. CASE CloseGroup
  BY <1>4, <1>g DEF CloseGroup
<1>5. CASE RejectClose
  <2>1. SuppliedBelow'
    BY <1>5, <1>c, BelowSame DEF RejectClose, Throw
  <2> QED
    BY <1>5, <2>1 DEF RejectClose, Throw, SuppliedHere
<1> QED
  BY <1>1, <1>2, <1>3, <1>4, <1>5

LEMMA EnoughStep == TypeInv /\ Enough /\ [Next]_vars => Enough'
<1> SUFFICES ASSUME TypeInv, Enough, [Next]_vars PROVE Enough'
  OBVIOUS
<1>1. CASE Step
  BY <1>1, EnoughBinary, EnoughUnary, EnoughOperand, EnoughOpen, EnoughEnd, EnoughClose DEF Step
<1>2. CASE UNCHANGED vars
  BY <1>2 DEF vars, Enough, NoneLacks, LacksLeftOperand, SuppliedHere, SuppliedBelow,
              Supplied, AllBinary, AfterOperand, Top
<1> QED
  BY <1>1, <1>2 DEF Next, Finished

\* An expression in which every operator follows a finished operand never makes
\* parseExpression take operands it has not got, whatever its length and its
\* nesting: top() and pop() on an empty stack need an operator without a left
\* operand.
THEOREM OperandsSuffice == Spec => []UnderflowNeedsMissingOperand
<1>1. Init => Enough
  <2> SUFFICES ASSUME Init PROVE Enough
    OBVIOUS
  <2>1. ~AfterOperand
    BY DEF Init, AfterOperand
  <2> QED
    BY <2>1 DEF Init, Enough, SuppliedHere, SuppliedBelow, Supplied, AllBinary
<1>2. TypeInv /\ Enough /\ [Next]_vars => TypeInv' /\ Enough'
  BY TypeStep, EnoughStep
<1>3. Enough => UnderflowNeedsMissingOperand
  BY DEF Enough, SuppliedHere, UnderflowNeedsMissingOperand, NoneLacks
<1> QED
  BY <1>1, <1>2, <1>3, TypeInit, PTL DEF Spec

---------------------------------------------------------------------------
(* Who owns the nodes.                                                     *)

\* What may be an owner, at whatever depth of the calls and for any number of
\* nodes.
Holder == {"operands", "held", "node"} \X Nat

\* What every holder has, for suspended calls c, operands o and target t of the
\* active call, and nodes hp; nothing where there is no such owner.
HoldingOf(c, o, t, hp) ==
  [h \in Holder |->
     CASE h[1] = "operands" -> IF h[2] \in 1..Len(c) THEN c[h[2]].operands
                               ELSE IF h[2] = Len(c) + 1 THEN o ELSE <<>>
       [] h[1] = "held"     -> IF h[2] \in 1..Len(c) THEN c[h[2]].held
                               ELSE IF h[2] = Len(c) + 1 THEN t ELSE <<>>
       [] h[1] = "node"     -> IF h[2] \in 1..Len(hp) THEN hp[h[2]].kids ELSE <<>>]
Holding == HoldingOf(callers, operands, held, heap)

\* The inductive invariant.  The target of a call is empty but where parseTarget
\* runs and in a call that is suspended inside its brackets, and a call returns
\* one node; without that a step could drop a node.  Nodes own older ones.  And
\* all that the holders have together is every node, once.
HeldShape ==
  /\ pc \notin {"target", "threw"} => held = <<>>
  /\ \A f \in 1..Len(callers) : callers[f].why = "(" => callers[f].held = <<>>
  /\ pc = "return" => Len(operands) = 1

OwnsOlder(hp) == \A n \in 1..Len(hp) : Range(hp[n].kids) \subseteq 1..(n - 1)

Accounted == /\ HeldShape
             /\ OwnsOlder(heap)
             /\ \/ Owned(Holder, Holding, NodeIds)
                \/ LiteralIsLost /\ Owned(Holder, Holding, NodeIds \ {Len(heap)})

\* Two holdings that differ at one holder at most.
LEMMA OneHolder ==
  ASSUME NEW V, NEW F \in [Holder -> V], NEW W, NEW H \in [Holder -> W],
         NEW x \in Holder, \A h \in Holder : h # x => F[h] = H[h]
  PROVE  F = [H EXCEPT ![x] = F[x]]
<1> DEFINE G == [H EXCEPT ![x] = F[x]]
<1>1. F \in [Holder -> V \cup W] /\ G \in [Holder -> V \cup W]
  OBVIOUS
<1>2. \A h \in Holder : F[h] = G[h]
  OBVIOUS
<1> HIDE DEF G
<1>3. F = G
  BY <1>1, <1>2
<1> QED
  BY <1>3 DEF G

\* Whatever the stacks hold, it can be compared.
LEMMA HoldingIsFunction ==
  ASSUME NEW c, NEW o, NEW t, NEW hp
  PROVE \E V : HoldingOf(c, o, t, hp) \in [Holder -> V]
<1>1. HoldingOf(c, o, t, hp) \in [Holder -> {HoldingOf(c, o, t, hp)[h] : h \in Holder}]
  BY DEF HoldingOf
<1> QED
  BY <1>1

\* Holders are pairs.
LEMMA HolderIsPair ==
  /\ \A h \in Holder : /\ h[1] \in {"operands", "held", "node"} /\ h[2] \in Nat
                       /\ h = <<h[1], h[2]>>
  /\ \A d \in Nat : <<"operands", d>> \in Holder /\ <<"held", d>> \in Holder /\ <<"node", d>> \in Holder
BY DEF Holder

\* Holdings change where the state does: the operands of the active call,
LEMMA HoldOperands ==
  ASSUME NEW c, Len(c) \in Nat, NEW o, NEW t, NEW hp, NEW p
  PROVE  HoldingOf(c, p, t, hp)
           = [HoldingOf(c, o, t, hp) EXCEPT ![<<"operands", Len(c) + 1>>] = p]
<1> DEFINE F == HoldingOf(c, p, t, hp)
           H == HoldingOf(c, o, t, hp)
           x == <<"operands", Len(c) + 1>>
<1>1. PICK V, W : F \in [Holder -> V] /\ H \in [Holder -> W]
  BY HoldingIsFunction
<1>2. x \in Holder
  BY DEF Holder
<1>3. ASSUME NEW h \in Holder, h # x PROVE F[h] = H[h]
  BY <1>3, HolderIsPair DEF HoldingOf
<1>4. F[x] = p
  BY <1>2 DEF HoldingOf
<1> HIDE DEF F, H, x
<1>5. F = [H EXCEPT ![x] = p]
  BY <1>1, <1>2, <1>3, <1>4, OneHolder
<1> QED
  BY <1>5 DEF F, H, x

\* the target of the active call,
LEMMA HoldTarget ==
  ASSUME NEW c, Len(c) \in Nat, NEW o, NEW t, NEW hp, NEW p
  PROVE  HoldingOf(c, o, p, hp)
           = [HoldingOf(c, o, t, hp) EXCEPT ![<<"held", Len(c) + 1>>] = p]
<1> DEFINE F == HoldingOf(c, o, p, hp)
           H == HoldingOf(c, o, t, hp)
           x == <<"held", Len(c) + 1>>
<1>1. PICK V, W : F \in [Holder -> V] /\ H \in [Holder -> W]
  BY HoldingIsFunction
<1>2. x \in Holder
  BY DEF Holder
<1>3. ASSUME NEW h \in Holder, h # x PROVE F[h] = H[h]
  BY <1>3, HolderIsPair DEF HoldingOf
<1>4. F[x] = p
  BY <1>2 DEF HoldingOf
<1> HIDE DEF F, H, x
<1>5. F = [H EXCEPT ![x] = p]
  BY <1>1, <1>2, <1>3, <1>4, OneHolder
<1> QED
  BY <1>5 DEF F, H, x

\* a new node that holds k,
OneMore(hp, hq, k) == /\ Len(hq) = Len(hp) + 1
                      /\ hq[Len(hp) + 1].kids = k
                      /\ \A i \in 1..Len(hp) : hq[i] = hp[i]

LEMMA HoldNode ==
  ASSUME NEW hp, Len(hp) \in Nat, NEW c, NEW o, NEW t,
         NEW hq, NEW k, OneMore(hp, hq, k)
  PROVE  HoldingOf(c, o, t, hq)
           = [HoldingOf(c, o, t, hp) EXCEPT ![<<"node", Len(hp) + 1>>] = k]
<1> USE DEF OneMore
<1> DEFINE F == HoldingOf(c, o, t, hq)
           H == HoldingOf(c, o, t, hp)
           x == <<"node", Len(hp) + 1>>
<1>1. PICK V, W : F \in [Holder -> V] /\ H \in [Holder -> W]
  BY HoldingIsFunction
<1>2. x \in Holder
  BY DEF Holder
<1>3. ASSUME NEW h \in Holder, h # x PROVE F[h] = H[h]
  <2>1. h[1] \in {"operands", "held", "node"} /\ h[2] \in Nat /\ h = <<h[1], h[2]>>
    BY HolderIsPair
  <2>2. h[1] = "node" => h[2] # Len(hp) + 1
    BY <1>3, <2>1
  <2>3. h[2] # Len(hp) + 1 => (h[2] \in 1..Len(hq) <=> h[2] \in 1..Len(hp))
    BY <2>1
  <2>4. h[2] \in 1..Len(hp) => hq[h[2]] = hp[h[2]]
    OBVIOUS
  <2> QED
    BY <2>1, <2>2, <2>3, <2>4 DEF HoldingOf
<1>4. F[x] = k
  BY <1>2 DEF HoldingOf
<1> HIDE DEF F, H, x
<1>5. F = [H EXCEPT ![x] = k]
  BY <1>1, <1>2, <1>3, <1>4, OneHolder
<1> QED
  BY <1>5 DEF F, H, x

\* A suspended call holds what the active call held before.
LEMMA HoldCall ==
  ASSUME NEW S, NEW c \in Seq(S), NEW f \in S, NEW hp
  PROVE  HoldingOf(Append(c, f), <<>>, <<>>, hp) = HoldingOf(c, f.operands, f.held, hp)
<1> DEFINE a == Append(c, f)
           F == HoldingOf(a, <<>>, <<>>, hp)
           G == HoldingOf(c, f.operands, f.held, hp)
<1>1. /\ Len(a) = Len(c) + 1 /\ Len(c) \in Nat
      /\ \A i \in 1..Len(c) : a[i] = c[i]
      /\ a[Len(c) + 1] = f
  BY AppendProperties, LenProperties
<1>2. PICK V, W : F \in [Holder -> V] /\ G \in [Holder -> W]
  BY HoldingIsFunction
<1> HIDE DEF a
<1>3. ASSUME NEW h \in Holder PROVE F[h] = G[h]
  <2>1. h[1] \in {"operands", "held", "node"} /\ h[2] \in Nat
    BY HolderIsPair
  <2>2. CASE h[2] \in 1..Len(c)
    <3>1. h[2] \in 1..Len(a) /\ a[h[2]] = c[h[2]]
      BY <1>1, <2>2
    <3> QED
      BY <2>1, <2>2, <3>1 DEF HoldingOf
  <2>3. CASE h[2] = Len(c) + 1
    <3>1. h[2] \in 1..Len(a) /\ a[h[2]] = f /\ h[2] \notin 1..Len(c)
      BY <1>1, <2>3
    <3> QED
      BY <2>1, <2>3, <3>1 DEF HoldingOf
  <2>4. CASE h[2] \notin 1..Len(c) /\ h[2] # Len(c) + 1
    <3>1. (h[2] \notin 1..Len(a) /\ h[2] # Len(a) + 1) \/ h[2] = Len(a) + 1
      BY <1>1, <2>1, <2>4
    <3> QED
      BY <2>1, <2>4, <3>1 DEF HoldingOf
  <2> QED
    BY <2>2, <2>3, <2>4
<1> HIDE DEF F, G
<1>4. F \in [Holder -> V \cup W] /\ G \in [Holder -> V \cup W]
  BY <1>2
<1>5. F = G
  BY <1>3, <1>4
<1> QED
  BY <1>5 DEF F, G, a

---------------------------------------------------------------------------
(* What the parser does with the nodes, on any stacks.                     *)

\* The holders of the active call, and the next node.
LEMMA HoldersHere ==
  ASSUME NEW c, Len(c) \in Nat, NEW o, NEW t, NEW hp, Len(hp) \in Nat
  PROVE  /\ <<"operands", Len(c) + 1>> \in Holder
         /\ <<"held", Len(c) + 1>> \in Holder
         /\ <<"node", Len(hp) + 1>> \in Holder
         /\ HoldingOf(c, o, t, hp)[<<"operands", Len(c) + 1>>] = o
         /\ HoldingOf(c, o, t, hp)[<<"held", Len(c) + 1>>] = t
         /\ HoldingOf(c, o, t, hp)[<<"node", Len(hp) + 1>>] = <<>>
<1>1. /\ <<"operands", Len(c) + 1>> \in Holder
      /\ <<"held", Len(c) + 1>> \in Holder
      /\ <<"node", Len(hp) + 1>> \in Holder
  BY DEF Holder
<1> QED
  BY <1>1 DEF HoldingOf

\* One more node: its number is new.
LEMMA NextNode ==
  ASSUME NEW n \in Nat
  PROVE  1..(n + 1) = (1..n) \cup {n + 1} /\ n + 1 \notin 1..n
OBVIOUS

\* A stack after a push.
LEMMA PushedLemma ==
  ASSUME NEW S, NEW hp \in Seq(S), NEW r \in S
  PROVE  /\ Len(hp) \in Nat
         /\ Len(Append(hp, r)) = Len(hp) + 1
         /\ Append(hp, r)[Len(hp) + 1] = r
         /\ \A i \in 1..Len(hp) : Append(hp, r)[i] = hp[i]
BY PushLemma, LenProperties

\* What the new node and the active call hold when they change together.
LEMMA HoldNodeOperands ==
  ASSUME NEW hp, Len(hp) \in Nat, NEW c, Len(c) \in Nat, NEW o, NEW t, NEW p,
         NEW hq, NEW k, OneMore(hp, hq, k)
  PROVE  HoldingOf(c, p, t, hq)
           = [HoldingOf(c, o, t, hp) EXCEPT ![<<"node", Len(hp) + 1>>] = k,
                                            ![<<"operands", Len(c) + 1>>] = p]
<1> DEFINE K == HoldingOf(c, o, t, hp)
           M == HoldingOf(c, o, t, hq)
<1>1. M = [K EXCEPT ![<<"node", Len(hp) + 1>>] = k]
  BY HoldNode
<1>2. HoldingOf(c, p, t, hq) = [M EXCEPT ![<<"operands", Len(c) + 1>>] = p]
  BY HoldOperands
<1> HIDE DEF K, M
<1>3. HoldingOf(c, p, t, hq)
        = [K EXCEPT ![<<"node", Len(hp) + 1>>] = k, ![<<"operands", Len(c) + 1>>] = p]
  BY <1>1, <1>2
<1> QED
  BY <1>3 DEF K

\* The same for the target.
LEMMA HoldNodeTarget ==
  ASSUME NEW hp, Len(hp) \in Nat, NEW c, Len(c) \in Nat, NEW o, NEW t, NEW p,
         NEW hq, NEW k, OneMore(hp, hq, k)
  PROVE  HoldingOf(c, o, p, hq)
           = [HoldingOf(c, o, t, hp) EXCEPT ![<<"node", Len(hp) + 1>>] = k,
                                            ![<<"held", Len(c) + 1>>] = p]
<1> DEFINE K == HoldingOf(c, o, t, hp)
           M == HoldingOf(c, o, t, hq)
<1>1. M = [K EXCEPT ![<<"node", Len(hp) + 1>>] = k]
  BY HoldNode
<1>2. HoldingOf(c, o, p, hq) = [M EXCEPT ![<<"held", Len(c) + 1>>] = p]
  BY HoldTarget
<1> HIDE DEF K, M
<1>3. HoldingOf(c, o, p, hq)
        = [K EXCEPT ![<<"node", Len(hp) + 1>>] = k, ![<<"held", Len(c) + 1>>] = p]
  BY <1>1, <1>2
<1> QED
  BY <1>3 DEF K

\* A new node takes the uppermost operands, k, and takes their place.
LEMMA MakeOperand ==
  ASSUME NEW hp, Len(hp) \in Nat, NEW c, Len(c) \in Nat, NEW h,
         NEW hq, NEW t, OneMore(hp, hq, t),
         NEW s, NEW u, NEW p
  PROVE  /\ s \in Seq(1..Len(hp)) /\ t \in Seq(1..Len(hp)) /\ u = s \o t
         /\ p = Append(s, Len(hp) + 1)
         /\ Owned(Holder, HoldingOf(c, u, h, hp), 1..Len(hp))
         => Owned(Holder, HoldingOf(c, p, h, hq), 1..(Len(hp) + 1))
<1> DEFINE K == HoldingOf(c, u, h, hp)
           o == <<"operands", Len(c) + 1>>
           n == <<"node", Len(hp) + 1>>
           x == Len(hp) + 1
           N == 1..Len(hp)
           L == HoldingOf(c, p, h, hq)
<1>1. /\ o \in Holder /\ <<"held", Len(c) + 1>> \in Holder /\ n \in Holder
      /\ K[o] = u /\ K[<<"held", Len(c) + 1>>] = h /\ K[n] = <<>>
  BY HoldersHere
<1>2. o # n
  OBVIOUS
<1>0. x \notin N /\ 1..x = N \cup {x}
  BY NextNode
<1>3. L = [K EXCEPT ![n] = t, ![o] = p]
  BY HoldNodeOperands
<1> SUFFICES ASSUME s \in Seq(N), t \in Seq(N), u = s \o t, p = Append(s, x), Owned(Holder, K, N)
             PROVE  Owned(Holder, L, 1..x)
  BY Zenon
<1> HIDE DEF K, L, o, n, x, N
<1>4. Owned(Holder, [K EXCEPT ![n] = t, ![o] = Append(s, x)], N \cup {x})
  BY <1>0, <1>1, <1>2, Fold
<1> QED
  BY <1>0, <1>3, <1>4

\* A new node takes what parseTarget, or a list, has collected, and is pushed.
LEMMA MakeFromHeld ==
  ASSUME NEW hp, Len(hp) \in Nat, NEW c, Len(c) \in Nat,
         NEW hq, NEW t, OneMore(hp, hq, t),
         NEW o, NEW p
  PROVE  /\ p = Append(o, Len(hp) + 1) /\ t \in Seq(1..Len(hp))
         /\ Owned(Holder, HoldingOf(c, o, t, hp), 1..Len(hp))
         => Owned(Holder, HoldingOf(c, p, <<>>, hq), 1..(Len(hp) + 1))
<1> DEFINE K == HoldingOf(c, o, t, hp)
           O == <<"operands", Len(c) + 1>>
           T == <<"held", Len(c) + 1>>
           n == <<"node", Len(hp) + 1>>
           x == Len(hp) + 1
           N == 1..Len(hp)
           L == HoldingOf(c, p, <<>>, hq)
<1>1. O \in Holder /\ T \in Holder /\ n \in Holder /\ K[O] = o /\ K[T] = t /\ K[n] = <<>>
  BY HoldersHere
<1>2. x \notin N /\ 1..x = N \cup {x} /\ O # n /\ T # n /\ O # T
  BY NextNode
<1>3. L = [K EXCEPT ![n] = t, ![T] = <<>>, ![O] = p]
  <2> DEFINE M == HoldingOf(c, o, <<>>, hq)
  <2>1. M = [K EXCEPT ![n] = t, ![T] = <<>>]
    BY HoldNodeTarget
  <2>2. L = [M EXCEPT ![O] = p]
    BY HoldOperands
  <2> HIDE DEF K, L, M, O, T, n
  <2> QED
    BY <2>1, <2>2
<1> SUFFICES ASSUME p = Append(o, x), t \in Seq(N), Owned(Holder, K, N)
             PROVE  Owned(Holder, L, 1..x)
  BY Zenon
<1> HIDE DEF K, L, O, T, n, x, N
<1> DEFINE A == [K EXCEPT ![n] = @ \o K[T], ![T] = <<>>]
<1>4. Owned(Holder, A, N)
  BY <1>1, <1>2, Pour
<1>5. Owned(Holder, [A EXCEPT ![O] = Append(@, x)], N \cup {x})
  <2> HIDE DEF A
  <2> QED
    BY <1>1, <1>2, <1>4, Give
<1>6. DOMAIN K = Holder
  BY DEF Owned
<1>7. A = [K EXCEPT ![n] = t, ![T] = <<>>] /\ A[O] = o
  BY <1>1, <1>2, <1>6
<1>8. L = [A EXCEPT ![O] = Append(@, x)]
  <2> HIDE DEF A
  <2> QED
    BY <1>1, <1>3, <1>6, <1>7
<1> QED
  BY <1>2, <1>5, <1>8

\* A new node takes the first nodes of the target and takes their place.
LEMMA NestTarget ==
  ASSUME NEW hp, Len(hp) \in Nat, NEW c, Len(c) \in Nat,
         NEW hq, NEW s, OneMore(hp, hq, s),
         NEW o, NEW t, NEW u, NEW p
  PROVE  /\ s \in Seq(1..Len(hp)) /\ t \in Seq(1..Len(hp)) /\ u = s \o t
         /\ p = <<Len(hp) + 1>> \o t
         /\ Owned(Holder, HoldingOf(c, o, u, hp), 1..Len(hp))
         => Owned(Holder, HoldingOf(c, o, p, hq), 1..(Len(hp) + 1))
<1> DEFINE K == HoldingOf(c, o, u, hp)
           T == <<"held", Len(c) + 1>>
           n == <<"node", Len(hp) + 1>>
           x == Len(hp) + 1
           N == 1..Len(hp)
           L == HoldingOf(c, o, p, hq)
<1>1. /\ <<"operands", Len(c) + 1>> \in Holder /\ T \in Holder /\ n \in Holder
      /\ K[<<"operands", Len(c) + 1>>] = o /\ K[T] = u /\ K[n] = <<>>
  BY HoldersHere
<1>2. x \notin N /\ 1..x = N \cup {x} /\ T # n
  BY NextNode
<1>3. L = [K EXCEPT ![n] = s, ![T] = p]
  BY HoldNodeTarget
<1> SUFFICES ASSUME s \in Seq(N), t \in Seq(N), u = s \o t, p = <<x>> \o t, Owned(Holder, K, N)
             PROVE  Owned(Holder, L, 1..x)
  BY Zenon
<1> HIDE DEF K, L, T, n, x, N
<1>4. Owned(Holder, [K EXCEPT ![T] = <<x>> \o t, ![n] = s], N \cup {x})
  BY <1>1, <1>2, Nest
<1>5. [K EXCEPT ![n] = s, ![T] = p] = [K EXCEPT ![T] = p, ![n] = s]
  BY <1>2
<1> QED
  BY <1>2, <1>3, <1>4, <1>5

\* The target is pushed on the operands.
LEMMA PushTarget ==
  ASSUME NEW hp, Len(hp) \in Nat, NEW c, Len(c) \in Nat, NEW o, NEW t, NEW p, NEW N
  PROVE  p = o \o t /\ Owned(Holder, HoldingOf(c, o, t, hp), N)
         => Owned(Holder, HoldingOf(c, p, <<>>, hp), N)
<1> DEFINE K == HoldingOf(c, o, t, hp)
           O == <<"operands", Len(c) + 1>>
           T == <<"held", Len(c) + 1>>
           M == HoldingOf(c, p, t, hp)
           L == HoldingOf(c, p, <<>>, hp)
<1>1. /\ O \in Holder /\ T \in Holder /\ <<"node", Len(hp) + 1>> \in Holder
      /\ K[O] = o /\ K[T] = t /\ K[<<"node", Len(hp) + 1>>] = <<>>
  BY HoldersHere
<1>2. M = [K EXCEPT ![O] = p] /\ O # T
  BY HoldOperands
<1>3. L = [M EXCEPT ![T] = <<>>]
  BY HoldTarget
<1> SUFFICES ASSUME p = o \o t, Owned(Holder, K, N) PROVE Owned(Holder, L, N)
  OBVIOUS
<1> HIDE DEF K, M, L, O, T
<1>4. Owned(Holder, [K EXCEPT ![O] = @ \o K[T], ![T] = <<>>], N)
  BY <1>1, <1>2, Pour
<1>5. DOMAIN K = Holder
  BY DEF Owned
<1>6. [K EXCEPT ![O] = p, ![T] = <<>>] = [K EXCEPT ![O] = @ \o K[T], ![T] = <<>>]
  BY <1>1, <1>5
<1> QED
  BY <1>2, <1>3, <1>4, <1>6

\* What a call returns goes to the operands of its caller, or to its target.
LEMMA Deliver ==
  ASSUME NEW S, NEW c \in Seq(S), NEW f \in S, NEW hp, Len(hp) \in Nat, NEW a, NEW p, NEW q, NEW N
  PROVE  Owned(Holder, HoldingOf(Append(c, f), a, <<>>, hp), N)
         => /\ p = f.operands \o a => Owned(Holder, HoldingOf(c, p, f.held, hp), N)
            /\ q = f.held \o a => Owned(Holder, HoldingOf(c, f.operands, q, hp), N)
<1> DEFINE d == Append(c, f)
           K == HoldingOf(d, a, <<>>, hp)
           R == HoldingOf(c, f.operands, f.held, hp)
           O == <<"operands", Len(c) + 1>>
           T == <<"held", Len(c) + 1>>
           A == <<"operands", Len(d) + 1>>
<1>1. Len(c) \in Nat /\ Len(d) = Len(c) + 1 /\ Len(d) \in Nat
  BY PushedLemma
<1>2. R = HoldingOf(d, <<>>, <<>>, hp)
  BY HoldCall
<1>3. K = [R EXCEPT ![A] = a]
  <2> DEFINE r == HoldingOf(d, <<>>, <<>>, hp)
  <2> HIDE DEF d
  <2>1. K = [r EXCEPT ![A] = a]
    BY <1>1, HoldOperands
  <2> HIDE DEF K, r, A
  <2> QED
    BY <1>2, <2>1 DEF r
<1>4. /\ O \in Holder /\ T \in Holder /\ <<"node", Len(hp) + 1>> \in Holder
      /\ R[O] = f.operands /\ R[T] = f.held /\ R[<<"node", Len(hp) + 1>>] = <<>>
  BY <1>1, HoldersHere
<1>5. A \in Holder /\ R[A] = <<>> /\ A # O /\ A # T
  <2>1. A \in Holder
    BY <1>1 DEF Holder
  <2>2. Len(d) + 1 \notin 1..Len(c) /\ Len(d) + 1 # Len(c) + 1
    BY <1>1
  <2> HIDE DEF d
  <2> QED
    BY <2>1, <2>2 DEF HoldingOf
<1>6. /\ HoldingOf(c, p, f.held, hp) = [R EXCEPT ![O] = p]
      /\ HoldingOf(c, f.operands, q, hp) = [R EXCEPT ![T] = q]
  <2>1. Len(c) \in Nat
    BY <1>1
  <2>2. HoldingOf(c, p, f.held, hp) = [R EXCEPT ![O] = p]
    BY <2>1, HoldOperands
  <2>3. HoldingOf(c, f.operands, q, hp) = [R EXCEPT ![T] = q]
    BY <2>1, HoldTarget
  <2> QED
    BY <2>2, <2>3
<1>7. \E V : R \in [Holder -> V]
  BY HoldingIsFunction
<1> HIDE DEF K, R, O, T, A, d
<1> SUFFICES ASSUME Owned(Holder, K, N)
             PROVE  /\ p = f.operands \o a => Owned(Holder, [R EXCEPT ![O] = p], N)
                    /\ q = f.held \o a => Owned(Holder, [R EXCEPT ![T] = q], N)
  BY <1>6 DEF K, d
<1>8. K[A] = a /\ DOMAIN K = Holder /\ K[O] = f.operands /\ K[T] = f.held
  BY <1>3, <1>4, <1>5, <1>7
<1>9. /\ Owned(Holder, [K EXCEPT ![O] = @ \o K[A], ![A] = <<>>], N)
      /\ Owned(Holder, [K EXCEPT ![T] = @ \o K[A], ![A] = <<>>], N)
  BY <1>4, <1>5, Pour
<1>10. \A x \in Holder : \A y : x # A =>
         [[R EXCEPT ![A] = a] EXCEPT ![x] = y, ![A] = <<>>] = [R EXCEPT ![x] = y]
  BY <1>5, <1>7
<1>11. ASSUME p = f.operands \o a PROVE Owned(Holder, [R EXCEPT ![O] = p], N)
  <2>1. [K EXCEPT ![O] = p, ![A] = <<>>] = [R EXCEPT ![O] = p]
    BY <1>3, <1>4, <1>5, <1>10
  <2>2. [K EXCEPT ![O] = @ \o K[A], ![A] = <<>>] = [K EXCEPT ![O] = p, ![A] = <<>>]
    BY <1>4, <1>8, <1>11
  <2> QED
    BY <1>9, <2>1, <2>2
<1>12. ASSUME q = f.held \o a PROVE Owned(Holder, [R EXCEPT ![T] = q], N)
  <2>1. [K EXCEPT ![T] = q, ![A] = <<>>] = [R EXCEPT ![T] = q]
    BY <1>3, <1>4, <1>5, <1>10
  <2>2. [K EXCEPT ![T] = @ \o K[A], ![A] = <<>>] = [K EXCEPT ![T] = q, ![A] = <<>>]
    BY <1>4, <1>8, <1>12
  <2> QED
    BY <1>9, <2>1, <2>2
<1> QED
  BY <1>11, <1>12

---------------------------------------------------------------------------
(* The steps.                                                              *)

\* A stack, cut in two.
LEMMA CutLemma ==
  ASSUME NEW S, NEW s \in Seq(S), NEW k \in 0..Len(s)
  PROVE  /\ SubSeq(s, 1, k) \in Seq(S) /\ SubSeq(s, k + 1, Len(s)) \in Seq(S)
         /\ Len(SubSeq(s, k + 1, Len(s))) = Len(s) - k
         /\ \A i \in 1..(Len(s) - k) : SubSeq(s, k + 1, Len(s))[i] = s[k + i]
         /\ s = SubSeq(s, 1, k) \o SubSeq(s, k + 1, Len(s))
<1>1. Len(s) \in Nat /\ \A i \in 1..Len(s) : s[i] \in S
  BY ElementOfSeq, LenProperties
<1>2. s = SubSeq(s, 1, k) \o SubSeq(s, k + 1, Len(s))
  <2>1. SubSeq(s, 1, k) \o SubSeq(s, k + 1, Len(s)) = SubSeq(s, 1, Len(s))
    <3>1. 1 \in 1..Len(s) + 1 /\ k \in 1 - 1..Len(s) /\ Len(s) \in k..Len(s)
      BY <1>1
    <3> QED
      BY <3>1, ConcatAdjacentSubSeq
  <2>2. SubSeq(s, 1, Len(s)) = s
    BY SubSeqFull
  <2> QED
    BY <2>1, <2>2
<1>3. SubSeq(s, 1, k) \in Seq(S)
  BY <1>1, PrefixLemma
<1>4. /\ SubSeq(s, k + 1, Len(s)) \in Seq(S)
      /\ Len(SubSeq(s, k + 1, Len(s))) = Len(s) - k
      /\ \A i \in 1..(Len(s) - k) : SubSeq(s, k + 1, Len(s))[i] = s[k + i]
  <2>1. k + 1 \in Int /\ Len(s) \in Int /\ \A i \in (k + 1)..Len(s) : s[i] \in S
    BY <1>1
  <2> QED
    BY <1>1, <2>1, SubSeqProperties
<1> QED
  BY <1>2, <1>3, <1>4

\* Its last element, and its last two.
LEMMA LastLemma ==
  ASSUME NEW S, NEW s \in Seq(S), s # <<>>
  PROVE  Pop(s) \in Seq(S) /\ <<Top(s)>> \in Seq(S) /\ s = Pop(s) \o <<Top(s)>>
<1>1. Len(s) \in Nat \ {0} /\ Top(s) \in S
  BY PopLemma
<1> DEFINE k == Len(s) - 1
           t == SubSeq(s, k + 1, Len(s))
<1>2. k \in 0..Len(s) /\ Len(s) - k = 1 /\ k + 1 = Len(s)
  BY <1>1
<1>3. Pop(s) \in Seq(S) /\ t \in Seq(S) /\ Len(t) = 1 /\ t[1] = Top(s) /\ s = Pop(s) \o t
  <2>1. SubSeq(s, 1, k) \in Seq(S) /\ t \in Seq(S) /\ Len(t) = 1 /\ s = SubSeq(s, 1, k) \o t
    BY <1>2, CutLemma
  <2>2. \A i \in 1..1 : t[i] = s[k + i]
    BY <1>2, CutLemma
  <2> HIDE DEF t
  <2>3. t[1] = s[k + 1]
    BY <2>2
  <2> QED
    BY <1>2, <2>1, <2>3 DEF Pop, Top
<1>4. t = <<Top(s)>>
  <2> HIDE DEF t
  <2>1. <<Top(s)>> \in Seq(S)
    BY <1>1
  <2> QED
    BY <1>3, <2>1, SeqEqual
<1> QED
  BY <1>1, <1>3, <1>4

LEMMA LastTwoLemma ==
  ASSUME NEW S, NEW s \in Seq(S), Len(s) >= 2
  PROVE  /\ SubSeq(s, 1, Len(s) - 2) \in Seq(S)
         /\ <<s[Len(s) - 1], s[Len(s)]>> \in Seq(S)
         /\ s = SubSeq(s, 1, Len(s) - 2) \o <<s[Len(s) - 1], s[Len(s)]>>
<1>1. Len(s) \in Nat /\ s[Len(s) - 1] \in S /\ s[Len(s)] \in S
  BY LenProperties, ElementOfSeq
<1> DEFINE k == Len(s) - 2
           t == SubSeq(s, k + 1, Len(s))
           u == <<s[Len(s) - 1], s[Len(s)]>>
<1>2. k \in 0..Len(s) /\ Len(s) - k = 2 /\ k + 1 = Len(s) - 1 /\ k + 2 = Len(s)
  BY <1>1
<1>3. SubSeq(s, 1, k) \in Seq(S) /\ t \in Seq(S) /\ Len(t) = 2 /\ s = SubSeq(s, 1, k) \o t
      /\ t[1] = s[Len(s) - 1] /\ t[2] = s[Len(s)]
  <2>1. \A i \in 1..2 : t[i] = s[k + i]
    BY <1>2, CutLemma
  <2>2. SubSeq(s, 1, k) \in Seq(S) /\ t \in Seq(S) /\ Len(t) = 2 /\ s = SubSeq(s, 1, k) \o t
    BY <1>2, CutLemma
  <2> HIDE DEF t
  <2>3. t[1] = s[k + 1] /\ t[2] = s[k + 2]
    BY <2>1
  <2> QED
    BY <1>2, <2>2, <2>3
<1>4. u \in Seq(S)
  BY <1>1
<1>5. t = u
  <2>1. Len(u) = 2 /\ u[1] = s[Len(s) - 1] /\ u[2] = s[Len(s)]
    OBVIOUS
  <2> HIDE DEF t, u
  <2>2. Len(t) = Len(u) /\ \A i \in 1..Len(t) : t[i] = u[i]
    BY <1>3, <2>1
  <2> QED
    BY <1>3, <1>4, <2>2, SeqEqual
<1> QED
  BY <1>3, <1>4, <1>5

\* The only element.
LEMMA OneLemma ==
  ASSUME NEW S, NEW s \in Seq(S), Len(s) = 1, NEW t \in Seq(S)
  PROVE  s[1] \in S /\ Append(t, s[1]) = t \o s
<1> DEFINE a == s[1]
           u == <<a>>
<1>1. a \in S
  <2>1. 1 \in 1..Len(s)
    OBVIOUS
  <2> QED
    BY <2>1, ElementOfSeq
<1>2. u \in Seq(S) /\ Len(u) = 1 /\ u[1] = s[1]
  BY <1>1
<1>3. Append(t, a) = t \o u
  <2> HIDE DEF a
  <2> QED
    BY <1>1
<1> HIDE DEF u, a
<1>4. s = u
  BY <1>2, SeqEqual
<1> QED
  BY <1>1, <1>3, <1>4 DEF a

\* The top of a stack is overwritten.
LEMMA OverwriteLemma ==
  ASSUME NEW S, NEW s \in Seq(S), NEW a \in S, NEW b \in S, NEW n, n = Len(s) + 1
  PROVE  Append(s, b) = [Append(s, a) EXCEPT ![n] = b]
<1> DEFINE t == Append(s, a)
           u == Append(s, b)
           v == [t EXCEPT ![n] = b]
<1>1. /\ Len(s) \in Nat /\ t \in Seq(S) /\ u \in Seq(S) /\ Len(t) = n /\ Len(u) = n /\ u[n] = b
      /\ \A i \in 1..Len(s) : t[i] = s[i] /\ u[i] = s[i]
  BY PushedLemma, PushLemma
<1> HIDE DEF t, u
<1>2. n \in 1..Len(t)
  BY <1>1
<1>3. /\ v \in Seq(S) /\ Len(v) = n
      /\ \A i \in 1..n : v[i] = IF i = n THEN b ELSE t[i]
  BY <1>1, <1>2, ExceptSeq
<1> HIDE DEF v
<1>4. \A i \in 1..n : u[i] = v[i]
  BY <1>1, <1>3
<1>5. u = v
  BY <1>1, <1>3, <1>4, SeqEqual
<1> QED
  BY <1>5 DEF t, u, v

\* Steps that leave the nodes where they are.
LEMMA AccountedSame ==
  ASSUME Accounted, pc # "threw", UNCHANGED <<heap, operands, held, callers>>,
         pc' \in {"threw", "target"} \/ held = <<>>,
         pc' = "return" => Len(operands) = 1
  PROVE  Accounted'
<1>1. Holding' = Holding /\ NodeIds' = NodeIds
  BY DEF Holding, NodeIds
<1>2. Owned(Holder, Holding, NodeIds)
  BY DEF Accounted, LiteralIsLost
<1> QED
  BY <1>1, <1>2 DEF Accounted, HeldShape

\* One more node, made of older ones.
LEMMA OlderMade ==
  ASSUME NEW hp, Len(hp) \in Nat, OwnsOlder(hp),
         NEW hq, Len(hq) = Len(hp) + 1, \A i \in 1..Len(hp) : hq[i] = hp[i],
         hq[Len(hp) + 1].kids \in Seq(1..Len(hp))
  PROVE  OwnsOlder(hq)
<1> SUFFICES ASSUME NEW n \in 1..Len(hq) PROVE Range(hq[n].kids) \subseteq 1..(n - 1)
  BY DEF OwnsOlder
<1>1. CASE n = Len(hp) + 1
  <2>1. Range(hq[n].kids) \subseteq 1..Len(hp)
    BY <1>1, RangeOf
  <2> QED
    BY <1>1, <2>1
<1>2. CASE n \in 1..Len(hp)
  BY <1>2 DEF OwnsOlder
<1> QED
  BY <1>1, <1>2

\* A node is made.
LEMMA HeapMade ==
  ASSUME NEW S, NEW hp, hp \in Seq(S), NEW r
  PROVE  /\ Append(hp, r) \in Seq(S \cup {r})
         /\ Len(hp) \in Nat
         /\ Len(Append(hp, r)) = Len(hp) + 1
         /\ Append(hp, r)[Len(hp) + 1] = r
         /\ \A i \in 1..Len(hp) : Append(hp, r)[i] = hp[i]
<1> DEFINE T == S \cup {r}
<1>1. hp \in Seq(T) /\ r \in T
  BY SeqMonotonic
<1> HIDE DEF T
<1>2. Append(hp, r) \in Seq(T)
  BY <1>1, PushLemma
<1>3. /\ Len(hp) \in Nat
      /\ Len(Append(hp, r)) = Len(hp) + 1
      /\ Append(hp, r)[Len(hp) + 1] = r
      /\ \A i \in 1..Len(hp) : Append(hp, r)[i] = hp[i]
  BY <1>1, PushedLemma
<1> QED
  BY <1>2, <1>3 DEF T

\* The node that a step makes.
LEMMA MadeLemma ==
  ASSUME heap \in Seq(NodeRecord), OwnsOlder(heap),
         NEW kind, NEW at, NEW k \in Seq(NodeIds), heap' = Append(heap, Node(kind, at, k))
  PROVE  /\ Len(heap) \in Nat /\ Len(heap') = Len(heap) + 1
         /\ heap'[Len(heap) + 1].kids = k
         /\ \A i \in 1..Len(heap) : heap'[i] = heap[i]
         /\ NodeIds' = 1..(Len(heap) + 1)
         /\ OwnsOlder(heap)'
<1> DEFINE r == Node(kind, at, k)
           hq == heap'
<1>1. r.kids = k /\ hq = Append(heap, r) /\ k \in Seq(1..Len(heap))
  BY DEF Node, NodeIds
<1> HIDE DEF r, hq
<1>2. /\ Len(heap) \in Nat /\ Len(hq) = Len(heap) + 1
      /\ hq[Len(heap) + 1].kids = k
      /\ \A i \in 1..Len(heap) : hq[i] = heap[i]
  BY <1>1, HeapMade
<1>3. OwnsOlder(hq)
  BY <1>1, <1>2, OlderMade
<1> QED
  BY <1>2, <1>3 DEF NodeIds, hq

\* What the invariant says of the nodes now.
LEMMA OwnedNow ==
  ASSUME TypeInv, Accounted, pc # "threw"
  PROVE  /\ Owned(Holder, HoldingOf(callers, operands, held, heap), 1..Len(heap))
         /\ OwnsOlder(heap) /\ HeldShape
         /\ heap \in Seq(NodeRecord) /\ Len(heap) \in Nat
         /\ callers \in Seq(Frame) /\ Len(callers) \in Nat
         /\ operands \in Seq(NodeIds) /\ held \in Seq(NodeIds)
         /\ NodeIds = 1..Len(heap) /\ Fresh = Len(heap) + 1
<1>1. Len(heap) \in Nat /\ Len(callers) \in Nat
  BY LenProperties DEF TypeInv, TypeOK
<1> QED
  BY <1>1 DEF Accounted, LiteralIsLost, Holding, NodeIds, Fresh, TypeInv, TypeOK

\* A step that makes a node of the uppermost operands.
LEMMA AccountedMade ==
  ASSUME TypeInv, Accounted, pc \notin {"threw", "target"}, pc' # "return",
         NEW kind, NEW at, NEW k \in Seq(NodeIds), heap' = Append(heap, Node(kind, at, k)),
         NEW s \in Seq(NodeIds), operands = s \o k, operands' = Append(s, Fresh),
         UNCHANGED <<held, callers>>
  PROVE  Accounted'
<1>1. /\ Owned(Holder, HoldingOf(callers, operands, held, heap), 1..Len(heap))
      /\ OwnsOlder(heap) /\ HeldShape
      /\ heap \in Seq(NodeRecord) /\ Len(callers) \in Nat
      /\ NodeIds = 1..Len(heap) /\ Fresh = Len(heap) + 1
  BY OwnedNow
<1>2. /\ Len(heap) \in Nat /\ Len(heap') = Len(heap) + 1
      /\ heap'[Len(heap) + 1].kids = k
      /\ \A i \in 1..Len(heap) : heap'[i] = heap[i]
      /\ NodeIds' = 1..(Len(heap) + 1)
      /\ OwnsOlder(heap)'
  BY <1>1, MadeLemma
<1>3. Owned(Holder, HoldingOf(callers, operands', held, heap'), 1..(Len(heap) + 1))
  BY <1>1, <1>2, MakeOperand DEF OneMore
<1>4. Holding' = HoldingOf(callers, operands', held, heap')
  BY DEF Holding
<1>5. HeldShape'
  BY <1>1 DEF HeldShape
<1> QED
  BY <1>2, <1>3, <1>4, <1>5 DEF Accounted

LEMMA AccountedCombine ==
  ASSUME TypeInv, Accounted, pc \in {"reduce", "cleanup"}, Combine, Len(operands) >= 2,
         UNCHANGED <<held, callers, pc>>
  PROVE  Accounted'
<1> DEFINE n == Len(operands)
           s == SubSeq(operands, 1, n - 2)
           k == <<operands[n - 1], operands[n]>>
<1>1. s \in Seq(NodeIds) /\ k \in Seq(NodeIds) /\ operands = s \o k
  BY LastTwoLemma DEF TypeInv, TypeOK
<1>2. /\ heap' = Append(heap, Node("binary", Top(operator_stack).at, k))
      /\ operands' = Append(s, Fresh)
  BY DEF Combine
<1> HIDE DEF s, k
<1> QED
  BY <1>1, <1>2, AccountedMade

LEMMA AccountedBinary ==
  ASSUME TypeInv, Accounted, ReadBinary \/ RejectOperator \/ Reduce \/ Underflow \/ PushBinary
  PROVE  Accounted'
<1>0. pc \in {"loop", "reduce"} /\ held = <<>>
  BY DEF ReadBinary, RejectOperator, Reduce, Underflow, PushBinary, Accounted, HeldShape
<1>1. CASE Reduce
  BY <1>0, <1>1, AccountedCombine DEF Reduce
<1>2. CASE ReadBinary \/ RejectOperator \/ Underflow \/ PushBinary
  BY <1>0, <1>2, AccountedSame DEF ReadBinary, RejectOperator, Underflow, PushBinary, Throw
<1> QED
  BY <1>1, <1>2

\* The operand becomes a binary node with a new literal.
LEMMA AccountedPostFix == TypeInv /\ Accounted /\ ReadPostFix => Accounted'
<1> SUFFICES ASSUME TypeInv, Accounted, ReadPostFix PROVE Accounted'
  OBVIOUS
<1> DEFINE c == callers
           x == Len(heap) + 1
           s == Pop(operands)
           a == Node("literal", Here, <<>>)
           k == <<Top(operands), x>>
           b == Node("binary", Here, k)
           h1 == Append(heap, a)
           o1 == Append(operands, x)
           h2 == heap'
           o2 == operands'
<1>1. /\ Owned(Holder, HoldingOf(c, operands, held, heap), 1..Len(heap))
      /\ OwnsOlder(heap) /\ HeldShape
      /\ heap \in Seq(NodeRecord) /\ Len(heap) \in Nat /\ Len(c) \in Nat
      /\ operands \in Seq(1..Len(heap)) /\ operands # <<>>
  <2>1. pc # "threw" /\ operands # <<>>
    BY DEF ReadPostFix
  <2> QED
    BY <2>1, OwnedNow
<1>2. /\ s \in Seq(1..Len(heap)) /\ <<Top(operands)>> \in Seq(1..Len(heap))
      /\ operands = s \o <<Top(operands)>> /\ Top(operands) \in 1..Len(heap)
  BY <1>1, LastLemma, PopLemma
<1>3. /\ h2 = Append(h1, b) /\ o2 = Append(s, x + 1)
      /\ UNCHANGED <<held, callers>> /\ pc = "loop" /\ pc' = "apply"
  <2>1. heap' = heap \o <<a, b>> /\ operands' = Append(s, x + 1)
    BY DEF ReadPostFix, Fresh
  <2>2. heap \o <<a, b>> = Append(Append(heap, a), b)
    <3> DEFINE T == NodeRecord \cup {a, b}
    <3>1. heap \in Seq(T) /\ a \in T /\ b \in T
      BY <1>1, SeqMonotonic
    <3> HIDE DEF T, a, b
    <3> QED
      BY <3>1
  <2> QED
    BY <2>1, <2>2 DEF ReadPostFix
<1>4. /\ a.kids = <<>> /\ <<>> \in Seq(1..Len(heap)) /\ b.kids = k
  BY DEF Node
<1> HIDE DEF a, b
<1>5. /\ h1 \in Seq(NodeRecord \cup {a}) /\ Len(h1) = x /\ h1[x].kids = <<>>
      /\ \A i \in 1..Len(heap) : h1[i] = heap[i]
      /\ OwnsOlder(h1)
  <2>1. /\ h1 \in Seq(NodeRecord \cup {a}) /\ Len(h1) = x /\ h1[x].kids = <<>>
        /\ \A i \in 1..Len(heap) : h1[i] = heap[i]
    BY <1>1, <1>4, HeapMade
  <2> HIDE DEF h1
  <2> QED
    BY <1>1, <1>4, <2>1, OlderMade
<1> HIDE DEF h1
<1>6. Owned(Holder, HoldingOf(c, o1, held, h1), 1..Len(h1))
  <2>1. operands = operands \o <<>>
    BY <1>1, ConcatEmptySeq
  <2>2. Owned(Holder, HoldingOf(c, o1, held, h1), 1..(Len(heap) + 1))
    BY <1>1, <1>4, <1>5, <2>1, MakeOperand DEF OneMore
  <2> QED
    BY <1>5, <2>2
<1>7. k \in Seq(1..Len(h1)) /\ s \in Seq(1..Len(h1)) /\ o1 = s \o k
  <2>1. Len(h1) = Len(heap) + 1 /\ 1..Len(heap) \subseteq 1..Len(h1) /\ x \in 1..Len(h1)
    BY <1>1, <1>5
  <2>2. k \in Seq(1..Len(h1)) /\ s \in Seq(1..Len(h1))
    BY <1>2, <2>1, SeqMonotonic
  <2>3. o1 = s \o k
    <3> DEFINE t == Top(operands)
    <3>1. operands = s \o <<t>> /\ t \in Nat /\ x \in Nat /\ s \in Seq(Nat)
      BY <1>1, <1>2, SeqMonotonic
    <3> HIDE DEF t, s, x
    <3>2. Append(s \o <<t>>, x) = s \o <<t, x>>
      BY <3>1
    <3> QED
      BY <3>1, <3>2 DEF t
  <2> QED
    BY <2>2, <2>3
<1> HIDE DEF k, h2, o1, s
<1>8. /\ Len(h1) \in Nat /\ Len(h2) = Len(h1) + 1 /\ h2[Len(h1) + 1].kids = k
      /\ \A i \in 1..Len(h1) : h2[i] = h1[i]
      /\ OwnsOlder(h2)
  <2>1. /\ Len(h1) \in Nat /\ Len(h2) = Len(h1) + 1 /\ h2[Len(h1) + 1].kids = k
        /\ \A i \in 1..Len(h1) : h2[i] = h1[i]
    BY <1>3, <1>4, <1>5, HeapMade
  <2> QED
    BY <1>5, <1>7, <2>1, OlderMade
<1>9. Owned(Holder, HoldingOf(c, o2, held, h2), 1..(Len(h1) + 1))
  <2>1. o2 = Append(s, Len(h1) + 1)
    BY <1>3, <1>5
  <2> QED
    BY <1>1, <1>6, <1>7, <1>8, <2>1, MakeOperand DEF OneMore
<1>10. Accounted'
  <2>1. Holding' = HoldingOf(c, o2, held, h2) /\ NodeIds' = 1..(Len(h1) + 1)
    BY <1>3, <1>8 DEF Holding, NodeIds, h2
  <2>2. HeldShape'
    BY <1>1, <1>3 DEF HeldShape
  <2> QED
    BY <1>8, <1>9, <2>1, <2>2 DEF Accounted, h2
<1> QED
  BY <1>10

LEMMA AccountedUnary ==
  ASSUME TypeInv, Accounted,
         ReadUnary \/ ReadPostFix \/ RejectPostFix \/ ApplyUnary \/ EndIteration
  PROVE  Accounted'
<1>0. pc \in {"loop", "apply", "apply_last"} /\ held = <<>>
  BY DEF ReadUnary, ReadPostFix, RejectPostFix, ApplyUnary, EndIteration, IterationEnd,
         Accounted, HeldShape
<1>1. CASE ReadUnary \/ RejectPostFix \/ EndIteration
  BY <1>0, <1>1, AccountedSame DEF ReadUnary, RejectPostFix, EndIteration, AfterIteration, Throw
<1>2. CASE ApplyUnary
  <2> DEFINE s == Pop(operands)
             k == <<Top(operands)>>
  <2>1. operands # <<>> /\ heap' = Append(heap, Node("unary", Top(operator_stack).at, k))
        /\ operands' = Append(s, Fresh) /\ UNCHANGED <<held, callers>> /\ pc' # "return"
    BY <1>2 DEF ApplyUnary, UnaryReady, AfterIteration
  <2>2. s \in Seq(NodeIds) /\ k \in Seq(NodeIds) /\ operands = s \o k
    BY <2>1, LastLemma DEF TypeInv, TypeOK
  <2> HIDE DEF s, k
  <2> QED
    BY <1>0, <2>1, <2>2, AccountedMade
<1>3. CASE ReadPostFix
  BY <1>3, AccountedPostFix
<1> QED
  BY <1>1, <1>2, <1>3

\* A node that parseTarget makes of the first nodes it has.
LEMMA AccountedTarget ==
  ASSUME TypeInv, Accounted, pc # "threw", pc' = "target",
         NEW kind, NEW at, NEW k \in Seq(NodeIds), heap' = Append(heap, Node(kind, at, k)),
         NEW s \in Seq(NodeIds), held = k \o s, held' = <<Fresh>> \o s,
         UNCHANGED <<operands, callers>>
  PROVE  Accounted'
<1>1. /\ Owned(Holder, HoldingOf(callers, operands, held, heap), 1..Len(heap))
      /\ OwnsOlder(heap) /\ HeldShape
      /\ heap \in Seq(NodeRecord) /\ Len(callers) \in Nat
      /\ NodeIds = 1..Len(heap) /\ Fresh = Len(heap) + 1
  BY OwnedNow
<1>2. /\ Len(heap) \in Nat /\ Len(heap') = Len(heap) + 1
      /\ heap'[Len(heap) + 1].kids = k
      /\ \A i \in 1..Len(heap) : heap'[i] = heap[i]
      /\ NodeIds' = 1..(Len(heap) + 1)
      /\ OwnsOlder(heap)'
  BY <1>1, MadeLemma
<1>3. Owned(Holder, HoldingOf(callers, operands, held', heap'), 1..(Len(heap) + 1))
  BY <1>1, <1>2, NestTarget DEF OneMore
<1>4. Holding' = HoldingOf(callers, operands, held', heap')
  BY DEF Holding
<1>5. HeldShape'
  BY <1>1 DEF HeldShape
<1> QED
  BY <1>2, <1>3, <1>4, <1>5 DEF Accounted

LEMMA AccountedOperand ==
  ASSUME TypeInv, Accounted,
         ReadLiteral \/ RejectNegative \/ ReadVariable \/ BuildIndexAccess \/ EndTarget
  PROVE  Accounted'
<1>0. /\ pc \in {"loop", "target"} /\ (pc = "loop" => held = <<>>)
      /\ operands \in Seq(NodeIds) /\ held \in Seq(NodeIds) /\ <<>> \in Seq(NodeIds)
  BY DEF ReadLiteral, RejectNegative, ReadVariable, BuildIndexAccess, EndTarget,
         Accounted, HeldShape, TypeInv, TypeOK
<1>1. CASE ReadLiteral
  <2> DEFINE kind == IF Negative /\ it = "int" THEN "negative" ELSE "literal"
  <2>1. /\ heap' = Append(heap, Node(kind, Here, <<>>)) /\ operands' = Append(operands, Fresh)
        /\ UNCHANGED <<held, callers>> /\ pc = "loop" /\ pc' = "apply"
    BY <1>1 DEF ReadLiteral
  <2>2. operands = operands \o <<>>
    BY <1>0, ConcatEmptySeq
  <2> HIDE DEF kind
  <2> QED
    BY <1>0, <2>1, <2>2, AccountedMade
<1>2. CASE RejectNegative
  <2>1. heap \in Seq(NodeRecord) /\ OwnsOlder(heap) /\ HeldShape
    BY DEF TypeInv, TypeOK, Accounted
  <2>2. heap' = Append(heap, Node("literal", Here, <<>>))
    BY <1>2 DEF RejectNegative
  <2>3. OwnsOlder(heap)'
    BY <1>0, <2>1, <2>2, MadeLemma
  <2>4. /\ Len(heap') = Len(heap) + 1 /\ Len(heap) \in Nat
        /\ heap'[Len(heap) + 1].kids = <<>>
        /\ \A i \in 1..Len(heap) : heap'[i] = heap[i]
    BY <1>0, <2>1, <2>2, MadeLemma
  <2>5. Holding' = Holding
    <3>1. UNCHANGED <<callers, operands, held>>
      BY <1>2 DEF RejectNegative, Throw
    <3>2. ASSUME NEW h \in Holder PROVE Holding'[h] = Holding[h]
      BY <2>4, <3>1, HolderIsPair DEF Holding, HoldingOf
    <3>3. PICK V : Holding \in [Holder -> V]
      BY HoldingIsFunction DEF Holding
    <3>4. PICK W : Holding' \in [Holder -> W]
      BY HoldingIsFunction DEF Holding
    <3> DEFINE F == Holding'
    <3> HIDE DEF F
    <3>5. F = Holding
      BY <3>2, <3>3, <3>4 DEF F
    <3> QED
      BY <3>5 DEF F
  <2>6. Owned(Holder, Holding, 1..Len(heap)) /\ pc' = "threw" /\ it' = "str"
    <3>1. pc = "loop" /\ pc' = "threw" /\ it' = "str"
      BY <1>2 DEF RejectNegative, Throw, Stay
    <3> QED
      BY <3>1, OwnedNow DEF Holding
  <2>7. NodeIds' \ {Len(heap')} = 1..Len(heap)
    BY <2>4 DEF NodeIds
  <2>8. LiteralIsLost'
    <3> DEFINE r == Node("literal", Here, <<>>)
    <3>1. r.kind = "literal" /\ heap' = Append(heap, r)
      BY <2>2 DEF Node
    <3> HIDE DEF r
    <3>2. heap'[Len(heap) + 1] = r /\ heap' # <<>>
      BY <2>1, <2>4, <3>1, HeapMade, EmptySeq
    <3> QED
      BY <2>4, <2>6, <3>1, <3>2 DEF LiteralIsLost, Top
  <2> QED
    BY <1>2, <2>1, <2>3, <2>5, <2>6, <2>7, <2>8 DEF RejectNegative, Throw, Accounted, HeldShape
<1>3. CASE ReadVariable
  <2>1. /\ heap' = Append(heap, Node("variable", Here, <<>>)) /\ held' = <<Fresh>>
        /\ UNCHANGED <<operands, callers>> /\ pc = "loop" /\ pc' = "target"
    BY <1>3 DEF ReadVariable
  <2>2. held = <<>> \o <<>> /\ held' = <<Fresh>> \o <<>>
    BY <1>0, <2>1
  <2> QED
    BY <1>0, <2>1, <2>2, AccountedTarget
<1>4. CASE BuildIndexAccess
  <2> DEFINE k == <<held[1], held[2]>>
             s == SubSeq(held, 3, Len(held))
  <2>1. /\ heap' = Append(heap, Node("index", 0, k)) /\ held' = <<Fresh>> \o s
        /\ UNCHANGED <<operands, callers>> /\ pc = "target" /\ pc' = "target" /\ Len(held) > 1
    BY <1>4 DEF BuildIndexAccess
  <2>2. Len(held) \in Nat /\ 2 \in 0..Len(held)
    BY <1>0, <2>1, LenProperties
  <2>3. s \in Seq(NodeIds) /\ SubSeq(held, 1, 2) \in Seq(NodeIds) /\ held = SubSeq(held, 1, 2) \o s
    BY <1>0, <2>2, CutLemma
  <2>4. k \in Seq(NodeIds) /\ SubSeq(held, 1, 2) = k
    <3>1. held[1] \in NodeIds /\ held[2] \in NodeIds
      BY <1>0, <2>2, ElementOfSeq
    <3>2. /\ Len(SubSeq(held, 1, 2)) = 2
          /\ \A i \in 1..2 : SubSeq(held, 1, 2)[i] = held[i]
      BY <1>0, <2>2, PrefixLemma
    <3>3. k \in Seq(NodeIds) /\ Len(k) = 2 /\ k[1] = held[1] /\ k[2] = held[2]
      BY <3>1
    <3> HIDE DEF k
    <3>4. \A i \in 1..2 : SubSeq(held, 1, 2)[i] = k[i]
      BY <3>2, <3>3
    <3> QED
      BY <2>3, <3>2, <3>3, <3>4, SeqEqual
  <2> HIDE DEF k, s
  <2> QED
    BY <2>1, <2>3, <2>4, AccountedTarget
<1>5. CASE EndTarget
  <2>1. /\ operands' = Append(operands, held[1]) /\ held' = <<>> /\ Len(held) = 1
        /\ UNCHANGED <<heap, callers>> /\ pc # "threw" /\ pc' = "apply"
    BY <1>5 DEF EndTarget
  <2>2. operands' = operands \o held
    BY <1>0, <2>1, OneLemma
  <2>3. /\ Owned(Holder, HoldingOf(callers, operands, held, heap), 1..Len(heap))
        /\ Len(heap) \in Nat /\ Len(callers) \in Nat /\ OwnsOlder(heap) /\ HeldShape
    BY <2>1, OwnedNow
  <2>4. Owned(Holder, HoldingOf(callers, operands', <<>>, heap), 1..Len(heap))
    BY <2>2, <2>3, PushTarget
  <2>5. Holding' = HoldingOf(callers, operands', <<>>, heap) /\ NodeIds' = 1..Len(heap)
    BY <2>1 DEF Holding, NodeIds
  <2>6. HeldShape'
    BY <2>1, <2>3 DEF HeldShape
  <2> QED
    BY <2>1, <2>3, <2>4, <2>5, <2>6 DEF Accounted
<1> QED
  BY <1>1, <1>2, <1>3, <1>4, <1>5

\* A call is suspended.
LEMMA AccountedEnter ==
  ASSUME TypeInv, Accounted, pc \in {"loop", "target", "rotate"},
         NEW why, why = "(" => pc = "loop", Enter(why), heap' = heap
  PROVE  Accounted'
<1> DEFINE f == [operands |-> operands, operators |-> operator_stack,
                 why |-> why, held |-> held]
           S == Frame \cup {f}
<1>1. /\ Owned(Holder, HoldingOf(callers, operands, held, heap), 1..Len(heap))
      /\ OwnsOlder(heap) /\ HeldShape /\ callers \in Seq(Frame)
  BY OwnedNow
<1>2. /\ callers' = Append(callers, f) /\ operands' = <<>> /\ held' = <<>> /\ pc' = "loop"
  BY DEF Enter
<1>3. f.operands = operands /\ f.held = held /\ f.why = why
  OBVIOUS
<1>4. callers \in Seq(S) /\ f \in S
  BY <1>1, SeqMonotonic
<1> HIDE DEF f, S
<1>5. Holding' = HoldingOf(callers, operands, held, heap)
  BY <1>2, <1>3, <1>4, HoldCall DEF Holding
<1>6. HeldShape'
  <2>1. /\ Len(callers) \in Nat /\ Len(callers') = Len(callers) + 1
        /\ callers'[Len(callers) + 1] = f
        /\ \A i \in 1..Len(callers) : callers'[i] = callers[i]
    BY <1>2, <1>4, PushedLemma
  <2>2. why = "(" => held = <<>>
    BY <1>1 DEF HeldShape
  <2>3. ASSUME NEW i \in 1..Len(callers'), callers'[i].why = "(" PROVE callers'[i].held = <<>>
    <3>1. CASE i \in 1..Len(callers)
      BY <1>1, <2>1, <2>3, <3>1 DEF HeldShape
    <3>2. CASE i = Len(callers) + 1
      BY <1>3, <2>1, <2>2, <2>3, <3>2
    <3> QED
      BY <2>1, <3>1, <3>2
  <2> QED
    BY <1>2, <2>3 DEF HeldShape
<1> QED
  BY <1>1, <1>5, <1>6 DEF Accounted, NodeIds

LEMMA AccountedOpen ==
  ASSUME TypeInv, Accounted, OpenBracket \/ ReadRotate \/ OpenRotate \/ RejectRotate
  PROVE  Accounted'
<1>1. CASE OpenBracket
  BY <1>1, AccountedEnter DEF OpenBracket
<1>2. CASE OpenRotate
  BY <1>2, AccountedEnter DEF OpenRotate
<1>3. CASE ReadRotate \/ RejectRotate
  <2>1. pc \in {"loop", "rotate"} /\ held = <<>>
    BY <1>3 DEF ReadRotate, RejectRotate, Accounted, HeldShape
  <2> QED
    BY <1>3, <2>1, AccountedSame DEF ReadRotate, RejectRotate, Throw
<1> QED
  BY <1>1, <1>2, <1>3

LEMMA AccountedEnd ==
  ASSUME TypeInv, Accounted, Stop \/ CleanUp \/ RejectExpression \/ Return
  PROVE  Accounted'
<1>0. pc \in {"loop", "cleanup"} /\ held = <<>>
  BY DEF Stop, CleanUp, RejectExpression, Return, Accounted, HeldShape
<1>1. CASE CleanUp
  BY <1>0, <1>1, AccountedCombine DEF CleanUp
<1>2. CASE Stop \/ RejectExpression \/ Return
  BY <1>0, <1>2, AccountedSame DEF Stop, RejectExpression, Return, Throw
<1> QED
  BY <1>1, <1>2

\* What a call returns, and to whom.
LEMMA CallerHolds ==
  ASSUME TypeInv, Accounted, pc = "return", callers # <<>>
  PROVE  \E f : /\ f = Top(callers) /\ f \in Frame
                /\ Pop(callers) \in Seq(Frame) /\ callers = Append(Pop(callers), f)
                /\ Owned(Holder, HoldingOf(Append(Pop(callers), f), operands, <<>>, heap),
                         1..Len(heap))
                /\ held = <<>>
                /\ f.operands \in Seq(NodeIds) /\ f.held \in Seq(NodeIds)
                /\ Append(f.operands, operands[1]) = f.operands \o operands
                /\ Append(f.held, operands[1]) = f.held \o operands
                /\ Append(f.held, operands[1]) \in Seq(NodeIds)
                /\ f.why = "(" => f.held = <<>>
                /\ operands[1] \in NodeIds
                /\ \A i \in 1..Len(Pop(callers)) : Pop(callers)[i] = callers[i]
                /\ Len(Pop(callers)) = Len(callers) - 1 /\ Len(callers) \in Nat
<1> DEFINE f == Top(callers)
           c == Pop(callers)
<1>1. /\ Owned(Holder, HoldingOf(callers, operands, held, heap), 1..Len(heap))
      /\ HeldShape /\ callers \in Seq(Frame) /\ operands \in Seq(NodeIds)
  BY OwnedNow
<1>2. held = <<>> /\ Len(operands) = 1
  BY <1>1 DEF HeldShape
<1>3. /\ f \in Frame /\ c \in Seq(Frame)
      /\ f.operands \in Seq(NodeIds) /\ f.held \in Seq(NodeIds)
  BY CallerLemma
<1>4. /\ \A i \in 1..Len(c) : c[i] = callers[i]
      /\ Len(c) = Len(callers) - 1 /\ Len(callers) \in Nat \ {0}
  BY <1>1, PopLemma
<1>5. callers = Append(c, f)
  <2>1. callers = c \o <<f>>
    BY <1>1, LastLemma
  <2> HIDE DEF c, f
  <2>2. Append(c, f) = c \o <<f>>
    BY <1>3
  <2> QED
    BY <2>1, <2>2
<1>6. /\ operands[1] \in NodeIds
      /\ Append(f.operands, operands[1]) = f.operands \o operands
      /\ Append(f.held, operands[1]) = f.held \o operands
      /\ Append(f.held, operands[1]) \in Seq(NodeIds)
  <2> DEFINE g == f.operands
             h == f.held
  <2> HIDE DEF f, g, h
  <2>1. g \in Seq(NodeIds) /\ h \in Seq(NodeIds)
    BY <1>3 DEF g, h
  <2>2. operands[1] \in NodeIds /\ Append(g, operands[1]) = g \o operands
        /\ Append(h, operands[1]) = h \o operands
    BY <1>1, <1>2, <2>1, OneLemma
  <2>3. operands[1] \in NodeIds
    BY <2>2
  <2>4. Append(h, operands[1]) \in Seq(NodeIds)
    BY <2>1, <2>3, PushLemma
  <2> QED
    BY <2>2, <2>4 DEF g, h
<1>7. f.why = "(" => f.held = <<>>
  BY <1>1, <1>4 DEF HeldShape, Top
<1>8. Owned(Holder, HoldingOf(Append(c, f), operands, <<>>, heap), 1..Len(heap))
  BY <1>1, <1>2, <1>5
<1> HIDE DEF f, c
<1> WITNESS f
<1> QED
  BY <1>2, <1>3, <1>4, <1>5, <1>6, <1>7, <1>8 DEF f, c

\* A call returns, or its next argument is read.
LEMMA AccountedClose ==
  ASSUME TypeInv, Accounted, CloseRound \/ CloseSquare \/ NextArgument \/ CloseGroup \/ RejectClose
  PROVE  Accounted'
<1>0. pc = "return" /\ callers # <<>>
  BY DEF CloseRound, CloseSquare, NextArgument, CloseGroup, RejectClose, Returning
<1>1. PICK f : /\ f = Top(callers) /\ f \in Frame
               /\ Pop(callers) \in Seq(Frame) /\ callers = Append(Pop(callers), f)
               /\ Owned(Holder, HoldingOf(Append(Pop(callers), f), operands, <<>>, heap),
                        1..Len(heap))
               /\ held = <<>>
               /\ f.operands \in Seq(NodeIds) /\ f.held \in Seq(NodeIds)
               /\ Append(f.operands, operands[1]) = f.operands \o operands
               /\ Append(f.held, operands[1]) = f.held \o operands
               /\ Append(f.held, operands[1]) \in Seq(NodeIds)
               /\ f.why = "(" => f.held = <<>>
               /\ operands[1] \in NodeIds
               /\ \A i \in 1..Len(Pop(callers)) : Pop(callers)[i] = callers[i]
               /\ Len(Pop(callers)) = Len(callers) - 1 /\ Len(callers) \in Nat
  BY <1>0, CallerHolds
<1> DEFINE c == Pop(callers)
           p == Append(f.operands, operands[1])
           q == Append(f.held, operands[1])
<1>2. /\ OwnsOlder(heap) /\ HeldShape /\ heap \in Seq(NodeRecord) /\ Len(heap) \in Nat
      /\ NodeIds = 1..Len(heap) /\ Fresh = Len(heap) + 1
  BY <1>0, OwnedNow
<1>3. Len(c) \in Nat /\ \A i \in 1..Len(c) : c[i] = callers[i] /\ i \in 1..Len(callers)
  BY <1>1, LenProperties
<1>4. /\ Owned(Holder, HoldingOf(c, p, f.held, heap), 1..Len(heap))
      /\ Owned(Holder, HoldingOf(c, f.operands, q, heap), 1..Len(heap))
  <2> HIDE DEF c, p, q
  <2> QED
    BY <1>1, <1>2, Deliver DEF c, p, q
<1>5. q \in Seq(NodeIds)
  BY <1>1
<1> HIDE DEF p, q
\* The callers that remain are as they were.
<1>6. ASSUME callers' = c, held' = <<>> \/ pc' = "target", pc' # "return"
      PROVE  HeldShape'
  <2> HIDE DEF c
  <2> QED
    BY <1>2, <1>3, <1>6 DEF HeldShape
<1>7. CASE CloseRound
  <2>1. /\ operands' = p /\ held' = <<>> /\ f.held = <<>> /\ callers' = c
        /\ heap' = heap /\ pc' = "apply"
    BY <1>1, <1>7 DEF CloseRound, Resume, Returning, p
  <2>2. Holding' = HoldingOf(c, p, f.held, heap) /\ NodeIds' = 1..Len(heap)
    BY <2>1 DEF Holding, NodeIds
  <2>3. HeldShape'
    BY <1>6, <2>1
  <2> QED
    BY <1>2, <1>4, <2>1, <2>2, <2>3 DEF Accounted
<1>8. CASE CloseSquare
  <2>1. /\ operands' = f.operands /\ held' = q /\ callers' = c
        /\ heap' = heap /\ pc' = "target"
    BY <1>1, <1>8 DEF CloseSquare, Resume, q
  <2>2. Holding' = HoldingOf(c, f.operands, q, heap) /\ NodeIds' = 1..Len(heap)
    BY <2>1 DEF Holding, NodeIds
  <2>3. HeldShape'
    BY <1>6, <2>1
  <2> QED
    BY <1>2, <1>4, <2>1, <2>2, <2>3 DEF Accounted
<1>9. CASE NextArgument
  <2> DEFINE g == [f EXCEPT !.held = q]
  <2>1. /\ callers' = [callers EXCEPT ![Len(callers)] = g]
        /\ operands' = <<>> /\ held' = <<>> /\ heap' = heap /\ pc' = "loop"
        /\ f.why \in {"{", "rotate"}
    BY <1>1, <1>9 DEF NextArgument, Returning, Top, q
  <2>2. g \in Frame /\ g.operands = f.operands /\ g.held = q /\ g.why = f.why
    BY <1>1, <1>5 DEF Frame
  <2> HIDE DEF g
  <2>3. callers' = Append(c, g)
    <3>1. Append(c, g) = [Append(c, f) EXCEPT ![Len(callers)] = g]
      <4>1. c \in Seq(Frame) /\ Len(callers) = Len(c) + 1 /\ f \in Frame /\ g \in Frame
        BY <1>1, <2>2
      <4> HIDE DEF c
      <4> QED
        BY <4>1, OverwriteLemma
    <3> QED
      BY <1>1, <2>1, <3>1
  <2>4. Holding' = HoldingOf(c, f.operands, q, heap) /\ NodeIds' = 1..Len(heap)
    <3> HIDE DEF c
    <3>1. HoldingOf(Append(c, g), <<>>, <<>>, heap) = HoldingOf(c, g.operands, g.held, heap)
      BY <1>1, <2>2, HoldCall DEF c
    <3> QED
      BY <2>1, <2>2, <2>3, <3>1 DEF Holding, NodeIds
  <2>5. HeldShape'
    <3> HIDE DEF c
    <3>1. /\ Len(callers') = Len(c) + 1 /\ callers'[Len(c) + 1] = g
          /\ \A i \in 1..Len(c) : callers'[i] = c[i]
      BY <1>1, <2>2, <2>3, PushedLemma DEF c
    <3>2. ASSUME NEW i \in 1..Len(callers'), callers'[i].why = "(" PROVE callers'[i].held = <<>>
      <4>1. CASE i \in 1..Len(c)
        BY <1>2, <1>3, <3>1, <3>2, <4>1 DEF HeldShape
      <4>2. CASE i = Len(c) + 1
        BY <2>1, <2>2, <3>1, <3>2, <4>2
      <4> QED
        BY <1>3, <3>1, <4>1, <4>2
    <3> QED
      BY <2>1, <3>2 DEF HeldShape
  <2> QED
    BY <1>2, <1>4, <2>1, <2>4, <2>5 DEF Accounted
<1>10. CASE CloseGroup
  <2> DEFINE kind == IF it = "}" THEN "list" ELSE "call"
             hq == heap'
             o == Append(f.operands, Fresh)
  <2>1. /\ heap' = Append(heap, Node(kind, 0, q)) /\ operands' = o /\ held' = <<>>
        /\ callers' = c /\ pc' = "apply"
    BY <1>1, <1>10 DEF CloseGroup, Resume, q
  <2> HIDE DEF kind
  <2>2. /\ Len(heap) \in Nat /\ Len(hq) = Len(heap) + 1 /\ hq[Len(heap) + 1].kids = q
        /\ \A i \in 1..Len(heap) : hq[i] = heap[i]
        /\ NodeIds' = 1..(Len(heap) + 1)
        /\ OwnsOlder(heap)'
    BY <1>2, <1>5, <2>1, MadeLemma
  <2>3. o = Append(f.operands, Len(heap) + 1) /\ q \in Seq(1..Len(heap))
    BY <1>2, <1>5
  <2>4. Owned(Holder, HoldingOf(c, o, <<>>, hq), 1..(Len(heap) + 1))
    <3> DEFINE F == f.operands
    <3> HIDE DEF hq, o, c, F
    <3>1. o = Append(F, Len(heap) + 1) /\ Owned(Holder, HoldingOf(c, F, q, heap), 1..Len(heap))
      BY <1>4, <2>3 DEF F
    <3> QED
      BY <1>3, <2>2, <2>3, <3>1, MakeFromHeld DEF OneMore
  <2>5. Holding' = HoldingOf(c, o, <<>>, hq)
    BY <2>1 DEF Holding
  <2>6. HeldShape'
    BY <1>6, <2>1
  <2> QED
    BY <2>2, <2>4, <2>5, <2>6 DEF Accounted
<1>11. CASE RejectClose
  BY <1>0, <1>1, <1>11, AccountedSame DEF RejectClose, Throw
<1> QED
  BY <1>7, <1>8, <1>9, <1>10, <1>11

LEMMA AccountedStep == TypeInv /\ Accounted /\ [Next]_vars => Accounted'
<1> SUFFICES ASSUME TypeInv, Accounted, [Next]_vars PROVE Accounted'
  OBVIOUS
<1>1. CASE UNCHANGED vars
  BY <1>1 DEF vars, Accounted, LiteralIsLost, HeldShape, Holding, NodeIds
<1>2. CASE Step
  BY <1>2, AccountedBinary, AccountedUnary, AccountedOperand, AccountedOpen, AccountedEnd,
     AccountedClose DEF Step
<1> QED
  BY <1>1, <1>2 DEF Next, Finished

LEMMA AccountedInit == Init => Accounted
<1> SUFFICES ASSUME Init PROVE Accounted
  OBVIOUS
<1>1. heap = <<>> /\ operands = <<>> /\ held = <<>> /\ callers = <<>> /\ pc = "loop"
  BY DEF Init
<1>2. Len(heap) = 0 /\ Len(callers) = 0 /\ NodeIds = {}
  BY <1>1 DEF NodeIds
<1>3. Holding \in [Holder -> {<<>>}]
  BY <1>1, <1>2 DEF Holding, HoldingOf, Holder
<1>4. Owned(Holder, Holding, NodeIds)
  BY <1>2, <1>3, NothingOwned
<1> QED
  BY <1>1, <1>2, <1>4 DEF Accounted, HeldShape, OwnsOlder

\* What the holders have is what the owners have.
LEMMA AccountedOwns == TypeInv /\ Accounted => SingleOwner
<1> SUFFICES ASSUME TypeInv, Accounted, NEW N, Owned(Holder, Holding, N)
             PROVE  OwnedOnce(Owns, N)
  BY DEF SingleOwner, Accounted, OwnsOlder, NodeIds
<1>1. Len(callers) \in Nat /\ Len(heap) \in Nat
  BY LenProperties DEF TypeInv, TypeOK
<1>2. DOMAIN Owns = Owners /\ Owners \subseteq Holder
  BY <1>1 DEF Owns, Owners, Holder, NodeIds
<1>3. ASSUME NEW h \in Owners PROVE Owns[h] = Holding[h]
  <2>1. \/ h[1] \in {"operands", "held"} /\ h[2] \in 1..Len(callers) + 1
        \/ h[1] = "node" /\ h[2] \in NodeIds
    BY DEF Owners
  <2>2. h \in Holder
    BY <1>2
  <2>3. CASE h[1] = "operands"
    BY <1>1, <2>1, <2>2, <2>3 DEF Owns, CallAt, Holding, HoldingOf
  <2>4. CASE h[1] = "held"
    BY <1>1, <2>1, <2>2, <2>4 DEF Owns, CallAt, Holding, HoldingOf
  <2>5. CASE h[1] = "node"
    BY <1>1, <2>1, <2>2, <2>5 DEF Owns, Holding, HoldingOf, NodeIds
  <2> QED
    BY <2>1, <2>3, <2>4, <2>5
<1>4. ASSUME NEW h \in Holder \ Owners PROVE Holding[h] = <<>>
  <2>1. h[1] \in {"operands", "held", "node"} /\ h[2] \in Nat /\ h = <<h[1], h[2]>>
    BY HolderIsPair
  <2>2. /\ h[1] \in {"operands", "held"} => h[2] \notin 1..Len(callers) + 1
        /\ h[1] = "node" => h[2] \notin NodeIds
    BY <2>1 DEF Owners
  <2> QED
    BY <1>1, <2>1, <2>2 DEF Holding, HoldingOf, NodeIds
<1> QED
  BY <1>1, <1>2, <1>3, <1>4, OwnedByOwners

\* Whatever the text, every node that parseExpression has made has exactly one owner,
\* when an exception leaves it too (a text after a minus has none then), and none owns
\* itself through others.
THEOREM NodesHaveOneOwner == Spec => []SingleOwner
<1>1. Init => TypeInv /\ Accounted
  BY TypeInit, AccountedInit
<1>2. TypeInv /\ Accounted /\ [Next]_vars => TypeInv' /\ Accounted'
  BY TypeStep, AccountedStep
<1> QED
  BY <1>1, <1>2, AccountedOwns, PTL DEF Spec

---------------------------------------------------------------------------
(* What is read is the tree of the grammar: the invariant.                 *)

\* Tokens that are named in the proofs.
Comma == ","
OpenBrace == "{"
CloseBrace == "}"

\* The tokens that an operand or a prefix may start with, and those that may
\* follow a token, in a text without late prefixes.
Plain == Literals \cup {"id", "(", "{", "rotate"}
\* The tokens that an operand or a prefix may start with.
Starting == Plain \cup Unary \cup {"-"}
Follows(a, b) ==
  \/ EndsOperand(a) /\ b \in Binary \cup Closing \cup {","}
  \/ a \in {"id", "]"} /\ b = "["
  \/ a \in Operators /\ b \in Plain
  \/ a \in Opening \cup {","} /\ b \in Starting
  \/ a = "rotate" /\ b = "("
\* A minus that has no left operand.
Sign(s, i) == s[i] = "-" /\ (i = 1 \/ ~EndsOperand(s[i - 1]))
\* A text that may become an expression without late prefixes.
Regular(s) ==
  /\ s # <<>> => s[1] \in Starting
  /\ \A i \in 1..Len(s) - 1 : Follows(s[i], s[i + 1])
  /\ \A i \in 1..Len(s) - 1 : Sign(s, i) => s[i + 1] = "int"

\* t is the tree of s[lo..hi]; no binary operator of it has level max or above max.
Reads(s, t, lo, hi) ==
  /\ lo \in 1..Len(s) /\ hi \in lo..Len(s)
  /\ Reading(s)[<<lo, hi>>] = t /\ IsExpression(t)
Atom(s, t, lo, hi) == Reads(s, t, lo, hi) /\ BinaryAt(s, lo, hi) = {}

\* Where the operand j of a call begins that began at `from', and where it ends.
First(ops, from, j) == IF j = 1 THEN from ELSE ops[j - 1].at + 1
Final(ops, j, e) == IF j <= Len(ops) THEN ops[j].at - 1 ELSE e

\* The operator o of the stack stands in the text.
Stands(s, o) == o.op \in Binary /\ o.at \in 1..Len(s) /\ s[o.at] = o.op
\* The operators of s[lo..hi], the operand j, bind tighter than those around it.
Below(s, ops, j, lo, hi) ==
  \A p \in BinaryAt(s, lo, hi) :
    /\ j <= Len(ops) => Level(s[p]) <= Level(ops[j].op)
    /\ j > 1 => Level(s[p]) < Level(ops[j - 1].op)

\* The operands args are separated by the operators ops.
Pieces(s, T, args, ops, from, e) ==
  /\ \A j \in 1..Len(ops) : Stands(s, ops[j])
  /\ \A j \in 1..Len(args) :
       /\ Reads(s, T[args[j]], First(ops, from, j), Final(ops, j, e))
       /\ Below(s, ops, j, First(ops, from, j), Final(ops, j, e))

\* An operand is awaited at n, after a binary operator, at the start or after a prefix.
Waits(s, T, args, ops, from, n) ==
  /\ n = First(ops, from, Len(ops) + 1)
  /\ \/ Len(args) = Len(ops) /\ Pieces(s, T, args, ops, from, n)
     \/ /\ args = <<>> /\ Len(ops) = 1
        /\ ops[1].at = from /\ ops[1].op \in Unary \cup {"-"}
        /\ from \in 1..Len(s) /\ s[from] = ops[1].op /\ (ops[1].op = "-" => Sign(s, from))

\* An operand was read up to e; it has only the operators B.
Has(s, T, args, ops, from, e) ==
  /\ Len(args) = Len(ops) + 1
  /\ Pieces(s, T, args, ops, from, e)
\* The operators of the operand that was read last.
LastOps(s, ops, from, e) == BinaryAt(s, First(ops, from, Len(ops) + 1), e)

\* The index accesses that the nodes h of a parseTarget will make.
Nests(T, h, nest) ==
  /\ nest[1] = T[h[1]]
  /\ \A i \in 1..Len(h) - 1 : nest[i + 1] = Tree("index", 0, <<nest[i], T[h[i + 1]]>>)
TargetAt(s, T, h, x, e) ==
  h # <<>> /\ s[x] = "id" /\ \E nest : Nests(T, h, nest) /\ Atom(s, nest[Len(h)], x, e)

\* A suspended call c, and a mark for it and for the call above it: where its
\* bracket opened and where the current element began.
Opened(s, c, mm) ==
  /\ mm.open \in 1..Len(s) /\ mm.from \in mm.open + 1..Len(s) + 1
  /\ s[mm.open] = IF c.why = "rotate" THEN "(" ELSE c.why
AtBracket(s, T, c, m, mm) ==
  c.why \in {"(", OpenBrace} => Waits(s, T, c.operands, c.operators, m.from, mm.open)
AtRotate(s, T, c, m, mm) ==
  c.why = "rotate" => /\ mm.open > 1 /\ s[mm.open - 1] = "rotate"
                      /\ Waits(s, T, c.operands, c.operators, m.from, mm.open - 1)
AtIndex(s, T, c, m, mm) ==
  c.why = "[" => \E x \in 1..mm.open - 1 :
                   /\ Waits(s, T, c.operands, c.operators, m.from, x)
                   /\ TargetAt(s, T, c.held, x, mm.open - 1)
\* The elements h stand in front of the current one.
Gathered(s, T, h, mm) ==
  /\ mm.from > mm.open + 2
  /\ s[mm.from - 1] = Comma
  /\ Reading(s)[<<mm.open + 1, mm.from - 2>>].kind # "none"
  /\ Elements(Reading(s)[<<mm.open + 1, mm.from - 2>>]) = [i \in 1..Len(h) |-> T[h[i]]]
InElement(s, T, c, mm) ==
  /\ c.why \in {"(", "["} \/ c.held = <<>> => mm.from = mm.open + 1
  /\ c.why \in {OpenBrace, "rotate"} /\ c.held # <<>> =>
       Gathered(s, T, c.held, mm) /\ (c.why = "rotate" => Len(c.held) = 1)
Suspended(s, T, c, m, mm) ==
  /\ Opened(s, c, mm) /\ AtBracket(s, T, c, m, mm) /\ AtRotate(s, T, c, m, mm)
  /\ AtIndex(s, T, c, m, mm) /\ InElement(s, T, c, mm)

\* What was read of a call when the text s has been consumed: an operand is
\* awaited; it was read; it was read behind a prefix that waits for it; an
\* operator was read.
Awaits(s, T, args, ops, from) == Waits(s, T, args, ops, from, Len(s) + 1)
HasRead(s, T, args, ops, from) ==
  Has(s, T, args, ops, from, Len(s)) /\ LastOps(s, ops, from, Len(s)) = {}
ReadBehind(s, T, args, ops, from) ==
  /\ Len(args) = 1 /\ Len(ops) = 1
  /\ ops[1].op \in Unary /\ ops[1].at = from /\ s[from] = ops[1].op
  /\ Atom(s, T[args[1]], from + 1, Len(s))
Reducing(s, T, args, ops, from) ==
  /\ Len(s) > 0 /\ s[Len(s)] \in Binary
  /\ \/ /\ Has(s, T, args, ops, from, Len(s) - 1)
        /\ \A p \in LastOps(s, ops, from, Len(s) - 1) : Level(s[p]) <= Level(s[Len(s)])
     \/ args = <<>> /\ ops = <<>> /\ from = Len(s) /\ s[Len(s)] = "-" /\ Sign(s, Len(s))

\* The active call: its stacks, its target and where it is.
Active(s, T, args, ops, h, p, from) ==
  /\ p \in {"loop", "apply", "apply_last"} => \/ Awaits(s, T, args, ops, from)
                                              \/ HasRead(s, T, args, ops, from)
                                              \/ p = "apply" /\ ReadBehind(s, T, args, ops, from)
  /\ p = "reduce" => Reducing(s, T, args, ops, from)
  /\ p \in {"cleanup", "return"} /\ Len(s) > 0 /\ EndsOperand(s[Len(s)]) =>
       Has(s, T, args, ops, from, Len(s))
  /\ p = "target" => \E x \in 1..Len(s) : Waits(s, T, args, ops, from, x) /\ TargetAt(s, T, h, x, Len(s))
  /\ p = "rotate" => Len(s) > 0 /\ s[Len(s)] = "rotate" /\ Waits(s, T, args, ops, from, Len(s))
  /\ p = "return" => ops = <<>> /\ Len(args) = 1

\* There are marks, one more than suspended calls, that explain the stacks.
Understood(T, marks) ==
  /\ marks[1].from = 1
  /\ Active(consumed, T, operands, operator_stack, held, pc, marks[Len(callers) + 1].from)
  /\ \A d \in 1..Len(callers) : Suspended(consumed, T, callers[d], marks[d], marks[d + 1])

\* The text may become an expression that the parser reads as the grammar does.
Readable == it \notin PostFix /\ Regular(consumed)

\* A suspended call for every bracket that is open.
DepthIsCalls == Depth(consumed)[Len(consumed) + 1] = Len(callers)
\* Why a parse ends without a tree.
Reasons ==
  pc \in {"threw", "undefined"} => \/ ~Readable
                                   \/ it \in Continues \cup {"["}
                                   \/ callers # <<>>
                                   \/ consumed = <<>>
                                   \/ ~EndsOperand(consumed[Len(consumed)])

---------------------------------------------------------------------------
(* The depth of brackets.                                                  *)

\* d counts the brackets in front of the first n tokens of s and behind them.
Counts(d, s, n) == d = [p \in 1..n + 1 |-> IF p = 1 THEN 0 ELSE d[p - 1] + Change(s[p - 1])]

\* What a token does to the depth.
LEMMA ChangeIs == \A t : Change(t) \in {-1, 0, 1}
BY DEF Change

LEMMA ChangeOf ==
  /\ \A t \in Opening : Change(t) = 1
  /\ \A t \in Closing : Change(t) = -1
  /\ \A t : t \notin Opening /\ t \notin Closing => Change(t) = 0
  /\ \A t \in Opening : t \notin Closing
BY DEF Change, Opening, Closing

\* A count of the open brackets, position by position.
LEMMA CountsAt ==
  ASSUME NEW n \in Nat, NEW d, NEW s, Counts(d, s, n)
  PROVE  /\ DOMAIN d = 1..n + 1 /\ d[1] = 0
         /\ \A p \in 1..n : d[p + 1] = d[p] + Change(s[p])
<1>1. 1 \in 1..n + 1 /\ \A p \in 1..n : p + 1 \in 1..n + 1 /\ p + 1 # 1 /\ (p + 1) - 1 = p
  OBVIOUS
<1>2. \A p \in 1..n + 1 : d[p] = IF p = 1 THEN 0 ELSE d[p - 1] + Change(s[p - 1])
  BY DEF Counts
<1>3. DOMAIN d = 1..n + 1
  BY DEF Counts
<1> QED
  BY <1>1, <1>2, <1>3

LEMMA CountsInt ==
  ASSUME NEW n \in Nat, NEW d, NEW s, Counts(d, s, n)
  PROVE  \A p \in 1..n + 1 : d[p] \in Int
<1>1. ASSUME NEW i \in 1..n + 1, d[i] \notin Int PROVE FALSE
  <2> DEFINE T == {j \in 1..n + 1 : d[j] \notin Int}
  <2>1. PICK m \in T : \A j \in T : m <= j
    <3>1. T \subseteq Nat /\ i \in T
      BY <1>1
    <3> HIDE DEF T
    <3> QED
      BY <3>1, Smallest
  <2>2. m \in 1..n + 1 /\ d[m] \notin Int
    OBVIOUS
  <2>3. m # 1
    BY <2>2, CountsAt
  <2>4. m - 1 \in 1..n /\ (m - 1) + 1 = m /\ m - 1 \in 1..n + 1 /\ ~(m <= m - 1)
    BY <2>2, <2>3
  <2>5. d[m] = d[m - 1] + Change(s[m - 1])
    BY <2>4, CountsAt
  <2>6. d[m - 1] \in Int
    BY <2>1, <2>4
  <2>7. Change(s[m - 1]) \in Int
    BY ChangeIs
  <2> QED
    BY <2>2, <2>5, <2>6, <2>7
<1> QED
  BY <1>1

\* One more token.
LEMMA CountsNext ==
  ASSUME NEW n \in Nat, NEW d, NEW s, NEW r, Counts(d, s, n), \A p \in 1..n : r[p] = s[p]
  PROVE  \E e : Counts(e, r, n + 1) /\ \A p \in 1..n + 1 : e[p] = d[p]
<1> DEFINE e == [p \in 1..(n + 1) + 1 |-> IF p = n + 2 THEN d[n + 1] + Change(r[n + 1]) ELSE d[p]]
<1>1. \A p \in 1..n + 1 : e[p] = d[p]
  OBVIOUS
<1>2. e[n + 2] = d[n + 1] + Change(r[n + 1])
  OBVIOUS
<1>3. ASSUME NEW p \in 1..(n + 1) + 1 PROVE e[p] = IF p = 1 THEN 0 ELSE e[p - 1] + Change(r[p - 1])
  <2> HIDE DEF e
  <2>1. CASE p = n + 2
    <3>1. p # 1 /\ p - 1 = n + 1 /\ n + 1 \in 1..n + 1
      BY <2>1
    <3> QED
      BY <1>1, <1>2, <2>1, <3>1
  <2>2. CASE p = 1
    <3>1. 1 \in 1..n + 1
      OBVIOUS
    <3> QED
      BY <1>1, <2>2, <3>1, CountsAt
  <2>3. CASE p \in 2..n + 1
    <3>1. p \in 1..n + 1 /\ p - 1 \in 1..n /\ p - 1 \in 1..n + 1 /\ (p - 1) + 1 = p /\ p # 1
      BY <2>3
    <3>2. d[p] = d[p - 1] + Change(s[p - 1])
      BY <3>1, CountsAt
    <3> QED
      BY <1>1, <3>1, <3>2
  <2> QED
    BY <2>1, <2>2, <2>3
<1>4. e = [p \in 1..(n + 1) + 1 |-> e[p]]
  OBVIOUS
<1>5. e = [p \in 1..(n + 1) + 1 |-> IF p = 1 THEN 0 ELSE e[p - 1] + Change(r[p - 1])]
  <2> HIDE DEF e
  <2> QED
    BY <1>3, <1>4
<1> HIDE DEF e
<1> QED
  BY <1>1, <1>5 DEF Counts

\* There is a count, and the counts of a text and of its continuation agree.
LEMMA CountsExist ==
  ASSUME NEW n \in Nat, NEW s
  PROVE  \E d : Counts(d, s, n)
<1> DEFINE Ok(m) == \E d : Counts(d, s, m)
           T == {m \in Nat : ~Ok(m)}
<1>1. ASSUME T # {} PROVE FALSE
  <2>1. PICK m \in T : \A j \in T : m <= j
    <3>1. T \subseteq Nat
      OBVIOUS
    <3> HIDE DEF T
    <3> QED
      BY <1>1, <3>1, Smallest
  <2>2. m \in Nat /\ ~Ok(m) /\ \A j \in Nat : ~Ok(j) => m <= j
    <3> HIDE DEF Ok
    <3> QED
      BY <2>1
  <2>3. Ok(0)
    <3> DEFINE d == [p \in 1..0 + 1 |-> 0]
    <3>1. d = [p \in 1..0 + 1 |-> IF p = 1 THEN 0 ELSE d[p - 1] + Change(s[p - 1])]
      OBVIOUS
    <3> HIDE DEF d
    <3> QED
      BY <3>1 DEF Counts
  <2> HIDE DEF T
  <2>4. m # 0
    <3> HIDE DEF Ok
    <3> QED
      BY <2>2, <2>3
  <2>5. m - 1 \in Nat /\ ~(m <= m - 1) /\ (m - 1) + 1 = m
    BY <2>2, <2>4
  <2>6. Ok(m - 1)
    <3> HIDE DEF Ok
    <3> QED
      BY <2>2, <2>5
  <2>7. PICK d : Counts(d, s, m - 1)
    BY <2>6
  <2>8. Ok((m - 1) + 1)
    <3>1. \E e : Counts(e, s, (m - 1) + 1) /\ \A p \in 1..(m - 1) + 1 : e[p] = d[p]
      BY <2>5, <2>7, CountsNext
    <3> QED
      BY <3>1
  <2> HIDE DEF Ok
  <2> QED
    BY <2>2, <2>5, <2>8
<1>2. Ok(n)
  <2> HIDE DEF Ok
  <2> QED
    BY <1>1
<1> QED
  BY <1>2

LEMMA CountsOnce ==
  ASSUME NEW n \in Nat, NEW m \in Nat, NEW d, NEW e, NEW s, NEW r, Counts(d, s, n), Counts(e, r, m),
         n <= m, \A p \in 1..n : r[p] = s[p]
  PROVE  \A p \in 1..n + 1 : e[p] = d[p]
<1>1. ASSUME NEW i \in 1..n + 1, e[i] # d[i] PROVE FALSE
  <2> DEFINE T == {j \in 1..n + 1 : e[j] # d[j]}
  <2>1. PICK k \in T : \A j \in T : k <= j
    <3>1. T \subseteq Nat /\ i \in T
      BY <1>1
    <3> HIDE DEF T
    <3> QED
      BY <3>1, Smallest
  <2>2. k \in 1..n + 1 /\ e[k] # d[k]
    OBVIOUS
  <2>3. k # 1
    BY <2>2, CountsAt
  <2>4. k - 1 \in 1..n /\ k - 1 \in 1..m /\ (k - 1) + 1 = k /\ k - 1 \in 1..n + 1 /\ ~(k <= k - 1)
    BY <2>2, <2>3
  <2>5. d[k] = d[k - 1] + Change(s[k - 1]) /\ e[k] = e[k - 1] + Change(r[k - 1])
    BY <2>4, CountsAt
  <2>6. d[k - 1] = e[k - 1]
    BY <2>1, <2>4
  <2> QED
    BY <2>2, <2>4, <2>5, <2>6
<1> QED
  BY <1>1

\* Depth is that count.
LEMMA DepthCounts ==
  ASSUME NEW s, Len(s) \in Nat
  PROVE  Counts(Depth(s), s, Len(s))
<1> DEFINE Is(d) == d = [p \in 1..Len(s) + 1 |-> IF p = 1 THEN 0 ELSE d[p - 1] + Change(s[p - 1])]
<1>1. Depth(s) = CHOOSE d : Is(d)
  BY Zenon DEF Depth
<1>2. \A d : Is(d) <=> Counts(d, s, Len(s))
  BY DEF Counts
<1>3. \E d : Is(d)
  <2> HIDE DEF Is
  <2> QED
    BY <1>2, CountsExist
<1> HIDE DEF Is
<1> QED
  BY <1>1, <1>2, <1>3

\* What there is to know of the depth.
LEMMA DepthIs ==
  ASSUME NEW s, Len(s) \in Nat
  PROVE  /\ Depth(s)[1] = 0
         /\ \A p \in 1..Len(s) + 1 : Depth(s)[p] \in Int
         /\ \A p \in 1..Len(s) : Depth(s)[p + 1] = Depth(s)[p] + Change(s[p])
BY DepthCounts, CountsAt, CountsInt

\* The texts agree on the first n tokens.
Agree(s, r, n) == /\ Len(s) \in Nat /\ Len(r) \in Nat /\ n \in Nat /\ n <= Len(s) /\ n <= Len(r)
                  /\ \A p \in 1..n : s[p] = r[p]

\* The depth in front of a token does not depend on what follows.
LEMMA DepthAgrees ==
  ASSUME NEW s, NEW r, Agree(s, r, Len(s))
  PROVE  \A p \in 1..Len(s) + 1 : Depth(s)[p] = Depth(r)[p]
<1>1. Counts(Depth(s), s, Len(s)) /\ Counts(Depth(r), r, Len(r))
  BY DepthCounts DEF Agree
<1> QED
  BY <1>1, CountsOnce DEF Agree

LEMMA AgreeAppend ==
  ASSUME NEW s \in Seq(AllTokens), NEW t \in AllTokens
  PROVE  /\ Agree(s, Append(s, t), Len(s)) /\ Len(Append(s, t)) = Len(s) + 1
         /\ Append(s, t)[Len(s) + 1] = t /\ Append(s, t) \in Seq(AllTokens)
<1>1. Len(s) \in Nat
  BY LenProperties
<1>2. /\ Len(Append(s, t)) = Len(s) + 1 /\ \A i \in 1..Len(s) : Append(s, t)[i] = s[i]
      /\ Append(s, t)[Len(s) + 1] = t /\ Append(s, t) \in Seq(AllTokens)
  BY PushLemma
<1> QED
  BY <1>1, <1>2 DEF Agree

---------------------------------------------------------------------------
(* The tree of a part depends on that part only.                           *)

\* The levels of the binary operators.
LEMMA BinaryLevels == \A o \in Binary : Level(o) \in {5, 6, 9, 10, 11, 12, 13, 14, 15}
<1>1. \A o \in Binary : o \notin Unary
  BY DEF Binary, Unary
<1> SUFFICES ASSUME NEW o \in Binary
             PROVE  Level(o) \in {5, 6, 9, 10, 11, 12, 13, 14, 15}
  OBVIOUS
<1>2. CASE o \in {"*", "***", "/", "%", "+", "+++", "-", "---"}
  BY <1>1, <1>2 DEF Level
<1>3. CASE o \in {"<", "<=", ">=", ">", "==", "!="}
  BY <1>1, <1>3 DEF Level
<1>4. CASE o \in {"&", "^", "|", "&&", "||"}
  BY <1>1, <1>4 DEF Level
<1> QED
  BY <1>2, <1>3, <1>4 DEF Binary

\* LastOf and LastApplied choose a member.
LEMMA LastIs ==
  ASSUME NEW k \in Nat, NEW ps, ps \subseteq 1..k, ps # {}
  PROVE  LastOf(ps) \in ps /\ \A q \in ps : q <= LastOf(ps)
<1>1. \E p \in ps : \A q \in ps : q <= p
  BY Largest
<1> QED
  BY <1>1 DEF LastOf

LEMMA LastOnce ==
  ASSUME NEW k \in Nat, NEW ps, ps \subseteq 1..k, NEW p \in ps, \A q \in ps : q <= p
  PROVE  LastOf(ps) = p
<1>1. LastOf(ps) \in ps /\ \A q \in ps : q <= LastOf(ps)
  BY LastIs
<1> DEFINE l == LastOf(ps)
<1>2. l \in ps /\ l <= p /\ p <= l
  BY <1>1
<1> HIDE DEF l
<1>3. l = p
  BY <1>2
<1> QED
  BY <1>3 DEF l

LEMMA AppliedIs ==
  ASSUME NEW k \in Nat, NEW s, NEW ps, ps \subseteq 1..k, ps # {}, \A p \in ps : s[p] \in Binary
  PROVE  /\ LastApplied(s, ps) \in ps
         /\ \A q \in ps : \/ Level(s[q]) < Level(s[LastApplied(s, ps)])
                          \/ Level(s[q]) = Level(s[LastApplied(s, ps)]) /\ q <= LastApplied(s, ps)
<1>1. \A p \in ps : Level(s[p]) \in Nat
  BY LevelLemma
<1>2. \A p \in ps : Level(s[p]) <= 15
  <2>1. ASSUME NEW o \in Binary PROVE Level(o) \in {5, 6, 9, 10, 11, 12, 13, 14, 15}
    BY BinaryLevels
  <2> QED
    BY <2>1
<1> DEFINE U == {15 - Level(s[p]) : p \in ps}
<1>3. PICK u \in U : \A v \in U : u <= v
  <2>1. \A p \in ps : 15 - Level(s[p]) \in Nat
    BY <1>1, <1>2
  <2>2. U \subseteq Nat
    <3> SUFFICES ASSUME NEW v \in U PROVE v \in Nat
      OBVIOUS
    <3>1. PICK p \in ps : v = 15 - Level(s[p])
      OBVIOUS
    <3> QED
      BY <2>1, <3>1
  <2>3. U # {}
    OBVIOUS
  <2> HIDE DEF U
  <2> QED
    BY <2>2, <2>3, Smallest
<1>4. PICK m \in ps : u = 15 - Level(s[m])
  OBVIOUS
<1>5. \A q \in ps : Level(s[q]) <= Level(s[m])
  <2>1. \A q \in ps : 15 - Level(s[q]) \in U
    OBVIOUS
  <2> HIDE DEF U
  <2> QED
    BY <1>1, <1>2, <1>3, <1>4, <2>1
<1> DEFINE V == {q \in ps : Level(s[q]) = Level(s[m])}
<1>6. PICK p \in V : \A q \in V : q <= p
  <2>1. V \subseteq 1..k /\ V # {}
    OBVIOUS
  <2> HIDE DEF V
  <2> QED
    BY <2>1, Largest
<1>7. \A q \in ps : \/ Level(s[q]) < Level(s[p])
                    \/ Level(s[q]) = Level(s[p]) /\ q <= p
  <2> SUFFICES ASSUME NEW q \in ps, ~(Level(s[q]) < Level(s[p]))
               PROVE  Level(s[q]) = Level(s[p]) /\ q <= p
    OBVIOUS
  <2>1. Level(s[p]) = Level(s[m]) /\ Level(s[q]) <= Level(s[m])
    BY <1>5
  <2>2. Level(s[q]) = Level(s[m])
    <3>1. Level(s[q]) \in Nat /\ Level(s[m]) \in Nat /\ ~(Level(s[q]) < Level(s[m]))
      BY <1>1, <2>1
    <3> QED
      BY <2>1, <3>1
  <2> QED
    BY <1>6, <2>1, <2>2
<1>8. p \in ps
  OBVIOUS
<1> QED
  BY <1>7, <1>8 DEF LastApplied

\* The positions outside brackets.
LEMMA OutsideIs ==
  ASSUME NEW s, NEW lo \in Nat, NEW hi \in Nat, lo > 0
  PROVE  /\ Outside(s, lo, hi) \subseteq lo..hi /\ Outside(s, lo, hi) \subseteq 1..hi
         /\ Commas(s, lo, hi) \subseteq Outside(s, lo, hi)
         /\ BinaryAt(s, lo, hi) \subseteq Outside(s, lo, hi)
         /\ \A p \in BinaryAt(s, lo, hi) : p > lo /\ s[p] \in Binary
         /\ lo <= hi => lo \in Outside(s, lo, hi)
<1>1. lo..hi \subseteq 1..hi /\ (lo <= hi => lo \in lo..hi)
  OBVIOUS
<1>2. Outside(s, lo, hi) \subseteq lo..hi /\ (lo <= hi => lo \in Outside(s, lo, hi))
  BY <1>1, Zenon DEF Outside
<1>3. Commas(s, lo, hi) \subseteq Outside(s, lo, hi)
  BY Zenon DEF Commas
<1>4. /\ BinaryAt(s, lo, hi) \subseteq Outside(s, lo, hi)
      /\ \A p \in BinaryAt(s, lo, hi) : p > lo /\ s[p] \in Binary
  BY Zenon DEF BinaryAt
<1> QED
  BY <1>1, <1>2, <1>3, <1>4, Zenon

\* What is outside the brackets of a part does not depend on what follows it.
LEMMA OutsideAgrees ==
  ASSUME NEW s, NEW r, Agree(s, r, Len(s)), NEW lo \in 1..Len(s) + 1, NEW hi \in 0..Len(s)
  PROVE  /\ Outside(s, lo, hi) = Outside(r, lo, hi)
         /\ Commas(s, lo, hi) = Commas(r, lo, hi)
         /\ BinaryAt(s, lo, hi) = BinaryAt(r, lo, hi)
<1>1. Len(s) \in Nat /\ \A p \in 1..Len(s) : s[p] = r[p]
  BY DEF Agree
<1>2. \A p \in lo..hi : p \in 1..Len(s) + 1 /\ s[p] = r[p] /\ Depth(s)[p] = Depth(r)[p]
  BY <1>1, DepthAgrees
<1>3. Depth(s)[lo] = Depth(r)[lo]
  BY DepthAgrees
<1>4. Outside(s, lo, hi) = Outside(r, lo, hi)
  BY <1>2, <1>3 DEF Outside
<1>5. Outside(s, lo, hi) \subseteq lo..hi
  BY DEF Outside
<1>6. Commas(s, lo, hi) = Commas(r, lo, hi)
  BY <1>2, <1>4, <1>5 DEF Commas
<1>7. \A p \in lo..hi : p > lo => s[p - 1] = r[p - 1]
  BY <1>1
<1>8. BinaryAt(s, lo, hi) = BinaryAt(r, lo, hi)
  BY <1>2, <1>4, <1>5, <1>7 DEF BinaryAt
<1> QED
  BY <1>4, <1>6, <1>8

\* R and Q have the same trees for what is shorter than a part from lo to hi.
SameInside(R, Q, lo, hi) ==
  \A x \in lo..hi + 1, y \in (lo - 1)..hi : y - x < hi - lo => R[<<x, y>>] = Q[<<x, y>>]

\* So do its productions, one by one.
LEMMA BracketedLocal ==
  ASSUME NEW s, NEW r, Agree(s, r, Len(s)), NEW lo \in 1..Len(s), NEW hi \in 1..Len(s), lo < hi,
         NEW R, NEW Q, SameInside(R, Q, lo, hi)
  PROVE  Bracketed(s, R, lo, hi) = Bracketed(r, Q, lo, hi)
<1> DEFINE o == LastOf(Outside(s, lo, hi - 1))
<1>1. Len(s) \in Nat /\ \A p \in 1..Len(s) : s[p] = r[p]
  BY DEF Agree
<1>2. hi - 1 \in 0..Len(s) /\ lo \in 1..Len(s) + 1 /\ hi - 1 \in Nat /\ lo \in Nat /\ lo > 0 /\ lo <= hi - 1
  BY <1>1
<1>3. o \in lo..hi - 1
  <2>1. Outside(s, lo, hi - 1) \subseteq 1..hi - 1 /\ Outside(s, lo, hi - 1) # {}
        /\ Outside(s, lo, hi - 1) \subseteq lo..hi - 1
    BY <1>2, OutsideIs
  <2> QED
    BY <1>2, <2>1, LastIs
<1>4. o = LastOf(Outside(r, lo, hi - 1))
  BY <1>2, OutsideAgrees
<1> HIDE DEF o
<1>5. R[<<o + 1, hi - 1>>] = Q[<<o + 1, hi - 1>>]
  <2>1. o + 1 \in lo..hi + 1 /\ hi - 1 \in (lo - 1)..hi /\ (hi - 1) - (o + 1) < hi - lo
    BY <1>1, <1>3
  <2> QED
    BY <2>1 DEF SameInside
<1>6. R[<<lo, o - 1>>] = Q[<<lo, o - 1>>]
  <2>1. lo \in lo..hi + 1 /\ o - 1 \in (lo - 1)..hi /\ (o - 1) - lo < hi - lo
    BY <1>1, <1>3
  <2> QED
    BY <2>1 DEF SameInside
<1>7. s[o] = r[o] /\ s[lo] = r[lo] /\ s[hi] = r[hi]
  <2>1. o \in 1..Len(s)
    BY <1>1, <1>3
  <2> QED
    BY <1>1, <2>1
<1> QED
  BY <1>4, <1>5, <1>6, <1>7, Zenon DEF Bracketed, o

LEMMA OperandLocal ==
  ASSUME NEW s, NEW r, Agree(s, r, Len(s)), NEW lo \in 1..Len(s), NEW hi \in 1..Len(s), lo <= hi,
         NEW R, NEW Q, SameInside(R, Q, lo, hi)
  PROVE  Operand(s, R, lo, hi) = Operand(r, Q, lo, hi)
<1>1. Len(s) \in Nat /\ \A p \in 1..Len(s) : s[p] = r[p]
  BY DEF Agree
<1>2. s[lo] = r[lo] /\ s[hi] = r[hi]
  BY <1>1
<1>3. CASE lo = hi
  <2>1. OneToken(s, lo) = OneToken(r, lo)
    BY <1>2 DEF OneToken
  <2>2. ~(lo < hi)
    BY <1>3
  <2> HIDE DEF OneToken
  <2> QED
    BY <1>3, <2>1, <2>2 DEF Operand
<1>4. CASE lo < hi
  <2>1. R[<<lo + 1, hi>>] = Q[<<lo + 1, hi>>]
    <3>1. lo + 1 \in lo..hi + 1 /\ hi \in (lo - 1)..hi /\ hi - (lo + 1) < hi - lo
      BY <1>1, <1>4
    <3> QED
      BY <3>1 DEF SameInside
  <2>2. Bracketed(s, R, lo, hi) = Bracketed(r, Q, lo, hi)
    BY <1>4, BracketedLocal
  <2>3. lo # hi
    BY <1>4
  <2>4. s[lo] \in Unary => s[lo] # "-" /\ s[lo] \in Operators
    BY DEF Unary, Operators
  <2>5. "-" \in Operators
    BY DEF Operators, Binary
  <2>6. CASE s[lo] \in Unary
    BY <1>2, <1>4, <2>1, <2>3, <2>4, <2>6, Zenon DEF Operand
  <2>7. CASE s[lo] = "-"
    BY <1>2, <1>4, <2>3, <2>4, <2>5, <2>7, Zenon DEF Operand
  <2>8. CASE s[lo] \notin Operators
    BY <1>2, <1>4, <2>2, <2>3, <2>4, <2>5, <2>8, Zenon DEF Operand
  <2>9. CASE s[lo] \in Operators /\ s[lo] \notin Unary /\ s[lo] # "-"
    BY <1>2, <1>4, <2>3, <2>9, Zenon DEF Operand
  <2> QED
    BY <2>6, <2>7, <2>8, <2>9
<1> QED
  BY <1>1, <1>3, <1>4

LEMMA PhraseLocal ==
  ASSUME NEW s, NEW r, Agree(s, r, Len(s)), NEW lo \in 1..Len(s) + 1, NEW hi \in 0..Len(s),
         NEW R, NEW Q, SameInside(R, Q, lo, hi)
  PROVE  Phrase(s, R, lo, hi) = Phrase(r, Q, lo, hi)
<1>1. Len(s) \in Nat /\ \A p \in 1..Len(s) : s[p] = r[p]
  BY DEF Agree
<1>2. Commas(s, lo, hi) = Commas(r, lo, hi) /\ BinaryAt(s, lo, hi) = BinaryAt(r, lo, hi)
  BY OutsideAgrees
<1>3. CASE lo > hi
  <2>1. ~(lo <= hi)
    BY <1>1, <1>3
  <2> QED
    BY <1>3, <2>1, Zenon DEF Phrase
<1>4. CASE lo <= hi
  <2>1. ~(lo > hi) /\ lo \in 1..Len(s) /\ hi \in 1..Len(s) /\ lo \in Nat /\ hi \in Nat /\ lo > 0
    BY <1>1, <1>4
  <2>2. /\ Commas(s, lo, hi) \subseteq lo..hi /\ Commas(s, lo, hi) \subseteq 1..hi
        /\ BinaryAt(s, lo, hi) \subseteq lo..hi /\ BinaryAt(s, lo, hi) \subseteq 1..hi
        /\ \A p \in BinaryAt(s, lo, hi) : p > lo /\ s[p] \in Binary
    BY <2>1, OutsideIs
  <2>3. CASE Commas(s, lo, hi) # {}
    <3> DEFINE c == LastOf(Commas(s, lo, hi))
    <3>1. c \in lo..hi
      BY <2>1, <2>2, <2>3, LastIs
    <3> HIDE DEF c
    <3>2. R[<<lo, c - 1>>] = Q[<<lo, c - 1>>]
      <4>1. lo \in lo..hi + 1 /\ c - 1 \in (lo - 1)..hi /\ (c - 1) - lo < hi - lo
        BY <1>1, <2>1, <3>1
      <4> QED
        BY <4>1 DEF SameInside
    <3>3. R[<<c + 1, hi>>] = Q[<<c + 1, hi>>]
      <4>1. c + 1 \in lo..hi + 1 /\ hi \in (lo - 1)..hi /\ hi - (c + 1) < hi - lo
        BY <1>1, <2>1, <3>1
      <4> QED
        BY <4>1 DEF SameInside
    <3>4. /\ Phrase(s, R, lo, hi) =
               IF R[<<lo, c - 1>>].kind # "none" /\ IsExpression(R[<<c + 1, hi>>])
               THEN Tree("elements", 0, Append(Elements(R[<<lo, c - 1>>]), R[<<c + 1, hi>>]))
               ELSE NoTree
          /\ Phrase(r, Q, lo, hi) =
               IF Q[<<lo, c - 1>>].kind # "none" /\ IsExpression(Q[<<c + 1, hi>>])
               THEN Tree("elements", 0, Append(Elements(Q[<<lo, c - 1>>]), Q[<<c + 1, hi>>]))
               ELSE NoTree
      BY <1>2, <1>4, <2>1, <2>3, Zenon DEF Phrase, c
    <3> QED
      BY <3>2, <3>3, <3>4
  <2>4. CASE Commas(s, lo, hi) = {} /\ BinaryAt(s, lo, hi) # {}
    <3> DEFINE B == BinaryAt(s, lo, hi)
               p == LastApplied(s, B)
    <3>1. p \in lo..hi
      BY <2>1, <2>2, <2>4, AppliedIs
    <3>2. p = LastApplied(r, B)
      <4>1. \A q \in B : s[q] = r[q]
        BY <1>1, <2>1, <2>2
      <4> HIDE DEF B
      <4> QED
        BY <4>1, Zenon DEF LastApplied
    <3> HIDE DEF p
    <3>3. R[<<lo, p - 1>>] = Q[<<lo, p - 1>>]
      <4>1. lo \in lo..hi + 1 /\ p - 1 \in (lo - 1)..hi /\ (p - 1) - lo < hi - lo
        BY <1>1, <2>1, <3>1
      <4> QED
        BY <4>1 DEF SameInside
    <3>4. R[<<p + 1, hi>>] = Q[<<p + 1, hi>>]
      <4>1. p + 1 \in lo..hi + 1 /\ hi \in (lo - 1)..hi /\ hi - (p + 1) < hi - lo
        BY <1>1, <2>1, <3>1
      <4> QED
        BY <4>1 DEF SameInside
    <3>5. Phrase(s, R, lo, hi) = Make("binary", p, <<R[<<lo, p - 1>>], R[<<p + 1, hi>>]>>)
      BY <1>4, <2>1, <2>4, Zenon DEF Phrase, p
    <3>6. Phrase(r, Q, lo, hi) = Make("binary", p, <<Q[<<lo, p - 1>>], Q[<<p + 1, hi>>]>>)
      BY <1>2, <1>4, <2>1, <2>4, <3>2, Zenon DEF Phrase
    <3> QED
      BY <3>3, <3>4, <3>5, <3>6, Zenon
  <2>5. CASE Commas(s, lo, hi) = {} /\ BinaryAt(s, lo, hi) = {}
    <3>1. Operand(s, R, lo, hi) = Operand(r, Q, lo, hi)
      BY <1>4, <2>1, OperandLocal
    <3>2. Phrase(s, R, lo, hi) = Operand(s, R, lo, hi)
      BY <1>4, <2>1, <2>5, Zenon DEF Phrase
    <3>3. Phrase(r, Q, lo, hi) = Operand(r, Q, lo, hi)
      BY <1>2, <1>4, <2>1, <2>5, Zenon DEF Phrase
    <3> QED
      BY <3>1, <3>2, <3>3
  <2> QED
    BY <2>3, <2>4, <2>5
<1> QED
  BY <1>1, <1>3, <1>4

---------------------------------------------------------------------------
(* There is one reading of a text.                                         *)

IsReading(s, R) == R = [part \in Parts(s) |-> Phrase(s, R, part[1], part[2])]

\* f is a reading of the parts that are shorter than n.
ReadsBelow(s, f, n) ==
  /\ f = [part \in Parts(s) |-> f[part]]
  /\ \A lo \in 1..Len(s) + 1, hi \in 0..Len(s) :
       hi - lo < n => f[<<lo, hi>>] = Phrase(s, f, lo, hi)

LEMMA AgreesWithItself == ASSUME NEW s, Len(s) \in Nat PROVE Agree(s, s, Len(s))
BY DEF Agree

LEMMA PartsAre ==
  ASSUME NEW s, Len(s) \in Nat
  PROVE  /\ \A lo \in 1..Len(s) + 1, hi \in 0..Len(s) : <<lo, hi>> \in Parts(s)
         /\ \A w \in Parts(s) : /\ w[1] \in 1..Len(s) + 1 /\ w[2] \in 0..Len(s)
                                /\ w = <<w[1], w[2]>>
BY DEF Parts

LEMMA InsideIsPart ==
  ASSUME NEW s, Len(s) \in Nat, NEW lo \in 1..Len(s) + 1, NEW hi \in 0..Len(s)
  PROVE  \A x \in lo..hi + 1, y \in (lo - 1)..hi : x \in 1..Len(s) + 1 /\ y \in 0..Len(s)
OBVIOUS

\* The readings of ever longer parts exist.
LEMMA ReadsMore ==
  ASSUME NEW s, Len(s) \in Nat, NEW n \in Nat, NEW f, ReadsBelow(s, f, n)
  PROVE  \E g : ReadsBelow(s, g, n + 1)
<1> DEFINE g == [w \in Parts(s) |-> IF w[2] - w[1] < n THEN f[w] ELSE Phrase(s, f, w[1], w[2])]
<1>1. g = [w \in Parts(s) |-> g[w]]
  OBVIOUS
<1>2. ASSUME NEW lo \in 1..Len(s) + 1, NEW hi \in 0..Len(s)
      PROVE  g[<<lo, hi>>] = IF hi - lo < n THEN f[<<lo, hi>>] ELSE Phrase(s, f, lo, hi)
  <2>1. <<lo, hi>> \in Parts(s) /\ <<lo, hi>>[1] = lo /\ <<lo, hi>>[2] = hi
    BY PartsAre
  <2> QED
    BY <2>1
<1> HIDE DEF g
<1>3. ASSUME NEW lo \in 1..Len(s) + 1, NEW hi \in 0..Len(s), hi - lo < n + 1
      PROVE  g[<<lo, hi>>] = Phrase(s, g, lo, hi)
  <2>1. SameInside(f, g, lo, hi)
    <3> SUFFICES ASSUME NEW x \in lo..hi + 1, NEW y \in (lo - 1)..hi, y - x < hi - lo
                 PROVE  f[<<x, y>>] = g[<<x, y>>]
      BY DEF SameInside
    <3>1. x \in 1..Len(s) + 1 /\ y \in 0..Len(s) /\ y - x < n
      BY <1>3, InsideIsPart
    <3> QED
      BY <1>2, <3>1
  <2>2. Phrase(s, f, lo, hi) = Phrase(s, g, lo, hi)
    BY <2>1, AgreesWithItself, PhraseLocal
  <2>3. hi - lo < n => f[<<lo, hi>>] = Phrase(s, f, lo, hi)
    BY DEF ReadsBelow
  <2> QED
    BY <1>2, <2>2, <2>3
<1>4. ReadsBelow(s, g, n + 1)
  BY <1>1, <1>3 DEF ReadsBelow
<1> QED
  BY <1>4

LEMMA ReadsAll ==
  ASSUME NEW s, Len(s) \in Nat, NEW n \in Nat
  PROVE  \E f : ReadsBelow(s, f, n)
<1> DEFINE Ok(m) == \E f : ReadsBelow(s, f, m)
           T == {m \in Nat : ~Ok(m)}
<1>1. ASSUME T # {} PROVE FALSE
  <2>1. PICK m \in T : \A j \in T : m <= j
    <3>1. T \subseteq Nat
      OBVIOUS
    <3> HIDE DEF T
    <3> QED
      BY <1>1, <3>1, Smallest
  <2>2. m \in Nat /\ ~Ok(m) /\ \A j \in Nat : ~Ok(j) => m <= j
    <3> HIDE DEF Ok
    <3> QED
      BY <2>1
  <2>3. Ok(0)
    <3> DEFINE f == [w \in Parts(s) |-> NoTree]
    <3>1. f = [w \in Parts(s) |-> f[w]]
      OBVIOUS
    <3>2. ASSUME NEW lo \in 1..Len(s) + 1, NEW hi \in 0..Len(s), hi - lo < 0
          PROVE  f[<<lo, hi>>] = Phrase(s, f, lo, hi)
      <4>1. lo > hi /\ ~(lo <= hi)
        BY <3>2
      <4>2. Phrase(s, f, lo, hi) = NoTree
        <5> HIDE DEF f
        <5> QED
          BY <4>1, Zenon DEF Phrase
      <4>3. <<lo, hi>> \in Parts(s)
        BY PartsAre
      <4>4. f[<<lo, hi>>] = NoTree
        BY <4>3, Zenon
      <4> QED
        BY <4>2, <4>4
    <3>3. ReadsBelow(s, f, 0)
      <4> HIDE DEF f
      <4> QED
        BY <3>1, <3>2 DEF ReadsBelow
    <3> HIDE DEF f
    <3> QED
      BY <3>3
  <2> HIDE DEF T
  <2>4. m # 0
    <3> HIDE DEF Ok
    <3> QED
      BY <2>2, <2>3
  <2>5. m - 1 \in Nat /\ ~(m <= m - 1) /\ (m - 1) + 1 = m
    BY <2>2, <2>4
  <2>6. Ok(m - 1)
    <3> HIDE DEF Ok
    <3> QED
      BY <2>2, <2>5
  <2>7. PICK f : ReadsBelow(s, f, m - 1)
    BY <2>6
  <2>8. Ok((m - 1) + 1)
    BY <2>5, <2>7, ReadsMore
  <2> HIDE DEF Ok
  <2> QED
    BY <2>2, <2>5, <2>8
<1>2. Ok(n)
  <2> HIDE DEF Ok
  <2> QED
    BY <1>1
<1> QED
  BY <1>2

\* There is a reading of the text, and only one.
LEMMA ReadingExists ==
  ASSUME NEW s, Len(s) \in Nat
  PROVE  \E R : IsReading(s, R)
<1>1. PICK f : ReadsBelow(s, f, Len(s) + 1)
  BY ReadsAll
<1>2. ASSUME NEW w \in Parts(s) PROVE f[w] = Phrase(s, f, w[1], w[2])
  <2>1. /\ w[1] \in 1..Len(s) + 1 /\ w[2] \in 0..Len(s) /\ w = <<w[1], w[2]>>
    BY PartsAre
  <2>2. w[2] - w[1] < Len(s) + 1
    BY <2>1
  <2>3. f[<<w[1], w[2]>>] = Phrase(s, f, w[1], w[2])
    BY <1>1, <2>1, <2>2 DEF ReadsBelow
  <2> QED
    BY <2>1, <2>3
<1>3. f = [w \in Parts(s) |-> f[w]]
  BY <1>1 DEF ReadsBelow
<1>4. IsReading(s, f)
  BY <1>2, <1>3, Zenon DEF IsReading
<1> QED
  BY <1>4

LEMMA IsReadingAt ==
  ASSUME NEW s, Len(s) \in Nat, NEW R, IsReading(s, R),
         NEW lo \in 1..Len(s) + 1, NEW hi \in 0..Len(s)
  PROVE  R[<<lo, hi>>] = Phrase(s, R, lo, hi)
<1>1. <<lo, hi>> \in Parts(s) /\ <<lo, hi>>[1] = lo /\ <<lo, hi>>[2] = hi
  BY PartsAre
<1> DEFINE w == <<lo, hi>>
<1>2. w \in Parts(s) /\ w[1] = lo /\ w[2] = hi
  BY <1>1
<1> HIDE DEF w
<1>3. R[w] = Phrase(s, R, w[1], w[2])
  BY <1>2, Zenon DEF IsReading
<1> QED
  BY <1>2, <1>3, Zenon DEF w

LEMMA ReadingOnce ==
  ASSUME NEW s, NEW r, Agree(s, r, Len(s)), NEW R, NEW Q, IsReading(s, R), IsReading(r, Q),
         NEW a \in 1..Len(s) + 1, NEW b \in 0..Len(s)
  PROVE  R[<<a, b>>] = Q[<<a, b>>]
<1>1. Len(s) \in Nat /\ Len(r) \in Nat /\ Len(s) <= Len(r)
  BY DEF Agree
<1> DEFINE T == {k \in Nat : \E lo \in 1..Len(s) + 1, hi \in 0..Len(s) :
                               /\ k = hi - lo + (Len(s) + 1)
                               /\ R[<<lo, hi>>] # Q[<<lo, hi>>]}
<1>2. ASSUME T # {} PROVE FALSE
  <2>1. PICK k \in T : \A j \in T : k <= j
    <3>1. T \subseteq Nat
      OBVIOUS
    <3> HIDE DEF T
    <3> QED
      BY <1>2, <3>1, Smallest
  <2>2. PICK lo \in 1..Len(s) + 1, hi \in 0..Len(s) :
           k = hi - lo + (Len(s) + 1) /\ R[<<lo, hi>>] # Q[<<lo, hi>>]
    OBVIOUS
  <2>3. SameInside(R, Q, lo, hi)
    <3> SUFFICES ASSUME NEW x \in lo..hi + 1, NEW y \in (lo - 1)..hi, y - x < hi - lo,
                        R[<<x, y>>] # Q[<<x, y>>]
                 PROVE  FALSE
      BY DEF SameInside
    <3>1. x \in 1..Len(s) + 1 /\ y \in 0..Len(s)
      BY <1>1, InsideIsPart
    <3>2. y - x + (Len(s) + 1) \in Nat /\ ~(k <= y - x + (Len(s) + 1))
      BY <1>1, <2>2, <3>1
    <3>3. y - x + (Len(s) + 1) \in T
      BY <3>1, <3>2
    <3> HIDE DEF T
    <3> QED
      BY <2>1, <3>2, <3>3
  <2> HIDE DEF T
  <2>4. Phrase(s, R, lo, hi) = Phrase(r, Q, lo, hi)
    BY <2>3, PhraseLocal
  <2>5. R[<<lo, hi>>] = Phrase(s, R, lo, hi)
    BY <1>1, IsReadingAt
  <2>6. lo \in 1..Len(r) + 1 /\ hi \in 0..Len(r)
    BY <1>1
  <2>7. Q[<<lo, hi>>] = Phrase(r, Q, lo, hi)
    BY <1>1, <2>6, IsReadingAt
  <2> QED
    BY <2>2, <2>4, <2>5, <2>7
<1>3. b - a + (Len(s) + 1) \in Nat
  BY <1>1
<1> QED
  BY <1>2, <1>3

\* Reading is that reading.
LEMMA ReadingReads == ASSUME NEW s, Len(s) \in Nat PROVE IsReading(s, Reading(s))
<1> DEFINE Is(R) == R = [part \in Parts(s) |-> Phrase(s, R, part[1], part[2])]
<1>1. Reading(s) = CHOOSE R : Is(R)
  BY Zenon DEF Reading
<1>2. \A R : Is(R) <=> IsReading(s, R)
  BY Zenon DEF IsReading
<1>3. \E R : Is(R)
  <2> HIDE DEF Is
  <2> QED
    BY <1>2, ReadingExists
<1> HIDE DEF Is
<1> QED
  BY <1>1, <1>2, <1>3

LEMMA ReadingIs ==
  ASSUME NEW s, Len(s) \in Nat, NEW lo \in 1..Len(s) + 1, NEW hi \in 0..Len(s)
  PROVE  Reading(s)[<<lo, hi>>] = Phrase(s, Reading(s), lo, hi)
BY ReadingReads, IsReadingAt

\* What is read does not change when the text grows.
LEMMA ReadingAgrees ==
  ASSUME NEW s, NEW r, Agree(s, r, Len(s)), NEW lo \in 1..Len(s) + 1, NEW hi \in 0..Len(s)
  PROVE  Reading(s)[<<lo, hi>>] = Reading(r)[<<lo, hi>>]
<1>1. IsReading(s, Reading(s)) /\ IsReading(r, Reading(r))
  BY ReadingReads DEF Agree
<1> QED
  BY <1>1, ReadingOnce

---------------------------------------------------------------------------
(* The productions of the grammar, one lemma each.                         *)

\* Trees.
LEMMA TreeIs ==
  /\ \A k, a, c : Tree(k, a, c).kind = k /\ Tree(k, a, c).at = a /\ Tree(k, a, c).kids = c
  /\ NoTree.kind = "none" /\ ~IsExpression(NoTree)
BY DEF Tree, NoTree, IsExpression

\* The cases of Phrase.
LEMMA PhraseEmpty ==
  ASSUME NEW s, NEW R, NEW lo \in Int, NEW hi \in Int, lo > hi
  PROVE  Phrase(s, R, lo, hi) = NoTree
<1>1. ~(lo <= hi)
  OBVIOUS
<1> QED
  BY <1>1, Zenon DEF Phrase

LEMMA PhraseCommas ==
  ASSUME NEW s, NEW R, NEW lo \in Int, NEW hi \in Int, lo <= hi, Commas(s, lo, hi) # {},
         NEW c, c = LastOf(Commas(s, lo, hi)), NEW e, e = c - 1, NEW a, a = c + 1
  PROVE  Phrase(s, R, lo, hi) =
           IF R[<<lo, e>>].kind # "none" /\ IsExpression(R[<<a, hi>>])
           THEN Tree("elements", 0, Append(Elements(R[<<lo, e>>]), R[<<a, hi>>]))
           ELSE NoTree
<1>1. ~(lo > hi)
  OBVIOUS
<1> QED
  BY <1>1, Zenon DEF Phrase

LEMMA PhraseBinary ==
  ASSUME NEW s, NEW R, NEW lo \in Int, NEW hi \in Int, lo <= hi, Commas(s, lo, hi) = {},
         BinaryAt(s, lo, hi) # {}, NEW p, p = LastApplied(s, BinaryAt(s, lo, hi)),
         NEW e, e = p - 1, NEW a, a = p + 1
  PROVE  Phrase(s, R, lo, hi) = Make("binary", p, <<R[<<lo, e>>], R[<<a, hi>>]>>)
<1>1. ~(lo > hi)
  OBVIOUS
<1> QED
  BY <1>1, Zenon DEF Phrase

LEMMA PhraseOperand ==
  ASSUME NEW s, NEW R, NEW lo \in Int, NEW hi \in Int, lo <= hi, Commas(s, lo, hi) = {},
         BinaryAt(s, lo, hi) = {}
  PROVE  Phrase(s, R, lo, hi) = Operand(s, R, lo, hi)
<1>1. ~(lo > hi)
  OBVIOUS
<1> QED
  BY <1>1, Zenon DEF Phrase

LEMMA UnaryIs == \A o \in Unary : o # "-" /\ o \in Operators /\ o \notin Binary
BY DEF Unary, Operators, Binary
LEMMA BinaryIs == "-" \in Binary /\ \A o \in Binary : o \in Operators /\ o \notin Unary
BY DEF Operators, Binary, Unary

\* The cases of Operand.
LEMMA OperandToken ==
  ASSUME NEW s, NEW R, NEW lo \in Int
  PROVE  Operand(s, R, lo, lo) = OneToken(s, lo)
<1>1. ~(lo < lo)
  OBVIOUS
<1> QED
  BY <1>1, Zenon DEF Operand

LEMMA OperandUnary ==
  ASSUME NEW s, NEW R, NEW lo \in Int, NEW hi \in Int, lo < hi, s[lo] \in Unary,
         NEW a, a = lo + 1
  PROVE  Operand(s, R, lo, hi) = Make("unary", lo, <<R[<<a, hi>>]>>)
<1>1. lo # hi /\ s[lo] # "-" /\ ~(s[lo] \notin Operators)
  BY UnaryIs
<1> QED
  BY <1>1, Zenon DEF Operand

LEMMA OperandSign ==
  ASSUME NEW s, NEW R, NEW lo \in Int, NEW hi \in Int, lo < hi, s[lo] = "-"
  PROVE  Operand(s, R, lo, hi) =
           IF hi = lo + 1 /\ s[hi] = "int" THEN Tree("negative", hi, <<>>) ELSE NoTree
<1>1. lo # hi /\ s[lo] \notin Unary /\ ~(s[lo] \notin Operators)
  BY UnaryIs, BinaryIs
<1> QED
  BY <1>1, Zenon DEF Operand

LEMMA OperandBracketed ==
  ASSUME NEW s, NEW R, NEW lo \in Int, NEW hi \in Int, lo < hi, s[lo] \notin Operators
  PROVE  Operand(s, R, lo, hi) = Bracketed(s, R, lo, hi)
<1>1. lo # hi /\ s[lo] \notin Unary /\ s[lo] # "-"
  BY UnaryIs, BinaryIs
<1> QED
  BY <1>1, Zenon DEF Operand

LEMMA OperandNone ==
  ASSUME NEW s, NEW R, NEW lo \in Int, NEW hi \in Int, lo < hi, s[lo] \in Operators,
         s[lo] \notin Unary, s[lo] # "-"
  PROVE  Operand(s, R, lo, hi) = NoTree
<1>1. lo # hi
  OBVIOUS
<1> QED
  BY <1>1, Zenon DEF Operand

\* The kinds of the four phrases that end with a bracket.
LEMMA BracketedKinds ==
  ASSUME NEW s, NEW R, NEW lo, NEW hi, NEW b, b = hi - 1,
         NEW open, open = LastOf(Outside(s, lo, b)), Bracketed(s, R, lo, hi).kind # "none"
  PROVE  \/ open = lo /\ s[open] = "(" /\ s[hi] = ")"
         \/ open = lo /\ s[open] = OpenBrace /\ s[hi] = CloseBrace
         \/ open = lo + 1 /\ s[lo] = "rotate" /\ s[open] = "(" /\ s[hi] = ")"
         \/ open > lo /\ s[lo] = "id" /\ s[open] = "[" /\ s[hi] = "]"
<1> SUFFICES ASSUME ~ \/ open = lo /\ s[open] = "(" /\ s[hi] = ")"
                      \/ open = lo /\ s[open] = OpenBrace /\ s[hi] = CloseBrace
                      \/ open = lo + 1 /\ s[lo] = "rotate" /\ s[open] = "(" /\ s[hi] = ")"
                      \/ open > lo /\ s[lo] = "id" /\ s[open] = "[" /\ s[hi] = "]"
             PROVE  Bracketed(s, R, lo, hi) = NoTree
  BY TreeIs
<1> QED
  BY Zenon DEF Bracketed, OpenBrace, CloseBrace

\* The cases of Bracketed.
LEMMA BracketedRound ==
  ASSUME NEW s, NEW R, NEW lo, NEW hi, NEW a, NEW b, a = lo + 1, b = hi - 1,
         lo = LastOf(Outside(s, lo, b)),
         s[lo] = "(", s[hi] = ")"
  PROVE  Bracketed(s, R, lo, hi) =
           IF IsExpression(R[<<a, b>>]) THEN R[<<a, b>>] ELSE NoTree
<1>1. s[lo] # "{" /\ s[lo] # "rotate" /\ s[lo] # "id"
  OBVIOUS
<1> QED
  BY <1>1, Zenon DEF Bracketed

LEMMA BracketedCurly ==
  ASSUME NEW s, NEW R, NEW lo, NEW hi, NEW a, NEW b, a = lo + 1, b = hi - 1,
         lo = LastOf(Outside(s, lo, b)),
         s[lo] = OpenBrace, s[hi] = CloseBrace
  PROVE  Bracketed(s, R, lo, hi) = Group("list", R[<<a, b>>])
<1>1. s[lo] # "(" /\ s[lo] # "rotate" /\ s[lo] # "id"
  BY Zenon DEF OpenBrace
<1> QED
  BY <1>1, Zenon DEF Bracketed, OpenBrace, CloseBrace

LEMMA BracketedRotate ==
  ASSUME NEW s, NEW R, NEW lo \in Int, NEW hi, NEW open, NEW a, NEW b, a = open + 1, b = hi - 1,
         open = LastOf(Outside(s, lo, b)), open = lo + 1,
         s[lo] = "rotate", s[open] = "(", s[hi] = ")"
  PROVE  Bracketed(s, R, lo, hi) =
           IF Len(Elements(R[<<a, b>>])) = 2 THEN Group("call", R[<<a, b>>]) ELSE NoTree
<1>1. open # lo /\ s[lo] # "id"
  OBVIOUS
<1> QED
  BY <1>1, Zenon DEF Bracketed

\* An index: the bracket at o, what is before it up to e, inside it from a to b.
IndexAt(s, lo, o, hi, e, a, b) ==
  /\ e = o - 1 /\ a = o + 1 /\ b = hi - 1 /\ lo \in Int /\ o \in Int /\ o > lo
  /\ s[lo] = "id" /\ s[o] = "[" /\ s[hi] = "]"

LEMMA BracketedSquare ==
  ASSUME NEW s, NEW R, NEW lo, NEW hi, NEW o, NEW a, NEW b, NEW e, IndexAt(s, lo, o, hi, e, a, b),
         o = LastOf(Outside(s, lo, b))
  PROVE  Bracketed(s, R, lo, hi) = Make("index", 0, <<R[<<lo, e>>], R[<<a, b>>]>>)
<1>1. /\ e = o - 1 /\ a = o + 1 /\ b = hi - 1 /\ o > lo /\ o # lo
      /\ s[lo] = "id" /\ s[o] = "[" /\ s[hi] = "]" /\ s[lo] # "rotate"
  BY DEF IndexAt
<1> QED
  BY <1>1, Zenon DEF Bracketed

\* Trees of parts.
LEMMA MakeOne ==
  ASSUME NEW k, NEW a, NEW t, k # "none"
  PROVE  /\ Make(k, a, <<t>>).kind # "none" => IsExpression(t)
         /\ IsExpression(t) => Make(k, a, <<t>>) = Tree(k, a, <<t>>)
BY TreeIs DEF Make

LEMMA MakeTwo ==
  ASSUME NEW k, NEW a, NEW t, NEW u, k # "none"
  PROVE  /\ Make(k, a, <<t, u>>).kind # "none" => IsExpression(t) /\ IsExpression(u)
         /\ IsExpression(t) /\ IsExpression(u) => Make(k, a, <<t, u>>) = Tree(k, a, <<t, u>>)
BY TreeIs DEF Make

LEMMA GroupIs ==
  ASSUME NEW k, NEW t
  PROVE  /\ Group(k, t).kind # "none" => t.kind # "none"
         /\ t.kind # "none" => Group(k, t) = Tree(k, 0, Elements(t))
BY TreeIs DEF Group

---------------------------------------------------------------------------
(* The form of what is an expression.                                      *)

\* The brackets of s[lo..hi] match.
Balanced(s, lo, hi) ==
  /\ lo \in 1..hi /\ hi \in 1..Len(s)
  /\ Depth(s)[hi + 1] = Depth(s)[lo]
  /\ \A p \in lo..hi : Depth(s)[p] >= Depth(s)[lo]

\* Brackets that are closed.
LEMMA BalancedToken ==
  ASSUME NEW s, Len(s) \in Nat, NEW lo \in 1..Len(s), s[lo] \notin Opening, s[lo] \notin Closing
  PROVE  Balanced(s, lo, lo)
<1>1. Depth(s)[lo + 1] = Depth(s)[lo] + Change(s[lo]) /\ Change(s[lo]) = 0 /\ Depth(s)[lo] \in Int
  BY DepthIs, ChangeOf
<1> QED
  BY <1>1 DEF Balanced

LEMMA BalancedJoin ==
  ASSUME NEW s, Len(s) \in Nat, NEW lo \in Int, NEW m \in Int, NEW k \in Int, NEW hi \in Int,
         Balanced(s, lo, m), Balanced(s, k, hi), k = m + 1
  PROVE  Balanced(s, lo, hi)
BY DEF Balanced

LEMMA BalancedBrackets ==
  ASSUME NEW s, Len(s) \in Nat, NEW lo \in 1..Len(s), NEW hi \in 1..Len(s),
         s[lo] \in Opening, s[hi] \in Closing, Balanced(s, lo + 1, hi - 1)
  PROVE  Balanced(s, lo, hi)
<1>1. /\ Depth(s)[lo + 1] = Depth(s)[lo] + 1
      /\ Depth(s)[hi + 1] = Depth(s)[hi] + (-1)
  BY DepthIs, ChangeOf
<1>2. /\ lo + 1 \in 1..hi - 1 /\ hi - 1 \in 1..Len(s)
      /\ Depth(s)[(hi - 1) + 1] = Depth(s)[lo + 1]
      /\ \A p \in lo + 1..hi - 1 : Depth(s)[p] >= Depth(s)[lo + 1]
  BY DEF Balanced
<1>3. (hi - 1) + 1 = hi
  OBVIOUS
<1>4. \A p \in 1..Len(s) + 1 : Depth(s)[p] \in Int
  BY DepthIs
<1>5. \A p \in lo..hi : Depth(s)[p] >= Depth(s)[lo]
  <2> SUFFICES ASSUME NEW p \in lo..hi PROVE Depth(s)[p] >= Depth(s)[lo]
    OBVIOUS
  <2>1. lo \in 1..Len(s) + 1 /\ p \in 1..Len(s) + 1 /\ Depth(s)[lo] \in Int /\ Depth(s)[p] \in Int
    BY <1>4
  <2>2. CASE p = lo
    BY <2>1, <2>2
  <2>3. CASE p = hi
    BY <1>1, <1>2, <1>3, <2>1, <2>3
  <2>4. CASE p \in lo + 1..hi - 1
    BY <1>1, <1>2, <2>1, <2>4
  <2> QED
    BY <2>2, <2>3, <2>4
<1>6. Depth(s)[hi + 1] = Depth(s)[lo] /\ lo \in 1..hi
  <2>1. lo \in 1..Len(s) + 1
    OBVIOUS
  <2>2. Depth(s)[lo] \in Int
    BY <1>4, <2>1
  <2> QED
    BY <1>1, <1>2, <1>3, <2>2
<1> QED
  BY <1>5, <1>6 DEF Balanced

\* What may stand side by side in an expression: also a late prefix.
Beside(a, b) == Follows(a, b) \/ (a \in Operators /\ b \in Starting)
Pairs(s, lo, hi) ==
  /\ \A i \in lo..hi - 1 : Beside(s[i], s[i + 1])
  /\ \A i \in lo..hi - 1 : s[i] = "-" /\ (i = lo \/ ~EndsOperand(s[i - 1])) => s[i + 1] = "int"

\* Tokens that may stand next to each other.
LEMMA PairsToken == ASSUME NEW s, NEW lo \in Int PROVE Pairs(s, lo, lo)
<1>1. \A i \in lo..lo - 1 : FALSE
  OBVIOUS
<1> QED
  BY <1>1, Zenon DEF Pairs

LEMMA PairsJoin ==
  ASSUME NEW s, NEW lo \in Int, NEW m \in Int, NEW k \in Int, NEW hi \in Int, lo <= m, m < hi,
         Pairs(s, lo, m), Pairs(s, k, hi), k = m + 1, Beside(s[m], s[k]),
         s[m] = "-" /\ (m = lo \/ ~EndsOperand(s[m - 1])) => s[k] = "int"
  PROVE  Pairs(s, lo, hi)
<1>1. ASSUME NEW i \in lo..hi - 1 PROVE i \in lo..m - 1 \/ i = m \/ i \in m + 1..hi - 1
  OBVIOUS
<1>2. \A i \in lo..hi - 1 : Beside(s[i], s[i + 1])
  BY <1>1 DEF Pairs
<1>3. ASSUME NEW i \in lo..hi - 1, s[i] = "-" /\ (i = lo \/ ~EndsOperand(s[i - 1]))
      PROVE  s[i + 1] = "int"
  <2>1. CASE i \in lo..m - 1
    BY <1>3, <2>1 DEF Pairs
  <2>2. CASE i = m
    BY <1>3, <2>2
  <2>3. CASE i \in m + 1..hi - 1
    <3>1. i # lo
      BY <2>3
    <3>2. ~EndsOperand(s[i - 1])
      BY <1>3, <3>1
    <3> QED
      BY <1>3, <2>3, <3>2 DEF Pairs
  <2> QED
    BY <1>1, <2>1, <2>2, <2>3
<1> QED
  BY <1>2, <1>3, Zenon DEF Pairs

WellFormed(s, lo, hi) ==
  /\ Balanced(s, lo, hi) /\ Pairs(s, lo, hi)
  /\ s[lo] \in Starting /\ EndsOperand(s[hi])
  /\ s[lo] = "-" => lo < hi

LEMMA FormRange ==
  ASSUME NEW s, NEW lo, NEW hi, WellFormed(s, lo, hi)
  PROVE  lo \in 1..hi /\ hi \in 1..Len(s)
BY DEF WellFormed, Balanced

LEMMA TokensAre ==
  /\ \A t \in Literals \cup {"id"} : t \notin Opening /\ t \notin Closing /\ t \in Starting
                                     /\ EndsOperand(t) /\ t # "-"
  /\ \A t \in Operators : t \notin Opening /\ t \notin Closing /\ ~EndsOperand(t)
  /\ \A t \in Unary : t \in Starting /\ t \in Operators /\ t # "-"
  /\ "-" \in Operators /\ "-" \in Starting
  /\ \A t \in {"(", OpenBrace, "["} : t \in Opening /\ ~EndsOperand(t) /\ t # "-"
  /\ \A t \in {"(", OpenBrace} : t \in Starting
  /\ \A t \in {")", CloseBrace, "]"} : t \in Closing /\ EndsOperand(t)
  /\ "rotate" \in Starting /\ ~EndsOperand("rotate") /\ "rotate" \notin Opening
  /\ "rotate" \notin Closing
  /\ Comma \notin Opening /\ Comma \notin Closing
BY Zenon DEF Comma, OpenBrace, CloseBrace, Literals, Opening, Closing, Starting, Plain, Unary, Operators, Binary, EndsOperand

LEMMA BesideIs ==
  /\ \A a, b : EndsOperand(a) /\ b \in Binary \cup Closing \cup {Comma} => Beside(a, b)
  /\ \A a, b : a \in {"id", "]"} /\ b = "[" => Beside(a, b)
  /\ \A a, b : a \in Operators /\ b \in Starting => Beside(a, b)
  /\ \A a, b : a \in Opening \cup {Comma} /\ b \in Starting => Beside(a, b)
  /\ Beside("rotate", "(")
BY Zenon DEF Beside, Follows, Comma

\* Operands and what is made of them are well formed.
LEMMA FormToken ==
  ASSUME NEW s, Len(s) \in Nat, NEW lo \in 1..Len(s), s[lo] \in Literals \cup {"id"}
  PROVE  WellFormed(s, lo, lo)
<1>1. s[lo] \notin Opening /\ s[lo] \notin Closing /\ s[lo] \in Starting /\ EndsOperand(s[lo]) /\ s[lo] # "-"
  BY TokensAre
<1> QED
  BY <1>1, BalancedToken, PairsToken DEF WellFormed

\* A prefix operator, or a sign.
LEMMA FormPrefix ==
  ASSUME NEW s, Len(s) \in Nat, NEW lo \in 1..Len(s), NEW hi \in Int, NEW a, a = lo + 1,
         WellFormed(s, a, hi), s[lo] \in Unary \/ (s[lo] = "-" /\ s[a] = "int")
  PROVE  WellFormed(s, lo, hi)
<1>1. /\ s[lo] \in Operators /\ s[lo] \in Starting /\ s[lo] \notin Opening /\ s[lo] \notin Closing
      /\ (s[lo] = "-" => s[a] = "int")
  BY TokensAre
<1>2. a \in 1..hi /\ Balanced(s, a, hi) /\ Pairs(s, a, hi) /\ s[a] \in Starting
      /\ EndsOperand(s[hi]) /\ a \in Int
  BY FormRange DEF WellFormed
<1>3. Balanced(s, lo, hi)
  BY <1>1, <1>2, BalancedToken, BalancedJoin
<1>4. Pairs(s, lo, hi)
  <2>1. Beside(s[lo], s[a])
    BY <1>1, <1>2, BesideIs
  <2>2. Pairs(s, lo, lo) /\ lo <= lo /\ lo < hi
    BY <1>2, PairsToken
  <2> QED
    BY <1>1, <1>2, <2>1, <2>2, PairsJoin
<1> QED
  BY <1>1, <1>2, <1>3, <1>4 DEF WellFormed

\* A comma or a binary operator between two expressions.
LEMMA FormBetween ==
  ASSUME NEW s, Len(s) \in Nat, NEW lo \in Int, NEW p \in Int, NEW hi \in Int,
         NEW e, NEW a, e = p - 1, a = p + 1,
         WellFormed(s, lo, e), WellFormed(s, a, hi), s[p] \in Binary \cup {Comma}
  PROVE  WellFormed(s, lo, hi)
<1>1. lo \in 1..e /\ a \in 1..hi /\ hi \in 1..Len(s) /\ p \in 1..Len(s) /\ p = e + 1
      /\ e \in Int /\ a \in Int
  <2>1. lo \in 1..e
    BY FormRange
  <2>2. a \in 1..hi /\ hi \in 1..Len(s)
    BY FormRange
  <2> QED
    BY <2>1, <2>2
<1>2. s[p] \notin Opening /\ s[p] \notin Closing
  BY TokensAre, BinaryIs
<1>3. /\ Balanced(s, lo, e) /\ Pairs(s, lo, e) /\ s[lo] \in Starting /\ EndsOperand(s[e])
      /\ Balanced(s, a, hi) /\ Pairs(s, a, hi) /\ s[a] \in Starting /\ EndsOperand(s[hi])
  BY DEF WellFormed
<1>4. Beside(s[e], s[p])
  BY <1>3, BesideIs
<1>5. Beside(s[p], s[a])
  <2>1. CASE s[p] \in Binary
    BY <1>3, <2>1, BinaryIs, BesideIs
  <2>2. CASE s[p] = Comma
    BY <1>3, <2>2, BesideIs
  <2> QED
    BY <2>1, <2>2
<1>6. Balanced(s, lo, p)
  <2>1. Balanced(s, p, p)
    BY <1>1, <1>2, BalancedToken
  <2> QED
    BY <1>1, <1>3, <2>1, BalancedJoin
<1>7. Balanced(s, lo, hi)
  BY <1>1, <1>3, <1>6, BalancedJoin
<1>8. Pairs(s, lo, p)
  <2>1. Pairs(s, p, p)
    BY <1>1, PairsToken
  <2>2. lo <= e /\ e < p /\ s[e] # "-" /\ e \in Int
    BY <1>1, <1>3, TokensAre
  <2> QED
    BY <1>1, <1>3, <1>4, <2>1, <2>2, PairsJoin
<1>9. Pairs(s, lo, hi)
  <2>1. lo <= p /\ p < hi /\ p # lo /\ EndsOperand(s[e]) /\ a \in Int
    BY <1>1, <1>3
  <2> QED
    BY <1>3, <1>5, <1>8, <2>1, PairsJoin
<1>10. lo < hi
  BY <1>1
<1> QED
  BY <1>3, <1>7, <1>9, <1>10 DEF WellFormed

\* Brackets around an expression.
LEMMA FormInside ==
  ASSUME NEW s, Len(s) \in Nat, NEW lo \in 1..Len(s), NEW hi \in 1..Len(s), NEW a, NEW b,
         a = lo + 1, b = hi - 1, WellFormed(s, a, b), s[lo] \in Opening, s[hi] \in Closing
  PROVE  Balanced(s, lo, hi) /\ Pairs(s, lo, hi) /\ EndsOperand(s[hi]) /\ lo < hi
<1>1. a \in 1..b /\ hi = b + 1 /\ b \in Int /\ a \in Int
  BY FormRange
<1>2. /\ Balanced(s, a, b) /\ Pairs(s, a, b) /\ s[a] \in Starting
      /\ EndsOperand(s[b])
  BY DEF WellFormed
<1>3. Balanced(s, lo, hi)
  BY <1>2, BalancedBrackets
<1>4. Beside(s[lo], s[a]) /\ Beside(s[b], s[hi])
  BY <1>2, BesideIs
<1>5. s[lo] # "-" /\ s[b] # "-" /\ EndsOperand(s[hi])
  <2>1. \A t \in Opening : t # "-"
    BY DEF Opening
  <2>2. \A t \in Closing : EndsOperand(t)
    BY DEF Closing, EndsOperand
  <2> QED
    BY <1>2, <2>1, <2>2, TokensAre
<1>6. Pairs(s, lo, b)
  <2>1. Pairs(s, lo, lo) /\ lo <= lo /\ lo < b
    BY <1>1, PairsToken
  <2> QED
    BY <1>1, <1>2, <1>4, <1>5, <2>1, PairsJoin
<1>7. Pairs(s, lo, hi)
  <2>1. Pairs(s, hi, hi) /\ lo <= b /\ b < hi
    BY <1>1, PairsToken
  <2> QED
    BY <1>1, <1>4, <1>5, <1>6, <2>1, PairsJoin
<1>8. lo < hi
  BY <1>1
<1> QED
  BY <1>3, <1>5, <1>7, <1>8

LEMMA FormBrackets ==
  ASSUME NEW s, Len(s) \in Nat, NEW lo \in 1..Len(s), NEW hi \in 1..Len(s), NEW a, NEW b,
         a = lo + 1, b = hi - 1, WellFormed(s, a, b), s[lo] \in {"(", OpenBrace}, s[hi] \in Closing
  PROVE  WellFormed(s, lo, hi)
<1>1. s[lo] \in Opening /\ s[lo] \in Starting
  BY TokensAre
<1>2. Balanced(s, lo, hi) /\ Pairs(s, lo, hi) /\ EndsOperand(s[hi]) /\ lo < hi
  BY <1>1, FormInside
<1> QED
  BY <1>1, <1>2 DEF WellFormed

LEMMA FormRotate ==
  ASSUME NEW s, Len(s) \in Nat, NEW lo \in 1..Len(s), NEW hi \in 1..Len(s), NEW k \in 1..Len(s),
         NEW a, NEW b, k = lo + 1, a = k + 1, b = hi - 1,
         WellFormed(s, a, b), s[lo] = "rotate", s[k] = "(", s[hi] \in Closing
  PROVE  WellFormed(s, lo, hi)
<1>2. s[k] \in Opening
  BY TokensAre
<1>3. Balanced(s, k, hi) /\ Pairs(s, k, hi) /\ EndsOperand(s[hi]) /\ k < hi
  BY <1>2, FormInside
<1>4. Balanced(s, lo, lo) /\ Pairs(s, lo, lo)
  <2>1. s[lo] \notin Opening /\ s[lo] \notin Closing
    BY Zenon, TokensAre
  <2> QED
    BY <2>1, BalancedToken, PairsToken
<1>5. Balanced(s, lo, hi)
  BY <1>3, <1>4, BalancedJoin
<1>6. Beside(s[lo], s[k]) /\ s[lo] # "-" /\ lo <= lo /\ lo < hi
  <2>1. Beside(s[lo], s[k])
    BY Zenon, BesideIs
  <2>2. s[lo] # "-" /\ lo < hi
    BY <1>3
  <2> QED
    BY <2>1, <2>2
<1>7. Pairs(s, lo, hi)
  BY <1>3, <1>4, <1>6, PairsJoin
<1> QED
  <2>1. s[lo] \in Starting
    BY Zenon, TokensAre
  <2> QED
    BY <1>3, <1>5, <1>6, <1>7, <2>1 DEF WellFormed

LEMMA FormIndex ==
  ASSUME NEW s, Len(s) \in Nat, NEW lo \in 1..Len(s), NEW hi \in 1..Len(s), NEW o, NEW e, NEW a, NEW b,
         IndexAt(s, lo, o, hi, e, a, b),
         WellFormed(s, lo, e), s[e] \in {"id", "]"}, WellFormed(s, a, b)
  PROVE  WellFormed(s, lo, hi)
<1>0. e = o - 1 /\ a = o + 1 /\ b = hi - 1 /\ o \in Int /\ s[o] = "[" /\ s[hi] \in Closing
  BY DEF IndexAt, Closing
<1>1. lo \in 1..e /\ o \in 1..Len(s) /\ o = e + 1 /\ e \in Int
  <2>1. lo \in 1..e /\ e \in 1..Len(s)
    BY FormRange
  <2>2. a \in 1..b
    BY FormRange
  <2> QED
    BY <1>0, <2>1, <2>2
<1>2. s[o] \in Opening
  BY <1>0, Zenon, TokensAre
<1>3. Balanced(s, o, hi) /\ Pairs(s, o, hi) /\ EndsOperand(s[hi]) /\ o < hi
  BY <1>0, <1>1, <1>2, FormInside
<1>4. Balanced(s, lo, e) /\ Pairs(s, lo, e) /\ s[lo] \in Starting
  BY DEF WellFormed
<1>5. Balanced(s, lo, hi)
  BY <1>1, <1>3, <1>4, BalancedJoin
<1>6. Beside(s[e], s[o]) /\ s[e] # "-" /\ lo <= e /\ e < hi
  BY <1>0, <1>1, <1>3, BesideIs
<1>7. Pairs(s, lo, hi)
  BY <1>1, <1>3, <1>4, <1>6, PairsJoin
<1>8. lo < hi
  BY <1>1, <1>3
<1> QED
  BY <1>3, <1>4, <1>5, <1>7, <1>8 DEF WellFormed

---------------------------------------------------------------------------
(* What has a tree is well formed.                                         *)

LEMMA ExpressionIs ==
  /\ \A t : IsExpression(t) => t.kind # "none"
  /\ \A t : IsExpression(t) => t.kind # "elements"
  /\ \A t : t.kind # "none" /\ t.kind # "elements" => IsExpression(t)
BY Zenon DEF IsExpression

LEMMA CommasAre ==
  ASSUME NEW s, NEW lo, NEW hi
  PROVE  \A c \in Commas(s, lo, hi) : s[c] = Comma
BY Zenon DEF Commas, Comma

LEMMA OutsideShorter ==
  ASSUME NEW s, NEW lo \in Int, NEW hi \in Int, NEW m \in Int, m <= hi
  PROVE  /\ Commas(s, lo, m) \subseteq Commas(s, lo, hi)
         /\ BinaryAt(s, lo, m) \subseteq BinaryAt(s, lo, hi)
<1>1. \A p \in lo..m : p \in lo..hi
  OBVIOUS
<1>2. Outside(s, lo, m) \subseteq Outside(s, lo, hi)
  BY <1>1, Zenon DEF Outside
<1> QED
  BY <1>2, Zenon DEF Commas, BinaryAt

LEMMA OneTokenIs ==
  ASSUME NEW s, NEW p
  PROVE  /\ OneToken(s, p).kind # "none" => s[p] \in Literals \cup {"id"}
         /\ s[p] = "id" => OneToken(s, p) = Tree("variable", p, <<>>)
         /\ s[p] \in Literals => OneToken(s, p) = Tree("literal", p, <<>>)
<1>1. s[p] \notin Literals \cup {"id"} => OneToken(s, p) = NoTree
  BY Zenon DEF OneToken
<1>2. s[p] = "id" => OneToken(s, p) = Tree("variable", p, <<>>)
  <2>1. "id" \notin Literals
    BY DEF Literals
  <2> QED
    BY <2>1, Zenon DEF OneToken
<1>3. s[p] \in Literals => OneToken(s, p) = Tree("literal", p, <<>>)
  <2>1. "id" \notin Literals
    BY DEF Literals
  <2> QED
    BY <2>1, Zenon DEF OneToken
<1> QED
  BY <1>1, <1>2, <1>3, TreeIs, Zenon

LEMMA OpenIs ==
  ASSUME NEW s, Len(s) \in Nat, NEW lo \in 1..Len(s), NEW hi \in 1..Len(s), lo < hi
  PROVE  LastOf(Outside(s, lo, hi - 1)) \in lo..hi - 1
<1> DEFINE b == hi - 1
<1>1. b \in Nat /\ lo \in Nat /\ lo > 0 /\ lo <= b
  OBVIOUS
<1> HIDE DEF b
<1>2. Outside(s, lo, b) \subseteq 1..b /\ Outside(s, lo, b) # {} /\ Outside(s, lo, b) \subseteq lo..b
  BY <1>1, OutsideIs
<1> QED
  BY <1>1, <1>2, LastIs DEF b

LEMMA TargetEnds ==
  ASSUME NEW s, Len(s) \in Nat, NEW R, NEW lo \in 1..Len(s), NEW hi \in 1..Len(s), lo <= hi,
         Commas(s, lo, hi) = {}, BinaryAt(s, lo, hi) = {}, s[lo] = "id",
         Phrase(s, R, lo, hi).kind # "none"
  PROVE  s[hi] \in {"id", "]"}
<1>1. Operand(s, R, lo, hi).kind # "none"
  BY PhraseOperand
<1>2. CASE lo = hi
  BY <1>2
<1>3. CASE lo < hi
  <2>1. s[lo] \notin Operators
    BY DEF Operators, Unary, Binary
  <2>2. Bracketed(s, R, lo, hi).kind # "none"
    BY <1>1, <1>3, <2>1, OperandBracketed
  <2>3. s[hi] = "]"
    <3>1. s[lo] # "(" /\ s[lo] # "rotate"
      OBVIOUS
    <3>2. s[lo] # OpenBrace
      BY Zenon DEF OpenBrace
    <3> DEFINE b == hi - 1
               o == LastOf(Outside(s, lo, b))
    <3>3. b = hi - 1 /\ o = LastOf(Outside(s, lo, b))
      OBVIOUS
    <3> HIDE DEF b, o
    <3> QED
      BY <2>2, <3>1, <3>2, <3>3, BracketedKinds
  <2> QED
    BY <2>3
<1> QED
  BY <1>2, <1>3

\* The shorter parts inside lo..hi are well formed where they have a tree.
SmallForms(s, lo, hi) ==
  \A x \in lo..hi + 1, y \in (lo - 1)..hi :
    y - x < hi - lo /\ Reading(s)[<<x, y>>].kind # "none" => WellFormed(s, x, y)

LEMMA FormSmall ==
  ASSUME NEW s, NEW lo \in Int, NEW hi \in Int, SmallForms(s, lo, hi),
         NEW x \in Int, NEW y \in Int, lo <= x, x <= hi + 1, lo - 1 <= y, y <= hi, y - x < hi - lo,
         Reading(s)[<<x, y>>].kind # "none"
  PROVE  WellFormed(s, x, y)
<1>1. x \in lo..hi + 1 /\ y \in (lo - 1)..hi
  OBVIOUS
<1> QED
  BY <1>1 DEF SmallForms

LEMMA FormBracketed ==
  ASSUME NEW s, Len(s) \in Nat, NEW lo \in 1..Len(s), NEW hi \in 1..Len(s), lo < hi,
         SmallForms(s, lo, hi), Commas(s, lo, hi) = {}, BinaryAt(s, lo, hi) = {},
         Bracketed(s, Reading(s), lo, hi).kind # "none"
  PROVE  WellFormed(s, lo, hi)
<1> DEFINE o == LastOf(Outside(s, lo, hi - 1))
           R == Reading(s)
           a == o + 1
           b == hi - 1
           e == o - 1
<1>1. o \in lo..b /\ o \in Int /\ o \in 1..Len(s) /\ lo \in Int
  BY OpenIs
<1>a. o = LastOf(Outside(s, lo, b)) /\ a = o + 1 /\ b = hi - 1 /\ e = o - 1 /\ R = Reading(s)
  OBVIOUS
<1>b. a \in Int /\ b \in Int /\ e \in Int
  BY <1>1
<1> HIDE DEF o, a, b, e, R
<1>2. \/ o = lo /\ s[o] = "(" /\ s[hi] = ")"
      \/ o = lo /\ s[o] = OpenBrace /\ s[hi] = CloseBrace
      \/ o = lo + 1 /\ s[lo] = "rotate" /\ s[o] = "(" /\ s[hi] = ")"
      \/ o > lo /\ s[lo] = "id" /\ s[o] = "[" /\ s[hi] = "]"
  BY <1>a, BracketedKinds
<1>5. R[<<a, b>>].kind # "none" => WellFormed(s, a, b)
  <2>1. lo <= a /\ a <= hi + 1 /\ lo - 1 <= b /\ b <= hi /\ b - a < hi - lo
    BY <1>1, <1>a
  <2> QED
    BY <1>a, <1>b, <2>1, FormSmall
<1>6. CASE o = lo /\ s[o] = "(" /\ s[hi] = ")"
  <2>0. a = lo + 1
    BY <1>a, <1>6
  <2>1. R[<<a, b>>].kind # "none"
    <3>1. Bracketed(s, R, lo, hi) = IF IsExpression(R[<<a, b>>]) THEN R[<<a, b>>] ELSE NoTree
      BY <1>a, <1>6, <2>0, BracketedRound
    <3> QED
      BY <1>a, <3>1, ExpressionIs, TreeIs
  <2>2. WellFormed(s, a, b)
    BY <1>5, <2>1
  <2>3. s[hi] \in Closing /\ s[lo] \in {"(", OpenBrace}
    BY <1>6, Zenon DEF Closing
  <2> QED
    BY <1>a, <2>0, <2>2, <2>3, FormBrackets
<1>7. CASE o = lo /\ s[o] = OpenBrace /\ s[hi] = CloseBrace
  <2>0. o = lo
    BY <1>7, Zenon
  <2>1. a = lo + 1
    BY <1>a, <2>0, Zenon
  <2>2. R[<<a, b>>].kind # "none"
    <3>1. Bracketed(s, R, lo, hi) = Group("list", R[<<a, b>>])
      BY <1>a, <1>7, <2>0, <2>1, BracketedCurly
    <3> QED
      BY <1>a, <3>1, GroupIs
  <2>3. WellFormed(s, a, b)
    BY <1>5, <2>2, Zenon
  <2>4. s[hi] \in Closing /\ s[lo] \in {"(", OpenBrace}
    BY <1>7, Zenon DEF Closing, OpenBrace, CloseBrace
  <2> QED
    BY <1>a, <2>0, <2>1, <2>3, <2>4, FormBrackets
<1>8. CASE o = lo + 1 /\ s[lo] = "rotate" /\ s[o] = "(" /\ s[hi] = ")"
  <2>1. R[<<a, b>>].kind # "none"
    <3>1. Bracketed(s, R, lo, hi) = IF Len(Elements(R[<<a, b>>])) = 2 THEN Group("call", R[<<a, b>>]) ELSE NoTree
      BY <1>a, <1>8, BracketedRotate
    <3> QED
      BY <1>a, <3>1, GroupIs, TreeIs
  <2>2. WellFormed(s, a, b)
    BY <1>5, <2>1
  <2>3. s[hi] \in Closing
    BY <1>8, Zenon DEF Closing
  <2> QED
    BY <1>1, <1>a, <1>8, <2>2, <2>3, FormRotate
<1>9. CASE o > lo /\ s[lo] = "id" /\ s[o] = "[" /\ s[hi] = "]"
  <2>0. IndexAt(s, lo, o, hi, e, a, b)
    BY <1>1, <1>a, <1>9 DEF IndexAt
  <2>1. Bracketed(s, R, lo, hi) = Make("index", 0, <<R[<<lo, e>>], R[<<a, b>>]>>)
    BY <1>a, <2>0, BracketedSquare
  <2>2. R[<<a, b>>].kind # "none" /\ R[<<lo, e>>].kind # "none"
    BY <1>a, <2>1, MakeTwo, ExpressionIs
  <2>3. WellFormed(s, a, b)
    BY <1>5, <2>2
  <2>4. WellFormed(s, lo, e)
    <3>1. lo <= lo /\ lo <= hi + 1 /\ lo - 1 <= e /\ e <= hi /\ e - lo < hi - lo /\ lo \in Int /\ hi \in Int
      BY <1>1, <1>a
    <3> QED
      BY <1>a, <1>b, <2>2, <3>1, FormSmall
  <2>5. s[e] \in {"id", "]"}
    <3>1. lo <= e /\ e \in 1..Len(s) /\ e <= hi /\ lo \in Int /\ hi \in Int
          /\ lo \in 1..Len(s) + 1 /\ e \in 0..Len(s)
      BY <1>1, <1>a, <1>9
    <3>2. Commas(s, lo, e) = {} /\ BinaryAt(s, lo, e) = {}
      BY <1>b, <3>1, OutsideShorter
    <3>3. Phrase(s, R, lo, e).kind # "none"
      BY <1>a, <2>2, <3>1, ReadingIs
    <3> QED
      BY <1>9, <3>1, <3>2, <3>3, TargetEnds
  <2> QED
    BY <2>0, <2>3, <2>4, <2>5, FormIndex
<1> QED
  BY <1>2, <1>6, <1>7, <1>8, <1>9, Zenon

LEMMA FormOperand ==
  ASSUME NEW s, Len(s) \in Nat, NEW lo \in 1..Len(s), NEW hi \in 1..Len(s), lo <= hi,
         SmallForms(s, lo, hi), Commas(s, lo, hi) = {}, BinaryAt(s, lo, hi) = {},
         Operand(s, Reading(s), lo, hi).kind # "none"
  PROVE  WellFormed(s, lo, hi)
<1> DEFINE R == Reading(s)
<1>1. CASE lo = hi
  <2>1. OneToken(s, lo).kind # "none"
    BY <1>1, OperandToken
  <2> QED
    BY <1>1, <2>1, OneTokenIs, FormToken
<1>2. CASE lo < hi /\ s[lo] \in Unary
  <2> DEFINE a == lo + 1
  <2>1. a = lo + 1 /\ a \in Int
    OBVIOUS
  <2> HIDE DEF a
  <2>2. R[<<a, hi>>].kind # "none"
    <3>1. Operand(s, R, lo, hi) = Make("unary", lo, <<R[<<a, hi>>]>>)
      BY <1>2, <2>1, OperandUnary
    <3> QED
      BY <3>1, MakeOne, ExpressionIs
  <2>3. WellFormed(s, a, hi)
    BY <1>2, <2>1, <2>2, FormSmall
  <2> QED
    BY <1>2, <2>1, <2>3, FormPrefix
<1>3. CASE lo < hi /\ s[lo] = "-"
  <2>1. hi = lo + 1 /\ s[hi] = "int"
    <3>1. Operand(s, R, lo, hi) =
            IF hi = lo + 1 /\ s[hi] = "int" THEN Tree("negative", hi, <<>>) ELSE NoTree
      BY <1>3, OperandSign
    <3> QED
      BY <3>1, TreeIs
  <2>2. s[hi] \in Literals \cup {"id"}
    BY <2>1 DEF Literals
  <2>3. WellFormed(s, hi, hi)
    BY <2>2, FormToken
  <2> QED
    BY <1>3, <2>1, <2>3, FormPrefix
<1>4. CASE lo < hi /\ s[lo] \notin Operators
  <2>1. Bracketed(s, R, lo, hi).kind # "none"
    BY <1>4, OperandBracketed
  <2> QED
    BY <1>4, <2>1, FormBracketed
<1>5. CASE lo < hi /\ s[lo] \in Operators /\ s[lo] \notin Unary /\ s[lo] # "-"
  BY <1>5, OperandNone, TreeIs
<1> QED
  BY <1>1, <1>2, <1>3, <1>4, <1>5

\* A part is well formed if all shorter parts with a tree are.
LEMMA FormStep ==
  ASSUME NEW s, Len(s) \in Nat, NEW lo \in 1..Len(s) + 1, NEW hi \in 0..Len(s),
         SmallForms(s, lo, hi), Reading(s)[<<lo, hi>>].kind # "none"
  PROVE  WellFormed(s, lo, hi)
<1> DEFINE R == Reading(s)
<1>1. Phrase(s, R, lo, hi).kind # "none"
  BY ReadingIs
<1> HIDE DEF R
<1>2. lo <= hi
  BY <1>1, PhraseEmpty, TreeIs
<1>3. lo \in 1..Len(s) /\ hi \in 1..Len(s) /\ lo \in Nat /\ hi \in Nat /\ lo > 0
  BY <1>2
<1>4. CASE Commas(s, lo, hi) # {}
  <2> DEFINE c == LastOf(Commas(s, lo, hi))
             e == c - 1
             a == c + 1
  <2>1. c \in lo..hi /\ s[c] = Comma
    <3>1. Commas(s, lo, hi) \subseteq lo..hi /\ Commas(s, lo, hi) \subseteq 1..hi
      BY <1>3, OutsideIs
    <3>2. c \in Commas(s, lo, hi)
      BY <1>3, <1>4, <3>1, LastIs
    <3> QED
      BY <3>1, <3>2, CommasAre
  <2>2. e = c - 1 /\ a = c + 1 /\ e \in Int /\ a \in Int /\ c \in Int
    BY <2>1
  <2>a. c = LastOf(Commas(s, lo, hi))
    OBVIOUS
  <2> HIDE DEF c, e, a
  <2>3. R[<<lo, e>>].kind # "none" /\ R[<<a, hi>>].kind # "none"
    <3>1. Phrase(s, R, lo, hi) =
             IF R[<<lo, e>>].kind # "none" /\ IsExpression(R[<<a, hi>>])
             THEN Tree("elements", 0, Append(Elements(R[<<lo, e>>]), R[<<a, hi>>]))
             ELSE NoTree
      BY <1>2, <1>3, <1>4, <2>2, <2>a, PhraseCommas
    <3> QED
      BY <1>1, <3>1, ExpressionIs, TreeIs
  <2>4. lo <= lo /\ lo <= hi + 1 /\ lo - 1 <= e /\ e <= hi /\ e - lo < hi - lo
        /\ lo <= a /\ a <= hi + 1 /\ lo - 1 <= hi /\ hi <= hi /\ hi - a < hi - lo
    BY <1>2, <1>3, <2>1, <2>2
  <2>5. WellFormed(s, lo, e)
    BY <1>3, <2>2, <2>3, <2>4, FormSmall DEF R
  <2>6. WellFormed(s, a, hi)
    BY <1>3, <2>2, <2>3, <2>4, FormSmall DEF R
  <2> QED
    BY <1>3, <2>1, <2>2, <2>5, <2>6, FormBetween
<1>5. CASE Commas(s, lo, hi) = {} /\ BinaryAt(s, lo, hi) # {}
  <2> DEFINE c == LastApplied(s, BinaryAt(s, lo, hi))
             e == c - 1
             a == c + 1
  <2>1. c \in lo..hi /\ s[c] \in Binary
    <3>1. BinaryAt(s, lo, hi) \subseteq lo..hi /\ BinaryAt(s, lo, hi) \subseteq 1..hi
          /\ \A p \in BinaryAt(s, lo, hi) : s[p] \in Binary
      BY <1>3, OutsideIs
    <3>2. c \in BinaryAt(s, lo, hi)
      BY <1>3, <1>5, <3>1, AppliedIs
    <3> QED
      BY <3>1, <3>2
  <2>2. e = c - 1 /\ a = c + 1 /\ e \in Int /\ a \in Int /\ c \in Int
    BY <2>1
  <2>a. c = LastApplied(s, BinaryAt(s, lo, hi))
    OBVIOUS
  <2> HIDE DEF c, e, a
  <2>3. R[<<lo, e>>].kind # "none" /\ R[<<a, hi>>].kind # "none"
    <3>1. Phrase(s, R, lo, hi) = Make("binary", c, <<R[<<lo, e>>], R[<<a, hi>>]>>)
      <4>1. lo \in Int /\ hi \in Int /\ lo <= hi
        BY <1>2, <1>3
      <4> QED
        BY <1>3, <1>5, <2>2, <2>a, <4>1, PhraseBinary
    <3> QED
      BY <1>1, <3>1, MakeTwo, ExpressionIs
  <2>4. lo <= lo /\ lo <= hi + 1 /\ lo - 1 <= e /\ e <= hi /\ e - lo < hi - lo
        /\ lo <= a /\ a <= hi + 1 /\ lo - 1 <= hi /\ hi <= hi /\ hi - a < hi - lo
    BY <1>2, <1>3, <2>1, <2>2
  <2>5. WellFormed(s, lo, e)
    BY <1>3, <2>2, <2>3, <2>4, FormSmall DEF R
  <2>6. WellFormed(s, a, hi)
    BY <1>3, <2>2, <2>3, <2>4, FormSmall DEF R
  <2>7. s[c] \in Binary \cup {Comma}
    BY <2>1
  <2> HIDE DEF R
  <2>8. lo \in Int /\ c \in Int /\ hi \in Int
    BY <1>2, <2>2
  <2> QED
    BY <2>2, <2>5, <2>6, <2>7, <2>8, FormBetween
<1>6. CASE Commas(s, lo, hi) = {} /\ BinaryAt(s, lo, hi) = {}
  <2>1. Operand(s, R, lo, hi).kind # "none"
    BY <1>1, <1>2, <1>6, PhraseOperand
  <2> QED
    BY <1>2, <1>3, <1>6, <2>1, FormOperand DEF R
<1> QED
  BY <1>4, <1>5, <1>6

\* Every part that has a tree is well formed.
LEMMA Forms ==
  ASSUME NEW s, Len(s) \in Nat, NEW x \in 1..Len(s) + 1, NEW y \in 0..Len(s),
         Reading(s)[<<x, y>>].kind # "none"
  PROVE  WellFormed(s, x, y)
<1> DEFINE Bad(lo, hi) == Reading(s)[<<lo, hi>>].kind # "none" /\ ~WellFormed(s, lo, hi)
           T == {k \in Nat : \E lo \in 1..Len(s) + 1, hi \in 0..Len(s) :
                               k = hi - lo + (Len(s) + 1) /\ Bad(lo, hi)}
<1>1. ASSUME T # {} PROVE FALSE
  <2>1. PICK k \in T : \A j \in T : k <= j
    <3>1. T \subseteq Nat
      OBVIOUS
    <3> HIDE DEF T
    <3> QED
      BY <1>1, <3>1, Smallest
  <2>2. PICK lo \in 1..Len(s) + 1, hi \in 0..Len(s) : k = hi - lo + (Len(s) + 1) /\ Bad(lo, hi)
    <3> HIDE DEF Bad
    <3> QED
      BY <2>1
  <2>3. SmallForms(s, lo, hi)
    <3> SUFFICES ASSUME NEW a \in lo..hi + 1, NEW b \in (lo - 1)..hi, b - a < hi - lo, Bad(a, b)
                 PROVE  FALSE
      BY DEF SmallForms
    <3> HIDE DEF Bad
    <3>1. a \in 1..Len(s) + 1 /\ b \in 0..Len(s)
      BY InsideIsPart
    <3>2. b - a + (Len(s) + 1) \in Nat /\ ~(k <= b - a + (Len(s) + 1))
      BY <2>2, <3>1
    <3>3. b - a + (Len(s) + 1) \in T
      BY <3>1, <3>2
    <3> HIDE DEF T
    <3> QED
      BY <2>1, <3>2, <3>3
  <2> HIDE DEF T
  <2> QED
    BY <2>2, <2>3, FormStep
<1>2. y - x + (Len(s) + 1) \in Nat
  OBVIOUS
<1>3. ~Bad(x, y)
  <2> HIDE DEF Bad
  <2> QED
    BY <1>1, <1>2
<1> QED
  BY <1>3

\* An expression has no comma outside brackets, several elements have one.
LEMMA NoCommas ==
  ASSUME NEW s, Len(s) \in Nat, NEW lo \in 1..Len(s) + 1, NEW hi \in 0..Len(s),
         IsExpression(Reading(s)[<<lo, hi>>])
  PROVE  Commas(s, lo, hi) = {}
<1> SUFFICES ASSUME Commas(s, lo, hi) # {} PROVE FALSE
  OBVIOUS
<1> DEFINE R == Reading(s)
           c == LastOf(Commas(s, lo, hi))
<1>1. lo \in 1..hi
  BY Forms, FormRange, ExpressionIs
<1>2. \/ Phrase(s, R, lo, hi).kind = "elements"
      \/ Phrase(s, R, lo, hi) = NoTree
  <2>1. lo <= hi /\ lo \in Int /\ hi \in Int
    BY <1>1
  <2> DEFINE e == c - 1
             a == c + 1
  <2>2. e = c - 1 /\ a = c + 1 /\ c = LastOf(Commas(s, lo, hi))
    OBVIOUS
  <2> HIDE DEF R, c, e, a
  <2>3. Phrase(s, R, lo, hi) =
             IF R[<<lo, e>>].kind # "none" /\ IsExpression(R[<<a, hi>>])
             THEN Tree("elements", 0, Append(Elements(R[<<lo, e>>]), R[<<a, hi>>]))
             ELSE NoTree
    BY <2>1, <2>2, PhraseCommas
  <2> QED
    BY <2>3, TreeIs
<1> QED
  BY <1>2, ReadingIs, ExpressionIs, TreeIs

---------------------------------------------------------------------------
(* How the tree of a part is made of the trees of its parts.               *)

\* The positions outside brackets of two parts, one behind the other.
LEMMA OutsideJoin ==
  ASSUME NEW s, Len(s) \in Nat, NEW lo \in Int, NEW m \in Int, NEW hi \in Int, NEW k, k = m + 1,
         Balanced(s, lo, m), k <= hi, hi <= Len(s)
  PROVE  Outside(s, lo, hi) = Outside(s, lo, m) \cup Outside(s, k, hi)
<1>1. Depth(s)[k] = Depth(s)[lo] /\ lo \in 1..m
  BY DEF Balanced
<1>2. \A p : p \in lo..hi <=> (p \in lo..m \/ p \in k..hi)
  BY <1>1
<1>3. \A p : p \in Outside(s, lo, hi) <=> p \in lo..hi /\ Depth(s)[p] = Depth(s)[lo]
  BY Zenon DEF Outside
<1>4. \A p : p \in Outside(s, lo, m) <=> p \in lo..m /\ Depth(s)[p] = Depth(s)[lo]
  BY Zenon DEF Outside
<1>5. \A p : p \in Outside(s, k, hi) <=> p \in k..hi /\ Depth(s)[p] = Depth(s)[k]
  BY Zenon DEF Outside
<1>6. \A p : p \in Outside(s, lo, hi) <=> (p \in Outside(s, lo, m) \/ p \in Outside(s, k, hi))
  BY <1>1, <1>2, <1>3, <1>4, <1>5, Zenon
<1> QED
  BY <1>6, Zenon

LEMMA CommasJoin ==
  ASSUME NEW s, Len(s) \in Nat, NEW lo \in Int, NEW m \in Int, NEW hi \in Int, NEW k, k = m + 1,
         Balanced(s, lo, m), k <= hi, hi <= Len(s)
  PROVE  Commas(s, lo, hi) = Commas(s, lo, m) \cup Commas(s, k, hi)
<1>1. Outside(s, lo, hi) = Outside(s, lo, m) \cup Outside(s, k, hi)
  BY OutsideJoin
<1> QED
  BY <1>1, Zenon DEF Commas

LEMMA BinaryJoin ==
  ASSUME NEW s, Len(s) \in Nat, NEW lo \in Int, NEW m \in Int, NEW hi \in Int, NEW k, k = m + 1,
         Balanced(s, lo, m), k <= hi, hi <= Len(s)
  PROVE  BinaryAt(s, lo, hi) = BinaryAt(s, lo, m) \cup BinaryAt(s, k, hi)
                                 \cup {p \in {k} : s[p] \in Binary /\ EndsOperand(s[m])}
<1>1. Outside(s, lo, hi) = Outside(s, lo, m) \cup Outside(s, k, hi)
  BY OutsideJoin
<1>2. lo \in 1..m /\ k - 1 = m /\ k > lo
  BY DEF Balanced
<1>3. \A p : p \in BinaryAt(s, lo, hi) <=>
        p \in Outside(s, lo, hi) /\ p > lo /\ s[p] \in Binary /\ EndsOperand(s[p - 1])
  BY Zenon DEF BinaryAt
<1>4. \A p : p \in BinaryAt(s, lo, m) <=>
        p \in Outside(s, lo, m) /\ p > lo /\ s[p] \in Binary /\ EndsOperand(s[p - 1])
  BY Zenon DEF BinaryAt
<1>5. \A p : p \in BinaryAt(s, k, hi) <=>
        p \in Outside(s, k, hi) /\ p > k /\ s[p] \in Binary /\ EndsOperand(s[p - 1])
  BY Zenon DEF BinaryAt
<1>6. Outside(s, k, hi) \subseteq k..hi /\ k \in Outside(s, k, hi)
  <2>1. k \in Nat /\ hi \in Nat /\ k > 0
    BY <1>2
  <2> QED
    BY <2>1, OutsideIs
<1>7. \A p \in Outside(s, k, hi) : p > lo /\ (p > k \/ p = k)
  BY <1>2, <1>6
<1>8. \A p : p > k => p > k /\ p # k
  OBVIOUS
<1>9. k \in Outside(s, lo, hi)
  BY <1>1, <1>6, Zenon
<1> DEFINE K == {p \in {k} : s[p] \in Binary /\ EndsOperand(s[m])}
<1>10. \A p : p \in K <=> p = k /\ s[k] \in Binary /\ EndsOperand(s[m])
  BY Zenon
<1>11. \A p : p \in K <=> p = k /\ s[k] \in Binary /\ EndsOperand(s[k - 1])
  BY <1>2, <1>10, Zenon
<1> HIDE DEF K
<1>12. ASSUME NEW p
       PROVE  p \in BinaryAt(s, lo, hi) <=> (p \in BinaryAt(s, lo, m) \/ p \in BinaryAt(s, k, hi) \/ p \in K)
  <2>1. CASE p \in Outside(s, lo, m)
    <3>1. p \in lo..m
      BY <2>1, Zenon DEF Outside
    <3>2. p # k /\ ~(p > k)
      BY <1>2, <3>1
    <3> QED
      BY <1>1, <1>3, <1>4, <1>5, <1>11, <2>1, <3>2, Zenon
  <2>2. CASE p \notin Outside(s, lo, m)
    BY <1>1, <1>2, <1>3, <1>4, <1>5, <1>7, <1>9, <1>11, <2>2, Zenon
  <2> QED
    BY <2>1, <2>2
<1> QED
  BY <1>12, Zenon DEF K

LEMMA OutsideToken ==
  ASSUME NEW s, NEW lo \in Int
  PROVE  /\ Outside(s, lo, lo) = {lo} /\ BinaryAt(s, lo, lo) = {}
         /\ s[lo] # Comma => Commas(s, lo, lo) = {}
<1>1. \A p : p \in lo..lo <=> p = lo
  OBVIOUS
<1>2. ~(lo > lo)
  OBVIOUS
<1>3. Outside(s, lo, lo) = {lo}
  BY <1>1, Zenon DEF Outside
<1> QED
  BY <1>2, <1>3, Zenon DEF BinaryAt, Commas, Comma

LEMMA OutsideBrackets ==
  ASSUME NEW s, Len(s) \in Nat, NEW lo \in 1..Len(s), NEW hi \in 1..Len(s), NEW a, NEW b,
         a = lo + 1, b = hi - 1, s[lo] \in Opening, Balanced(s, a, b), NEW e \in lo..hi
  PROVE  Outside(s, lo, e) = {lo} /\ Commas(s, lo, e) = {} /\ BinaryAt(s, lo, e) = {}
<1>1. Depth(s)[a] = Depth(s)[lo] + 1 /\ \A p \in 1..Len(s) + 1 : Depth(s)[p] \in Int
  BY DepthIs, ChangeOf
<1>2. /\ a \in 1..b /\ hi = b + 1 /\ Depth(s)[hi] = Depth(s)[a]
      /\ \A p \in a..b : Depth(s)[p] >= Depth(s)[a]
  <2>1. /\ a \in 1..b /\ Depth(s)[b + 1] = Depth(s)[a]
        /\ \A p \in a..b : Depth(s)[p] >= Depth(s)[a]
    BY DEF Balanced
  <2> QED
    BY <2>1
<1>3. ASSUME NEW p \in lo..e, p # lo PROVE Depth(s)[p] # Depth(s)[lo]
  <2>1. p \in 1..Len(s) + 1 /\ lo \in 1..Len(s) + 1 /\ (p \in a..b \/ p = hi)
    BY <1>2, <1>3
  <2>2. Depth(s)[p] \in Int /\ Depth(s)[lo] \in Int
    BY <1>1, <2>1
  <2>3. Depth(s)[p] >= Depth(s)[a]
    <3>1. CASE p = hi
      BY <1>2, <2>2, <3>1
    <3>2. CASE p \in a..b
      BY <1>2, <3>2
    <3> QED
      BY <2>1, <3>1, <3>2
  <2> QED
    BY <1>1, <2>2, <2>3
<1>4. lo \in lo..e
  OBVIOUS
<1>5. Outside(s, lo, e) = {lo}
  BY <1>3, <1>4, Zenon DEF Outside
<1>6. s[lo] # "," /\ ~(lo > lo)
  <2>1. s[lo] # ","
    BY Zenon DEF Opening
  <2>2. ~(lo > lo)
    OBVIOUS
  <2> QED
    BY <2>1, <2>2, Zenon
<1> QED
  BY <1>5, <1>6, Zenon DEF Commas, BinaryAt

---------------------------------------------------------------------------

\* What Reads says.
LEMMA ReadsIs ==
  ASSUME NEW s, Len(s) \in Nat, NEW t, NEW lo, NEW hi, Reads(s, t, lo, hi)
  PROVE  /\ lo \in 1..Len(s) /\ hi \in lo..Len(s) /\ Reading(s)[<<lo, hi>>] = t /\ IsExpression(t)
         /\ WellFormed(s, lo, hi) /\ Balanced(s, lo, hi) /\ Commas(s, lo, hi) = {}
<1>1. lo \in 1..Len(s) /\ hi \in lo..Len(s) /\ Reading(s)[<<lo, hi>>] = t /\ IsExpression(t)
  BY DEF Reads
<1>2. lo \in 1..Len(s) + 1 /\ hi \in 0..Len(s)
  BY <1>1
<1>3. WellFormed(s, lo, hi)
  BY <1>1, <1>2, ExpressionIs, Forms
<1>4. Commas(s, lo, hi) = {}
  BY <1>1, <1>2, NoCommas
<1> QED
  BY <1>1, <1>3, <1>4 DEF WellFormed

LEMMA AtomOf ==
  ASSUME NEW s, Len(s) \in Nat, NEW t, NEW lo \in 1..Len(s), NEW hi \in 1..Len(s), lo <= hi,
         Commas(s, lo, hi) = {}, BinaryAt(s, lo, hi) = {},
         Operand(s, Reading(s), lo, hi) = t, IsExpression(t)
  PROVE  Atom(s, t, lo, hi)
<1>1. Reading(s)[<<lo, hi>>] = t
  <2>1. lo \in 1..Len(s) + 1 /\ hi \in 0..Len(s) /\ lo \in Int /\ hi \in Int
    OBVIOUS
  <2> QED
    BY <2>1, ReadingIs, PhraseOperand
<1> QED
  BY <1>1 DEF Atom, Reads

\* Operands without operators.
LEMMA AtomToken ==
  ASSUME NEW s, Len(s) \in Nat, NEW lo \in 1..Len(s), s[lo] \in Literals \cup {"id"}
  PROVE  Atom(s, Tree(IF s[lo] = "id" THEN "variable" ELSE "literal", lo, <<>>), lo, lo)
<1>1. s[lo] # Comma
  BY Zenon DEF Literals, Comma
<1>2. Commas(s, lo, lo) = {} /\ BinaryAt(s, lo, lo) = {}
  BY <1>1, OutsideToken
<1> DEFINE t == Tree(IF s[lo] = "id" THEN "variable" ELSE "literal", lo, <<>>)
<1>3. OneToken(s, lo) = t /\ t.kind # "none" /\ t.kind # "elements"
  BY OneTokenIs, TreeIs
<1>4. IsExpression(t)
  BY <1>3, ExpressionIs
<1> HIDE DEF t
<1>5. Operand(s, Reading(s), lo, lo) = t
  BY <1>3, OperandToken
<1> QED
  BY <1>2, <1>4, <1>5, AtomOf DEF t

LEMMA KindExpression ==
  ASSUME NEW k, NEW a, NEW c, k # "none", k # "elements"
  PROVE  IsExpression(Tree(k, a, c))
BY TreeIs, ExpressionIs

\* A prefix, of one token, in front of a balanced part.
LEMMA OutsidePrefix ==
  ASSUME NEW s, Len(s) \in Nat, NEW lo \in 1..Len(s), NEW hi \in Int, NEW a, a = lo + 1,
         s[lo] \in Operators \cup {"rotate"}, a <= hi, hi <= Len(s)
  PROVE  /\ Outside(s, lo, hi) = {lo} \cup Outside(s, a, hi)
         /\ Commas(s, lo, hi) = Commas(s, a, hi)
         /\ BinaryAt(s, lo, hi) = BinaryAt(s, a, hi)
<1>1. s[lo] \notin Opening /\ s[lo] \notin Closing /\ ~EndsOperand(s[lo]) /\ s[lo] # Comma
  <2>1. s[lo] \notin Opening /\ s[lo] \notin Closing /\ ~EndsOperand(s[lo])
    BY TokensAre
  <2>2. s[lo] # Comma
    BY Zenon DEF Operators, Unary, Binary, Comma
  <2> QED
    BY <2>1, <2>2
<1>2. Balanced(s, lo, lo)
  BY <1>1, BalancedToken
<1>3. Outside(s, lo, lo) = {lo} /\ Commas(s, lo, lo) = {} /\ BinaryAt(s, lo, lo) = {}
  BY <1>1, OutsideToken
<1>4. Outside(s, lo, hi) = Outside(s, lo, lo) \cup Outside(s, a, hi)
  BY <1>2, OutsideJoin
<1>5. Commas(s, lo, hi) = Commas(s, lo, lo) \cup Commas(s, a, hi)
  BY <1>2, CommasJoin
<1>6. BinaryAt(s, lo, hi) = BinaryAt(s, lo, lo) \cup BinaryAt(s, a, hi)
                              \cup {p \in {a} : s[p] \in Binary /\ EndsOperand(s[lo])}
  BY <1>2, BinaryJoin
<1>7. {p \in {a} : s[p] \in Binary /\ EndsOperand(s[lo])} = {}
  BY <1>1, Zenon
<1> QED
  BY <1>3, <1>4, <1>5, <1>6, <1>7, Zenon

LEMMA AtomSign ==
  ASSUME NEW s, Len(s) \in Nat, NEW lo \in 1..Len(s), NEW hi \in 1..Len(s), hi = lo + 1,
         s[lo] = "-", s[hi] = "int"
  PROVE  Atom(s, Tree("negative", hi, <<>>), lo, hi)
<1>1. Operand(s, Reading(s), lo, hi) = Tree("negative", hi, <<>>)
  BY OperandSign
<1>2. s[hi] # Comma
  BY Zenon DEF Comma
<1>3. Commas(s, hi, hi) = {} /\ BinaryAt(s, hi, hi) = {}
  BY <1>2, OutsideToken
<1>4. s[lo] \in Operators \cup {"rotate"} /\ hi <= hi /\ hi <= Len(s)
  BY TokensAre
<1>5. Commas(s, lo, hi) = {} /\ BinaryAt(s, lo, hi) = {}
  BY <1>3, <1>4, OutsidePrefix
<1>6. IsExpression(Tree("negative", hi, <<>>))
  BY KindExpression
<1>7. lo <= hi
  OBVIOUS
<1> QED
  BY <1>1, <1>5, <1>6, <1>7, AtomOf

LEMMA AtomUnary ==
  ASSUME NEW s, Len(s) \in Nat, NEW lo \in 1..Len(s), NEW hi, NEW a, a = lo + 1, NEW t,
         s[lo] \in Unary, Atom(s, t, a, hi)
  PROVE  Atom(s, Tree("unary", lo, <<t>>), lo, hi)
<1>1. Reads(s, t, a, hi) /\ BinaryAt(s, a, hi) = {}
  BY DEF Atom
<1>2. /\ a \in 1..Len(s) /\ hi \in a..Len(s) /\ Reading(s)[<<a, hi>>] = t /\ IsExpression(t)
      /\ Commas(s, a, hi) = {}
  BY <1>1, ReadsIs
<1>3. hi \in 1..Len(s) /\ a <= hi /\ hi <= Len(s) /\ hi \in Int /\ lo < hi /\ lo <= hi
      /\ s[lo] \in Operators \cup {"rotate"}
  BY <1>2, UnaryIs
<1>4. Commas(s, lo, hi) = {} /\ BinaryAt(s, lo, hi) = {}
  BY <1>1, <1>2, <1>3, OutsidePrefix
<1>5. Operand(s, Reading(s), lo, hi) = Make("unary", lo, <<t>>)
  BY <1>2, <1>3, OperandUnary
<1>6. Operand(s, Reading(s), lo, hi) = Tree("unary", lo, <<t>>)
  BY <1>2, <1>5, MakeOne
<1> QED
  BY <1>3, <1>4, <1>6, KindExpression, AtomOf

\* Brackets around a part that has a tree.
LEMMA InBrackets ==
  ASSUME NEW s, Len(s) \in Nat, NEW lo \in 1..Len(s), NEW hi \in 1..Len(s), NEW a, NEW b,
         a = lo + 1, b = hi - 1, s[lo] \in Opening, Reading(s)[<<a, b>>].kind # "none",
         NEW e \in lo..hi
  PROVE  /\ Outside(s, lo, e) = {lo} /\ Commas(s, lo, e) = {} /\ BinaryAt(s, lo, e) = {}
         /\ lo < b
<1>1. a \in 1..Len(s) + 1 /\ b \in 0..Len(s)
  OBVIOUS
<1>2. WellFormed(s, a, b)
  BY <1>1, Forms
<1>3. Balanced(s, a, b) /\ a \in 1..b
  BY <1>2, FormRange DEF WellFormed
<1> QED
  BY <1>3, OutsideBrackets

LEMMA LastOfOne == ASSUME NEW x \in Int PROVE LastOf({x}) = x
BY DEF LastOf

LEMMA AtomRound ==
  ASSUME NEW s, Len(s) \in Nat, NEW lo \in 1..Len(s), NEW hi \in 1..Len(s), NEW a, NEW b,
         a = lo + 1, b = hi - 1, s[lo] = "(", s[hi] = ")", NEW t, Reads(s, t, a, b)
  PROVE  Atom(s, t, lo, hi)
<1>1. Reading(s)[<<a, b>>] = t /\ IsExpression(t)
  BY DEF Reads
<1>2. Reading(s)[<<a, b>>].kind # "none" /\ s[lo] \in Opening
  BY <1>1, ExpressionIs, TokensAre
<1>3. lo < b
  <2>1. lo < b \/ lo > hi
    <3>1. ASSUME lo <= hi PROVE lo < b
      <4>1. lo \in lo..hi
        BY <3>1
      <4> QED
        BY <1>2, <4>1, InBrackets
    <3> QED
      BY <3>1
  <2>2. a \in 1..Len(s) /\ b \in a..Len(s)
    BY DEF Reads
  <2> QED
    BY <2>1, <2>2
<1>4. b \in lo..hi /\ hi \in lo..hi /\ lo < hi /\ lo <= hi
  BY <1>3
<1>5. Outside(s, lo, b) = {lo} /\ Commas(s, lo, hi) = {} /\ BinaryAt(s, lo, hi) = {}
  BY <1>2, <1>4, InBrackets
<1>6. lo = LastOf(Outside(s, lo, b))
  BY <1>5, LastOfOne
<1>7. Bracketed(s, Reading(s), lo, hi) = t
  BY <1>1, <1>6, BracketedRound
<1>8. s[lo] \notin Operators
  BY DEF Operators, Unary, Binary
<1>9. Operand(s, Reading(s), lo, hi) = t
  BY <1>4, <1>7, <1>8, OperandBracketed
<1> QED
  BY <1>1, <1>4, <1>5, <1>9, AtomOf

LEMMA InsideForm ==
  ASSUME NEW s, Len(s) \in Nat, NEW lo \in 1..Len(s), NEW hi \in 1..Len(s), NEW a, NEW b,
         a = lo + 1, b = hi - 1, Reading(s)[<<a, b>>].kind # "none"
  PROVE  lo < b /\ b \in lo..hi /\ hi \in lo..hi /\ lo < hi /\ lo <= hi
<1>1. a \in 1..Len(s) + 1 /\ b \in 0..Len(s)
  OBVIOUS
<1>2. a \in 1..b
  BY <1>1, Forms, FormRange
<1> QED
  BY <1>2

LEMMA NotOperators ==
  /\ \A t \in {"(", "[", "id", "rotate"} : t \notin Operators
  /\ OpenBrace \notin Operators
<1>1. OpenBrace \notin Operators
  BY Zenon DEF Operators, Unary, Binary, OpenBrace
<1> QED
  BY <1>1 DEF Operators, Unary, Binary

\* Lists, calls and index accesses.
LEMMA AtomList ==
  ASSUME NEW s, Len(s) \in Nat, NEW lo \in 1..Len(s), NEW hi \in 1..Len(s), NEW a, NEW b,
         a = lo + 1, b = hi - 1, s[lo] = OpenBrace, s[hi] = CloseBrace,
         NEW t, Reading(s)[<<a, b>>] = t, t.kind # "none"
  PROVE  Atom(s, Tree("list", 0, Elements(t)), lo, hi)
<1>1. s[lo] \in Opening
  BY TokensAre
<1>2. lo < b /\ b \in lo..hi /\ hi \in lo..hi /\ lo < hi /\ lo <= hi
  BY InsideForm
<1>3. Outside(s, lo, b) = {lo} /\ Commas(s, lo, hi) = {} /\ BinaryAt(s, lo, hi) = {}
  BY <1>1, <1>2, InBrackets
<1>4. lo = LastOf(Outside(s, lo, b))
  BY <1>3, LastOfOne
<1>5. Bracketed(s, Reading(s), lo, hi) = Group("list", t)
  <2> DEFINE R == Reading(s)
  <2> HIDE DEF R
  <2>1. Bracketed(s, R, lo, hi) = Group("list", R[<<a, b>>])
    BY <1>4, BracketedCurly
  <2> QED
    BY <2>1 DEF R
<1>6. Group("list", t) = Tree("list", 0, Elements(t))
  BY GroupIs
<1>7. s[lo] \notin Operators
  BY NotOperators
<1>8. Operand(s, Reading(s), lo, hi) = Tree("list", 0, Elements(t))
  BY <1>2, <1>5, <1>6, <1>7, OperandBracketed
<1> QED
  BY <1>2, <1>3, <1>8, AtomOf, KindExpression

LEMMA AtomCall ==
  ASSUME NEW s, Len(s) \in Nat, NEW lo \in 1..Len(s), NEW o \in 1..Len(s), NEW hi \in 1..Len(s),
         NEW a, NEW b, o = lo + 1, a = o + 1, b = hi - 1, s[lo] = "rotate", s[o] = "(", s[hi] = ")",
         NEW t, Reading(s)[<<a, b>>] = t, t.kind # "none", Len(Elements(t)) = 2
  PROVE  Atom(s, Tree("call", 0, Elements(t)), lo, hi)
<1>1. s[o] \in Opening
  BY TokensAre
<1>2. o < b /\ b \in o..hi /\ hi \in o..hi /\ o < hi /\ o <= hi
  BY InsideForm
<1>3. Outside(s, o, b) = {o} /\ Commas(s, o, hi) = {} /\ BinaryAt(s, o, hi) = {}
  BY <1>1, <1>2, InBrackets
<1>4. b \in Int /\ o <= b /\ b <= Len(s) /\ hi \in Int /\ hi <= Len(s) /\ lo < hi /\ lo <= hi
      /\ s[lo] \in Operators \cup {"rotate"}
  BY <1>2
<1>5. Outside(s, lo, b) = {lo} \cup {o}
  BY <1>3, <1>4, OutsidePrefix
<1>6. Commas(s, lo, hi) = {} /\ BinaryAt(s, lo, hi) = {}
  BY <1>2, <1>3, <1>4, OutsidePrefix
<1>7. o = LastOf(Outside(s, lo, b))
  <2>1. {lo} \cup {o} \subseteq 1..Len(s) /\ o \in {lo} \cup {o} /\ \A q \in {lo} \cup {o} : q <= o
    OBVIOUS
  <2> QED
    BY <1>5, <2>1, LastOnce
<1>8. Bracketed(s, Reading(s), lo, hi) = Group("call", t)
  BY <1>7, BracketedRotate
<1>9. Group("call", t) = Tree("call", 0, Elements(t))
  BY GroupIs
<1>10. s[lo] \notin Operators
  BY NotOperators
<1>11. Operand(s, Reading(s), lo, hi) = Tree("call", 0, Elements(t))
  BY <1>4, <1>8, <1>9, <1>10, OperandBracketed
<1> QED
  BY <1>4, <1>6, <1>11, AtomOf, KindExpression

LEMMA AtomIndex ==
  ASSUME NEW s, Len(s) \in Nat, NEW lo \in 1..Len(s), NEW o \in 1..Len(s), NEW hi \in 1..Len(s),
         NEW e, NEW a, NEW b, IndexAt(s, lo, o, hi, e, a, b),
         NEW t, NEW u, Atom(s, t, lo, e), Reads(s, u, a, b)
  PROVE  Atom(s, Tree("index", 0, <<t, u>>), lo, hi)
<1>1. /\ e = o - 1 /\ a = o + 1 /\ b = hi - 1 /\ o > lo /\ s[lo] = "id" /\ s[o] = "[" /\ s[hi] = "]"
      /\ o = e + 1 /\ e \in Int
  BY DEF IndexAt
<1>2. /\ Reading(s)[<<a, b>>] = u /\ IsExpression(u) /\ Reading(s)[<<a, b>>].kind # "none"
  BY ReadsIs, ExpressionIs
<1>3. o < b /\ b \in o..hi /\ hi \in o..hi /\ o < hi /\ o <= hi
  BY <1>1, <1>2, InsideForm
<1>4. s[o] \in Opening
  BY <1>1, TokensAre
<1>5. Outside(s, o, b) = {o} /\ Commas(s, o, hi) = {} /\ BinaryAt(s, o, hi) = {}
  BY <1>1, <1>2, <1>3, <1>4, InBrackets
<1>6. Reads(s, t, lo, e) /\ BinaryAt(s, lo, e) = {}
  BY DEF Atom
<1>7. Balanced(s, lo, e) /\ Commas(s, lo, e) = {} /\ Reading(s)[<<lo, e>>] = t /\ IsExpression(t)
  BY <1>6, ReadsIs
<1>8. b \in Int /\ o <= b /\ b <= Len(s) /\ hi \in Int /\ hi <= Len(s) /\ lo < hi /\ lo <= hi /\ lo \in Int
  BY <1>1, <1>3
<1>9. Outside(s, lo, b) = Outside(s, lo, e) \cup {o}
  BY <1>1, <1>5, <1>7, <1>8, OutsideJoin
<1>10. Commas(s, lo, hi) = {}
  BY <1>1, <1>3, <1>5, <1>7, <1>8, CommasJoin
<1>11. BinaryAt(s, lo, hi) = {}
  <2>1. BinaryAt(s, lo, hi) = BinaryAt(s, lo, e) \cup BinaryAt(s, o, hi)
                                \cup {p \in {o} : s[p] \in Binary /\ EndsOperand(s[e])}
    BY <1>1, <1>3, <1>7, <1>8, BinaryJoin
  <2>2. s[o] \notin Binary
    BY <1>1 DEF Binary
  <2>3. {p \in {o} : s[p] \in Binary /\ EndsOperand(s[e])} = {}
    BY <2>2, Zenon
  <2> QED
    BY <1>5, <1>6, <2>1, <2>3, Zenon
<1>12. o = LastOf(Outside(s, lo, b))
  <2>1. e \in Nat /\ lo \in Nat /\ lo > 0
    BY <1>1
  <2>2. Outside(s, lo, e) \subseteq lo..e
    BY <2>1, OutsideIs
  <2> DEFINE O == Outside(s, lo, e)
  <2> HIDE DEF O
  <2>3. O \cup {o} \subseteq 1..Len(s) /\ o \in O \cup {o} /\ \A q \in O \cup {o} : q <= o
    BY <1>1, <2>2 DEF O
  <2> QED
    BY <1>9, <2>3, LastOnce DEF O
<1>13. Bracketed(s, Reading(s), lo, hi) = Make("index", 0, <<t, u>>)
  BY <1>2, <1>7, <1>12, BracketedSquare
<1>14. Make("index", 0, <<t, u>>) = Tree("index", 0, <<t, u>>)
  BY <1>2, <1>7, MakeTwo
<1>15. s[lo] \notin Operators
  BY <1>1, NotOperators
<1>16. Operand(s, Reading(s), lo, hi) = Tree("index", 0, <<t, u>>)
  BY <1>8, <1>13, <1>14, <1>15, OperandBracketed
<1> QED
  BY <1>8, <1>10, <1>11, <1>16, AtomOf, KindExpression

LEMMA ElementsAre ==
  ASSUME NEW t, NEW ts
  PROVE  /\ IsExpression(t) => Elements(t) = <<t>>
         /\ Elements(Tree("elements", 0, ts)) = ts
BY TreeIs, ExpressionIs DEF Elements

\* One more element behind a comma.
Behind(s, t, lo, e, c, a, hi) ==
  /\ lo \in 1..Len(s) /\ c \in 1..Len(s) /\ e = c - 1 /\ a = c + 1 /\ s[c] = Comma
  /\ Reading(s)[<<lo, e>>].kind # "none" /\ Reads(s, t, a, hi)

LEMMA MoreElements ==
  ASSUME NEW s, Len(s) \in Nat, NEW t, NEW lo, NEW e, NEW c, NEW a, NEW hi,
         Behind(s, t, lo, e, c, a, hi)
  PROVE  /\ Reading(s)[<<lo, hi>>] = Tree("elements", 0, Append(Elements(Reading(s)[<<lo, e>>]), t))
         /\ lo <= e
<1> lo \in 1..Len(s) /\ c \in 1..Len(s) /\ e = c - 1 /\ a = c + 1
  BY DEF Behind
<1> s[c] = Comma /\ Reading(s)[<<lo, e>>].kind # "none" /\ Reads(s, t, a, hi)
  BY Zenon DEF Behind
<1>1. lo \in 1..Len(s) + 1 /\ e \in 0..Len(s) /\ c \in Nat /\ a \in Int /\ lo \in Int /\ e \in Int /\ c = e + 1
  OBVIOUS
<1>2. WellFormed(s, lo, e)
  BY <1>1, Forms
<1>3. Balanced(s, lo, e) /\ lo \in 1..e
  BY <1>2, FormRange DEF WellFormed
<1>4. /\ a \in 1..Len(s) /\ hi \in a..Len(s) /\ Reading(s)[<<a, hi>>] = t /\ IsExpression(t)
      /\ Commas(s, a, hi) = {}
  BY ReadsIs
<1>5. Balanced(s, c, c)
  BY TokensAre, BalancedToken
<1>6. Balanced(s, lo, c)
  BY <1>1, <1>3, <1>5, BalancedJoin
<1>7. hi \in Int /\ hi <= Len(s) /\ c <= c /\ a <= hi /\ c <= Len(s) /\ lo <= hi /\ hi \in 0..Len(s)
  BY <1>1, <1>3, <1>4
<1>8. Commas(s, lo, hi) = Commas(s, lo, c)
  <2>1. Commas(s, lo, hi) = Commas(s, lo, c) \cup Commas(s, a, hi)
    BY <1>1, <1>6, <1>7, CommasJoin
  <2> QED
    BY <1>4, <2>1
<1>9. c \in Commas(s, lo, c)
  <2>1. Commas(s, lo, c) = Commas(s, lo, e) \cup Commas(s, c, c)
    BY <1>1, <1>3, <1>7, CommasJoin
  <2>2. Outside(s, c, c) = {c}
    BY OutsideToken
  <2>3. c \in Commas(s, c, c)
    BY <2>2, Zenon DEF Commas, Comma
  <2> QED
    BY <2>1, <2>3
<1>10. Commas(s, lo, c) \subseteq lo..c
  <2>1. lo \in Nat /\ lo > 0
    OBVIOUS
  <2> QED
    BY <1>1, <2>1, OutsideIs
<1> DEFINE C == Commas(s, lo, hi)
<1>11. C \subseteq 1..Len(s) /\ c \in C /\ \A q \in C : q <= c
  BY <1>8, <1>9, <1>10
<1> HIDE DEF C
<1>12. c = LastOf(Commas(s, lo, hi)) /\ Commas(s, lo, hi) # {}
  BY <1>11, LastOnce DEF C
<1>13. Phrase(s, Reading(s), lo, hi) =
         Tree("elements", 0, Append(Elements(Reading(s)[<<lo, e>>]), t))
  BY <1>1, <1>4, <1>7, <1>12, PhraseCommas
<1> QED
  BY <1>1, <1>3, <1>7, <1>13, ReadingIs

\* Two operands of a binary operator that binds as these levels say.
\* The operator p of s[lo..hi] is applied after those around it.
Around(s, t, u, lo, y, p, z, hi) ==
  /\ p \in 1..Len(s) /\ y = p - 1 /\ z = p + 1 /\ s[p] \in Binary
  /\ Reads(s, t, lo, y) /\ Reads(s, u, z, hi)
  /\ \A q \in BinaryAt(s, lo, y) : Level(s[q]) <= Level(s[p])
  /\ \A q \in BinaryAt(s, z, hi) : Level(s[q]) < Level(s[p])

\* Two operands around a binary operator.
LEMMA ReadsBinary ==
  ASSUME NEW s, Len(s) \in Nat, NEW t, NEW u, NEW lo, NEW e, NEW p, NEW a, NEW hi,
         Around(s, t, u, lo, e, p, a, hi)
  PROVE  /\ Reads(s, Tree("binary", p, <<t, u>>), lo, hi)
         /\ BinaryAt(s, lo, hi) = BinaryAt(s, lo, e) \cup {p} \cup BinaryAt(s, a, hi)
<1> /\ p \in 1..Len(s) /\ e = p - 1 /\ a = p + 1 /\ s[p] \in Binary
    /\ Reads(s, t, lo, e) /\ Reads(s, u, a, hi)
  BY Zenon DEF Around
<1>1. /\ lo \in 1..Len(s) /\ e \in lo..Len(s) /\ Reading(s)[<<lo, e>>] = t /\ IsExpression(t)
      /\ Commas(s, lo, e) = {} /\ Balanced(s, lo, e) /\ EndsOperand(s[e])
  <2>1. WellFormed(s, lo, e)
    BY ReadsIs
  <2> QED
    BY <2>1, ReadsIs DEF WellFormed
<1>2. /\ a \in 1..Len(s) /\ hi \in a..Len(s) /\ Reading(s)[<<a, hi>>] = u /\ IsExpression(u)
      /\ Commas(s, a, hi) = {}
  BY ReadsIs
<1>3. s[p] \notin Opening /\ s[p] \notin Closing /\ s[p] # Comma /\ ~EndsOperand(s[p])
  <2>1. s[p] \in Operators
    BY BinaryIs
  <2>2. s[p] # Comma
    BY Zenon DEF Binary, Comma
  <2> QED
    BY <2>1, <2>2, TokensAre
<1>4. p \in Int /\ lo \in Int /\ e \in Int /\ p = e + 1 /\ a \in Int /\ hi \in Int /\ p <= p /\ p <= Len(s)
      /\ a <= hi /\ hi <= Len(s) /\ p <= hi /\ lo <= hi
  BY <1>1, <1>2
<1>5. Balanced(s, lo, p)
  <2>1. Balanced(s, p, p)
    BY <1>3, BalancedToken
  <2> QED
    BY <1>1, <1>4, <2>1, BalancedJoin
<1>6. Commas(s, p, p) = {} /\ BinaryAt(s, p, p) = {}
  BY <1>3, <1>4, OutsideToken
<1>7. Commas(s, lo, hi) = {}
  <2>1. Commas(s, lo, p) = Commas(s, lo, e) \cup Commas(s, p, p)
    BY <1>1, <1>4, CommasJoin
  <2>2. Commas(s, lo, hi) = Commas(s, lo, p) \cup Commas(s, a, hi)
    BY <1>4, <1>5, CommasJoin
  <2> QED
    BY <1>1, <1>2, <1>6, <2>1, <2>2
<1>8. BinaryAt(s, lo, hi) = BinaryAt(s, lo, e) \cup {p} \cup BinaryAt(s, a, hi)
  <2>1. BinaryAt(s, lo, p) = BinaryAt(s, lo, e) \cup BinaryAt(s, p, p)
                               \cup {q \in {p} : s[q] \in Binary /\ EndsOperand(s[e])}
    BY <1>1, <1>4, BinaryJoin
  <2>2. {q \in {p} : s[q] \in Binary /\ EndsOperand(s[e])} = {p}
    BY <1>1, Zenon
  <2>3. BinaryAt(s, lo, hi) = BinaryAt(s, lo, p) \cup BinaryAt(s, a, hi)
                               \cup {q \in {a} : s[q] \in Binary /\ EndsOperand(s[p])}
    BY <1>4, <1>5, BinaryJoin
  <2>4. {q \in {a} : s[q] \in Binary /\ EndsOperand(s[p])} = {}
    BY <1>3, Zenon
  <2> QED
    BY <1>6, <2>1, <2>2, <2>3, <2>4, Zenon
<1> DEFINE L == BinaryAt(s, lo, e)
           M == BinaryAt(s, a, hi)
           B == BinaryAt(s, lo, hi)
<1>9. B = L \cup {p} \cup M
  BY <1>8
<1>10. /\ \A q \in L : q \in Nat /\ q <= p /\ s[q] \in Binary
       /\ \A q \in M : q \in Nat /\ q > p /\ s[q] \in Binary
  <2>1. lo \in Nat /\ e \in Nat /\ lo > 0 /\ a \in Nat /\ hi \in Nat /\ a > 0
    BY <1>1, <1>2
  <2>2. L \subseteq lo..e /\ \A q \in L : s[q] \in Binary
    BY <2>1, OutsideIs
  <2>3. M \subseteq a..hi /\ \A q \in M : s[q] \in Binary
    BY <2>1, OutsideIs
  <2> HIDE DEF L, M, B
  <2> QED
    BY <1>4, <2>1, <2>2, <2>3
<1>11. /\ \A q \in L : Level(s[q]) <= Level(s[p])
       /\ \A q \in M : Level(s[q]) < Level(s[p])
  BY Zenon DEF Around
<1>12. B \subseteq 1..Len(s)
  <2>1. lo \in Nat /\ hi \in Nat /\ lo > 0
    BY <1>1, <1>2
  <2>2. B \subseteq 1..hi
    BY <2>1, OutsideIs
  <2> HIDE DEF B
  <2> QED
    BY <1>4, <2>2
<1>13. \A q \in B : s[q] \in Binary
  <2> HIDE DEF L, M, B
  <2> QED
    BY <1>9, <1>10
<1> DEFINE x == LastApplied(s, B)
<1> HIDE DEF L, M, B
<1>14. /\ x \in B
       /\ \A q \in B : \/ Level(s[q]) < Level(s[x])
                       \/ Level(s[q]) = Level(s[x]) /\ q <= x
  <2>1. B # {}
    BY <1>9
  <2> QED
    BY <1>12, <1>13, <2>1, AppliedIs
<1> HIDE DEF x
<1>15. x = p
  <2>1. p \in B /\ x \in B
    BY <1>9, <1>14
  <2>2. \A q \in B : Level(s[q]) \in Nat
    BY <1>13, LevelLemma
  <2>3. Level(s[p]) \in Nat /\ Level(s[x]) \in Nat
    BY <2>1, <2>2
  <2>4. Level(s[p]) < Level(s[x]) \/ (Level(s[p]) = Level(s[x]) /\ p <= x)
    BY <1>14, <2>1
  <2>5. CASE x \in L
    BY <1>10, <1>11, <2>3, <2>4, <2>5
  <2>6. CASE x \in M
    <3>1. Level(s[x]) < Level(s[p])
      BY <1>11, <2>6
    <3> QED
      BY <2>3, <2>4, <3>1
  <2> QED
    BY <1>9, <2>1, <2>5, <2>6
<1>16. BinaryAt(s, lo, hi) # {} /\ p = LastApplied(s, BinaryAt(s, lo, hi))
  BY <1>9, <1>15 DEF B, x
<1>17. Phrase(s, Reading(s), lo, hi) = Make("binary", p, <<t, u>>)
  BY <1>1, <1>2, <1>4, <1>7, <1>16, PhraseBinary
<1>18. Phrase(s, Reading(s), lo, hi) = Tree("binary", p, <<t, u>>)
  BY <1>1, <1>2, <1>17, MakeTwo
<1>19. lo \in 1..Len(s) + 1 /\ hi \in 0..Len(s) /\ hi \in lo..Len(s)
  BY <1>1, <1>2, <1>4
<1>20. Reading(s)[<<lo, hi>>] = Tree("binary", p, <<t, u>>)
  BY <1>18, <1>19, ReadingIs
<1> QED
  BY <1>1, <1>8, <1>19, <1>20, KindExpression DEF Reads

---------------------------------------------------------------------------
(* What was read stays read when the text goes on and nodes are made.      *)

\* What Agree says.
LEMMA AgreeIs ==
  ASSUME NEW s, NEW r, Agree(s, r, Len(s))
  PROVE  Len(s) \in Nat /\ Len(r) \in Nat /\ Len(s) <= Len(r) /\ \A p \in 1..Len(s) : s[p] = r[p]
BY DEF Agree

LEMMA ReadsAgree ==
  ASSUME NEW s, NEW r, Agree(s, r, Len(s)), NEW t, NEW lo, NEW hi, Reads(s, t, lo, hi)
  PROVE  /\ Reads(r, t, lo, hi) /\ BinaryAt(s, lo, hi) = BinaryAt(r, lo, hi)
         /\ lo \in 1..Len(s) /\ hi \in 1..Len(s)
<1>1. lo \in 1..Len(s) /\ hi \in lo..Len(s) /\ Reading(s)[<<lo, hi>>] = t /\ IsExpression(t)
  BY DEF Reads
<1>2. lo \in 1..Len(s) + 1 /\ hi \in 0..Len(s) /\ lo \in 1..Len(r) /\ hi \in lo..Len(r)
      /\ hi \in 1..Len(s)
  BY <1>1, AgreeIs
<1>3. Reading(s)[<<lo, hi>>] = Reading(r)[<<lo, hi>>] /\ BinaryAt(s, lo, hi) = BinaryAt(r, lo, hi)
  BY <1>2, ReadingAgrees, OutsideAgrees
<1> QED
  BY <1>1, <1>2, <1>3, Zenon DEF Reads

LEMMA AtomAgree ==
  ASSUME NEW s, NEW r, Agree(s, r, Len(s)), NEW t, NEW lo, NEW hi, Atom(s, t, lo, hi)
  PROVE  Atom(r, t, lo, hi)
<1>1. Reads(s, t, lo, hi) /\ BinaryAt(s, lo, hi) = {}
  BY Zenon DEF Atom
<1>2. Reads(r, t, lo, hi) /\ BinaryAt(s, lo, hi) = BinaryAt(r, lo, hi)
  BY <1>1, ReadsAgree
<1> QED
  BY <1>1, <1>2, Zenon DEF Atom

LEMMA BelowAgree ==
  ASSUME NEW s, NEW r, Agree(s, r, Len(s)), NEW t, NEW lo, NEW hi, Reads(s, t, lo, hi),
         NEW ops, NEW j, Below(s, ops, j, lo, hi)
  PROVE  Below(r, ops, j, lo, hi)
<1>1. BinaryAt(s, lo, hi) = BinaryAt(r, lo, hi) /\ lo \in 1..Len(s) /\ hi \in 1..Len(s)
  BY ReadsAgree
<1>2. \A p \in BinaryAt(s, lo, hi) : p \in 1..Len(s)
  <2>1. lo \in Nat /\ hi \in Nat /\ lo > 0 /\ hi <= Len(s) /\ Len(s) \in Nat
    BY <1>1, AgreeIs
  <2>2. BinaryAt(s, lo, hi) \subseteq 1..hi
    BY <2>1, OutsideIs
  <2> QED
    BY <2>1, <2>2
<1>3. \A p \in BinaryAt(s, lo, hi) : s[p] = r[p]
  BY <1>2, AgreeIs
<1> QED
  BY <1>1, <1>3, Zenon DEF Below

\* The nodes of a stack keep their trees.
Keeps(T, U, args) == \A j \in 1..Len(args) : U[args[j]] = T[args[j]]

LEMMA PiecesAgree ==
  ASSUME NEW s, NEW r, Agree(s, r, Len(s)), NEW T, NEW U, NEW args, Keeps(T, U, args),
         NEW ops, NEW from, NEW e, Pieces(s, T, args, ops, from, e)
  PROVE  Pieces(r, U, args, ops, from, e)
<1>1. \A j \in 1..Len(ops) : Stands(r, ops[j])
  <2>1. \A j \in 1..Len(ops) : Stands(s, ops[j])
    BY Zenon DEF Pieces
  <2>2. ASSUME NEW o, Stands(s, o) PROVE Stands(r, o)
    BY <2>2, AgreeIs DEF Stands
  <2> QED
    BY <2>1, <2>2
<1>2. ASSUME NEW j \in 1..Len(args)
      PROVE  /\ Reads(r, U[args[j]], First(ops, from, j), Final(ops, j, e))
             /\ Below(r, ops, j, First(ops, from, j), Final(ops, j, e))
  <2>1. /\ Reads(s, T[args[j]], First(ops, from, j), Final(ops, j, e))
        /\ Below(s, ops, j, First(ops, from, j), Final(ops, j, e))
    BY Zenon DEF Pieces
  <2>2. U[args[j]] = T[args[j]]
    BY DEF Keeps
  <2> QED
    BY <2>1, <2>2, ReadsAgree, BelowAgree, Zenon
<1> QED
  BY <1>1, <1>2, Zenon DEF Pieces

LEMMA HasAgree ==
  ASSUME NEW s, NEW r, Agree(s, r, Len(s)), NEW T, NEW U, NEW args, Keeps(T, U, args),
         NEW ops, NEW from, NEW e, Has(s, T, args, ops, from, e)
  PROVE  Has(r, U, args, ops, from, e)
BY PiecesAgree, Zenon DEF Has

LEMMA SignAgree ==
  ASSUME NEW s, NEW r, Agree(s, r, Len(s)), NEW i \in 1..Len(s), Sign(s, i)
  PROVE  Sign(r, i)
<1>1. s[i] = r[i] /\ (i = 1 \/ s[i - 1] = r[i - 1])
  <2>1. i = 1 \/ i - 1 \in 1..Len(s)
    BY AgreeIs
  <2> QED
    BY <2>1, AgreeIs
<1> QED
  BY <1>1 DEF Sign

\* A call that starts with a prefix.
Prefixed(s, args, ops, from) ==
  /\ args = <<>> /\ Len(ops) = 1
  /\ ops[1].at = from /\ ops[1].op \in Unary \cup {"-"}
  /\ from \in 1..Len(s) /\ s[from] = ops[1].op /\ (ops[1].op = "-" => Sign(s, from))
Between(s, T, args, ops, from, n) == Len(args) = Len(ops) /\ Pieces(s, T, args, ops, from, n)

\* The two cases of Waits.
LEMMA WaitsIs ==
  ASSUME NEW s, NEW T, NEW args, NEW ops, NEW from, NEW n
  PROVE  Waits(s, T, args, ops, from, n) <=>
           /\ n = First(ops, from, Len(ops) + 1)
           /\ Between(s, T, args, ops, from, n) \/ Prefixed(s, args, ops, from)
BY Zenon DEF Waits, Between, Prefixed

LEMMA WaitsAgree ==
  ASSUME NEW s, NEW r, Agree(s, r, Len(s)), NEW T, NEW U, NEW args, Keeps(T, U, args),
         NEW ops, NEW from, NEW n, Waits(s, T, args, ops, from, n)
  PROVE  Waits(r, U, args, ops, from, n)
<1>1. n = First(ops, from, Len(ops) + 1)
  BY WaitsIs
<1>2. CASE Between(s, T, args, ops, from, n)
  <2>1. Between(r, U, args, ops, from, n)
    BY <1>2, PiecesAgree, Zenon DEF Between
  <2> QED
    BY <1>1, <2>1, WaitsIs
<1>3. CASE Prefixed(s, args, ops, from)
  <2>1. from \in 1..Len(s) /\ s[from] = r[from] /\ from \in 1..Len(r)
    BY <1>3, AgreeIs DEF Prefixed
  <2>2. Sign(s, from) => Sign(r, from)
    BY <2>1, SignAgree
  <2>3. Prefixed(r, args, ops, from)
    BY <1>3, <2>1, <2>2, Zenon DEF Prefixed
  <2> QED
    BY <1>1, <2>3, WaitsIs
<1> QED
  BY <1>2, <1>3, WaitsIs

LEMMA LastOpsAgree ==
  ASSUME NEW s, NEW r, Agree(s, r, Len(s)), NEW T, NEW args,
         NEW ops, NEW from, NEW e, Has(s, T, args, ops, from, e), Len(ops) \in Nat
  PROVE  LastOps(s, ops, from, e) = LastOps(r, ops, from, e)
<1> DEFINE n == Len(ops) + 1
<1>1. n \in 1..Len(args) /\ ~(n <= Len(ops))
  BY DEF Has
<1>2. Final(ops, n, e) = e
  BY <1>1, Zenon DEF Final
<1> HIDE DEF n
<1>3. Reads(s, T[args[n]], First(ops, from, n), e)
  BY <1>1, <1>2, Zenon DEF Has, Pieces
<1>4. BinaryAt(s, First(ops, from, n), e) = BinaryAt(r, First(ops, from, n), e)
  BY <1>3, ReadsAgree
<1> QED
  BY <1>4 DEF LastOps, n

LEMMA TargetAgree ==
  ASSUME NEW s, NEW r, Agree(s, r, Len(s)), NEW T, NEW U, NEW h, Keeps(T, U, h), h # <<>>, Len(h) \in Nat,
         Len(h) > 0, NEW x, NEW e, TargetAt(s, T, h, x, e)
  PROVE  TargetAt(r, U, h, x, e)
<1>1. PICK nest : Nests(T, h, nest) /\ Atom(s, nest[Len(h)], x, e)
  BY Zenon DEF TargetAt
<1>2. s[x] = "id" /\ x \in 1..Len(s)
  BY <1>1, ReadsAgree, Zenon DEF TargetAt, Atom
<1>3. r[x] = "id"
  BY <1>2, AgreeIs
<1>4. Nests(U, h, nest)
  <2>1. U[h[1]] = T[h[1]]
    <3>1. 1 \in 1..Len(h)
      OBVIOUS
    <3> QED
      BY <3>1 DEF Keeps
  <2>2. ASSUME NEW i \in 1..Len(h) - 1 PROVE U[h[i + 1]] = T[h[i + 1]]
    <3>1. i + 1 \in 1..Len(h)
      OBVIOUS
    <3> QED
      BY <3>1, Zenon DEF Keeps
  <2> QED
    BY <1>1, <2>1, <2>2, Zenon DEF Nests
<1> QED
  BY <1>1, <1>3, <1>4, AtomAgree, Zenon DEF TargetAt

---------------------------------------------------------------------------
(* The stacks of a call.                                                   *)

\* The ends of the operands.
LEMMA FirstIs ==
  ASSUME NEW ops, NEW from, NEW e
  PROVE  /\ First(ops, from, 1) = from
         /\ \A j : j # 1 => First(ops, from, j) = ops[j - 1].at + 1
         /\ \A j : j <= Len(ops) => Final(ops, j, e) = ops[j].at - 1
         /\ \A j : ~(j <= Len(ops)) => Final(ops, j, e) = e
BY Zenon DEF First, Final

\* The next operand.
LEMMA HasPush ==
  ASSUME NEW S, NEW s, NEW T, NEW args \in Seq(S), NEW ops, Len(ops) \in Nat, NEW from, NEW n, NEW e,
         n = First(ops, from, Len(ops) + 1), Between(s, T, args, ops, from, n),
         NEW m \in S, Atom(s, T[m], n, e)
  PROVE  Has(s, T, Append(args, m), ops, from, e) /\ LastOps(s, ops, from, e) = {}
<1> DEFINE all == Append(args, m)
           k == Len(ops) + 1
<1>1. /\ Len(args) \in Nat /\ Len(all) = Len(args) + 1 /\ all[Len(args) + 1] = m
      /\ \A i \in 1..Len(args) : all[i] = args[i]
  BY PushedLemma
<1> HIDE DEF all
<1>2. Len(args) = Len(ops) /\ Pieces(s, T, args, ops, from, n)
  BY DEF Between
<1>3. BinaryAt(s, n, e) = {} /\ Reads(s, T[m], n, e)
  BY Zenon DEF Atom
<1>4. k \in 1..Len(all) /\ ~(k <= Len(ops)) /\ Len(all) = k /\ all[k] = m
  BY <1>1, <1>2
<1>5. First(ops, from, k) = n /\ Final(ops, k, e) = e
  BY <1>4, FirstIs
<1> HIDE DEF k
<1>6. ASSUME NEW j \in 1..Len(all)
      PROVE  /\ Reads(s, T[all[j]], First(ops, from, j), Final(ops, j, e))
             /\ Below(s, ops, j, First(ops, from, j), Final(ops, j, e))
  <2>1. CASE j = k
    <3>1. Below(s, ops, k, n, e)
      BY <1>3, Zenon DEF Below
    <3> QED
      BY <1>3, <1>4, <1>5, <2>1, <3>1, Zenon
  <2>2. CASE j # k
    <3>1. j \in 1..Len(args) /\ j <= Len(ops) /\ all[j] = args[j]
      BY <1>1, <1>2, <1>4, <2>2
    <3>2. Final(ops, j, e) = Final(ops, j, n)
      BY <3>1, Zenon DEF Final
    <3>3. /\ Reads(s, T[args[j]], First(ops, from, j), Final(ops, j, n))
          /\ Below(s, ops, j, First(ops, from, j), Final(ops, j, n))
      BY <1>2, <3>1, Zenon DEF Pieces
    <3> QED
      BY <3>1, <3>2, <3>3, Zenon
  <2> QED
    BY <2>1, <2>2
<1>7. Pieces(s, T, all, ops, from, e)
  BY <1>2, <1>6, Zenon DEF Pieces
<1>8. Has(s, T, all, ops, from, e)
  <2>1. Len(all) = Len(ops) + 1
    BY <1>1, <1>2
  <2> QED
    BY <1>7, <2>1, Zenon DEF Has
<1>9. LastOps(s, ops, from, e) = {}
  BY <1>3, <1>5, Zenon DEF LastOps, k
<1> QED
  BY <1>8, <1>9 DEF all

\* The next operator.
LEMMA WaitsPush ==
  ASSUME NEW S, NEW s, Len(s) \in Nat, NEW T, NEW args, NEW ops \in Seq(S), NEW o \in S, NEW from, NEW e,
         Has(s, T, args, ops, from, e), NEW k \in 1..Len(s), k = e + 1, e \in Int, s[k] \in Binary,
         o.op = s[k], o.at = k, \A p \in LastOps(s, ops, from, e) : Level(s[p]) <= Level(s[k]),
         NEW n, n = k + 1
  PROVE  Waits(s, T, args, Append(ops, o), from, n)
<1> DEFINE all == Append(ops, o)
           l == Len(ops) + 1
<1>1. /\ Len(ops) \in Nat /\ Len(all) = l /\ all[l] = o
      /\ \A i \in 1..Len(ops) : all[i] = ops[i]
  BY PushedLemma
<1> HIDE DEF all
<1>2. Len(args) = l /\ Pieces(s, T, args, ops, from, e)
  BY DEF Has
<1>3. l \in 1..Len(all) /\ ~(l <= Len(ops)) /\ l \in Nat /\ l + 1 # 1 /\ (l + 1) - 1 = l
  BY <1>1
<1>4. First(all, from, l + 1) = n
  <2>1. First(all, from, l + 1) = all[(l + 1) - 1].at + 1
    BY <1>3, Zenon DEF First
  <2> QED
    BY <1>1, <1>3, <2>1
<1>5. ASSUME NEW j \in 1..l PROVE First(all, from, j) = First(ops, from, j)
  <2>1. CASE j = 1
    <3> HIDE DEF all
    <3>1. First(all, from, 1) = from
      BY FirstIs
    <3>2. First(ops, from, 1) = from
      BY FirstIs
    <3> QED
      BY <2>1, <3>1, <3>2
  <2>2. CASE j # 1
    <3>1. j - 1 \in 1..Len(ops)
      BY <1>1, <2>2
    <3>2. all[j - 1] = ops[j - 1]
      BY <1>1, <3>1
    <3> QED
      BY <2>2, <3>2, Zenon DEF First
  <2> QED
    BY <2>1, <2>2
<1>6. ASSUME NEW j \in 1..l PROVE Final(all, j, n) = Final(ops, j, e)
  <2>1. CASE j = l
    <3>1. Final(all, j, n) = all[j].at - 1
      BY <1>1, <2>1 DEF Final
    <3>2. Final(ops, j, e) = e
      BY <1>3, <2>1 DEF Final
    <3> QED
      BY <1>1, <2>1, <3>1, <3>2
  <2>2. CASE j # l
    <3>1. j \in 1..Len(ops) /\ j <= Len(ops) /\ j <= Len(all)
      BY <1>1, <2>2
    <3>2. all[j] = ops[j]
      BY <1>1, <3>1
    <3> QED
      BY <3>1, <3>2, Zenon DEF Final
  <2> QED
    BY <2>1, <2>2
<1>7. \A j \in 1..Len(all) : Stands(s, all[j])
  <2>1. Stands(s, o)
    BY DEF Stands
  <2>2. \A j \in 1..Len(ops) : Stands(s, ops[j])
    BY <1>2, Zenon DEF Pieces
  <2>3. \A j \in 1..Len(all) : j \in 1..Len(ops) \/ j = l
    BY <1>1
  <2> QED
    BY <1>1, <2>1, <2>2, <2>3
<1>8. ASSUME NEW j \in 1..Len(args)
      PROVE  /\ Reads(s, T[args[j]], First(all, from, j), Final(all, j, n))
             /\ Below(s, all, j, First(all, from, j), Final(all, j, n))
  <2>0. j \in 1..l
    BY <1>2
  <2> DEFINE lo == First(ops, from, j)
             hi == Final(ops, j, e)
  <2>1. First(all, from, j) = lo /\ Final(all, j, n) = hi
    BY <2>0, <1>5, <1>6
  <2>2. Reads(s, T[args[j]], lo, hi) /\ Below(s, ops, j, lo, hi)
    BY <1>2, Zenon DEF Pieces
  <2>3. j = l => \A p \in BinaryAt(s, lo, hi) : Level(s[p]) <= Level(s[k])
    <3>1. j = l => hi = e
      BY <1>3, FirstIs
    <3> QED
      BY <3>1, Zenon DEF LastOps
  <2> HIDE DEF lo, hi
  <2>4. Below(s, all, j, lo, hi)
    <3>1. j < l => all[j] = ops[j] /\ j <= Len(ops)
      BY <1>1, <2>0
    <3>2. j > 1 => all[j - 1] = ops[j - 1]
      <4>1. j > 1 => j - 1 \in 1..Len(ops)
        BY <1>1, <2>0
      <4> QED
        BY <1>1, <4>1
    <3>3. j = l \/ j < l
      BY <1>1, <2>0
    <3>4. j = l => all[j].op = s[k]
      BY <1>1
    <3>5. ASSUME NEW p \in BinaryAt(s, lo, hi)
          PROVE  /\ j <= Len(all) => Level(s[p]) <= Level(all[j].op)
                 /\ j > 1 => Level(s[p]) < Level(all[j - 1].op)
      BY <2>2, <2>3, <3>1, <3>2, <3>3, <3>4, Zenon DEF Below
    <3> QED
      BY <3>5, Zenon DEF Below
  <2> QED
    BY <2>1, <2>2, <2>4
<1>9. Between(s, T, args, all, from, n)
  BY <1>1, <1>2, <1>7, <1>8, Zenon DEF Pieces, Between
<1>10. Len(all) + 1 = l + 1
  BY <1>1
<1>11. Waits(s, T, args, all, from, n)
  BY <1>4, <1>9, <1>10, WaitsIs
<1> QED
  BY <1>11 DEF all

\* Two operands and the operator between them become one operand.
LEMMA HasCombine ==
  ASSUME NEW S, NEW s, Len(s) \in Nat, NEW T, NEW U, NEW args \in Seq(S), NEW m \in S,
         NEW E, NEW ops \in Seq(E), ops # <<>>, Rising(ops),
         NEW from, NEW e, Has(s, T, args, ops, from, e), Keeps(T, U, args),
         NEW g, g = Len(args) - 1, NEW h, h = Len(args), NEW o, o = Top(ops),
         U[m] = Tree("binary", o.at, <<T[args[g]], T[args[h]]>>),
         NEW b, b = Append(SubSeq(args, 1, Len(args) - 2), m)
  PROVE  /\ Has(s, U, b, Pop(ops), from, e)
         /\ \A q \in LastOps(s, Pop(ops), from, e) :
              q \in LastOps(s, ops, from, e) \/ Level(s[q]) <= Level(o.op)
<1> DEFINE f == g - 1
           c == SubSeq(args, 1, f)
           rest == Pop(ops)
<1>1. /\ Len(ops) \in Nat \ {0} /\ rest \in Seq(E) /\ Len(rest) = Len(ops) - 1
      /\ \A i \in 1..Len(rest) : rest[i] = ops[i]
  BY PopLemma
<1>2. Len(args) = Len(ops) + 1 /\ Pieces(s, T, args, ops, from, e)
  BY DEF Has
<1>3. /\ g = Len(ops) /\ h = g + 1 /\ g \in Nat \ {0} /\ f = Len(rest) /\ f \in Nat
      /\ f = Len(args) - 2 /\ f <= Len(args) /\ g \in 1..Len(args) /\ h \in 1..Len(args)
      /\ g <= Len(ops) /\ ~(h <= Len(ops)) /\ h > 1 /\ h # 1 /\ h - 1 = g /\ g \in 1..Len(ops)
      /\ ~(g <= Len(rest))
  BY <1>1, <1>2
<1>4. o = ops[g]
  BY <1>3 DEF Top
<1>5. /\ c \in Seq(S) /\ Len(c) = f
      /\ \A i \in 1..f : c[i] = args[i]
  <2>1. f \in Nat /\ f <= Len(args)
    BY <1>3
  <2> HIDE DEF f
  <2> QED
    BY <2>1, PrefixLemma
<1>6. b = Append(c, m)
  BY <1>3
<1> HIDE DEF c, rest, f
<1>7. /\ Len(b) = g /\ b[g] = m /\ \A i \in 1..f : b[i] = args[i]
  <2>1. /\ Len(b) = f + 1 /\ b[f + 1] = m /\ \A i \in 1..f : b[i] = c[i]
    BY <1>5, <1>6, PushedLemma
  <2>2. f + 1 = g
    BY <1>3 DEF f
  <2> QED
    BY <1>5, <2>1, <2>2
<1> DEFINE lo == First(ops, from, g)
           p == o.at
           y == p - 1
           z == p + 1
           t == T[args[g]]
           u == T[args[h]]
<1>8. Stands(s, o)
  BY <1>2, <1>3, <1>4, Zenon DEF Pieces
<1>9. p \in 1..Len(s) /\ s[p] = o.op /\ s[p] \in Binary
  BY <1>8 DEF Stands
<1>10. Final(ops, g, e) = y /\ First(ops, from, h) = z /\ Final(ops, h, e) = e
  <2>1. Final(ops, g, e) = ops[g].at - 1
    BY <1>3, Zenon DEF Final
  <2>2. First(ops, from, h) = ops[h - 1].at + 1
    BY <1>3, Zenon DEF First
  <2>3. Final(ops, h, e) = e
    BY <1>3, Zenon DEF Final
  <2> QED
    BY <1>3, <1>4, <2>1, <2>2, <2>3
<1>11. Reads(s, t, lo, y) /\ Below(s, ops, g, lo, y)
  <2>1. /\ Reads(s, T[args[g]], First(ops, from, g), Final(ops, g, e))
        /\ Below(s, ops, g, First(ops, from, g), Final(ops, g, e))
    BY <1>2, <1>3, Zenon DEF Pieces
  <2> QED
    BY <1>10, <2>1, Zenon
<1>12. Reads(s, u, z, e) /\ Below(s, ops, h, z, e)
  <2>1. /\ Reads(s, T[args[h]], First(ops, from, h), Final(ops, h, e))
        /\ Below(s, ops, h, First(ops, from, h), Final(ops, h, e))
    BY <1>2, <1>3, Zenon DEF Pieces
  <2> QED
    BY <1>10, <2>1, Zenon
<1>13. y = p - 1 /\ z = p + 1
  OBVIOUS
<1>l. lo = First(rest, from, g) /\ lo = First(ops, from, g)
  <2>1. CASE g = 1
    BY <2>1, Zenon DEF First
  <2>2. CASE g # 1
    <3>1. g - 1 \in 1..Len(rest)
      BY <1>1, <1>3, <2>2
    <3>2. rest[g - 1] = ops[g - 1]
      BY <1>1, <3>1
    <3> QED
      BY <2>2, <3>2, Zenon DEF First
  <2> QED
    BY <2>1, <2>2
<1>t. Tree("binary", o.at, <<T[args[g]], T[args[h]]>>) = Tree("binary", p, <<t, u>>)
  OBVIOUS
<1> HIDE DEF lo, p, y, z, t, u
<1>14. \A q \in BinaryAt(s, lo, y) : Level(s[q]) <= Level(s[p])
  <2>1. \A q \in BinaryAt(s, lo, y) : Level(s[q]) <= Level(ops[g].op)
    BY <1>3, <1>11, Zenon DEF Below
  <2> QED
    BY <1>4, <1>9, <2>1, Zenon
<1>15. \A q \in BinaryAt(s, z, e) : Level(s[q]) < Level(s[p])
  <2>1. \A q \in BinaryAt(s, z, e) : Level(s[q]) < Level(ops[h - 1].op)
    BY <1>3, <1>12, Zenon DEF Below
  <2> QED
    BY <1>3, <1>4, <1>9, <2>1, Zenon
<1>16. /\ Reads(s, Tree("binary", p, <<t, u>>), lo, e)
       /\ BinaryAt(s, lo, e) = BinaryAt(s, lo, y) \cup {p} \cup BinaryAt(s, z, e)
  <2>1. Around(s, t, u, lo, y, p, z, e)
    BY <1>9, <1>11, <1>12, <1>13, <1>14, <1>15, Zenon DEF Around
  <2> QED
    BY <2>1, ReadsBinary
<1>17. U[m] = Tree("binary", p, <<t, u>>)
  BY <1>t
<1>18. \A q \in BinaryAt(s, lo, y) \cup BinaryAt(s, z, e) \cup {p} :
         Level(s[q]) \in Nat /\ Level(s[q]) <= Level(s[p])
  <2>1. \A q \in BinaryAt(s, lo, y) \cup BinaryAt(s, z, e) \cup {p} : s[q] \in Binary
    <3>1. lo \in Nat /\ lo > 0 /\ y \in Nat /\ z \in Nat /\ z > 0 /\ e \in Nat
      BY <1>11, <1>12 DEF Reads
    <3>2. \A q \in BinaryAt(s, lo, y) : s[q] \in Binary
      BY <3>1, OutsideIs
    <3>3. \A q \in BinaryAt(s, z, e) : s[q] \in Binary
      BY <3>1, OutsideIs
    <3> QED
      BY <1>9, <3>2, <3>3
  <2>2. \A q \in BinaryAt(s, lo, y) \cup BinaryAt(s, z, e) \cup {p} : Level(s[q]) \in Nat
    BY <2>1, LevelLemma
  <2>3. Level(s[p]) \in Nat
    BY <2>2
  <2> QED
    BY <1>14, <1>15, <2>2, <2>3
<1>19. Below(s, rest, g, lo, e)
  <2>1. ASSUME g > 1 PROVE /\ \A q \in BinaryAt(s, lo, y) : Level(s[q]) < Level(rest[g - 1].op)
                           /\ Level(s[p]) < Level(rest[g - 1].op) /\ Level(rest[g - 1].op) \in Nat
    <3>1. rest[g - 1] = ops[g - 1] /\ g - 1 \in 1..Len(ops) /\ g - 1 \in 1..Len(ops) - 1
          /\ (g - 1) + 1 = g
      <4>0. Len(rest) = g - 1 /\ g \in Nat
        BY <1>1, <1>3
      <4>1. g - 1 \in 1..Len(rest)
        BY <2>1, <4>0
      <4>2. rest[g - 1] = ops[g - 1]
        BY <1>1, <4>1
      <4>3. Len(ops) = g
        BY <1>3
      <4> QED
        BY <4>0, <4>1, <4>2, <4>3
    <3>2. \A q \in BinaryAt(s, lo, y) : Level(s[q]) < Level(ops[g - 1].op)
      BY <1>11, <2>1, Zenon DEF Below
    <3>3. ops[g - 1].op \in Binary
      <4>1. Stands(s, ops[g - 1])
        BY <1>2, <3>1, Zenon DEF Pieces
      <4> QED
        BY <4>1 DEF Stands
    <3>4. \/ Level(ops[(g - 1) + 1].op) < Level(ops[g - 1].op)
          \/ ops[g - 1].op \in Unary /\ ops[(g - 1) + 1].op \in Unary
      BY <3>1 DEF Rising
    <3>5. Level(ops[g].op) < Level(ops[g - 1].op)
      BY <3>1, <3>3, <3>4, BinaryIs
    <3>6. Level(ops[g - 1].op) \in Nat
      BY <3>3, LevelLemma
    <3> QED
      BY <1>4, <1>9, <3>1, <3>2, <3>5, <3>6
  <2>2. ASSUME g > 1, NEW q \in BinaryAt(s, lo, e) PROVE Level(s[q]) < Level(rest[g - 1].op)
    <3>1. q \in BinaryAt(s, lo, y) \/ q \in {p} \cup BinaryAt(s, z, e)
      BY <1>16, <2>2
    <3>2. CASE q \in BinaryAt(s, lo, y)
      BY <2>1, <2>2, <3>2
    <3>3. CASE q \in {p} \cup BinaryAt(s, z, e)
      <4>1. Level(s[q]) \in Nat /\ Level(s[q]) <= Level(s[p]) /\ Level(s[p]) \in Nat
        BY <1>18, <3>3
      <4>2. Level(s[p]) < Level(rest[g - 1].op) /\ Level(rest[g - 1].op) \in Nat
        BY <2>1, <2>2
      <4> QED
        BY <4>1, <4>2
    <3> QED
      BY <3>1, <3>2, <3>3
  <2> QED
    BY <1>3, <2>2, Zenon DEF Below
<1>20. ASSUME NEW j \in 1..Len(b)
       PROVE  /\ Reads(s, U[b[j]], First(rest, from, j), Final(rest, j, e))
              /\ Below(s, rest, j, First(rest, from, j), Final(rest, j, e))
  <2>1. CASE j = g
    <3>1. Final(rest, j, e) = e
      BY <1>3, <2>1, Zenon DEF Final
    <3>2. U[b[j]] = Tree("binary", p, <<t, u>>)
      BY <1>7, <1>17, <2>1
    <3>3. First(rest, from, j) = lo
      BY <1>l, <2>1
    <3> QED
      BY <1>16, <1>19, <2>1, <3>1, <3>2, <3>3, Zenon
  <2>2. CASE j # g
    <3>1. j \in 1..f /\ j \in 1..Len(args) /\ j <= Len(ops) /\ j <= Len(rest)
      BY <1>1, <1>3, <1>7, <2>2
    <3>2. U[b[j]] = T[args[j]]
      BY <1>7, <3>1 DEF Keeps
    <3>3. rest[j] = ops[j]
      BY <1>1, <3>1
    <3>4. j # 1 => rest[j - 1] = ops[j - 1]
      <4>1. j # 1 => j - 1 \in 1..Len(rest)
        BY <1>1, <3>1
      <4> QED
        BY <1>1, <4>1
    <3>5. First(rest, from, j) = First(ops, from, j) /\ Final(rest, j, e) = Final(ops, j, e)
      BY <3>1, <3>3, <3>4, Zenon DEF First, Final
    <3>6. /\ Reads(s, T[args[j]], First(ops, from, j), Final(ops, j, e))
          /\ Below(s, ops, j, First(ops, from, j), Final(ops, j, e))
      BY <1>2, <3>1, Zenon DEF Pieces
    <3> DEFINE v == First(ops, from, j)
               w == Final(ops, j, e)
    <3>7. Below(s, ops, j, v, w)
      BY <3>6
    <3> HIDE DEF v, w
    <3>8. Below(s, rest, j, v, w)
      <4>1. j > 1 => j # 1
        BY <3>1
      <4> QED
        BY <3>1, <3>3, <3>4, <3>7, <4>1, Zenon DEF Below
    <3> QED
      BY <3>2, <3>5, <3>6, <3>8, Zenon DEF v, w
  <2> QED
    BY <2>1, <2>2
<1>21. \A j \in 1..Len(rest) : Stands(s, rest[j])
  <2>1. \A j \in 1..Len(ops) : Stands(s, ops[j])
    BY <1>2, Zenon DEF Pieces
  <2>2. \A j \in 1..Len(rest) : j \in 1..Len(ops)
    BY <1>1
  <2> QED
    BY <1>1, <2>1, <2>2
<1>22. Has(s, U, b, rest, from, e)
  <2>1. Len(b) = Len(rest) + 1
    BY <1>3, <1>7 DEF f
  <2> QED
    BY <1>20, <1>21, <2>1, Zenon DEF Has, Pieces
<1>23. ASSUME NEW q \in LastOps(s, rest, from, e)
       PROVE  q \in LastOps(s, ops, from, e) \/ Level(s[q]) <= Level(o.op)
  <2>1. Len(rest) + 1 = g /\ Len(ops) + 1 = h
    BY <1>1, <1>3
  <2>2. q \in BinaryAt(s, lo, e)
    BY <1>l, <2>1 DEF LastOps
  <2> QED
    BY <1>9, <1>16, <1>18, <2>2
<1> QED
  BY <1>22, <1>23 DEF rest

---------------------------------------------------------------------------
(* The trees of the nodes.                                                 *)

TreeAt(h, T, n) == Tree(h[n].kind, h[n].at, [i \in DOMAIN h[n].kids |-> T[h[n].kids[i]]])
Builds(h, T, k) == T = [n \in 1..k |-> TreeAt(h, T, n)]

\* A tree depends on the trees of older nodes.
LEMMA TreeAtSame ==
  ASSUME NEW h, NEW g, NEW n \in Nat, h[n] = g[n], Range(h[n].kids) \subseteq 1..(n - 1),
         NEW T, NEW U, \A j \in 1..(n - 1) : T[j] = U[j]
  PROVE  TreeAt(h, T, n) = TreeAt(g, U, n)
<1> DEFINE ks == h[n].kids
<1>1. \A i \in DOMAIN ks : ks[i] \in 1..(n - 1)
  BY DEF Range
<1>2. \A i \in DOMAIN ks : T[ks[i]] = U[ks[i]]
  BY <1>1
<1>3. [i \in DOMAIN ks |-> T[ks[i]]] = [i \in DOMAIN ks |-> U[ks[i]]]
  BY <1>2
<1> QED
  BY <1>3, Zenon DEF TreeAt

LEMMA BuildsAt ==
  ASSUME NEW h, NEW T, NEW k, Builds(h, T, k), NEW n \in 1..k
  PROVE  T[n] = TreeAt(h, T, n)
<1> DEFINE t == TreeAt(h, T, n)
           F == [m \in 1..k |-> TreeAt(h, T, m)]
<1>1. F[n] = t
  OBVIOUS
<1>2. T = F
  BY DEF Builds
<1> QED
  BY <1>1, <1>2, Zenon

\* The trees exist, and those of the nodes there are do not change.
LEMMA BuildsMore ==
  ASSUME NEW h, OwnsOlder(h), Len(h) \in Nat, NEW k \in Nat, NEW l, l = k + 1, l <= Len(h),
         NEW T, Builds(h, T, k)
  PROVE  \E U : Builds(h, U, l)
<1> DEFINE U == [n \in 1..l |-> IF n = l THEN TreeAt(h, T, l) ELSE T[n]]
<1>1. U[l] = TreeAt(h, T, l) /\ \A n \in 1..k : U[n] = T[n]
  OBVIOUS
<1>2. U = [n \in 1..l |-> U[n]]
  OBVIOUS
<1> HIDE DEF U
<1>3. ASSUME NEW n \in 1..l PROVE U[n] = TreeAt(h, U, n)
  <2>1. Range(h[n].kids) \subseteq 1..(n - 1) /\ n \in Nat
    BY DEF OwnsOlder
  <2>2. \A j \in 1..(n - 1) : T[j] = U[j]
    BY <1>1
  <2>3. TreeAt(h, T, n) = TreeAt(h, U, n)
    BY <2>1, <2>2, TreeAtSame
  <2>4. CASE n = l
    BY <1>1, <2>3, <2>4
  <2>5. CASE n \in 1..k
    BY <1>1, <2>3, <2>5, BuildsAt
  <2> QED
    BY <2>4, <2>5
<1>4. U = [n \in 1..l |-> TreeAt(h, U, n)]
  BY <1>2, <1>3
<1> QED
  BY <1>4 DEF Builds

LEMMA BuildsExist ==
  ASSUME NEW h, OwnsOlder(h), Len(h) \in Nat
  PROVE  \E T : Builds(h, T, Len(h))
<1> DEFINE Ok(k) == k <= Len(h) => \E T : Builds(h, T, k)
           B == {k \in Nat : ~Ok(k)}
<1>1. ASSUME B # {} PROVE FALSE
  <2>1. PICK m \in B : \A j \in B : m <= j
    <3>1. B \subseteq Nat
      OBVIOUS
    <3> HIDE DEF B
    <3> QED
      BY <1>1, <3>1, Smallest
  <2>2. m \in Nat /\ ~Ok(m) /\ \A j \in Nat : ~Ok(j) => m <= j
    <3> HIDE DEF Ok
    <3> QED
      BY <2>1
  <2>3. Ok(0)
    <3> DEFINE d == [n \in 1..0 |-> 0]
    <3>1. d = [n \in 1..0 |-> TreeAt(h, d, n)]
      OBVIOUS
    <3> HIDE DEF d
    <3> QED
      BY <3>1 DEF Builds
  <2> HIDE DEF B
  <2>4. m # 0
    <3> HIDE DEF Ok
    <3> QED
      BY <2>2, <2>3
  <2> DEFINE l == m - 1
  <2>5. l \in Nat /\ ~(m <= l) /\ m = l + 1
    BY <2>2, <2>4
  <2> HIDE DEF l
  <2>6. Ok(l)
    <3> HIDE DEF Ok
    <3> QED
      BY <2>2, <2>5
  <2>7. Ok(m)
    <3> SUFFICES ASSUME m <= Len(h) PROVE \E T : Builds(h, T, m)
      OBVIOUS
    <3>1. PICK T : Builds(h, T, l)
      BY <2>5, <2>6
    <3> QED
      BY <2>5, <3>1, BuildsMore
  <2> HIDE DEF Ok
  <2> QED
    BY <2>2, <2>7
<1>2. Ok(Len(h))
  <2> HIDE DEF Ok
  <2> QED
    BY <1>1
<1> QED
  BY <1>2

\* The nodes h are the first of the nodes g.
Grows(h, g, k, l) ==
  /\ k \in Nat /\ l \in Nat /\ k <= l
  /\ \A n \in 1..k : h[n] = g[n] /\ Range(h[n].kids) \subseteq 1..(n - 1)

LEMMA BuildsOnce ==
  ASSUME NEW h, NEW g, NEW k, NEW l, Grows(h, g, k, l), NEW T, NEW U, Builds(h, T, k), Builds(g, U, l)
  PROVE  \A n \in 1..k : U[n] = T[n]
<1> /\ k \in Nat /\ l \in Nat /\ k <= l
    /\ \A n \in 1..k : h[n] = g[n] /\ Range(h[n].kids) \subseteq 1..(n - 1)
  BY DEF Grows
<1>1. ASSUME NEW i \in 1..k, U[i] # T[i] PROVE FALSE
  <2> DEFINE B == {j \in 1..k : U[j] # T[j]}
  <2>1. PICK n \in B : \A j \in B : n <= j
    <3>1. B \subseteq Nat /\ i \in B
      BY <1>1
    <3> HIDE DEF B
    <3> QED
      BY <3>1, Smallest
  <2>2. n \in 1..k /\ U[n] # T[n] /\ n \in Nat /\ n \in 1..l
    OBVIOUS
  <2>3. \A j \in 1..(n - 1) : T[j] = U[j]
    <3>1. ASSUME NEW j \in 1..(n - 1) PROVE j \notin B /\ j \in 1..k
      <4>1. ~(n <= j) /\ j \in 1..k
        BY <2>2
      <4> HIDE DEF B
      <4> QED
        BY <2>1, <4>1
    <3> QED
      BY <3>1
  <2> HIDE DEF B
  <2>4. TreeAt(h, T, n) = TreeAt(g, U, n)
    <3>1. h[n] = g[n] /\ Range(h[n].kids) \subseteq 1..(n - 1)
      BY <2>2
    <3> QED
      BY <2>2, <2>3, <3>1, TreeAtSame
  <2>5. T[n] = TreeAt(h, T, n) /\ U[n] = TreeAt(g, U, n)
    BY <2>2, BuildsAt
  <2> QED
    BY <2>2, <2>4, <2>5
<1> QED
  BY <1>1

\* TreeOf is what its definition says.
LEMMA TreeOfIs ==
  ASSUME OwnsOlder(heap), Len(heap) \in Nat
  PROVE  Builds(heap, TreeOf, Len(heap))
<1> DEFINE Is(T) == T = [n \in NodeIds |-> Tree(heap[n].kind, heap[n].at,
                                               [i \in DOMAIN heap[n].kids |-> T[heap[n].kids[i]]])]
<1>1. TreeOf = CHOOSE T : Is(T)
  BY Zenon DEF TreeOf
<1>2. \A T : Is(T) <=> Builds(heap, T, Len(heap))
  BY Zenon DEF Builds, TreeAt, NodeIds
<1>3. \E T : Is(T)
  <2> HIDE DEF Is
  <2> QED
    BY <1>2, BuildsExist
<1> HIDE DEF Is
<1> QED
  BY <1>1, <1>2, <1>3

LEMMA TreeOfPrime ==
  ASSUME OwnsOlder(heap)', Len(heap') \in Nat
  PROVE  Builds(heap, TreeOf, Len(heap))'
<1> DEFINE Is(T) == T = [n \in 1..Len(heap') |->
                           Tree(heap'[n].kind, heap'[n].at,
                                [i \in DOMAIN heap'[n].kids |-> T[heap'[n].kids[i]]])]
<1>1. TreeOf' = CHOOSE T : Is(T)
  BY Zenon DEF TreeOf, NodeIds
<1>2. \A T : Is(T) <=> Builds(heap', T, Len(heap'))
  BY Zenon DEF Builds, TreeAt
<1>3. \E T : Is(T)
  <2> HIDE DEF Is
  <2>1. OwnsOlder(heap')
    BY DEF OwnsOlder
  <2> QED
    BY <1>2, <2>1, BuildsExist
<1> HIDE DEF Is
<1>4. Builds(heap', TreeOf', Len(heap'))
  BY <1>1, <1>2, <1>3
<1> QED
  BY <1>4, Zenon DEF Builds, TreeAt

\* Older nodes keep their trees.
LEMMA BuildsKeep ==
  ASSUME OwnsOlder(heap), OwnsOlder(heap)', Len(heap) \in Nat, Len(heap') \in Nat, Len(heap) <= Len(heap'),
         \A n \in 1..Len(heap) : heap'[n] = heap[n]
  PROVE  \A n \in NodeIds : TreeOf'[n] = TreeOf[n]
<1>1. Builds(heap, TreeOf, Len(heap))
  BY TreeOfIs
<1>2. Builds(heap', TreeOf', Len(heap'))
  <2>1. Builds(heap, TreeOf, Len(heap))'
    BY TreeOfPrime
  <2> QED
    BY <2>1, Zenon DEF Builds, TreeAt
<1>3. \A n \in 1..Len(heap) : Range(heap[n].kids) \subseteq 1..(n - 1)
  BY DEF OwnsOlder
<1> DEFINE T == TreeOf
           U == TreeOf'
           h == heap
           g == heap'
<1>4. Builds(h, T, Len(h)) /\ Builds(g, U, Len(g)) /\ \A n \in 1..Len(h) : h[n] = g[n]
  BY <1>1, <1>2
<1>5. \A n \in 1..Len(h) : U[n] = T[n]
  <2>1. Len(h) \in Nat /\ Len(g) \in Nat /\ Len(h) <= Len(g)
        /\ \A n \in 1..Len(h) : Range(h[n].kids) \subseteq 1..(n - 1)
    BY <1>3
  <2> HIDE DEF T, U, h, g
  <2> DEFINE k == Len(h)
             l == Len(g)
  <2>2. /\ k \in Nat /\ l \in Nat /\ k <= l /\ \A n \in 1..k : h[n] = g[n]
        /\ Builds(h, T, k) /\ Builds(g, U, l)
        /\ \A n \in 1..k : Range(h[n].kids) \subseteq 1..(n - 1)
    BY <1>4, <2>1
  <2> HIDE DEF k, l
  <2>3. Grows(h, g, k, l)
    BY <2>2, Zenon DEF Grows
  <2>4. \A n \in 1..k : U[n] = T[n]
    BY <2>2, <2>3, BuildsOnce
  <2> QED
    BY <2>4 DEF k
<1> QED
  BY <1>5 DEF NodeIds

---------------------------------------------------------------------------
(* The calls when a step is made.                                          *)

\* What the steps that make a node have in common.
Keep == \A n \in NodeIds : TreeOf'[n] = TreeOf[n]

\* A new node has a tree, and the others keep theirs.
LEMMA TreeMade ==
  ASSUME TypeOK, OwnsOlder(heap), NEW kind, NEW at, NEW k \in Seq(NodeIds),
         heap' = Append(heap, Node(kind, at, k))
  PROVE  /\ Keep /\ NodeIds \subseteq NodeIds' /\ Fresh \in NodeIds'
         /\ TreeOf'[Fresh] = Tree(kind, at, [i \in 1..Len(k) |-> TreeOf[k[i]]])
<1>1. /\ Len(heap) \in Nat /\ Len(heap') = Len(heap) + 1
      /\ heap'[Len(heap) + 1].kids = k
      /\ \A i \in 1..Len(heap) : heap'[i] = heap[i]
      /\ NodeIds' = 1..(Len(heap) + 1)
      /\ OwnsOlder(heap)'
  BY MadeLemma DEF TypeOK
<1> DEFINE f == Len(heap) + 1
<1>2. heap'[f] = Node(kind, at, k)
  <2>1. heap \in Seq(NodeRecord)
    BY DEF TypeOK
  <2> QED
    BY <2>1, HeapMade
<1>3. Keep
  BY <1>1, BuildsKeep DEF Keep
<1>4. Builds(heap', TreeOf', f)
  <2>1. Builds(heap, TreeOf, Len(heap))'
    BY <1>1, TreeOfPrime
  <2> QED
    BY <1>1, <2>1
<1>5. f \in 1..f /\ f = Fresh
  BY <1>1 DEF Fresh
<1> DEFINE U == TreeOf'
           g == heap'
<1>6. U[f] = TreeAt(g, U, f)
  <2>1. Builds(g, U, f)
    BY <1>4
  <2> HIDE DEF U, g, f
  <2> QED
    BY <1>5, <2>1, BuildsAt
<1>7. TreeAt(g, U, f) = Tree(kind, at, [i \in DOMAIN k |-> U[k[i]]])
  <2>1. g[f].kind = kind /\ g[f].at = at /\ g[f].kids = k
    BY <1>2 DEF Node
  <2> HIDE DEF U, g, f
  <2> QED
    BY <2>1, Zenon DEF TreeAt
<1>8. DOMAIN k = 1..Len(k) /\ \A i \in 1..Len(k) : k[i] \in NodeIds
  BY ElementOfSeq, LenProperties
<1>9. [i \in DOMAIN k |-> U[k[i]]] = [i \in 1..Len(k) |-> TreeOf[k[i]]]
  BY <1>3, <1>8 DEF Keep
<1>10. NodeIds \subseteq NodeIds'
  BY <1>1 DEF NodeIds
<1> QED
  BY <1>1, <1>3, <1>5, <1>6, <1>7, <1>9, <1>10

\* A node of no, of one and of two nodes.
LEMMA TreeOfNone ==
  ASSUME TypeOK, OwnsOlder(heap), NEW kind, NEW at, heap' = Append(heap, Node(kind, at, <<>>))
  PROVE  Keep /\ TreeOf'[Fresh] = Tree(kind, at, <<>>)
<1> DEFINE k == <<>>
           F == [i \in 1..Len(k) |-> TreeOf[k[i]]]
<1>1. k \in Seq(NodeIds)
  OBVIOUS
<1>2. F = <<>>
  <2>1. F \in Seq({}) /\ Len(F) = 0
    OBVIOUS
  <2> HIDE DEF F
  <2> QED
    BY <2>1, EmptySeq
<1>3. Keep /\ TreeOf'[Fresh] = Tree(kind, at, F)
  BY <1>1, TreeMade
<1> QED
  BY <1>2, <1>3, Zenon

LEMMA TreeOfOne ==
  ASSUME TypeOK, OwnsOlder(heap), NEW kind, NEW at, NEW a \in NodeIds,
         heap' = Append(heap, Node(kind, at, <<a>>))
  PROVE  Keep /\ TreeOf'[Fresh] = Tree(kind, at, <<TreeOf[a]>>)
<1> DEFINE k == <<a>>
           F == [i \in 1..Len(k) |-> TreeOf[k[i]]]
           G == <<TreeOf[a]>>
<1>1. k \in Seq(NodeIds)
  OBVIOUS
<1>2. F = G
  OBVIOUS
<1>3. Keep /\ TreeOf'[Fresh] = Tree(kind, at, F)
  BY <1>1, TreeMade
<1> QED
  BY <1>2, <1>3, Zenon

LEMMA TreeOfTwo ==
  ASSUME TypeOK, OwnsOlder(heap), NEW kind, NEW at, NEW a \in NodeIds, NEW b \in NodeIds,
         heap' = Append(heap, Node(kind, at, <<a, b>>))
  PROVE  Keep /\ TreeOf'[Fresh] = Tree(kind, at, <<TreeOf[a], TreeOf[b]>>)
<1> DEFINE k == <<a, b>>
           F == [i \in 1..Len(k) |-> TreeOf[k[i]]]
           G == <<TreeOf[a], TreeOf[b]>>
<1>1. k \in Seq(NodeIds)
  OBVIOUS
<1>2. F = G
  OBVIOUS
<1>3. Keep /\ TreeOf'[Fresh] = Tree(kind, at, F)
  BY <1>1, TreeMade
<1> QED
  BY <1>2, <1>3, Zenon

LEMMA KeepSame == ASSUME heap' = heap PROVE Keep
<1>1. TreeOf' = TreeOf
  BY DEF TreeOf, NodeIds
<1> QED
  BY <1>1 DEF Keep

---------------------------------------------------------------------------
(* What a step needs of the invariant.                                     *)

\* Where a call may begin.
Begins(s, from) == from \in 1..Len(s) + 1 /\ (from = 1 \/ s[from - 1] \in Opening \cup {Comma})

LEMMA GatheredAgree ==
  ASSUME NEW s, NEW r, Agree(s, r, Len(s)), NEW T, NEW U, NEW h, Len(h) \in Nat, Keeps(T, U, h), NEW mm,
         mm.open \in 1..Len(s), mm.from \in mm.open + 1..Len(s) + 1, Gathered(s, T, h, mm)
  PROVE  Gathered(r, U, h, mm)
<1> DEFINE lo == mm.open + 1
           hi == mm.from - 2
           x == mm.from - 1
<1>1. mm.from > mm.open + 2 /\ mm.open \in Nat /\ mm.from \in Nat
  <2>1. mm.from > mm.open + 2
    BY DEF Gathered
  <2>2. Len(s) \in Nat
    BY AgreeIs
  <2> QED
    BY <2>1, <2>2
<1>2. lo \in 1..Len(s) + 1 /\ hi \in 0..Len(s) /\ x \in 1..Len(s)
  <2> DEFINE o == mm.open
             f == mm.from
             n == Len(s)
  <2>1. n \in Nat /\ o \in 1..n /\ f \in o + 1..n + 1 /\ f > o + 2
    BY <1>1, AgreeIs
  <2> HIDE DEF o, f, n
  <2>2. o + 1 \in 1..n + 1 /\ f - 2 \in 0..n /\ f - 1 \in 1..n
    BY <2>1
  <2> QED
    BY <2>2 DEF o, f, n
<1>3. /\ s[x] = Comma
      /\ Reading(s)[<<lo, hi>>].kind # "none"
      /\ Elements(Reading(s)[<<lo, hi>>]) = [i \in 1..Len(h) |-> T[h[i]]]
  BY Zenon DEF Gathered, lo, hi, x
<1> HIDE DEF lo, hi, x
<1>4. Reading(s)[<<lo, hi>>] = Reading(r)[<<lo, hi>>]
  BY <1>2, ReadingAgrees
<1>5. r[x] = s[x]
  BY <1>2, AgreeIs
<1>6. [i \in 1..Len(h) |-> T[h[i]]] = [i \in 1..Len(h) |-> U[h[i]]]
  BY DEF Keeps
<1>7. /\ r[x] = Comma
      /\ Reading(r)[<<lo, hi>>].kind # "none"
      /\ Elements(Reading(r)[<<lo, hi>>]) = [i \in 1..Len(h) |-> U[h[i]]]
  BY <1>3, <1>4, <1>5, <1>6, Zenon
<1> QED
  BY <1>1, <1>7, Zenon DEF Gathered, lo, hi, x

\* What Suspended says.
LEMMA SuspendedIs ==
  ASSUME NEW s, NEW T, NEW c, NEW m, NEW mm
  PROVE  Suspended(s, T, c, m, mm) <=>
           /\ Opened(s, c, mm) /\ AtBracket(s, T, c, m, mm) /\ AtRotate(s, T, c, m, mm)
           /\ AtIndex(s, T, c, m, mm) /\ InElement(s, T, c, mm)
BY Zenon DEF Suspended

LEMMA SuspendedAgree ==
  ASSUME NEW s, NEW r, Agree(s, r, Len(s)), NEW T, NEW U, NEW N, \A n \in N : U[n] = T[n],
         NEW c, c.operands \in Seq(N), c.held \in Seq(N), NEW m, NEW mm, Suspended(s, T, c, m, mm)
  PROVE  Suspended(r, U, c, m, mm)
<1>1. Keeps(T, U, c.operands) /\ Keeps(T, U, c.held) /\ Len(c.held) \in Nat
  BY ElementOfSeq, LenProperties DEF Keeps
<1>0. /\ Opened(s, c, mm) /\ AtBracket(s, T, c, m, mm) /\ AtRotate(s, T, c, m, mm)
      /\ AtIndex(s, T, c, m, mm) /\ InElement(s, T, c, mm)
  BY SuspendedIs
<1>2. Opened(r, c, mm) /\ mm.open \in 1..Len(s) /\ mm.from \in mm.open + 1..Len(s) + 1
  <2>1. mm.open \in 1..Len(s) /\ mm.from \in mm.open + 1..Len(s) + 1
    BY <1>0 DEF Opened
  <2>2. s[mm.open] = r[mm.open] /\ mm.open \in 1..Len(r) /\ mm.from \in mm.open + 1..Len(r) + 1
    BY <2>1, AgreeIs
  <2> QED
    BY <1>0, <2>1, <2>2, Zenon DEF Opened
<1>3. AtBracket(r, U, c, m, mm)
  BY <1>0, <1>1, WaitsAgree, Zenon DEF AtBracket
<1>4. AtRotate(r, U, c, m, mm)
  <2> SUFFICES ASSUME c.why = "rotate"
               PROVE  /\ mm.open > 1 /\ r[mm.open - 1] = "rotate"
                      /\ Waits(r, U, c.operands, c.operators, m.from, mm.open - 1)
    BY Zenon DEF AtRotate
  <2> DEFINE x == mm.open - 1
  <2>1. mm.open > 1 /\ s[x] = "rotate" /\ Waits(s, T, c.operands, c.operators, m.from, x)
    BY <1>0, Zenon DEF AtRotate
  <2>2. x \in 1..Len(s)
    BY <1>2, <2>1, AgreeIs
  <2> HIDE DEF x
  <2>3. r[x] = "rotate"
    BY <2>1, <2>2, AgreeIs
  <2>4. Waits(r, U, c.operands, c.operators, m.from, x)
    BY <1>1, <2>1, WaitsAgree
  <2> QED
    BY <2>1, <2>3, <2>4 DEF x
<1>5. AtIndex(r, U, c, m, mm)
  <2> SUFFICES ASSUME c.why = "["
               PROVE  \E x \in 1..mm.open - 1 :
                        /\ Waits(r, U, c.operands, c.operators, m.from, x)
                        /\ TargetAt(r, U, c.held, x, mm.open - 1)
    BY Zenon DEF AtIndex
  <2>1. PICK x \in 1..mm.open - 1 : /\ Waits(s, T, c.operands, c.operators, m.from, x)
                                    /\ TargetAt(s, T, c.held, x, mm.open - 1)
    BY <1>0, Zenon DEF AtIndex
  <2> DEFINE e == mm.open - 1
  <2>2. TargetAt(s, T, c.held, x, e) /\ c.held # <<>>
    BY <2>1, Zenon DEF TargetAt
  <2> HIDE DEF e
  <2>3. Len(c.held) > 0
    BY <1>1, <2>2, EmptySeq
  <2>4. TargetAt(r, U, c.held, x, e)
    BY <1>1, <2>2, <2>3, TargetAgree
  <2>5. Waits(r, U, c.operands, c.operators, m.from, x)
    BY <1>1, <2>1, WaitsAgree
  <2> QED
    BY <2>4, <2>5, Zenon DEF e
<1>6. InElement(r, U, c, mm)
  <2>1. ASSUME Gathered(s, T, c.held, mm) PROVE Gathered(r, U, c.held, mm)
    BY <1>1, <1>2, <2>1, GatheredAgree
  <2> QED
    BY <1>0, <2>1, Zenon DEF InElement
<1> QED
  BY <1>2, <1>3, <1>4, <1>5, <1>6, SuspendedIs

---------------------------------------------------------------------------
(* What may stand next to what.                                            *)

\* The tokens that the SMT backend does not take as strings.
LEMMA OddTokens ==
  /\ \A x \in {Comma, OpenBrace, CloseBrace} :
       /\ x \notin Binary /\ x \notin Unary /\ x \notin PostFix /\ x \notin Literals
       /\ x # "id" /\ x # "(" /\ x # ")" /\ x # "[" /\ x # "]" /\ x # "rotate" /\ x # "-"
  /\ Comma # OpenBrace /\ Comma # CloseBrace /\ OpenBrace # CloseBrace
<1>1. \A x \in {Comma, OpenBrace, CloseBrace} : x \notin Binary
  BY Zenon DEF Binary, Comma, OpenBrace, CloseBrace
<1>2. \A x \in {Comma, OpenBrace, CloseBrace} :
       /\ x \notin Unary /\ x \notin PostFix /\ x \notin Literals
       /\ x # "id" /\ x # "(" /\ x # ")" /\ x # "[" /\ x # "]" /\ x # "rotate" /\ x # "-"
  BY Zenon DEF Unary, PostFix, Literals, Comma, OpenBrace, CloseBrace
<1>3. Comma # OpenBrace /\ Comma # CloseBrace /\ OpenBrace # CloseBrace
  BY Zenon DEF Comma, OpenBrace, CloseBrace
<1> QED
  BY <1>1, <1>2, <1>3

LEMMA Classes ==
  /\ Opening = {"(", "[", OpenBrace} /\ Closing = {")", "]", CloseBrace}
  /\ \A t : EndsOperand(t) <=> t \in Literals \cup {"id", ")", "]", CloseBrace}
  /\ Plain = Literals \cup {"id", "(", OpenBrace, "rotate"}
  /\ \A a, b : Follows(a, b) <=>
       \/ EndsOperand(a) /\ (b \in Binary \/ b \in Closing \/ b = Comma)
       \/ a \in {"id", "]"} /\ b = "["
       \/ a \in Operators /\ b \in Plain
       \/ (a \in Opening \/ a = Comma) /\ b \in Starting
       \/ a = "rotate" /\ b = "("
<1>1. Opening = {"(", "[", OpenBrace} /\ Closing = {")", "]", CloseBrace}
  BY Zenon DEF Opening, Closing, OpenBrace, CloseBrace
<1>2. \A t : EndsOperand(t) <=> t \in Literals \cup {"id", ")", "]", CloseBrace}
  BY Zenon DEF EndsOperand, CloseBrace
<1>3. Plain = Literals \cup {"id", "(", OpenBrace, "rotate"}
  BY Zenon DEF Plain, OpenBrace
<1>4. ASSUME NEW a, NEW b
      PROVE  Follows(a, b) <=>
               \/ EndsOperand(a) /\ (b \in Binary \/ b \in Closing \/ b = Comma)
               \/ a \in {"id", "]"} /\ b = "["
               \/ a \in Operators /\ b \in Plain
               \/ (a \in Opening \/ a = Comma) /\ b \in Starting
               \/ a = "rotate" /\ b = "("
  BY Zenon DEF Follows, Comma
<1> QED
  BY <1>1, <1>2, <1>3, <1>4

\* What stands in front of a token.
LEMMA BeforePlain == \A a, b : Follows(a, b) /\ b \in Plain => ~EndsOperand(a)
<1>1. \A b \in Plain : b \notin Binary /\ b \notin Closing /\ b # Comma /\ b # "["
  BY Classes, OddTokens DEF Literals, Binary
<1>2. \A a : a \in Operators \/ a \in Opening \/ a = Comma \/ a = "rotate" => ~EndsOperand(a)
  BY Classes, OddTokens DEF Literals, Binary, Unary, Operators
<1> QED
  BY <1>1, <1>2, Classes

LEMMA BeforeUnary == \A a, b : Follows(a, b) /\ b \in Unary => a \in Opening \cup {Comma}
<1>1. \A b \in Unary : b \notin Binary /\ b \notin Closing /\ b # Comma /\ b # "[" /\ b \notin Plain
                       /\ b # "("
  BY Classes, OddTokens DEF Literals, Unary, Binary
<1> QED
  BY <1>1, Classes

LEMMA BinaryStarts == \A b \in Binary : /\ b # "[" /\ b # "(" /\ b \notin Plain
                                        /\ b \in Starting => b = "-"
BY Classes, OddTokens DEF Literals, Unary, Binary, Starting

LEMMA BeforeBinary ==
  \A a, b : Follows(a, b) /\ b \in Binary => EndsOperand(a) \/ (a \in Opening \cup {Comma} /\ b = "-")
BY BinaryStarts, Classes

LEMMA BeforeClosing ==
  \A a, b : Follows(a, b) /\ (b \in Closing \/ b = Comma) => EndsOperand(a)
<1>1. \A b : b \in Closing \/ b = Comma => b \notin Plain /\ b \notin Starting /\ b # "(" /\ b # "["
  BY Classes, OddTokens DEF Literals, Unary, Starting
<1> QED
  BY <1>1, Classes

LEMMA NeverPostFix == \A b \in PostFix : b \notin Starting /\ \A a : ~Follows(a, b)
<1>1. \A b \in PostFix : b \notin Starting /\ b \notin Plain /\ b \notin Binary /\ b \notin Closing
                         /\ b # Comma /\ b # "(" /\ b # "["
  BY Classes, OddTokens DEF Literals, Unary, Binary, PostFix, Starting
<1> QED
  BY <1>1, Classes

LEMMA NotStarting == \A b : b \in Closing \/ b = Comma \/ b = "[" => b \notin Starting
BY Classes, OddTokens DEF Literals, Unary, Starting

LEMMA NoOperand ==
  /\ \A a \in Operators \cup Opening \cup {Comma} : ~EndsOperand(a)
  /\ \A a \in Opening \cup {Comma} : a \notin Operators
  /\ ~EndsOperand("rotate")
BY Classes, OddTokens DEF Literals, Binary, Unary, Operators

---------------------------------------------------------------------------
(* A token is read.                                                        *)

\* A token that keeps the text regular.
LEMMA AdvanceReads ==
  ASSUME TypeOK, Advance, Readable', NEW L, L = Len(consumed)
  PROVE  /\ Readable
         /\ L \in Nat /\ Len(consumed') = L + 1 /\ consumed'[L + 1] = it
         /\ Agree(consumed, consumed', Len(consumed))
         /\ L = 0 => it \in Starting
         /\ L > 0 => Follows(consumed[L], it) /\ (Sign(consumed, L) => it = "int")
<1> DEFINE s == consumed
           r == consumed'
<1>1. s \in Seq(AllTokens) /\ it \in AllTokens /\ r = Append(s, it) /\ Len(s) = L /\ L \in Nat
  BY LenProperties DEF TypeOK, Advance
<1>2. Agree(s, r, L) /\ Len(r) = L + 1 /\ r[L + 1] = it /\ r \in Seq(AllTokens)
  BY <1>1, AgreeAppend
<1>3. /\ r # <<>> => r[1] \in Starting
      /\ \A i \in 1..Len(r) - 1 : Follows(r[i], r[i + 1])
      /\ \A i \in 1..Len(r) - 1 : Sign(r, i) => r[i + 1] = "int"
  BY DEF Readable, Regular
<1> HIDE DEF s, r
<1>4. r # <<>> /\ \A i \in 1..L : s[i] = r[i]
  BY <1>1, <1>2, EmptySeq, AgreeIs
<1>5. \A i \in 1..L : Sign(s, i) => Sign(r, i)
  BY <1>1, <1>2, SignAgree
<1>6. L = 0 => it \in Starting
  BY <1>2, <1>3, <1>4
<1>7. L > 0 => Follows(s[L], it) /\ (Sign(s, L) => it = "int")
  <2> SUFFICES ASSUME L > 0 PROVE Follows(s[L], it) /\ (Sign(s, L) => it = "int")
    OBVIOUS
  <2>1. L \in 1..Len(r) - 1 /\ L \in 1..L
    BY <1>1, <1>2
  <2>2. Follows(r[L], r[L + 1]) /\ (Sign(r, L) => r[L + 1] = "int")
    BY <1>3, <2>1
  <2>3. Sign(s, L) => Sign(r, L)
    BY <1>5, <2>1
  <2>4. s[L] = r[L]
    BY <1>4, <2>1
  <2> QED
    BY <1>2, <2>2, <2>3, <2>4
<1>8. Regular(s)
  <2>1. s # <<>> => s[1] \in Starting
    <3>1. s # <<>> => 1 \in 1..L
      BY <1>1, EmptySeq
    <3> QED
      BY <1>3, <1>4, <3>1
  <2>2. ASSUME NEW i \in 1..Len(s) - 1
        PROVE  Follows(s[i], s[i + 1]) /\ (Sign(s, i) => s[i + 1] = "int")
    <3>1. i \in 1..Len(r) - 1 /\ i \in 1..L /\ i + 1 \in 1..L
      BY <1>1, <1>2
    <3>2. s[i] = r[i] /\ s[i + 1] = r[i + 1]
      BY <1>4, <3>1
    <3>3. Sign(s, i) => Sign(r, i)
      BY <1>5, <3>1
    <3>4. Follows(r[i], r[i + 1]) /\ (Sign(r, i) => r[i + 1] = "int")
      BY <1>3, <3>1
    <3> QED
      BY <3>2, <3>3, <3>4
  <2> QED
    BY <2>1, <2>2, Zenon DEF Regular
<1>9. it \notin PostFix
  BY <1>1, <1>6, <1>7, NeverPostFix
<1> QED
  BY <1>1, <1>2, <1>6, <1>7, <1>8, <1>9 DEF Readable, s, r

---------------------------------------------------------------------------
(* Where the active call is in the text.                                   *)

LEMMA FromIs ==
  ASSUME NEW s, Len(s) \in Nat, NEW T, NEW c, NEW m, NEW mm, Suspended(s, T, c, m, mm),
         c.why \in {"(", "[", OpenBrace, "rotate"}
  PROVE  Begins(s, mm.from)
<1>1. /\ mm.open \in 1..Len(s) /\ mm.from \in mm.open + 1..Len(s) + 1
      /\ s[mm.open] = IF c.why = "rotate" THEN "(" ELSE c.why
  BY Zenon DEF Suspended, Opened
<1>2. InElement(s, T, c, mm)
  BY DEF Suspended
<1>3. s[mm.open] \in Opening
  BY <1>1, Classes
<1>4. mm.from = mm.open + 1 \/ s[mm.from - 1] = Comma
  BY <1>2, Zenon DEF InElement, Gathered
<1>5. mm.from \in 1..Len(s) + 1 /\ (mm.from = mm.open + 1 => mm.from - 1 = mm.open)
  BY <1>1
<1> QED
  BY <1>3, <1>4, <1>5 DEF Begins

LEMMA AwaitsIs ==
  ASSUME NEW S, NEW s, NEW L, Len(s) = L, L \in Nat, NEW T, NEW args \in Seq(S), NEW ops, Len(ops) \in Nat,
         ops # <<>> => Len(ops) > 0,
         NEW from, Begins(s, from), Awaits(s, T, args, ops, from)
  PROVE  \/ /\ args = <<>> /\ ops = <<>> /\ from = L + 1
            /\ L > 0 => s[L] \in Opening \cup {Comma}
         \/ L > 0 /\ ops # <<>> /\ s[L] \in Operators
<1> DEFINE n == L + 1
           k == Len(ops) + 1
<1>1. n = First(ops, from, k) /\ (Between(s, T, args, ops, from, n) \/ Prefixed(s, args, ops, from))
  BY WaitsIs, Zenon DEF Awaits
<1>2. CASE ops = <<>>
  <2>1. Len(ops) = 0
    BY <1>2
  <2>2. k = 1
    BY <2>1
  <2>3. from = n
    BY <1>1, <2>2 DEF First
  <2>4. Len(args) = 0
    BY <1>1, <2>1, Zenon DEF Between, Prefixed
  <2>5. args = <<>>
    BY <2>4, EmptySeq
  <2>6. L > 0 => s[L] \in Opening \cup {Comma}
    <3>1. L > 0 => from # 1 /\ from - 1 = L
      BY <2>3
    <3> QED
      BY <3>1 DEF Begins
  <2> QED
    BY <1>2, <2>3, <2>5, <2>6
<1>3. CASE ops # <<>>
  <2>1. k # 1 /\ k - 1 = Len(ops) /\ Len(ops) \in 1..Len(ops)
    BY <1>3
  <2>2. n = ops[k - 1].at + 1
    BY <1>1, <2>1 DEF First
  <2> DEFINE o == ops[Len(ops)]
  <2>3. n = o.at + 1
    BY <2>1, <2>2
  <2>4. o.at \in 1..L /\ s[o.at] = o.op /\ o.op \in Operators
    <3>1. CASE Between(s, T, args, ops, from, n)
      <4>1. Stands(s, o)
        BY <2>1, <3>1, Zenon DEF Between, Pieces
      <4> HIDE DEF o
      <4> QED
        BY <4>1, BinaryIs DEF Stands
    <3>2. CASE Prefixed(s, args, ops, from)
      <4>1. o = ops[1]
        BY <3>2, Zenon DEF Prefixed
      <4>2. o.at = from /\ from \in 1..L /\ s[from] = o.op /\ o.op \in Unary \cup {"-"}
        BY <3>2, <4>1, Zenon DEF Prefixed
      <4> HIDE DEF o
      <4> QED
        BY <4>2, UnaryIs, BinaryIs
    <3> QED
      BY <1>1, <3>1, <3>2
  <2> HIDE DEF o
  <2>5. o.at = L /\ L > 0
    BY <2>3, <2>4
  <2> QED
    BY <1>3, <2>4, <2>5
<1> QED
  BY <1>2, <1>3

LEMMA HasAfter ==
  ASSUME NEW s, Len(s) \in Nat, NEW T, NEW args, NEW ops, Len(ops) \in Nat, NEW from, NEW e,
         Has(s, T, args, ops, from, e)
  PROVE  e \in 1..Len(s) /\ EndsOperand(s[e])
<1> DEFINE n == Len(ops) + 1
<1>1. n \in 1..Len(args) /\ ~(n <= Len(ops))
  BY DEF Has
<1>2. Final(ops, n, e) = e
  BY <1>1, Zenon DEF Final
<1> HIDE DEF n
<1>3. Reads(s, T[args[n]], First(ops, from, n), e)
  BY <1>1, <1>2, Zenon DEF Has, Pieces
<1>4. WellFormed(s, First(ops, from, n), e)
  BY <1>3, ReadsIs
<1>5. e \in 1..Len(s)
  BY <1>4, FormRange
<1> QED
  BY <1>4, <1>5 DEF WellFormed

\* What an operand that is awaited and then read makes of the call.
LEMMA OperandRead ==
  ASSUME NEW S, NEW s, NEW T, NEW args \in Seq(S), NEW ops, Len(ops) \in Nat, NEW from, NEW x,
         Waits(s, T, args, ops, from, x), ~(Len(ops) = 1 /\ args = <<>> /\ ops[1].op = "-"),
         NEW m \in S, NEW e, e = Len(s), Atom(s, T[m], x, e)
  PROVE  \/ HasRead(s, T, Append(args, m), ops, from)
         \/ ReadBehind(s, T, Append(args, m), ops, from)
<1>1. /\ x = First(ops, from, Len(ops) + 1)
      /\ Between(s, T, args, ops, from, x) \/ Prefixed(s, args, ops, from)
  BY WaitsIs
<1>2. CASE Between(s, T, args, ops, from, x)
  <2>1. Has(s, T, Append(args, m), ops, from, e) /\ LastOps(s, ops, from, e) = {}
    BY <1>1, <1>2, HasPush
  <2> QED
    BY <2>1, Zenon DEF HasRead
<1>3. CASE Prefixed(s, args, ops, from)
  <2>1. /\ args = <<>> /\ Len(ops) = 1 /\ ops[1].at = from /\ ops[1].op \in Unary \cup {"-"}
        /\ s[from] = ops[1].op /\ ops[1].op # "-"
    BY <1>3, Zenon DEF Prefixed
  <2>2. Append(args, m) = <<m>>
    BY <2>1
  <2>3. Len(<<m>>) = 1 /\ <<m>>[1] = m
    OBVIOUS
  <2>4. x = from + 1
    BY <1>1, <2>1 DEF First
  <2>5. ops[1].op \in Unary
    BY <2>1
  <2> QED
    BY <2>1, <2>2, <2>3, <2>4, <2>5 DEF ReadBehind
<1> QED
  BY <1>1, <1>2, <1>3

\* An operand other than a literal is not behind a sign.
LEMMA NoSign ==
  ASSUME NEW s, Len(s) \in Nat, Regular(s), NEW T, NEW args, NEW ops, Len(ops) \in Nat, NEW from, NEW x,
         Waits(s, T, args, ops, from, x), x \in 1..Len(s), s[x] # "int"
  PROVE  ~(Len(ops) = 1 /\ args = <<>> /\ ops[1].op = "-")
<1> SUFFICES ASSUME Len(ops) = 1, args = <<>>, ops[1].op = "-" PROVE FALSE
  OBVIOUS
<1>1. /\ x = First(ops, from, Len(ops) + 1)
      /\ Between(s, T, args, ops, from, x) \/ Prefixed(s, args, ops, from)
  BY WaitsIs
<1>2. ~Between(s, T, args, ops, from, x)
  <2>1. Len(args) # Len(ops)
    OBVIOUS
  <2> QED
    BY <2>1, Zenon DEF Between
<1>3. from \in 1..Len(s) /\ Sign(s, from) /\ ops[1].at = from
  BY <1>1, <1>2, Zenon DEF Prefixed
<1>4. x = from + 1
  BY <1>1, <1>3 DEF First
<1>5. from \in 1..Len(s) - 1
  BY <1>3, <1>4
<1>6. s[from + 1] = "int"
  BY <1>3, <1>5 DEF Regular
<1> QED
  BY <1>4, <1>6

---------------------------------------------------------------------------
(* The active call after a step.                                           *)

\* What Active says in each place.
LEMMA ActiveIs ==
  ASSUME NEW s, NEW T, NEW args, NEW ops, NEW h, NEW from
  PROVE  /\ \A p \in {"loop", "apply_last"} :
              Active(s, T, args, ops, h, p, from) <=>
                Awaits(s, T, args, ops, from) \/ HasRead(s, T, args, ops, from)
         /\ Active(s, T, args, ops, h, "apply", from) <=>
              \/ Awaits(s, T, args, ops, from) \/ HasRead(s, T, args, ops, from)
              \/ ReadBehind(s, T, args, ops, from)
         /\ Active(s, T, args, ops, h, "reduce", from) <=> Reducing(s, T, args, ops, from)
         /\ Active(s, T, args, ops, h, "cleanup", from) <=>
              (Len(s) > 0 /\ EndsOperand(s[Len(s)]) => Has(s, T, args, ops, from, Len(s)))
         /\ Active(s, T, args, ops, h, "return", from) <=>
              /\ Len(s) > 0 /\ EndsOperand(s[Len(s)]) => Has(s, T, args, ops, from, Len(s))
              /\ ops = <<>> /\ Len(args) = 1
         /\ Active(s, T, args, ops, h, "target", from) <=>
              \E x \in 1..Len(s) : Waits(s, T, args, ops, from, x) /\ TargetAt(s, T, h, x, Len(s))
         /\ Active(s, T, args, ops, h, "rotate", from) <=>
              Len(s) > 0 /\ s[Len(s)] = "rotate" /\ Waits(s, T, args, ops, from, Len(s))
<1>1. ASSUME NEW p \in {"loop", "apply_last"}
      PROVE  Active(s, T, args, ops, h, p, from) <=>
                Awaits(s, T, args, ops, from) \/ HasRead(s, T, args, ops, from)
  <2>1. /\ p \in {"loop", "apply", "apply_last"} /\ p # "apply" /\ p # "reduce" /\ p # "cleanup"
        /\ p # "return" /\ p # "target" /\ p # "rotate" /\ p \notin {"cleanup", "return"}
    OBVIOUS
  <2> QED
    BY <2>1, Zenon DEF Active
<1>2. Active(s, T, args, ops, h, "apply", from) <=>
        \/ Awaits(s, T, args, ops, from) \/ HasRead(s, T, args, ops, from)
        \/ ReadBehind(s, T, args, ops, from)
  BY Zenon DEF Active
<1>3. Active(s, T, args, ops, h, "reduce", from) <=> Reducing(s, T, args, ops, from)
  BY Zenon DEF Active
<1>4. Active(s, T, args, ops, h, "cleanup", from) <=>
        (Len(s) > 0 /\ EndsOperand(s[Len(s)]) => Has(s, T, args, ops, from, Len(s)))
  BY Zenon DEF Active
<1>5. Active(s, T, args, ops, h, "return", from) <=>
        /\ Len(s) > 0 /\ EndsOperand(s[Len(s)]) => Has(s, T, args, ops, from, Len(s))
        /\ ops = <<>> /\ Len(args) = 1
  BY Zenon DEF Active
<1>6. Active(s, T, args, ops, h, "target", from) <=>
        \E x \in 1..Len(s) : Waits(s, T, args, ops, from, x) /\ TargetAt(s, T, h, x, Len(s))
  BY Zenon DEF Active
<1>7. Active(s, T, args, ops, h, "rotate", from) <=>
        Len(s) > 0 /\ s[Len(s)] = "rotate" /\ Waits(s, T, args, ops, from, Len(s))
  BY Zenon DEF Active
<1> QED
  BY <1>1, <1>2, <1>3, <1>4, <1>5, <1>6, <1>7

\* The operators of the last operand are operators.
LEMMA LastOpsBinary ==
  ASSUME NEW s, Len(s) \in Nat, NEW T, NEW args, NEW ops, Len(ops) \in Nat, NEW from, NEW e,
         Has(s, T, args, ops, from, e)
  PROVE  \A q \in LastOps(s, ops, from, e) : s[q] \in Binary
<1> DEFINE n == Len(ops) + 1
           lo == First(ops, from, n)
<1>1. n \in 1..Len(args) /\ ~(n <= Len(ops))
  BY DEF Has
<1>2. Final(ops, n, e) = e
  BY <1>1, Zenon DEF Final
<1>3. LastOps(s, ops, from, e) = BinaryAt(s, lo, e)
  BY DEF LastOps
<1> HIDE DEF n
<1>4. Reads(s, T[args[n]], lo, e)
  BY <1>1, <1>2, Zenon DEF Has, Pieces
<1> HIDE DEF lo
<1>5. lo \in 1..Len(s) /\ e \in lo..Len(s)
  BY <1>4 DEF Reads
<1>6. lo \in Nat /\ e \in Nat /\ lo > 0
  BY <1>5
<1> QED
  BY <1>3, <1>6, OutsideIs

\* r is s and the token t, where t may follow.
Extends(s, r, t) ==
  /\ Agree(s, r, Len(s)) /\ Len(r) = Len(s) + 1 /\ r[Len(s) + 1] = t
  /\ Len(s) = 0 => t \in Starting
  /\ Len(s) > 0 => Follows(s[Len(s)], t) /\ (Sign(s, Len(s)) => t = "int")

\* What Extends and Stacks say.
LEMMA ExtendsIs ==
  ASSUME NEW s, NEW r, NEW t, Extends(s, r, t)
  PROVE  /\ Agree(s, r, Len(s)) /\ Len(s) \in Nat /\ Len(r) = Len(s) + 1 /\ r[Len(s) + 1] = t
         /\ Len(s) = 0 => t \in Starting
         /\ Len(s) > 0 => /\ r[Len(s)] = s[Len(s)] /\ Follows(s[Len(s)], t)
                          /\ Sign(s, Len(s)) => t = "int"
<1>1. Agree(s, r, Len(s)) /\ Len(r) = Len(s) + 1 /\ r[Len(s) + 1] = t
  BY DEF Extends
<1>2. Len(s) \in Nat
  BY <1>1, AgreeIs
<1>3. Len(s) > 0 => r[Len(s)] = s[Len(s)]
  <2>1. Len(s) > 0 => Len(s) \in 1..Len(s)
    BY <1>2
  <2> QED
    BY <1>1, <2>1, AgreeIs
<1> QED
  BY <1>1, <1>2, <1>3 DEF Extends

\* The stacks of the call, and where it began.
Stacks(S, s, args, ops, from) ==
  args \in Seq(S) /\ ops \in Seq(OperatorEntry) /\ Begins(s, from)

LEMMA StacksAre ==
  ASSUME NEW S, NEW s, NEW args, NEW ops, NEW from, Stacks(S, s, args, ops, from)
  PROVE  /\ args \in Seq(S) /\ ops \in Seq(OperatorEntry) /\ Len(args) \in Nat /\ Len(ops) \in Nat
         /\ ops # <<>> => Len(ops) > 0
         /\ Begins(s, from)
BY EmptySeq, LenProperties DEF Stacks

\* An operand starts where one is awaited.
LEMMA AwaitedHere ==
  ASSUME NEW S, NEW s, NEW r, NEW t, Extends(s, r, t), NEW T, NEW args, NEW ops, NEW h, NEW from,
         Stacks(S, s, args, ops, from), Active(s, T, args, ops, h, "loop", from), t \in Plain \cup Unary
  PROVE  Awaits(s, T, args, ops, from)
<1>1. Awaits(s, T, args, ops, from) \/ HasRead(s, T, args, ops, from)
  BY ActiveIs, Zenon
<1> SUFFICES ASSUME HasRead(s, T, args, ops, from) PROVE FALSE
  BY <1>1
<1> DEFINE L == Len(s)
<1>2. Has(s, T, args, ops, from, L)
  BY DEF HasRead
<1>3. L \in Nat /\ Len(ops) \in Nat
  BY ExtendsIs, StacksAre
<1>4. L \in 1..L /\ EndsOperand(s[L])
  BY <1>2, <1>3, HasAfter
<1>5. L > 0 => Follows(s[L], t)
  BY ExtendsIs
<1> HIDE DEF L
<1>6. Follows(s[L], t)
  BY <1>3, <1>4, <1>5
<1>7. CASE t \in Plain
  BY <1>4, <1>6, <1>7, BeforePlain
<1>8. CASE t \in Unary
  BY <1>4, <1>6, <1>8, BeforeUnary, NoOperand
<1> QED
  BY <1>7, <1>8

\* A binary operator is read, or a sign.
LEMMA BinaryRead ==
  ASSUME NEW S, NEW s, NEW r, NEW t, Extends(s, r, t), NEW T, NEW args, NEW ops, NEW h, NEW from,
         Stacks(S, s, args, ops, from), Active(s, T, args, ops, h, "loop", from), t \in Binary
  PROVE  Active(r, T, args, ops, h, "reduce", from)
<1> DEFINE L == Len(s)
           k == L + 1
<1>1. /\ Agree(s, r, L) /\ L \in Nat /\ Len(r) = k /\ r[k] = t
      /\ L = 0 => t \in Starting
      /\ L > 0 => r[L] = s[L] /\ Follows(s[L], t)
  BY ExtendsIs
<1>2. /\ args \in Seq(S) /\ Len(ops) \in Nat /\ (ops # <<>> => Len(ops) > 0) /\ Begins(s, from)
  BY StacksAre
<1>3. Awaits(s, T, args, ops, from) \/ HasRead(s, T, args, ops, from)
  BY ActiveIs, Zenon
<1>4. k > 0 /\ Len(r) > 0 /\ Len(r) - 1 = L /\ r[Len(r)] = t
  BY <1>1
<1>k. k # L /\ k - 1 = L /\ (k = 1 <=> L = 0)
  BY <1>1
<1> HIDE DEF k
<1>5. CASE HasRead(s, T, args, ops, from)
  <2>1. Has(s, T, args, ops, from, L) /\ LastOps(s, ops, from, L) = {}
    BY <1>5 DEF HasRead
  <2>2. Keeps(T, T, args)
    BY DEF Keeps
  <2>3. Has(r, T, args, ops, from, L)
    BY <1>1, <2>1, <2>2, HasAgree
  <2>4. LastOps(r, ops, from, L) = {}
    BY <1>1, <1>2, <2>1, LastOpsAgree
  <2>5. Reducing(r, T, args, ops, from)
    <3> DEFINE e == Len(r) - 1
    <3>1. e = L
      BY <1>4
    <3> HIDE DEF e, L
    <3>2. Has(r, T, args, ops, from, e) /\ LastOps(r, ops, from, e) = {}
      BY <2>3, <2>4, <3>1
    <3>3. Len(r) > 0 /\ r[Len(r)] \in Binary
      BY <1>4
    <3> QED
      BY <3>2, <3>3, Zenon DEF Reducing, e
  <2> QED
    BY <2>5, ActiveIs
<1>6. CASE Awaits(s, T, args, ops, from)
  <2>1. \/ /\ args = <<>> /\ ops = <<>> /\ from = L + 1
           /\ L > 0 => s[L] \in Opening \cup {Comma}
        \/ L > 0 /\ ops # <<>> /\ s[L] \in Operators
    BY <1>1, <1>2, <1>6, AwaitsIs
  <2>2. ~(L > 0 /\ s[L] \in Operators)
    BY <1>1, BeforeBinary, NoOperand
  <2>3. args = <<>> /\ ops = <<>> /\ from = k /\ (L > 0 => s[L] \in Opening \cup {Comma})
    BY <2>1, <2>2 DEF k
  <2>4. t = "-"
    <3>1. CASE L = 0
      BY <1>1, <3>1, BinaryStarts
    <3>2. CASE L > 0
      BY <1>1, <2>3, <3>2, BeforeBinary, NoOperand
    <3> QED
      BY <1>1, <3>1, <3>2
  <2>5. Sign(r, k)
    <3>1. L > 0 => ~EndsOperand(r[L])
      BY <1>1, <2>3, NoOperand
    <3> QED
      BY <1>1, <1>k, <2>4, <3>1 DEF Sign
  <2>6. Reducing(r, T, args, ops, from)
    BY <1>1, <1>4, <2>3, <2>4, <2>5 DEF Reducing
  <2> QED
    BY <2>6, ActiveIs
<1> QED
  BY <1>3, <1>5, <1>6

\* The two on top of the stacks are combined, while an operator is pushed and
\* at the end.
LEMMA ReduceRead ==
  ASSUME NEW S, NEW s, Len(s) \in Nat, NEW T, NEW U, NEW args \in Seq(S), NEW m \in S,
         NEW ops \in Seq(OperatorEntry), ops # <<>>, Rising(ops), NEW h, NEW from,
         Active(s, T, args, ops, h, "reduce", from), Keeps(T, U, args),
         NEW a, a = Len(args) - 1, NEW c, c = Len(args), NEW o, o = Top(ops),
         U[m] = Tree("binary", o.at, <<T[args[a]], T[args[c]]>>),
         NEW b, b = Append(SubSeq(args, 1, Len(args) - 2), m),
         Level(o.op) <= Level(s[Len(s)])
  PROVE  Active(s, U, b, Pop(ops), h, "reduce", from)
<1> DEFINE e == Len(s) - 1
           k == Level(s[Len(s)])
<1>1. /\ Len(s) > 0 /\ s[Len(s)] \in Binary
      /\ Has(s, T, args, ops, from, e) /\ \A p \in LastOps(s, ops, from, e) : Level(s[p]) <= k
  <2>1. Reducing(s, T, args, ops, from)
    BY ActiveIs
  <2> QED
    BY <2>1, Zenon DEF Reducing
<1>2. Level(o.op) <= k
  OBVIOUS
<1> HIDE DEF e, k
<1>3. /\ Has(s, U, b, Pop(ops), from, e)
      /\ \A q \in LastOps(s, Pop(ops), from, e) :
           q \in LastOps(s, ops, from, e) \/ Level(s[q]) <= Level(o.op)
  BY <1>1, HasCombine
<1>4. ASSUME NEW q \in LastOps(s, Pop(ops), from, e) PROVE Level(s[q]) <= k
  <2>1. CASE q \in LastOps(s, ops, from, e)
    BY <1>1, <2>1
  <2>2. CASE Level(s[q]) <= Level(o.op)
    <3>1. k \in Nat
      BY <1>1, LevelLemma DEF k
    <3>2. Level(o.op) \in Nat
      <4>1. o \in OperatorEntry
        BY PopLemma
      <4> QED
        BY <4>1, OperatorLevel DEF OperatorEntry
    <3>3. Level(s[q]) \in Nat
      <4>1. e \in 1..Len(s)
        BY <1>1, HasAfter, LenProperties
      <4>2. s[q] \in Binary
        <5>1. Len(Pop(ops)) \in Nat /\ Pop(ops) \in Seq(OperatorEntry)
          BY PopLemma, LenProperties
        <5> QED
          BY <1>3, <4>1, <5>1, LastOpsBinary
      <4> QED
        BY <4>2, LevelLemma
    <3> QED
      BY <1>2, <2>2, <3>1, <3>2, <3>3
  <2> QED
    BY <1>3, <2>1, <2>2
<1>5. Reducing(s, U, b, Pop(ops), from)
  BY <1>1, <1>3, <1>4, Zenon DEF Reducing, e, k
<1> QED
  BY <1>5, ActiveIs

LEMMA CleanUpRead ==
  ASSUME NEW S, NEW s, Len(s) \in Nat, NEW T, NEW U, NEW args \in Seq(S), NEW m \in S,
         NEW ops \in Seq(OperatorEntry), ops # <<>>, Rising(ops), NEW h, NEW from,
         Active(s, T, args, ops, h, "cleanup", from), Keeps(T, U, args),
         NEW a, a = Len(args) - 1, NEW c, c = Len(args), NEW o, o = Top(ops),
         U[m] = Tree("binary", o.at, <<T[args[a]], T[args[c]]>>),
         NEW b, b = Append(SubSeq(args, 1, Len(args) - 2), m)
  PROVE  Active(s, U, b, Pop(ops), h, "cleanup", from)
<1> SUFFICES ASSUME Len(s) > 0, EndsOperand(s[Len(s)])
             PROVE  Has(s, U, b, Pop(ops), from, Len(s))
  BY ActiveIs
<1> DEFINE e == Len(s)
<1>1. Has(s, T, args, ops, from, e)
  BY ActiveIs
<1> HIDE DEF e
<1>2. Has(s, U, b, Pop(ops), from, e)
  BY <1>1, HasCombine
<1> QED
  BY <1>2 DEF e

\* The operator is pushed.
LEMMA PushRead ==
  ASSUME NEW S, NEW s, Len(s) \in Nat, NEW T, NEW args \in Seq(S), NEW ops \in Seq(OperatorEntry),
         NEW h, NEW from, Active(s, T, args, ops, h, "reduce", from),
         NEW o \in OperatorEntry, o.op = s[Len(s)], o.at = Len(s)
  PROVE  Active(s, T, args, Append(ops, o), h, "apply", from)
<1> DEFINE L == Len(s)
           e == L - 1
           n == L + 1
           all == Append(ops, o)
<1>0. Reducing(s, T, args, ops, from) /\ L = e + 1 /\ e \in Int /\ n = L + 1
  BY ActiveIs
<1>1. L > 0 /\ s[L] \in Binary
  BY <1>0, Zenon DEF Reducing
<1>2. CASE /\ Has(s, T, args, ops, from, e)
           /\ \A p \in LastOps(s, ops, from, e) : Level(s[p]) <= Level(s[L])
  <2>1. L \in 1..Len(s) /\ o.op = s[L] /\ o.at = L
    BY <1>1
  <2> HIDE DEF L, e, n, all
  <2>2. Len(s) \in Nat
    OBVIOUS
  <2>3. Waits(s, T, args, Append(ops, o), from, n)
    BY <1>0, <1>1, <1>2, <2>1, WaitsPush
  <2>4. Awaits(s, T, args, all, from)
    BY <2>3, Zenon DEF Awaits, n, L, all
  <2> QED
    BY <2>4, ActiveIs DEF all
<1>3. CASE args = <<>> /\ ops = <<>> /\ from = L /\ s[L] = "-" /\ Sign(s, L)
  <2>1. all = <<o>> /\ Len(all) = 1 /\ all[1] = o
    BY <1>3
  <2>2. from \in 1..Len(s) /\ o.op = "-" /\ o.at = from /\ o.op \in Unary \cup {"-"}
    BY <1>1, <1>3
  <2>3. Prefixed(s, args, all, from)
    <3> HIDE DEF L, e, n, all
    <3>1. o.op = s[L]
      BY DEF L
    <3> QED
      BY <1>3, <2>1, <2>2, <3>1 DEF Prefixed
  <2>4. n = First(all, from, Len(all) + 1)
    <3> HIDE DEF all
    <3>1. Len(all) + 1 = 2 /\ 2 # 1 /\ 2 - 1 = 1
      BY <2>1
    <3>2. First(all, from, 2) = all[1].at + 1
      BY <3>1, Zenon DEF First
    <3> QED
      BY <1>3, <2>1, <2>2, <3>1, <3>2
  <2>5. Awaits(s, T, args, all, from)
    <3>1. Waits(s, T, args, all, from, n)
      <4> HIDE DEF n, all
      <4> QED
        BY <2>3, <2>4, WaitsIs
    <3> QED
      BY <3>1 DEF Awaits
  <2> HIDE DEF all
  <2> QED
    BY <2>5, ActiveIs DEF all
<1> QED
  BY <1>0, <1>2, <1>3, Zenon DEF Reducing

\* The operator on top of the stack is a binary one, but for a prefix.
LEMMA TopBinary ==
  ASSUME NEW s, NEW T, NEW args, NEW ops \in Seq(OperatorEntry), ops # <<>>, NEW from, NEW e,
         Pieces(s, T, args, ops, from, e)
  PROVE  Top(ops).op \in Binary /\ Top(ops).op \notin Unary
<1>1. Len(ops) \in 1..Len(ops)
  BY EmptySeq, LenProperties
<1>2. Stands(s, ops[Len(ops)])
  BY <1>1, Zenon DEF Pieces
<1> QED
  BY <1>2, BinaryIs DEF Stands, Top

\* A prefix that was just read.
LEMMA PrefixAwaits ==
  ASSUME NEW r, NEW k, k = Len(r), k \in Nat, k > 0, NEW o, o.at = k, o.op = r[k], o.op \in Unary, NEW T
  PROVE  Awaits(r, T, <<>>, <<o>>, k)
<1> DEFINE all == <<o>>
           n == k + 1
<1>1. Len(all) = 1 /\ all[1] = o
  OBVIOUS
<1> HIDE DEF all
<1>2. Prefixed(r, <<>>, all, k)
  BY <1>1, UnaryIs DEF Prefixed
<1>3. n = First(all, k, Len(all) + 1)
  <2>1. Len(all) + 1 = 2 /\ 2 # 1 /\ 2 - 1 = 1
    BY <1>1
  <2>2. First(all, k, 2) = all[1].at + 1
    BY <2>1, Zenon DEF First
  <2> QED
    BY <1>1, <2>1, <2>2
<1>4. Waits(r, T, <<>>, all, k, n)
  <2> HIDE DEF n
  <2> QED
    BY <1>2, <1>3, WaitsIs
<1> QED
  BY <1>4 DEF Awaits, all

LEMMA UnaryRead ==
  ASSUME NEW S, NEW s, NEW r, NEW t, Extends(s, r, t), NEW T, NEW args, NEW ops, NEW h, NEW from,
         Stacks(S, s, args, ops, from), Active(s, T, args, ops, h, "loop", from), t \in Unary,
         NEW o, o.op = t, o.at = Len(s) + 1
  PROVE  Active(r, T, args, Append(ops, o), h, "apply", from)
<1> DEFINE L == Len(s)
           k == L + 1
<1>1. /\ Agree(s, r, L) /\ L \in Nat /\ Len(r) = k /\ r[k] = t
      /\ L > 0 => Follows(s[L], t)
  BY ExtendsIs
<1>2. /\ args \in Seq(S) /\ Len(ops) \in Nat /\ (ops # <<>> => Len(ops) > 0) /\ Begins(s, from)
  BY StacksAre
<1>3. Awaits(s, T, args, ops, from)
  BY AwaitedHere
<1>4. \/ /\ args = <<>> /\ ops = <<>> /\ from = L + 1
         /\ L > 0 => s[L] \in Opening \cup {Comma}
      \/ L > 0 /\ ops # <<>> /\ s[L] \in Operators
  BY <1>1, <1>2, <1>3, AwaitsIs
<1>5. ~(L > 0 /\ s[L] \in Operators)
  BY <1>1, BeforeUnary, NoOperand
<1>6. args = <<>> /\ ops = <<>> /\ from = k
  BY <1>4, <1>5
<1>7. Append(ops, o) = <<o>>
  BY <1>6
<1>8. k \in Nat /\ k > 0 /\ k = Len(r) /\ o.at = k /\ o.op = r[k] /\ o.op \in Unary
  BY <1>1
<1> HIDE DEF k
<1>9. Awaits(r, T, <<>>, <<o>>, k)
  BY <1>8, PrefixAwaits
<1>10. Awaits(r, T, args, Append(ops, o), from)
  BY <1>6, <1>7, <1>9, Zenon
<1> QED
  BY <1>10, ActiveIs, Zenon

\* A call that has just begun awaits an operand.
LEMMA NothingBetween ==
  ASSUME NEW s, NEW T, NEW from
  PROVE  from = First(<<>>, from, Len(<<>>) + 1) /\ Between(s, T, <<>>, <<>>, from, from)
<1> DEFINE none == <<>>
<1>1. Len(none) = 0 /\ Len(none) + 1 = 1
  OBVIOUS
<1>2. from = First(none, from, Len(none) + 1)
  BY <1>1 DEF First
<1>3. Between(s, T, none, none, from, from)
  BY <1>1 DEF Between, Pieces
<1> QED
  BY <1>2, <1>3

LEMMA NothingRead ==
  ASSUME NEW s, NEW T, NEW from, from = Len(s) + 1
  PROVE  Awaits(s, T, <<>>, <<>>, from)
<1> DEFINE none == <<>>
<1>1. from = First(none, from, Len(none) + 1) /\ Between(s, T, none, none, from, from)
  BY NothingBetween
<1> HIDE DEF none
<1>2. Waits(s, T, none, none, from, from)
  BY <1>1, WaitsIs
<1> QED
  BY <1>2 DEF Awaits, none

\* The prefix gets its operand.
LEMMA UnaryApplied ==
  ASSUME NEW S, NEW s, Len(s) \in Nat, NEW T, NEW U, NEW args \in Seq(S), args # <<>>, NEW m \in S,
         NEW ops \in Seq(OperatorEntry), ops # <<>>, NEW h, NEW from, NEW p \in {"apply", "apply_last"},
         Active(s, T, args, ops, h, p, from), NEW o, o = Top(ops), o.op \in Unary,
         NEW a, a = Top(args), U[m] = Tree("unary", o.at, <<T[a]>>), Begins(s, from)
  PROVE  /\ p = "apply"
         /\ HasRead(s, U, Append(Pop(args), m), Pop(ops), from)
<1>1. ~Awaits(s, T, args, ops, from)
  <2> SUFFICES ASSUME Awaits(s, T, args, ops, from) PROVE FALSE
    OBVIOUS
  <2> DEFINE n == Len(s) + 1
  <2>1. Between(s, T, args, ops, from, n) \/ Prefixed(s, args, ops, from)
    BY WaitsIs, Zenon DEF Awaits
  <2>2. Pieces(s, T, args, ops, from, n)
    BY <2>1, Zenon DEF Between, Prefixed
  <2> QED
    BY <2>2, TopBinary
<1>2. ~HasRead(s, T, args, ops, from)
  <2> SUFFICES ASSUME HasRead(s, T, args, ops, from) PROVE FALSE
    OBVIOUS
  <2>1. Pieces(s, T, args, ops, from, Len(s))
    BY Zenon DEF HasRead, Has
  <2> QED
    BY <2>1, TopBinary
<1>3. p = "apply" /\ ReadBehind(s, T, args, ops, from)
  <2>1. CASE p = "apply"
    BY <1>1, <1>2, <2>1, ActiveIs, Zenon
  <2>2. CASE p = "apply_last"
    <3>1. p \in {"loop", "apply_last"}
      BY <2>2
    <3> QED
      BY <1>1, <1>2, <3>1, ActiveIs, Zenon
  <2> QED
    BY <2>1, <2>2
<1>4. /\ Len(args) = 1 /\ Len(ops) = 1 /\ ops[1].at = from /\ s[from] = ops[1].op
      /\ Atom(s, T[args[1]], from + 1, Len(s))
  BY Zenon, <1>3 DEF ReadBehind
<1>5. o = ops[1] /\ a = args[1] /\ Len(args) - 1 = 0 /\ Len(ops) - 1 = 0
  BY <1>4 DEF Top
<1>6. Pop(args) = <<>> /\ Pop(ops) = <<>>
  <2>1. Len(Pop(args)) = 0 /\ Len(Pop(ops)) = 0 /\ Pop(args) \in Seq(S) /\ Pop(ops) \in Seq(OperatorEntry)
    BY <1>5, PopLemma
  <2> QED
    BY <2>1, EmptySeq
<1> DEFINE e == Len(s)
           b == from + 1
           t == T[a]
<1>7. Atom(s, t, b, e)
  BY <1>4, <1>5
<1>8. b \in 1..Len(s)
  <2> HIDE DEF b, e, t
  <2> QED
    BY <1>7, Zenon DEF Atom, Reads
<1>9. from \in 1..Len(s) /\ s[from] \in Unary /\ b = from + 1
  BY <1>4, <1>5, <1>8 DEF Begins
<1> HIDE DEF b, e, t
<1>10. Atom(s, Tree("unary", from, <<t>>), from, e)
  BY <1>7, <1>9, AtomUnary
<1>11. U[m] = Tree("unary", from, <<t>>)
  BY <1>4, <1>5 DEF t
<1>12. from = First(<<>>, from, Len(<<>>) + 1) /\ Between(s, U, <<>>, <<>>, from, from)
  BY NothingBetween
<1> DEFINE none == <<>>
<1>13. none \in Seq(S) /\ Len(none) \in Nat
  OBVIOUS
<1>14. Has(s, U, Append(none, m), none, from, e) /\ LastOps(s, none, from, e) = {}
  <2>1. from = First(none, from, Len(none) + 1) /\ Between(s, U, none, none, from, from)
    BY <1>12
  <2>2. Atom(s, U[m], from, e)
    BY <1>10, <1>11, Zenon
  <2> HIDE DEF none
  <2> QED
    BY <1>13, <2>1, <2>2, HasPush
<1> QED
  BY <1>3, <1>6, <1>14 DEF HasRead, e

\* An iteration of the loop ends.
LEMMA EndRead ==
  ASSUME NEW S, NEW s, Len(s) \in Nat, NEW T, NEW args \in Seq(S), NEW ops \in Seq(OperatorEntry),
         NEW h, NEW from, Begins(s, from), NEW p \in {"apply", "apply_last"},
         Active(s, T, args, ops, h, p, from),
         ~(ops # <<>> /\ Top(ops).op \in Unary /\ args # <<>>)
  PROVE  Active(s, T, args, ops, h, IF p = "apply" THEN "loop" ELSE "cleanup", from)
<1> DEFINE L == Len(s)
<1>1. ~ReadBehind(s, T, args, ops, from)
  <2> SUFFICES ASSUME ReadBehind(s, T, args, ops, from) PROVE FALSE
    OBVIOUS
  <2>1. Len(args) = 1 /\ Len(ops) = 1 /\ ops[1].op \in Unary
    BY DEF ReadBehind
  <2>2. args # <<>> /\ ops # <<>> /\ Top(ops) = ops[1]
    <3>1. Len(args) # 0 /\ Len(ops) # 0
      BY <2>1
    <3>2. args # <<>> /\ ops # <<>>
      BY <3>1
    <3>3. Top(ops) = ops[1]
      BY <2>1, Zenon DEF Top
    <3> QED
      BY <3>2, <3>3
  <2> QED
    BY <2>1, <2>2
<1>2. Awaits(s, T, args, ops, from) \/ HasRead(s, T, args, ops, from)
  <2>1. CASE p = "apply"
    BY <1>1, <2>1, ActiveIs, Zenon
  <2>2. CASE p = "apply_last"
    <3>1. p \in {"loop", "apply_last"}
      BY <2>2
    <3> QED
      BY <3>1, ActiveIs, Zenon
  <2> QED
    BY <2>1, <2>2
<1>3. Active(s, T, args, ops, h, "loop", from)
  <2>1. "loop" \in {"loop", "apply_last"}
    OBVIOUS
  <2> QED
    BY <1>2, <2>1, ActiveIs, Zenon
<1>4. Active(s, T, args, ops, h, "cleanup", from)
  <2> SUFFICES ASSUME L > 0, EndsOperand(s[L]) PROVE Has(s, T, args, ops, from, L)
    BY ActiveIs, Zenon
  <2>1. CASE HasRead(s, T, args, ops, from)
    BY <2>1, Zenon DEF HasRead
  <2>2. CASE Awaits(s, T, args, ops, from)
    <3>1. Len(ops) \in Nat /\ (ops # <<>> => Len(ops) > 0) /\ L \in Nat
      BY EmptySeq, LenProperties
    <3>2. \/ /\ args = <<>> /\ ops = <<>> /\ from = L + 1
             /\ L > 0 => s[L] \in Opening \cup {Comma}
          \/ L > 0 /\ ops # <<>> /\ s[L] \in Operators
      BY <2>2, <3>1, AwaitsIs
    <3>3. ~EndsOperand(s[L])
      BY <3>2, NoOperand
    <3> QED
      BY <3>3
  <2> QED
    BY <1>2, <2>1, <2>2
<1> QED
  BY <1>3, <1>4

\* An operand begins where the text is extended.
LEMMA AwaitedThere ==
  ASSUME NEW S, NEW s, NEW r, NEW t, Extends(s, r, t), NEW T, NEW U, NEW args, NEW ops, NEW h, NEW from,
         Stacks(S, s, args, ops, from), Active(s, T, args, ops, h, "loop", from), t \in Plain,
         Keeps(T, U, args)
  PROVE  Waits(r, U, args, ops, from, Len(r))
<1>1. Awaits(s, T, args, ops, from)
  BY AwaitedHere
<1> DEFINE n == Len(s) + 1
<1>2. Waits(s, T, args, ops, from, n)
  BY <1>1, Zenon DEF Awaits
<1>3. Agree(s, r, Len(s)) /\ Len(r) = n
  BY ExtendsIs
<1> HIDE DEF n
<1>4. Waits(r, U, args, ops, from, n)
  BY <1>2, <1>3, WaitsAgree
<1> QED
  BY <1>3, <1>4

\* A literal that no sign belongs to.
LEMMA LiteralRead ==
  ASSUME NEW S, NEW s, NEW r, NEW t, Extends(s, r, t), NEW T, NEW U, NEW args, NEW ops, NEW h, NEW from,
         Stacks(S, s, args, ops, from), Active(s, T, args, ops, h, "loop", from), t \in Literals,
         Keeps(T, U, args), NEW m \in S, U[m] = Tree("literal", Len(r), <<>>),
         ~(args = <<>> /\ ops # <<>> /\ Top(ops).op = "-")
  PROVE  Active(r, U, Append(args, m), ops, h, "apply", from)
<1> DEFINE k == Len(r)
<1>1. Waits(r, U, args, ops, from, k)
  <2>1. t \in Plain
    BY Classes
  <2> QED
    BY <2>1, AwaitedThere
<1>2. k \in Nat /\ k \in 1..Len(r) /\ r[k] = t
  BY ExtendsIs
<1>3. t # "id"
  BY DEF Literals
<1>4. Atom(r, Tree("literal", k, <<>>), k, k)
  <2> HIDE DEF k
  <2>1. r[k] \in Literals \cup {"id"} /\ r[k] # "id" /\ Len(r) \in Nat /\ k \in 1..Len(r)
    BY <1>2, <1>3 DEF k
  <2>2. Atom(r, Tree(IF r[k] = "id" THEN "variable" ELSE "literal", k, <<>>), k, k)
    BY <2>1, AtomToken
  <2> QED
    BY <2>1, <2>2, Zenon
<1>5. Atom(r, U[m], k, k)
  BY <1>4, Zenon
<1>6. args \in Seq(S) /\ Len(ops) \in Nat
  BY StacksAre
<1>7. ~(Len(ops) = 1 /\ args = <<>> /\ ops[1].op = "-")
  <2> SUFFICES ASSUME Len(ops) = 1, args = <<>>, ops[1].op = "-" PROVE FALSE
    OBVIOUS
  <2>1. ops # <<>> /\ Top(ops) = ops[1]
    BY <1>6, EmptySeq DEF Top
  <2> QED
    BY <2>1
<1> HIDE DEF k
<1>8. \/ HasRead(r, U, Append(args, m), ops, from)
      \/ ReadBehind(r, U, Append(args, m), ops, from)
  BY <1>1, <1>5, <1>6, <1>7, OperandRead DEF k
<1> QED
  BY <1>8, ActiveIs, Zenon

\* A number that takes the sign in front of it.
LEMMA SignRead ==
  ASSUME NEW S, NEW s, NEW r, NEW t, Extends(s, r, t), NEW T, NEW args, NEW ops, NEW h, NEW from,
         Stacks(S, s, args, ops, from), Active(s, T, args, ops, h, "loop", from), t \in Literals,
         args = <<>>, ops # <<>>, Top(ops).op = "-"
  PROVE  t = "int" /\ from = Len(s) /\ from > 0 /\ s[from] = "-" /\ Pop(ops) = <<>>
<1> DEFINE L == Len(s)
           k == L + 1
<1>1. /\ Agree(s, r, L) /\ L \in Nat /\ Len(r) = k /\ r[k] = t /\ L = Len(s)
      /\ L > 0 => r[L] = s[L] /\ (Sign(s, L) => t = "int")
  BY ExtendsIs
<1>2. args \in Seq(S) /\ ops \in Seq(OperatorEntry) /\ Len(ops) \in Nat /\ Len(ops) > 0
  BY StacksAre
<1>3. Awaits(s, T, args, ops, from)
  <2>1. t \in Plain \cup Unary
    BY Classes
  <2> QED
    BY <2>1, AwaitedHere
<1>4. k = First(ops, from, Len(ops) + 1) /\ Prefixed(s, args, ops, from)
  <2>1. ~Between(s, T, args, ops, from, k)
    <3>1. Len(args) = 0
      OBVIOUS
    <3>2. Len(args) # Len(ops)
      BY <1>2, <3>1
    <3> QED
      BY <3>2, Zenon DEF Between
  <2> QED
    BY <1>3, <2>1, WaitsIs, Zenon DEF Awaits
<1>5. /\ Len(ops) = 1 /\ ops[1].at = from /\ from \in 1..L /\ s[from] = ops[1].op
      /\ ops[1].op = "-" => Sign(s, from)
  BY <1>4, Zenon DEF Prefixed
<1>6. ops[1].op = "-" /\ Pop(ops) = <<>>
  <2>1. Top(ops) = ops[1]
    BY <1>5 DEF Top
  <2>2. Len(Pop(ops)) = 0 /\ Pop(ops) \in Seq(OperatorEntry)
    BY <1>2, <1>5, PopLemma
  <2> QED
    BY <2>1, <2>2, EmptySeq
<1>7. from = L /\ L > 0
  <2>1. k = ops[1].at + 1
    BY <1>4, <1>5 DEF First
  <2> QED
    BY <1>1, <1>5, <2>1
<1>8. t = "int"
  BY <1>1, <1>5, <1>6, <1>7
<1> QED
  BY <1>1, <1>5, <1>6, <1>7, <1>8

LEMMA NegativeRead ==
  ASSUME NEW S, NEW s, NEW r, NEW t, Extends(s, r, t), t = "int", NEW U, NEW args, NEW ops, NEW h, NEW from,
         from = Len(s), from > 0, s[from] = "-", args = <<>>, Pop(ops) = <<>>, NEW m \in S,
         U[m] = Tree("negative", Len(r), <<>>)
  PROVE  Active(r, U, Append(args, m), Pop(ops), h, "apply", from)
<1> DEFINE L == Len(s)
           k == L + 1
<1>1. /\ Agree(s, r, L) /\ L \in Nat /\ Len(r) = k /\ r[k] = t /\ L = Len(s)
      /\ L > 0 => r[L] = s[L]
  BY ExtendsIs
<1>2. L \in 1..Len(r) /\ k \in 1..Len(r) /\ k = L + 1 /\ r[L] = "-" /\ r[k] = "int" /\ Len(r) \in Nat
  BY <1>1
<1> HIDE DEF k, L
<1>3. Atom(r, Tree("negative", k, <<>>), L, k)
  BY <1>2, AtomSign
<1>4. Atom(r, U[m], from, k)
  BY <1>1, <1>3, Zenon
<1> DEFINE none == <<>>
<1>5. from = First(none, from, Len(none) + 1) /\ Between(r, U, none, none, from, from)
  BY NothingBetween
<1>6. none \in Seq(S) /\ Len(none) \in Nat
  OBVIOUS
<1> HIDE DEF none
<1>7. Has(r, U, Append(none, m), none, from, k) /\ LastOps(r, none, from, k) = {}
  BY <1>4, <1>5, <1>6, HasPush
<1>8. HasRead(r, U, Append(args, m), Pop(ops), from)
  BY <1>1, <1>7, Zenon DEF HasRead, none
<1> QED
  BY <1>8, ActiveIs, Zenon

\* The variable that a target begins with.
LEMMA VariableRead ==
  ASSUME NEW S, NEW s, NEW r, NEW t, Extends(s, r, t), NEW T, NEW U, NEW args, NEW ops, NEW h, NEW from,
         Stacks(S, s, args, ops, from), Active(s, T, args, ops, h, "loop", from), t = "id",
         Keeps(T, U, args), NEW m \in S, U[m] = Tree("variable", Len(r), <<>>)
  PROVE  Active(r, U, args, ops, <<m>>, "target", from)
<1> DEFINE k == Len(r)
<1>1. Waits(r, U, args, ops, from, k)
  <2>1. t \in Plain
    BY Classes
  <2> QED
    BY <2>1, AwaitedThere
<1>2. k \in Nat /\ k \in 1..Len(r) /\ r[k] = "id"
  BY ExtendsIs
<1>3. Atom(r, U[m], k, k)
  <2>1. Atom(r, Tree("variable", k, <<>>), k, k)
    <3> HIDE DEF k
    <3>1. r[k] \in Literals \cup {"id"} /\ r[k] = "id" /\ Len(r) \in Nat /\ k \in 1..Len(r)
      BY <1>2 DEF k
    <3>2. Atom(r, Tree(IF r[k] = "id" THEN "variable" ELSE "literal", k, <<>>), k, k)
      BY <3>1, AtomToken
    <3> QED
      BY <3>1, <3>2, Zenon
  <2> QED
    BY <2>1, Zenon
<1> DEFINE g == <<m>>
           nest == <<U[m]>>
<1>4. g # <<>> /\ Len(g) = 1 /\ g[1] = m /\ nest[1] = U[m]
  OBVIOUS
<1> HIDE DEF g, k, nest
<1>5. Nests(U, g, nest)
  <2>1. 1..Len(g) - 1 = {}
    BY <1>4
  <2> QED
    BY <1>4, <2>1, Zenon DEF Nests
<1>6. TargetAt(r, U, g, k, k)
  <2>1. Atom(r, nest[Len(g)], k, k)
    BY <1>3, <1>4, Zenon
  <2> QED
    BY <1>2, <1>4, <1>5, <2>1, Zenon DEF TargetAt
<1>7. Active(r, U, args, ops, g, "target", from)
  BY <1>1, <1>2, <1>6, ActiveIs, Zenon DEF k
<1> QED
  BY <1>7, Zenon DEF g

\* The first two nodes of a target become an index access.
Indexing(S, T, U, h, m, g) ==
  /\ h \in Seq(S) /\ Len(h) > 1 /\ m \in S /\ Keeps(T, U, h)
  /\ U[m] = Tree("index", 0, <<T[h[1]], T[h[2]]>>)
  /\ g = <<m>> \o SubSeq(h, 3, Len(h))

\* The innermost access becomes a node.
LEMMA NestBuilt ==
  ASSUME NEW S, NEW T, NEW U, NEW h, NEW m, NEW g, Indexing(S, T, U, h, m, g), NEW nest, Nests(T, h, nest)
  PROVE  /\ g # <<>> /\ Len(g) = Len(h) - 1
         /\ \E best : Nests(U, g, best) /\ best[Len(g)] = nest[Len(h)]
<1> DEFINE n == Len(h) - 1
           tail == SubSeq(h, 3, Len(h))
           a == h[1]
           c == h[2]
<1> h \in Seq(S) /\ Len(h) > 1 /\ m \in S /\ Keeps(T, U, h)
  BY DEF Indexing
<1> g = <<m>> \o SubSeq(h, 3, Len(h)) /\ U[m] = Tree("index", 0, <<T[a], T[c]>>)
  BY Zenon DEF Indexing
<1>1. Len(h) \in Nat /\ n \in Nat /\ n > 0
  BY LenProperties
<1>2. Len(tail) = n - 1 /\ \A i \in 1..n - 1 : tail[i] = h[i + 2]
  BY <1>1, SubSeqProperties
<1>3. tail \in Seq(S)
  BY <1>1
<1>4. Len(g) = n /\ g[1] = m /\ \A i \in 2..n : g[i] = h[i + 1]
  <2>1. <<m>> \in Seq(S) /\ Len(<<m>>) = 1 /\ <<m>>[1] = m
    OBVIOUS
  <2> DEFINE head == <<m>>
  <2> HIDE DEF tail, head, n
  <2>2. /\ Len(head \o tail) = Len(head) + Len(tail)
        /\ \A i \in 1..Len(head) + Len(tail) :
             (head \o tail)[i] = IF i <= Len(head) THEN head[i] ELSE tail[i - Len(head)]
    BY <1>3, <2>1, ConcatProperties DEF head
  <2>3. g = head \o tail
    BY Zenon DEF head, tail
  <2>4. Len(g) = n /\ g[1] = m
    BY <1>1, <1>2, <2>1, <2>2, <2>3 DEF head
  <2>5. ASSUME NEW i \in 2..n PROVE g[i] = h[i + 1]
    <3>1. g[i] = tail[i - 1]
      BY <1>1, <1>2, <2>1, <2>2, <2>3 DEF head
    <3>2. i - 1 \in 1..n - 1 /\ (i - 1) + 2 = i + 1
      BY <1>1
    <3> QED
      BY <1>2, <3>1, <3>2
  <2> QED
    BY <2>4, <2>5
<1>5. /\ nest[1] = T[a] /\ nest[2] = Tree("index", 0, <<nest[1], T[c]>>)
      /\ \A i \in 1..n : nest[i + 1] = Tree("index", 0, <<nest[i], T[h[i + 1]]>>)
  <2>1. /\ nest[1] = T[h[1]]
        /\ \A i \in 1..Len(h) - 1 : nest[i + 1] = Tree("index", 0, <<nest[i], T[h[i + 1]]>>)
    BY Zenon DEF Nests
  <2>2. 1 \in 1..n /\ 1 + 1 = 2
    BY <1>1
  <2>3. nest[1 + 1] = Tree("index", 0, <<nest[1], T[h[1 + 1]]>>)
    BY <2>1, <2>2, Zenon
  <2>4. nest[2] = Tree("index", 0, <<nest[1], T[h[2]]>>)
    BY <2>2, <2>3, Zenon
  <2> QED
    BY <2>1, <2>4, Zenon
<1> DEFINE best == [i \in 1..n |-> nest[i + 1]]
<1>6. best[1] = U[m]
  <2>1. best[1] = nest[2]
    BY <1>1
  <2>2. nest[2] = U[m]
    BY <1>5, Zenon
  <2> QED
    BY <2>1, <2>2
<1>7. ASSUME NEW i \in 1..n - 1 PROVE best[i + 1] = Tree("index", 0, <<best[i], U[g[i + 1]]>>)
  <2> DEFINE j == i + 1
  <2>1. j \in 1..n /\ j \in 2..n /\ i \in 1..n /\ j + 1 \in 1..Len(h)
    BY <1>1
  <2>2. best[j] = nest[j + 1] /\ best[i] = nest[j]
    BY <2>1
  <2> HIDE DEF best, j, n
  <2>3. nest[j + 1] = Tree("index", 0, <<nest[j], T[h[j + 1]]>>)
    BY <1>5, <2>1
  <2>4. g[j] = h[j + 1]
    BY <1>4, <2>1
  <2>5. T[h[j + 1]] = U[h[j + 1]]
    BY <2>1 DEF Keeps
  <2>6. best[j] = Tree("index", 0, <<best[i], U[g[j]]>>)
    BY <2>2, <2>3, <2>4, <2>5, Zenon
  <2> QED
    BY <2>6, Zenon DEF j
<1>8. best[n] = nest[Len(h)]
  <2>1. n \in 1..n /\ n + 1 = Len(h)
    BY <1>1
  <2>2. best[n] = nest[n + 1]
    BY <2>1
  <2> QED
    BY <2>1, <2>2
<1> HIDE DEF best
<1>9. Nests(U, g, best)
  <2>1. Len(g) - 1 = n - 1 /\ best[1] = U[g[1]]
    BY <1>4, <1>6
  <2> QED
    BY <1>7, <2>1, Zenon DEF Nests
<1>10. g # <<>> /\ best[Len(g)] = nest[Len(h)]
  <2>1. Len(g) # 0
    BY <1>1, <1>4
  <2> QED
    BY <1>4, <1>8, <2>1
<1> QED
  BY <1>4, <1>9, <1>10, Zenon

\* What Active says of a target.
LEMMA TargetRuns ==
  ASSUME NEW s, NEW T, NEW args, NEW ops, NEW h, NEW from, Active(s, T, args, ops, h, "target", from)
  PROVE  \E x \in 1..Len(s) : Waits(s, T, args, ops, from, x) /\ TargetAt(s, T, h, x, Len(s))
<1>1. Active(s, T, args, ops, h, "target", from) <=>
        \E x \in 1..Len(s) : Waits(s, T, args, ops, from, x) /\ TargetAt(s, T, h, x, Len(s))
  BY ActiveIs
<1> QED
  BY <1>1

LEMMA IndexBuilt ==
  ASSUME NEW S, NEW s, Len(s) \in Nat, NEW T, NEW U, NEW args, Keeps(T, U, args), NEW ops, NEW from,
         NEW h, NEW m, NEW g, Indexing(S, T, U, h, m, g), Active(s, T, args, ops, h, "target", from)
  PROVE  Active(s, U, args, ops, g, "target", from)
<1>1. PICK x \in 1..Len(s) : Waits(s, T, args, ops, from, x) /\ TargetAt(s, T, h, x, Len(s))
  BY TargetRuns
<1>2. s[x] = "id" /\ \E nest : Nests(T, h, nest) /\ Atom(s, nest[Len(h)], x, Len(s))
  BY <1>1, Zenon DEF TargetAt
<1>3. PICK nest : Nests(T, h, nest) /\ Atom(s, nest[Len(h)], x, Len(s))
  BY <1>2
<1>4. g # <<>> /\ \E best : Nests(U, g, best) /\ best[Len(g)] = nest[Len(h)]
  <2> DEFINE goal == \E best : Nests(U, g, best) /\ best[Len(g)] = nest[Len(h)]
  <2>1. Nests(T, h, nest) /\ Indexing(S, T, U, h, m, g)
    BY <1>3
  <2>2. g # <<>> /\ Len(g) = Len(h) - 1 /\ goal
    BY <2>1, NestBuilt
  <2> QED
    BY <2>2
<1>5. PICK best : Nests(U, g, best) /\ best[Len(g)] = nest[Len(h)]
  BY <1>4
<1>6. Atom(s, best[Len(g)], x, Len(s))
  <2> DEFINE w == nest[Len(h)]
             v == best[Len(g)]
  <2>1. v = w /\ Atom(s, w, x, Len(s))
    BY <1>3, <1>5
  <2> HIDE DEF v, w
  <2>2. Atom(s, v, x, Len(s))
    BY <2>1
  <2> QED
    BY <2>2 DEF v
<1>7. TargetAt(s, U, g, x, Len(s))
  BY <1>2, <1>4, <1>5, <1>6, Zenon DEF TargetAt
<1>8. Waits(s, U, args, ops, from, x)
  <2>1. Agree(s, s, Len(s))
    BY AgreesWithItself
  <2> QED
    BY <1>1, <2>1, WaitsAgree
<1> QED
  BY <1>7, <1>8, ActiveIs, Zenon

\* A target without indices is an operand.
LEMMA TargetRead ==
  ASSUME NEW S, NEW s, Len(s) \in Nat, Regular(s), NEW T, NEW args \in Seq(S), NEW ops, Len(ops) \in Nat,
         NEW from, NEW h \in Seq(S), Len(h) = 1, NEW g,
         Active(s, T, args, ops, h, "target", from), NEW m, m = h[1]
  PROVE  Active(s, T, Append(args, m), ops, g, "apply", from)
<1>1. PICK x \in 1..Len(s) : Waits(s, T, args, ops, from, x) /\ TargetAt(s, T, h, x, Len(s))
  BY TargetRuns
<1>2. s[x] = "id" /\ \E nest : Nests(T, h, nest) /\ Atom(s, nest[Len(h)], x, Len(s))
  BY <1>1, Zenon DEF TargetAt
<1>3. PICK nest : Nests(T, h, nest) /\ Atom(s, nest[Len(h)], x, Len(s))
  BY <1>2
<1>4. Atom(s, T[m], x, Len(s))
  <2>1. nest[1] = T[m]
    BY <1>3, Zenon DEF Nests
  <2> QED
    BY <1>3, <2>1, Zenon
<1>5. m \in S
  <2>1. 1 \in 1..Len(h)
    OBVIOUS
  <2> QED
    BY <2>1, ElementOfSeq
<1>6. ~(Len(ops) = 1 /\ args = <<>> /\ ops[1].op = "-")
  <2>1. s[x] # "int"
    BY <1>2
  <2> QED
    BY <1>1, <2>1, NoSign
<1> DEFINE e == Len(s)
<1>7. e = Len(s) /\ Atom(s, T[m], x, e)
  BY <1>4
<1> HIDE DEF e
<1>8. \/ HasRead(s, T, Append(args, m), ops, from)
      \/ ReadBehind(s, T, Append(args, m), ops, from)
  BY <1>1, <1>5, <1>6, <1>7, OperandRead
<1> QED
  BY <1>8, ActiveIs, Zenon

LEMMA KeepsItself == ASSUME NEW T, NEW args PROVE Keeps(T, T, args)
BY DEF Keeps

\* The name of a rotate call.
LEMMA RotateRead ==
  ASSUME NEW S, NEW s, NEW r, NEW t, Extends(s, r, t), NEW T, NEW args, NEW ops, NEW h, NEW from,
         Stacks(S, s, args, ops, from), Active(s, T, args, ops, h, "loop", from), t = "rotate"
  PROVE  Active(r, T, args, ops, h, "rotate", from)
<1>1. t \in Plain
  BY Classes
<1>2. Waits(r, T, args, ops, from, Len(r))
  BY <1>1, AwaitedThere, KeepsItself
<1>3. Len(r) > 0 /\ r[Len(r)] = "rotate"
  <2>1. Len(s) \in Nat /\ Len(r) = Len(s) + 1 /\ r[Len(s) + 1] = t
    BY ExtendsIs
  <2> QED
    BY <2>1
<1> QED
  BY <1>2, <1>3, ActiveIs

\* The call c and the mark mm of the call above it when its bracket, the token
\* k, was just read.
Entered(c, mm, args, ops, why, h, k) ==
  /\ c.operands = args /\ c.operators = ops /\ c.why = why /\ c.held = h
  /\ mm.open = k /\ mm.from = k + 1

\* A call begins behind its bracket.
LEMMA EnteredIs ==
  ASSUME NEW s, NEW r, NEW t, Extends(s, r, t), NEW c, NEW mm, NEW args, NEW ops, NEW why, NEW h, NEW k,
         k = Len(r), Entered(c, mm, args, ops, why, h, k), t = IF why = "rotate" THEN "(" ELSE why,
         why \in {"(", "["} \/ h = <<>>, NEW T, NEW g
  PROVE  /\ Opened(r, c, mm) /\ InElement(r, T, c, mm)
         /\ Active(r, T, <<>>, <<>>, g, "loop", mm.from)
<1>1. Len(s) \in Nat /\ k = Len(s) + 1 /\ k \in 1..Len(r) /\ r[k] = t
  BY ExtendsIs
<1>2. c.why = why /\ c.held = h /\ mm.open = k /\ mm.from = k + 1
  BY DEF Entered
<1>3. Opened(r, c, mm)
  BY <1>1, <1>2 DEF Opened
<1>4. InElement(r, T, c, mm)
  <2>1. "(" # "rotate" /\ "[" # "rotate" /\ "(" # OpenBrace /\ "[" # OpenBrace
    BY OddTokens
  <2> QED
    BY <1>2, <2>1 DEF InElement
<1>5. Active(r, T, <<>>, <<>>, g, "loop", mm.from)
  <2> DEFINE none == <<>>
             f == mm.from
  <2>1. f = Len(r) + 1
    BY <1>2
  <2>2. Awaits(r, T, none, none, f)
    BY <2>1, NothingRead
  <2> HIDE DEF none, f
  <2>3. Active(r, T, none, none, g, "loop", f)
    BY <2>2, ActiveIs
  <2> QED
    BY <2>3, Zenon DEF none, f
<1> QED
  BY <1>3, <1>4, <1>5

\* The caller is suspended in front of the bracket it opened.
LEMMA BracketOpened ==
  ASSUME NEW S, NEW s, NEW r, NEW t, Extends(s, r, t), NEW T, NEW args, NEW ops, NEW h, NEW from,
         Stacks(S, s, args, ops, from), Active(s, T, args, ops, h, "loop", from), t \in {"(", OpenBrace},
         NEW c, NEW m, NEW mm, NEW k, k = Len(r), Entered(c, mm, args, ops, t, <<>>, k), m.from = from
  PROVE  Suspended(r, T, c, m, mm)
<1>1. t \in Plain /\ t # "rotate" /\ t # "["
  BY Classes, OddTokens
<1>2. Waits(r, T, args, ops, from, Len(r))
  BY <1>1, AwaitedThere, KeepsItself
<1>3. Opened(r, c, mm) /\ InElement(r, T, c, mm)
  <2> DEFINE none == <<>>
  <2>1. Entered(c, mm, args, ops, t, none, k)
    OBVIOUS
  <2>2. t = (IF t = "rotate" THEN "(" ELSE t)
    BY <1>1
  <2>3. t \in {"(", "["} \/ none = <<>>
    OBVIOUS
  <2> HIDE DEF none
  <2> QED
    BY <2>1, <2>2, <2>3, EnteredIs
<1>4. c.operands = args /\ c.operators = ops /\ c.why = t /\ mm.open = Len(r)
  BY DEF Entered
<1>5. AtBracket(r, T, c, m, mm)
  <2>1. Waits(r, T, c.operands, c.operators, m.from, mm.open)
    BY <1>2, <1>4
  <2> QED
    BY <2>1 DEF AtBracket
<1>6. AtRotate(r, T, c, m, mm) /\ AtIndex(r, T, c, m, mm)
  BY <1>1, <1>4 DEF AtRotate, AtIndex
<1> QED
  BY <1>3, <1>5, <1>6, SuspendedIs

LEMMA IndexOpened ==
  ASSUME NEW s, NEW r, NEW t, Extends(s, r, t), NEW T, NEW args, NEW ops, NEW h, h # <<>>, Len(h) \in Nat,
         Len(h) > 0, NEW from, Active(s, T, args, ops, h, "target", from), t = "[",
         NEW c, NEW m, NEW mm, NEW k, k = Len(r), Entered(c, mm, args, ops, t, h, k), m.from = from
  PROVE  Suspended(r, T, c, m, mm)
<1>1. PICK x \in 1..Len(s) : Waits(s, T, args, ops, from, x) /\ TargetAt(s, T, h, x, Len(s))
  BY TargetRuns
<1>2. Agree(s, r, Len(s)) /\ Len(s) \in Nat /\ Len(r) = Len(s) + 1
  BY ExtendsIs
<1>3. Waits(r, T, args, ops, from, x)
  BY <1>1, <1>2, KeepsItself, WaitsAgree
<1> DEFINE e == mm.open - 1
<1>4. TargetAt(r, T, h, x, Len(s))
  BY <1>1, <1>2, KeepsItself, TargetAgree
<1>5. Opened(r, c, mm) /\ InElement(r, T, c, mm)
  <2>1. t = (IF t = "rotate" THEN "(" ELSE t) /\ t \in {"(", "["}
    OBVIOUS
  <2> QED
    BY <2>1, EnteredIs
<1>6. c.operands = args /\ c.operators = ops /\ c.why = t /\ c.held = h /\ mm.open = Len(r)
  BY DEF Entered
<1>7. e = Len(s) /\ x \in 1..e
  BY <1>2, <1>6
<1>8. AtIndex(r, T, c, m, mm)
  <2>1. Waits(r, T, c.operands, c.operators, m.from, x)
    BY <1>3, <1>6
  <2>2. TargetAt(r, T, c.held, x, e)
    BY <1>4, <1>6, <1>7
  <2> QED
    BY <1>7, <2>1, <2>2, Zenon DEF AtIndex, e
<1>9. AtBracket(r, T, c, m, mm) /\ AtRotate(r, T, c, m, mm)
  <2>1. c.why # "(" /\ c.why # OpenBrace /\ c.why # "rotate"
    BY <1>6, OddTokens
  <2> QED
    BY <2>1 DEF AtBracket, AtRotate
<1> QED
  BY <1>5, <1>8, <1>9, SuspendedIs

LEMMA RotateOpened ==
  ASSUME NEW s, NEW r, NEW t, Extends(s, r, t), NEW T, NEW args, NEW ops, NEW h, NEW from,
         Active(s, T, args, ops, h, "rotate", from), t = "(",
         NEW c, NEW m, NEW mm, NEW k, k = Len(r), Entered(c, mm, args, ops, "rotate", <<>>, k), m.from = from
  PROVE  Suspended(r, T, c, m, mm)
<1>1. Len(s) > 0 /\ s[Len(s)] = "rotate" /\ Waits(s, T, args, ops, from, Len(s))
  <2>1. Active(s, T, args, ops, h, "rotate", from) <=>
          Len(s) > 0 /\ s[Len(s)] = "rotate" /\ Waits(s, T, args, ops, from, Len(s))
    BY ActiveIs
  <2> QED
    BY <2>1
<1>2. Agree(s, r, Len(s)) /\ Len(s) \in Nat /\ Len(r) = Len(s) + 1 /\ r[Len(s)] = s[Len(s)]
  BY <1>1, ExtendsIs
<1> DEFINE e == mm.open - 1
           n == Len(s)
<1>3. Waits(r, T, args, ops, from, n)
  BY <1>1, <1>2, KeepsItself, WaitsAgree
<1>4. Opened(r, c, mm) /\ InElement(r, T, c, mm)
  <2> DEFINE none == <<>>
             why == "rotate"
  <2>1. Entered(c, mm, args, ops, why, none, k)
    OBVIOUS
  <2>2. t = (IF why = "rotate" THEN "(" ELSE why)
    OBVIOUS
  <2>3. why \in {"(", "["} \/ none = <<>>
    OBVIOUS
  <2> HIDE DEF none, why
  <2> QED
    BY <2>1, <2>2, <2>3, EnteredIs
<1>5. c.operands = args /\ c.operators = ops /\ c.why = "rotate" /\ mm.open = Len(r)
  BY DEF Entered
<1>6. e = n /\ mm.open > 1
  BY <1>1, <1>2, <1>5
<1>7. AtRotate(r, T, c, m, mm)
  <2>1. r[n] = "rotate"
    BY <1>1, <1>2
  <2> HIDE DEF n, e
  <2>2. Waits(r, T, c.operands, c.operators, m.from, e)
    BY <1>3, <1>5, <1>6
  <2>3. r[e] = "rotate"
    BY <1>6, <2>1
  <2> QED
    BY <1>6, <2>2, <2>3, Zenon DEF AtRotate, e
<1>8. AtBracket(r, T, c, m, mm) /\ AtIndex(r, T, c, m, mm)
  <2>1. c.why # "(" /\ c.why # OpenBrace /\ c.why # "["
    BY <1>5, OddTokens
  <2> QED
    BY <2>1 DEF AtBracket, AtIndex
<1> QED
  BY <1>4, <1>7, <1>8, SuspendedIs

\* A call that returns has read the element it was called for.
LEMMA ReturnReads ==
  ASSUME NEW S, NEW s, Len(s) \in Nat, NEW T, NEW args \in Seq(S), NEW ops, NEW h, NEW from,
         Active(s, T, args, ops, h, "return", from), Len(s) > 0, EndsOperand(s[Len(s)]),
         NEW y, y = args[1]
  PROVE  Reads(s, T[y], from, Len(s))
<1> DEFINE e == Len(s)
<1>1. Has(s, T, args, ops, from, e) /\ ops = <<>> /\ Len(args) = 1
  <2>1. Active(s, T, args, ops, h, "return", from) <=>
          /\ Len(s) > 0 /\ EndsOperand(s[Len(s)]) => Has(s, T, args, ops, from, Len(s))
          /\ ops = <<>> /\ Len(args) = 1
    BY ActiveIs
  <2> QED
    BY <2>1
<1>2. 1 \in 1..Len(args) /\ ~(1 <= Len(ops))
  BY <1>1
<1> HIDE DEF e
<1>3. Reads(s, T[args[1]], First(ops, from, 1), Final(ops, 1, e))
  BY <1>1, <1>2, Zenon DEF Has, Pieces
<1>4. First(ops, from, 1) = from /\ Final(ops, 1, e) = e
  BY <1>2, Zenon DEF First, Final
<1> QED
  BY <1>3, <1>4, Zenon DEF e

\* An operand that ends where the text ends.
LEMMA OperandClosed ==
  ASSUME NEW S, NEW s, NEW r, Agree(s, r, Len(s)), Regular(s), NEW T, NEW U, NEW args \in Seq(S), NEW ops,
         Len(ops) \in Nat, NEW from, NEW x \in 1..Len(s), Waits(s, T, args, ops, from, x), s[x] # "int",
         Keeps(T, U, args), NEW m \in S, NEW e, e = Len(r), Atom(r, U[m], x, e), NEW g
  PROVE  Active(r, U, Append(args, m), ops, g, "apply", from)
<1>1. Len(s) \in Nat
  BY AgreeIs
<1>2. ~(Len(ops) = 1 /\ args = <<>> /\ ops[1].op = "-")
  BY <1>1, NoSign
<1>3. Waits(r, U, args, ops, from, x)
  BY WaitsAgree
<1>4. \/ HasRead(r, U, Append(args, m), ops, from)
      \/ ReadBehind(r, U, Append(args, m), ops, from)
  BY <1>2, <1>3, OperandRead
<1> QED
  BY <1>4, ActiveIs, Zenon

\* A bracket that closes, a comma or the end of a call, behind an element y.
Closed(S, s, r, t, T, c, m, mm, y) ==
  /\ Extends(s, r, t) /\ Regular(s) /\ Suspended(s, T, c, m, mm)
  /\ c.operands \in Seq(S) /\ c.operators \in Seq(OperatorEntry) /\ c.held \in Seq(S)
  /\ y \in S /\ Reads(s, T[y], mm.from, Len(s))

\* What Closed says.
LEMMA ClosedIs ==
  ASSUME NEW S, NEW s, NEW r, NEW t, NEW T, NEW c, NEW m, NEW mm, NEW y,
         Closed(S, s, r, t, T, c, m, mm, y)
  PROVE  /\ Extends(s, r, t) /\ Regular(s) /\ Agree(s, r, Len(s)) /\ Len(s) \in Nat
         /\ Len(r) = Len(s) + 1 /\ r[Len(s) + 1] = t /\ Len(r) \in 1..Len(r)
         /\ Opened(s, c, mm) /\ AtBracket(s, T, c, m, mm) /\ AtRotate(s, T, c, m, mm)
         /\ AtIndex(s, T, c, m, mm) /\ InElement(s, T, c, mm)
         /\ c.operands \in Seq(S) /\ c.operators \in Seq(OperatorEntry) /\ c.held \in Seq(S)
         /\ Len(c.operators) \in Nat /\ Len(c.held) \in Nat
         /\ y \in S /\ Reads(s, T[y], mm.from, Len(s)) /\ Reads(r, T[y], mm.from, Len(s))
         /\ mm.open \in 1..Len(s) /\ mm.open \in 1..Len(r) /\ mm.from \in mm.open + 1..Len(s)
         /\ s[mm.open] = IF c.why = "rotate" THEN "(" ELSE c.why
         /\ r[mm.open] = s[mm.open]
<1>1. /\ Extends(s, r, t) /\ Regular(s) /\ Suspended(s, T, c, m, mm)
      /\ c.operands \in Seq(S) /\ c.operators \in Seq(OperatorEntry) /\ c.held \in Seq(S)
      /\ y \in S /\ Reads(s, T[y], mm.from, Len(s))
  BY Zenon DEF Closed
<1>2. Len(c.operators) \in Nat /\ Len(c.held) \in Nat
  BY <1>1, LenProperties
<1>3. /\ Agree(s, r, Len(s)) /\ Len(s) \in Nat /\ Len(r) = Len(s) + 1 /\ r[Len(s) + 1] = t
      /\ Len(r) \in 1..Len(r)
  BY <1>1, ExtendsIs
<1>4. /\ Opened(s, c, mm) /\ AtBracket(s, T, c, m, mm) /\ AtRotate(s, T, c, m, mm)
      /\ AtIndex(s, T, c, m, mm) /\ InElement(s, T, c, mm)
  BY <1>1, SuspendedIs
<1>5. Reads(r, T[y], mm.from, Len(s)) /\ mm.from \in 1..Len(s)
  BY <1>1, <1>3, ReadsAgree
<1>6. /\ mm.open \in 1..Len(s) /\ mm.from \in mm.open + 1..Len(s) + 1
      /\ s[mm.open] = IF c.why = "rotate" THEN "(" ELSE c.why
  BY <1>4 DEF Opened
<1>7. /\ mm.open \in 1..Len(s) /\ mm.open \in 1..Len(r) /\ mm.from \in mm.open + 1..Len(s)
      /\ r[mm.open] = s[mm.open]
  BY <1>3, <1>5, <1>6, AgreeIs
<1> QED
  BY <1>1, <1>2, <1>3, <1>4, <1>5, <1>6, <1>7

\* A bracketed expression ends.
LEMMA RoundClosed ==
  ASSUME NEW S, NEW s, NEW r, NEW t, NEW T, NEW c, NEW m, NEW mm, NEW y,
         Closed(S, s, r, t, T, c, m, mm, y), c.why = "(", t = ")", NEW g
  PROVE  Active(r, T, Append(c.operands, y), c.operators, g, "apply", m.from)
<1> DEFINE o == mm.open
           a == mm.from
           b == Len(s)
           hi == Len(r)
           u == T[y]
<1>1. /\ o \in 1..Len(r) /\ o \in 1..b /\ hi \in 1..Len(r) /\ b = hi - 1 /\ hi \in Nat /\ hi = Len(r)
      /\ r[hi] = ")" /\ r[o] = "(" /\ s[o] = "(" /\ Reads(r, u, a, b) /\ b = Len(s) /\ b \in Nat
  <2>1. /\ Len(s) \in Nat /\ Len(r) = Len(s) + 1 /\ r[Len(s) + 1] = t /\ Len(r) \in 1..Len(r)
        /\ Reads(r, T[y], mm.from, Len(s)) /\ mm.open \in 1..Len(s) /\ mm.open \in 1..Len(r)
        /\ s[mm.open] = (IF c.why = "rotate" THEN "(" ELSE c.why) /\ r[mm.open] = s[mm.open]
    BY ClosedIs
  <2> QED
    BY <2>1
<1>2. a = o + 1 /\ Waits(s, T, c.operands, c.operators, m.from, o)
  <2>1. AtBracket(s, T, c, m, mm) /\ InElement(s, T, c, mm)
    BY ClosedIs
  <2> QED
    BY <2>1 DEF AtBracket, InElement
<1>3. /\ Regular(s) /\ Agree(s, r, Len(s)) /\ c.operands \in Seq(S) /\ Len(c.operators) \in Nat /\ y \in S
  BY ClosedIs
<1> HIDE DEF o, a, b, hi
<1>4. Atom(r, u, o, hi)
  <2> HIDE DEF u
  <2>1. Len(r) \in Nat
    BY <1>1
  <2> QED
    BY <1>1, <1>2, <2>1, AtomRound
<1>5. s[o] # "int" /\ o \in 1..Len(s) /\ hi = Len(r)
  BY <1>1 DEF b
<1> DEFINE args == c.operands
           ops == c.operators
           f == m.from
<1>6. Waits(s, T, args, ops, f, o) /\ args \in Seq(S) /\ Len(ops) \in Nat
  BY <1>2, <1>3
<1> HIDE DEF args, ops, f
<1>7. Active(r, T, Append(args, y), ops, g, "apply", f)
  BY <1>3, <1>4, <1>5, <1>6, KeepsItself, OperandClosed
<1> QED
  BY <1>7, Zenon DEF args, ops, f

\* One more index.
Nested(T, h, v) == \E nest : Nests(T, h, nest) /\ nest[Len(h)] = v

LEMMA NestsMore ==
  ASSUME NEW S, NEW T, NEW h \in Seq(S), h # <<>>, NEW y \in S, NEW v, Nested(T, h, v)
  PROVE  Nested(T, Append(h, y), Tree("index", 0, <<v, T[y]>>))
<1> DEFINE n == Len(h)
<1> PICK nest : Nests(T, h, nest) /\ nest[n] = v
  BY DEF Nested
<1> DEFINE g == Append(h, y)
<1>1. n \in Nat /\ n > 0 /\ Len(g) = n + 1 /\ g[n + 1] = y /\ \A i \in 1..n : g[i] = h[i]
  BY LenProperties, AppendProperties, EmptySeq
<1>2. /\ nest[1] = T[h[1]]
      /\ \A i \in 1..n - 1 : nest[i + 1] = Tree("index", 0, <<nest[i], T[h[i + 1]]>>)
  BY Zenon DEF Nests
<1> DEFINE last == Tree("index", 0, <<nest[n], T[y]>>)
           best == [i \in 1..n + 1 |-> IF i = n + 1 THEN last ELSE nest[i]]
<1> HIDE DEF last
<1>3. best[n + 1] = last /\ \A i \in 1..n : best[i] = nest[i]
  BY <1>1
<1> HIDE DEF best, g
<1>4. best[1] = T[g[1]]
  BY <1>1, <1>2, <1>3
<1>5. ASSUME NEW i \in 1..n PROVE best[i + 1] = Tree("index", 0, <<best[i], T[g[i + 1]]>>)
  <2>1. CASE i = n
    <3>1. best[i + 1] = last /\ best[i] = nest[n] /\ g[i + 1] = y
      BY <1>1, <1>3, <2>1
    <3> QED
      BY <3>1, Zenon DEF last
  <2>2. CASE i # n
    <3> DEFINE j == i + 1
    <3>1. i \in 1..n - 1 /\ j \in 1..n
      BY <1>1, <2>2
    <3>2. nest[j] = Tree("index", 0, <<nest[i], T[h[j]]>>)
      BY <1>2, <3>1
    <3>3. best[j] = nest[j] /\ best[i] = nest[i] /\ g[j] = h[j]
      BY <1>1, <1>3, <3>1
    <3> HIDE DEF j
    <3>4. best[j] = Tree("index", 0, <<best[i], T[g[j]]>>)
      BY <3>2, <3>3, Zenon
    <3> QED
      BY <3>4, Zenon DEF j
  <2> QED
    BY <2>1, <2>2
<1>6. Nests(T, g, best)
  <2>1. Len(g) - 1 = n
    BY <1>1
  <2> QED
    BY <1>4, <1>5, <2>1, Zenon DEF Nests
<1>7. best[Len(g)] = last
  BY <1>1, <1>3
<1> QED
  BY <1>6, <1>7, Zenon DEF g, last, Nested

\* An index ends.
LEMMA SquareClosed ==
  ASSUME NEW S, NEW s, NEW r, NEW t, NEW T, NEW c, NEW m, NEW mm, NEW y,
         Closed(S, s, r, t, T, c, m, mm, y), c.why = "[", t = "]"
  PROVE  Active(r, T, c.operands, c.operators, Append(c.held, y), "target", m.from)
<1> DEFINE o == mm.open
           a == mm.from
           b == Len(s)
           e == o - 1
           hi == Len(r)
           u == T[y]
           h == c.held
<1>1. /\ o \in 1..Len(r) /\ o \in 1..b /\ hi \in 1..Len(r) /\ b = hi - 1 /\ hi \in Nat /\ hi = Len(r)
      /\ r[hi] = "]" /\ r[o] = "[" /\ s[o] = "[" /\ Reads(r, u, a, b) /\ b = Len(s) /\ b \in Nat
  <2>1. /\ Len(s) \in Nat /\ Len(r) = Len(s) + 1 /\ r[Len(s) + 1] = t /\ Len(r) \in 1..Len(r)
        /\ Reads(r, T[y], mm.from, Len(s)) /\ mm.open \in 1..Len(s) /\ mm.open \in 1..Len(r)
        /\ s[mm.open] = (IF c.why = "rotate" THEN "(" ELSE c.why) /\ r[mm.open] = s[mm.open]
    BY ClosedIs
  <2> QED
    BY <2>1
<1>2. AtIndex(s, T, c, m, mm) /\ InElement(s, T, c, mm)
  BY ClosedIs
<1>3. a = o + 1
  BY <1>2 DEF InElement
<1>4. PICK x \in 1..e : Waits(s, T, c.operands, c.operators, m.from, x) /\ TargetAt(s, T, h, x, e)
  BY <1>2 DEF AtIndex
<1>5. Agree(s, r, Len(s)) /\ h \in Seq(S) /\ Len(h) \in Nat /\ y \in S
  BY ClosedIs
<1>6. h # <<>> /\ s[x] = "id" /\ \E nest : Nests(T, h, nest) /\ Atom(s, nest[Len(h)], x, e)
  BY <1>4, Zenon DEF TargetAt
<1>7. PICK nest : Nests(T, h, nest) /\ Atom(s, nest[Len(h)], x, e)
  BY <1>6
<1> DEFINE n == Len(h)
           w == nest[n]
           g == Append(h, y)
           new == Tree("index", 0, <<w, u>>)
<1>8. Atom(r, w, x, e)
  BY <1>5, <1>7, AtomAgree
<1>9. PICK best : Nests(T, g, best) /\ best[Len(g)] = new
  <2>1. Nested(T, h, w)
    BY <1>7, Zenon DEF Nested
  <2> HIDE DEF h, w, u
  <2>2. Nested(T, Append(h, y), Tree("index", 0, <<w, T[y]>>))
    BY <1>5, <1>6, <2>1, NestsMore
  <2> QED
    BY <2>2, Zenon DEF Nested, g, new, u
<1>10. x \in 1..Len(r) /\ r[x] = "id" /\ x < o /\ x \in Int /\ o \in Int
  <2>1. x \in 1..Len(s) /\ x < o /\ x \in Int /\ o \in Int
    BY <1>1
  <2>2. \A p \in 1..Len(s) : s[p] = r[p]
    BY <1>5, AgreeIs
  <2>3. r[x] = "id"
    BY <1>6, <2>1, <2>2
  <2> QED
    BY <1>1, <1>6, <2>1, <2>3
<1>11. IndexAt(r, x, o, hi, e, a, b)
  BY <1>1, <1>3, <1>10 DEF IndexAt
<1> HIDE DEF o, a, b, e, hi, w, u
<1>12. Atom(r, new, x, hi)
  BY <1>1, <1>8, <1>10, <1>11, AtomIndex
<1>13. g # <<>>
  BY <1>5
<1> HIDE DEF g, new, h
<1>14. TargetAt(r, T, g, x, hi)
  <2>1. Atom(r, best[Len(g)], x, hi)
    BY <1>9, <1>12
  <2> QED
    BY <1>9, <1>10, <1>13, <2>1, Zenon DEF TargetAt
<1>15. Waits(r, T, c.operands, c.operators, m.from, x)
  BY <1>4, <1>5, KeepsItself, WaitsAgree
<1>16. Active(r, T, c.operands, c.operators, g, "target", m.from)
  BY <1>10, <1>14, <1>15, ActiveIs, Zenon DEF hi
<1> QED
  BY <1>16, Zenon DEF g, h

\* The trees of the nodes g.
TreesAt(T, g) == [i \in 1..Len(g) |-> T[g[i]]]

LEMMA TreesAppend ==
  ASSUME NEW S, NEW T, NEW h \in Seq(S), NEW y \in S
  PROVE  /\ TreesAt(T, Append(h, y)) = Append(TreesAt(T, h), T[y])
         /\ h = <<>> => TreesAt(T, Append(h, y)) = <<T[y]>>
<1> DEFINE g == Append(h, y)
           n == Len(h)
           ts == TreesAt(T, h)
           us == TreesAt(T, g)
<1>1. n \in Nat /\ Len(g) = n + 1 /\ g[n + 1] = y /\ \A i \in 1..n : g[i] = h[i]
  BY LenProperties, AppendProperties
<1> HIDE DEF g
<1>2. /\ DOMAIN ts = 1..n /\ DOMAIN us = 1..n + 1 /\ us[n + 1] = T[y]
      /\ \A i \in 1..n : us[i] = ts[i]
  BY <1>1 DEF TreesAt
<1>3. ts = [i \in 1..n |-> T[h[i]]] /\ us = [i \in 1..n + 1 |-> T[g[i]]]
  BY <1>1 DEF TreesAt
<1> DEFINE V == {T[h[i]] : i \in 1..n} \cup {T[y]}
           v == T[y]
<1>4. ts \in Seq(V) /\ Len(ts) = n /\ us \in Seq(V) /\ Len(us) = n + 1 /\ v \in V
  <2>1. ts \in [1..n -> V] /\ us \in [1..n + 1 -> V]
    <3>1. \A i \in 1..n : T[h[i]] \in V
      OBVIOUS
    <3>2. \A i \in 1..n + 1 : T[g[i]] \in V
      <4>1. \A i \in 1..n + 1 : i = n + 1 \/ i \in 1..n
        BY <1>1
      <4> QED
        BY <1>1, <4>1
    <3> HIDE DEF ts, us, V
    <3> QED
      BY <1>3, <3>1, <3>2
  <2> HIDE DEF ts, us, V
  <2>2. ts \in Seq(V) /\ us \in Seq(V)
    <3>1. n + 1 \in Nat
      BY <1>1
    <3> QED
      BY <1>1, <2>1, <3>1, SeqDef
  <2>3. Len(ts) = n /\ Len(us) = n + 1
    BY <1>1, <1>2, <2>2, LenProperties
  <2> QED
    BY <2>2, <2>3 DEF V
<1> HIDE DEF ts, us, V, n
<1> DEFINE ws == Append(ts, v)
<1>5. ws \in Seq(V) /\ Len(ws) = n + 1 /\ ws[n + 1] = v /\ \A i \in 1..n : ws[i] = ts[i]
  <2> HIDE DEF v
  <2> QED
    BY <1>1, <1>4, AppendProperties
<1>6. DOMAIN ws = 1..n + 1
  BY <1>5, LenProperties
<1>7. ws = us
  <2>1. \A i \in 1..n + 1 : ws[i] = us[i]
    BY <1>1, <1>2, <1>5
  <2> HIDE DEF ws
  <2> QED
    BY <1>4, <1>5, <2>1, SeqEqual
<1>8. h = <<>> => us = <<T[y]>>
  <2> SUFFICES ASSUME h = <<>> PROVE us = <<T[y]>>
    OBVIOUS
  <2>1. n = 0
    BY DEF n
  <2> QED
    BY <1>2, <1>3, <2>1
<1> QED
  BY <1>7, <1>8, Zenon DEF ws, us, ts, g, v

\* What stands in the bracket that a list or the arguments of rotate are in.
Grouped(S, s, r, t, T, c, m, mm, y, a, g) ==
  /\ Closed(S, s, r, t, T, c, m, mm, y) /\ c.why \in {OpenBrace, "rotate"}
  /\ a = mm.open + 1 /\ g = Append(c.held, y)

\* The elements in front of a comma or a closing bracket.
LEMMA ElementsRead ==
  ASSUME NEW S, NEW s, NEW r, NEW t, NEW T, NEW c, NEW m, NEW mm, NEW y, NEW a, NEW g,
         Grouped(S, s, r, t, T, c, m, mm, y, a, g)
  PROVE  /\ Reading(r)[<<a, Len(s)>>].kind # "none"
         /\ Elements(Reading(r)[<<a, Len(s)>>]) = TreesAt(T, g)
         /\ a \in 1..Len(s)
<1> DEFINE h == c.held
           f == mm.from
           L == Len(s)
           u == T[y]
<1> /\ Closed(S, s, r, t, T, c, m, mm, y) /\ c.why \in {OpenBrace, "rotate"}
    /\ a = mm.open + 1 /\ g = Append(c.held, y)
  BY DEF Grouped
<1>1. /\ h \in Seq(S) /\ Len(h) \in Nat /\ y \in S /\ Reads(s, u, f, L) /\ L \in Nat /\ L = Len(s)
      /\ Agree(s, r, Len(s)) /\ InElement(s, T, c, mm) /\ a \in 1..L /\ f \in a..L /\ mm.open \in 1..L
  <2>1. /\ c.held \in Seq(S) /\ Len(c.held) \in Nat /\ y \in S /\ Reads(s, T[y], mm.from, Len(s))
        /\ Len(s) \in Nat /\ Agree(s, r, Len(s)) /\ InElement(s, T, c, mm)
        /\ mm.open \in 1..Len(s) /\ mm.from \in mm.open + 1..Len(s)
    BY ClosedIs
  <2> QED
    BY <2>1
<1> HIDE DEF L, f
<1>2. Reading(s)[<<f, L>>] = u /\ IsExpression(u)
  BY <1>1, Zenon DEF Reads
<1>3. ~(c.why \in {"(", "["})
  BY OddTokens
<1>4. CASE h = <<>>
  <2>1. f = a
    BY <1>1, <1>4 DEF InElement, f
  <2>2. Reading(s)[<<a, L>>] = u
    BY <1>2, <2>1
  <2>3. u.kind # "none" /\ Elements(u) = <<u>>
    BY <1>2, ElementsAre, ExpressionIs
  <2>4. TreesAt(T, g) = <<u>>
    <3>1. h \in Seq(S) /\ y \in S
      BY <1>1
    <3>2. TreesAt(T, Append(h, y)) = <<T[y]>>
      <4> HIDE DEF h
      <4> QED
        BY <1>4, <3>1, TreesAppend
    <3> QED
      BY <3>2
  <2>5. Reading(r)[<<a, L>>] = u
    <3>1. a \in 1..Len(s) + 1 /\ L \in 0..Len(s)
      BY <1>1
    <3>2. Reading(s)[<<a, L>>] = Reading(r)[<<a, L>>]
      BY <1>1, <3>1, ReadingAgrees
    <3> QED
      BY <2>2, <3>2
  <2>6. Reading(r)[<<a, L>>].kind # "none" /\ Elements(Reading(r)[<<a, L>>]) = TreesAt(T, g)
    BY <2>3, <2>4, <2>5, Zenon
  <2> QED
    BY <1>1, <2>6 DEF L
<1>5. CASE h # <<>>
  <2> DEFINE k == f - 1
             e == f - 2
             before == Reading(s)[<<a, e>>]
  <2>1. Gathered(s, T, h, mm)
    BY <1>1, <1>5 DEF InElement
  <2>2. s[k] = Comma /\ before.kind # "none" /\ Elements(before) = TreesAt(T, h)
    <3>1. /\ s[mm.from - 1] = Comma
          /\ Reading(s)[<<mm.open + 1, mm.from - 2>>].kind # "none"
          /\ Elements(Reading(s)[<<mm.open + 1, mm.from - 2>>]) = TreesAt(T, h)
      BY <2>1, Zenon DEF Gathered, TreesAt
    <3> QED
      BY <3>1 DEF f
  <2>3. k \in 1..Len(s) /\ e = k - 1 /\ f = k + 1 /\ a \in 1..Len(s) /\ Len(s) \in Nat
    <3>1. mm.from > mm.open + 2
      BY <2>1, Zenon DEF Gathered
    <3>2. f > a + 1
      BY <3>1, <1>1 DEF f
    <3> QED
      BY <1>1, <3>2
  <2> HIDE DEF k, e
  <2>4. /\ Reading(s)[<<a, L>>] = Tree("elements", 0, Append(Elements(Reading(s)[<<a, e>>]), u))
    <3>1. Reading(s)[<<a, e>>].kind # "none"
      BY <2>2
    <3>2. s[k] = Comma
      BY <2>2
    <3> HIDE DEF u
    <3> QED
      <4>1. Behind(s, u, a, e, k, f, L)
        BY <1>1, <2>3, <3>1, <3>2 DEF Behind
      <4> QED
        BY <2>3, <4>1, MoreElements
  <2>5. TreesAt(T, g) = Append(TreesAt(T, h), u)
    BY <1>1, TreesAppend
  <2> DEFINE whole == Tree("elements", 0, Append(TreesAt(T, h), u))
  <2>6. Reading(s)[<<a, L>>] = whole
    BY <2>2, <2>4, Zenon
  <2>7. whole.kind # "none" /\ Elements(whole) = TreesAt(T, g)
    <3>1. whole.kind = "elements"
      BY TreeIs, Zenon
    <3>2. Elements(whole) = Append(TreesAt(T, h), u)
      BY ElementsAre, Zenon
    <3> QED
      BY <2>5, <3>1, <3>2
  <2>8. Reading(s)[<<a, L>>] = Reading(r)[<<a, L>>]
    <3>1. a \in 1..Len(s) + 1 /\ L \in 0..Len(s)
      BY <1>1
    <3> QED
      BY <1>1, <3>1, ReadingAgrees
  <2> HIDE DEF whole
  <2>9. Reading(r)[<<a, L>>] = whole
    BY <2>6, <2>8
  <2>10. Reading(r)[<<a, L>>].kind # "none" /\ Elements(Reading(r)[<<a, L>>]) = TreesAt(T, g)
    BY <2>7, <2>9, Zenon
  <2> QED
    BY <1>1, <2>10 DEF L
<1> QED
  BY <1>4, <1>5

\* The call c with one element more.
Extended(r, c, d, mm, ml, y) ==
  /\ d.operands = c.operands /\ d.operators = c.operators /\ d.why = c.why
  /\ d.held = Append(c.held, y) /\ ml.open = mm.open /\ ml.from = Len(r) + 1

\* Another element begins.
LEMMA ArgumentRead ==
  ASSUME NEW S, NEW s, NEW r, NEW t, NEW T, NEW c, NEW m, NEW mm, NEW y,
         Closed(S, s, r, t, T, c, m, mm, y), c.why \in {OpenBrace, "rotate"}, t = Comma,
         c.why = "rotate" => c.held = <<>>,
         NEW d, NEW ml, Extended(r, c, d, mm, ml, y), NEW g
  PROVE  /\ Suspended(r, T, d, m, ml)
         /\ Active(r, T, <<>>, <<>>, g, "loop", ml.from)
<1> /\ d.operands = c.operands /\ d.operators = c.operators /\ d.why = c.why
    /\ d.held = Append(c.held, y) /\ ml.open = mm.open /\ ml.from = Len(r) + 1
  BY DEF Extended
<1> DEFINE o == mm.open
           a == o + 1
           L == Len(s)
           h == d.held
<1>1. /\ L \in Nat /\ Len(r) = L + 1 /\ r[L + 1] = Comma /\ o \in 1..Len(r) /\ o \in 1..L /\ a \in 1..L
      /\ r[o] = s[o] /\ s[o] = (IF c.why = "rotate" THEN "(" ELSE c.why)
      /\ Agree(s, r, Len(s)) /\ c.held \in Seq(S) /\ y \in S
  <2>1. /\ Len(s) \in Nat /\ Len(r) = Len(s) + 1 /\ r[Len(s) + 1] = t /\ Len(r) \in 1..Len(r)
        /\ Agree(s, r, Len(s)) /\ c.held \in Seq(S) /\ y \in S /\ mm.from \in mm.open + 1..Len(s)
        /\ mm.open \in 1..Len(s) /\ mm.open \in 1..Len(r)
        /\ s[mm.open] = (IF c.why = "rotate" THEN "(" ELSE c.why) /\ r[mm.open] = s[mm.open]
    BY ClosedIs
  <2> QED
    BY <2>1
<1>2. AtBracket(s, T, c, m, mm) /\ AtRotate(s, T, c, m, mm)
  BY ClosedIs
<1>3. c.why # "(" /\ c.why # "["
  BY OddTokens
<1>4. Reading(r)[<<a, L>>].kind # "none" /\ Elements(Reading(r)[<<a, L>>]) = TreesAt(T, h)
  <2>1. a = mm.open + 1
    OBVIOUS
  <2> HIDE DEF a
  <2>2. /\ Reading(r)[<<a, Len(s)>>].kind # "none"
        /\ Elements(Reading(r)[<<a, Len(s)>>]) = TreesAt(T, h)
    <3>1. Grouped(S, s, r, t, T, c, m, mm, y, a, h)
      BY <2>1 DEF Grouped
    <3> HIDE DEF h
    <3> QED
      BY <3>1, ElementsRead
  <2> QED
    BY <2>2, Zenon
<1> HIDE DEF L
<1>5. Opened(r, d, ml)
  BY <1>1 DEF Opened
<1>6. InElement(r, T, d, ml)
  <2>1. Gathered(r, T, h, ml)
    <3>1. ml.from > ml.open + 2 /\ r[ml.from - 1] = Comma /\ ml.from - 2 = L /\ ml.open + 1 = a
      BY <1>1
    <3>2. /\ Reading(r)[<<ml.open + 1, ml.from - 2>>].kind # "none"
          /\ Elements(Reading(r)[<<ml.open + 1, ml.from - 2>>]) = TreesAt(T, h)
      <4> HIDE DEF a, h
      <4> QED
        BY <1>4, <3>1, Zenon
    <3> QED
      BY <3>1, <3>2, Zenon DEF Gathered, TreesAt
  <2>2. h # <<>> /\ (d.why = "rotate" => Len(h) = 1)
    <3>0. Len(Append(c.held, y)) = Len(c.held) + 1 /\ Len(c.held) \in Nat
      BY <1>1, AppendProperties, LenProperties
    <3>1. h # <<>>
      <4>1. Len(h) # 0
        BY <3>0
      <4> HIDE DEF h
      <4> QED
        BY <4>1
    <3>2. ASSUME d.why = "rotate" PROVE Len(h) = 1
      <4>1. c.held = <<>>
        BY <3>2
      <4>2. Len(h) = Len(c.held) + 1
        BY <1>1, AppendProperties
      <4> QED
        BY <4>1, <4>2
    <3> QED
      BY <3>1, <3>2
  <2>3. ~(d.why \in {"(", "["})
    BY <1>3
  <2> HIDE DEF h
  <2> QED
    BY <2>1, <2>2, <2>3, Zenon DEF InElement, h
<1>7. AtBracket(r, T, d, m, ml)
  <2> SUFFICES ASSUME c.why \in {"(", OpenBrace}
               PROVE  Waits(r, T, c.operands, c.operators, m.from, o)
    BY DEF AtBracket
  <2>1. Waits(s, T, c.operands, c.operators, m.from, o)
    BY <1>2 DEF AtBracket
  <2> HIDE DEF o
  <2> QED
    BY <1>1, <2>1, KeepsItself, WaitsAgree
<1>8. AtRotate(r, T, d, m, ml)
  <2> DEFINE b == o - 1
  <2> SUFFICES ASSUME c.why = "rotate"
               PROVE  o > 1 /\ r[b] = "rotate" /\ Waits(r, T, c.operands, c.operators, m.from, b)
    BY DEF AtRotate
  <2>1. o > 1 /\ s[b] = "rotate" /\ Waits(s, T, c.operands, c.operators, m.from, b)
    BY <1>2 DEF AtRotate
  <2>2. b \in 1..Len(s)
    BY <1>1, <2>1 DEF L
  <2>3. r[b] = s[b]
    BY <1>1, <2>2, AgreeIs
  <2> HIDE DEF b
  <2>4. Waits(r, T, c.operands, c.operators, m.from, b)
    BY <1>1, <2>1, KeepsItself, WaitsAgree
  <2> QED
    BY <2>1, <2>3, <2>4
<1>9. AtIndex(r, T, d, m, ml)
  BY <1>3 DEF AtIndex
<1>10. Active(r, T, <<>>, <<>>, g, "loop", ml.from)
  <2> DEFINE none == <<>>
             f == ml.from
  <2>1. f = Len(r) + 1
    OBVIOUS
  <2>2. Awaits(r, T, none, none, f)
    BY <2>1, NothingRead
  <2> HIDE DEF none, f
  <2>3. Active(r, T, none, none, g, "loop", f)
    BY <2>2, ActiveIs
  <2> QED
    BY <2>3, Zenon DEF none, f
<1> QED
  BY <1>5, <1>6, <1>7, <1>8, <1>9, <1>10, SuspendedIs

\* The end of a list.
LEMMA ListClosed ==
  ASSUME NEW S, NEW s, NEW r, NEW t, NEW T, NEW c, NEW m, NEW mm, NEW y,
         Closed(S, s, r, t, T, c, m, mm, y), c.why = OpenBrace, t = CloseBrace,
         NEW U, Keeps(T, U, c.operands), NEW z \in S, NEW g, g = Append(c.held, y),
         U[z] = Tree("list", 0, TreesAt(T, g)), NEW x
  PROVE  Active(r, U, Append(c.operands, z), c.operators, x, "apply", m.from)
<1> DEFINE o == mm.open
           a == o + 1
           b == Len(s)
           hi == Len(r)
           u == Reading(r)[<<a, b>>]
<1>1. /\ o \in 1..Len(r) /\ o \in 1..b /\ hi \in 1..Len(r) /\ b = hi - 1 /\ hi \in Nat /\ hi = Len(r)
      /\ r[hi] = CloseBrace /\ r[o] = OpenBrace /\ s[o] = OpenBrace /\ b = Len(s) /\ b \in Nat
  <2>1. /\ Len(s) \in Nat /\ Len(r) = Len(s) + 1 /\ r[Len(s) + 1] = t /\ Len(r) \in 1..Len(r)
        /\ mm.open \in 1..Len(s) /\ mm.open \in 1..Len(r)
        /\ s[mm.open] = (IF c.why = "rotate" THEN "(" ELSE c.why) /\ r[mm.open] = s[mm.open]
    BY ClosedIs
  <2>2. c.why # "rotate"
    BY OddTokens
  <2> QED
    BY <2>1, <2>2
<1>2. a = o + 1
  OBVIOUS
<1>3. u.kind # "none" /\ Elements(u) = TreesAt(T, g)
  <2> HIDE DEF a, o
  <2>1. Grouped(S, s, r, t, T, c, m, mm, y, a, g)
    BY <1>2 DEF Grouped, o
  <2> QED
    BY <2>1, ElementsRead
<1>4. Waits(s, T, c.operands, c.operators, m.from, o)
  <2>1. AtBracket(s, T, c, m, mm)
    BY ClosedIs
  <2> QED
    BY <2>1 DEF AtBracket
<1>5. /\ Regular(s) /\ Agree(s, r, Len(s)) /\ c.operands \in Seq(S) /\ Len(c.operators) \in Nat
  BY ClosedIs
<1> HIDE DEF o, a, b, hi
<1>6. Atom(r, U[z], o, hi)
  <2>1. Len(r) \in Nat /\ Reading(r)[<<a, b>>] = u
    BY <1>1
  <2> HIDE DEF u
  <2>2. Atom(r, Tree("list", 0, Elements(u)), o, hi)
    BY <1>1, <1>2, <1>3, <2>1, AtomList
  <2> QED
    BY <1>3, <2>2, Zenon
<1>7. s[o] # "int" /\ o \in 1..Len(s) /\ hi = Len(r)
  BY <1>1, OddTokens DEF Literals
<1> DEFINE args == c.operands
           ops == c.operators
           f == m.from
<1>8. Waits(s, T, args, ops, f, o) /\ args \in Seq(S) /\ Len(ops) \in Nat /\ Keeps(T, U, args)
  BY <1>4, <1>5
<1> HIDE DEF args, ops, f
<1>9. Active(r, U, Append(args, z), ops, x, "apply", f)
  BY <1>5, <1>6, <1>7, <1>8, OperandClosed
<1> QED
  BY <1>9, Zenon DEF args, ops, f

\* The end of a rotate call.
LEMMA RotateClosed ==
  ASSUME NEW S, NEW s, NEW r, NEW t, NEW T, NEW c, NEW m, NEW mm, NEW y,
         Closed(S, s, r, t, T, c, m, mm, y), c.why = "rotate", t = ")", c.held # <<>>,
         NEW U, Keeps(T, U, c.operands), NEW z \in S, NEW g, g = Append(c.held, y),
         U[z] = Tree("call", 0, TreesAt(T, g)), NEW x
  PROVE  Active(r, U, Append(c.operands, z), c.operators, x, "apply", m.from)
<1> DEFINE o == mm.open
           lo == o - 1
           a == o + 1
           b == Len(s)
           hi == Len(r)
           u == Reading(r)[<<a, b>>]
<1>1. /\ o \in 1..Len(r) /\ o \in 1..b /\ hi \in 1..Len(r) /\ b = hi - 1 /\ hi \in Nat /\ hi = Len(r)
      /\ r[hi] = ")" /\ r[o] = "(" /\ s[o] = "(" /\ b = Len(s) /\ b \in Nat
  <2>1. /\ Len(s) \in Nat /\ Len(r) = Len(s) + 1 /\ r[Len(s) + 1] = t /\ Len(r) \in 1..Len(r)
        /\ mm.open \in 1..Len(s) /\ mm.open \in 1..Len(r)
        /\ s[mm.open] = (IF c.why = "rotate" THEN "(" ELSE c.why) /\ r[mm.open] = s[mm.open]
    BY ClosedIs
  <2> QED
    BY <2>1
<1>2. a = o + 1
  OBVIOUS
<1>3. u.kind # "none" /\ Elements(u) = TreesAt(T, g)
  <2> HIDE DEF a, o
  <2>1. Grouped(S, s, r, t, T, c, m, mm, y, a, g)
    BY <1>2 DEF Grouped, o
  <2> QED
    BY <2>1, ElementsRead
<1>4. o > 1 /\ s[lo] = "rotate" /\ Waits(s, T, c.operands, c.operators, m.from, lo)
  <2>1. AtRotate(s, T, c, m, mm)
    BY ClosedIs
  <2> QED
    BY <2>1 DEF AtRotate
<1>5. /\ Regular(s) /\ Agree(s, r, Len(s)) /\ c.operands \in Seq(S) /\ Len(c.operators) \in Nat
      /\ c.held \in Seq(S) /\ Len(c.held) \in Nat /\ y \in S /\ InElement(s, T, c, mm)
  BY ClosedIs
<1>6. Len(Elements(u)) = 2
  <2>1. Len(c.held) = 1
    BY <1>5 DEF InElement
  <2>2. Len(g) = 2
    BY <1>5, <2>1, AppendProperties
  <2>3. Len(TreesAt(T, g)) = 2
    BY <2>2 DEF TreesAt
  <2> QED
    BY <1>3, <2>3
<1>7. lo \in 1..Len(s) /\ lo \in 1..Len(r) /\ o = lo + 1 /\ r[lo] = "rotate"
  <2>1. lo \in 1..Len(s) /\ lo \in 1..Len(r) /\ o = lo + 1
    BY <1>1, <1>4
  <2>2. \A p \in 1..Len(s) : s[p] = r[p]
    BY <1>5, AgreeIs
  <2> HIDE DEF lo
  <2> QED
    BY <1>4, <2>1, <2>2
<1> HIDE DEF o, a, b, hi, lo
<1>8. Atom(r, U[z], lo, hi)
  <2>1. Len(r) \in Nat /\ Reading(r)[<<a, b>>] = u
    BY <1>1
  <2> HIDE DEF u
  <2>2. Atom(r, Tree("call", 0, Elements(u)), lo, hi)
    BY <1>1, <1>2, <1>3, <1>6, <1>7, <2>1, AtomCall
  <2> QED
    BY <1>3, <2>2, Zenon
<1>9. s[lo] # "int" /\ hi = Len(r)
  BY <1>1, <1>4
<1> DEFINE args == c.operands
           ops == c.operators
           f == m.from
<1>10. Waits(s, T, args, ops, f, lo) /\ args \in Seq(S) /\ Len(ops) \in Nat /\ Keeps(T, U, args)
  BY <1>4, <1>5
<1> HIDE DEF args, ops, f
<1>11. Active(r, U, Append(args, z), ops, x, "apply", f)
  BY <1>5, <1>7, <1>8, <1>9, <1>10, OperandClosed
<1> QED
  BY <1>11, Zenon DEF args, ops, f

---------------------------------------------------------------------------
(* The invariant and its steps.                                            *)

\* The parse goes on, or has returned.
Known == pc \notin {"threw", "undefined"}
\* The invariant: what was read of a readable text has marks.
Understandable == Readable /\ Known => \E marks : Understood(TreeOf, marks)
\* The invariants it rests on.
Sound == TypeInv /\ OperatorStacksRise /\ Accounted

\* What they say.
LEMMA SoundIs ==
  ASSUME Sound
  PROVE  /\ TypeInv /\ TypeOK /\ OperatorStacksRise /\ Accounted /\ OwnsOlder(heap) /\ HeldShape
         /\ consumed \in Seq(AllTokens) /\ Len(consumed) \in Nat
         /\ operands \in Seq(NodeIds) /\ operator_stack \in Seq(OperatorEntry) /\ held \in Seq(NodeIds)
         /\ callers \in Seq(Frame) /\ Len(callers) \in Nat /\ Rising(operator_stack)
         /\ Len(operands) \in Nat /\ Len(operator_stack) \in Nat /\ Len(held) \in Nat
<1>1. TypeInv /\ TypeOK /\ OperatorStacksRise /\ Accounted /\ OwnsOlder(heap) /\ HeldShape
  BY DEF Sound, TypeInv, Accounted
<1>2. /\ consumed \in Seq(AllTokens) /\ operands \in Seq(NodeIds) /\ operator_stack \in Seq(OperatorEntry)
      /\ held \in Seq(NodeIds) /\ callers \in Seq(Frame)
  BY <1>1, Zenon DEF TypeOK
<1>3. Rising(operator_stack)
  BY <1>1, Zenon DEF OperatorStacksRise
<1> QED
  BY <1>1, <1>2, <1>3, LenProperties

LEMMA FrameIs ==
  ASSUME NEW c \in Frame
  PROVE  /\ c.operands \in Seq(NodeIds) /\ c.operators \in Seq(OperatorEntry) /\ c.held \in Seq(NodeIds)
         /\ c.why \in {"(", "[", OpenBrace, "rotate"}
BY Zenon DEF Frame, OpenBrace

\* Every suspended call is a frame.
LEMMA CallersAre ==
  ASSUME Sound, NEW d \in 1..Len(callers)
  PROVE  callers[d] \in Frame
<1>1. callers \in Seq(Frame)
  BY SoundIs
<1> QED
  BY <1>1, ElementOfSeq

\* The mark of the active call.
Origin(marks) == marks[Len(callers) + 1].from

\* What Understood says.
LEMMA UnderstoodIs ==
  ASSUME Sound, NEW marks, Understood(TreeOf, marks)
  PROVE  /\ Stacks(NodeIds, consumed, operands, operator_stack, Origin(marks))
         /\ Active(consumed, TreeOf, operands, operator_stack, held, pc, Origin(marks))
         /\ \A d \in 1..Len(callers) : Suspended(consumed, TreeOf, callers[d], marks[d], marks[d + 1])
<1>1. /\ marks[1].from = 1
      /\ Active(consumed, TreeOf, operands, operator_stack, held, pc, Origin(marks))
      /\ \A d \in 1..Len(callers) : Suspended(consumed, TreeOf, callers[d], marks[d], marks[d + 1])
  BY Zenon DEF Understood, Origin
<1>2. /\ Len(consumed) \in Nat /\ Len(callers) \in Nat
      /\ operands \in Seq(NodeIds) /\ operator_stack \in Seq(OperatorEntry)
  BY SoundIs
<1>3. Begins(consumed, Origin(marks))
  <2>1. CASE Len(callers) = 0
    <3>1. Origin(marks) = 1
      BY <1>1, <2>1 DEF Origin
    <3> QED
      BY <1>2, <3>1 DEF Begins
  <2>2. CASE Len(callers) # 0
    <3> DEFINE d == Len(callers)
               c == callers[d]
               mm == marks[d + 1]
    <3>1. d \in 1..Len(callers)
      BY <1>2, <2>2
    <3>2. Suspended(consumed, TreeOf, c, marks[d], mm)
      BY <1>1, <3>1
    <3>3. c.why \in {"(", "[", OpenBrace, "rotate"}
      BY <3>1, CallersAre, FrameIs
    <3> HIDE DEF c, mm
    <3>4. Begins(consumed, mm.from)
      BY <1>2, <3>2, <3>3, FromIs
    <3> QED
      BY <3>4 DEF Origin, mm
  <2> QED
    BY <2>1, <2>2
<1> QED
  BY <1>1, <1>2, <1>3 DEF Stacks

\* What a step keeps of the suspended calls, and what it adds.
LEMMA StillSuspended ==
  ASSUME Sound, NEW marks, Understood(TreeOf, marks), Keep, Agree(consumed, consumed', Len(consumed)),
         NEW d \in 1..Len(callers)
  PROVE  Suspended(consumed', TreeOf', callers[d], marks[d], marks[d + 1])
<1> DEFINE c == callers[d]
           m == marks[d]
           mm == marks[d + 1]
           r == consumed'
           U == TreeOf'
<1>1. Suspended(consumed, TreeOf, c, m, mm)
  BY UnderstoodIs
<1>2. c.operands \in Seq(NodeIds) /\ c.held \in Seq(NodeIds)
  BY CallersAre, FrameIs
<1>3. Agree(consumed, r, Len(consumed)) /\ \A n \in NodeIds : U[n] = TreeOf[n]
  BY DEF Keep
<1> HIDE DEF c, m, mm, r, U
<1>4. Suspended(r, U, c, m, mm)
  BY <1>1, <1>2, <1>3, SuspendedAgree
<1> QED
  BY <1>4 DEF c, m, mm, r, U

\* A step that changes the calls above the k-th.
LEMMA StepGeneral ==
  ASSUME Sound, NEW marks, Understood(TreeOf, marks), Keep, Agree(consumed, consumed', Len(consumed)),
         NEW k \in 0..Len(callers), \A d \in 1..k : callers'[d] = callers[d],
         NEW news, \A d \in 1..k + 1 : news[d] = marks[d], Len(callers') \in Nat, k <= Len(callers'),
         \A d \in k + 1..Len(callers') :
            Suspended(consumed', TreeOf', callers'[d], news[d], news[d + 1]),
         Active(consumed', TreeOf', operands', operator_stack', held', pc', news[Len(callers') + 1].from)
  PROVE  (\E ms : Understood(TreeOf, ms))'
<1>1. marks[1].from = 1 /\ Len(callers) \in Nat
  BY SoundIs, Zenon DEF Understood
<1>2. news[1].from = 1
  <2>1. 1 \in 1..k + 1
    BY <1>1
  <2> QED
    BY <1>1, <2>1
<1>3. ASSUME NEW d \in 1..Len(callers')
      PROVE  Suspended(consumed', TreeOf', callers'[d], news[d], news[d + 1])
  <2>1. CASE d \in 1..k
    <3> DEFINE e == d + 1
    <3>1. d \in 1..Len(callers) /\ d \in 1..k + 1 /\ e \in 1..k + 1
      BY <1>1, <2>1
    <3>2. Suspended(consumed', TreeOf', callers[d], marks[d], marks[e])
      BY <3>1, StillSuspended
    <3>3. news[d] = marks[d] /\ news[e] = marks[e] /\ callers'[d] = callers[d]
      BY <2>1, <3>1
    <3> HIDE DEF e
    <3>4. Suspended(consumed', TreeOf', callers'[d], news[d], news[e])
      BY <3>2, <3>3
    <3> QED
      BY <3>4 DEF e
  <2>2. CASE ~(d \in 1..k)
    <3>1. d \in k + 1..Len(callers')
      BY <1>1, <2>2
    <3> QED
      BY <3>1
  <2> QED
    BY <2>1, <2>2
<1>4. Understood(TreeOf, news)'
  BY <1>2, <1>3, Zenon DEF Understood
<1> QED
  BY <1>4, Zenon

\* The calls are the same.
LEMMA StepSame ==
  ASSUME Sound, NEW marks, Understood(TreeOf, marks), Keep, Agree(consumed, consumed', Len(consumed)),
         callers' = callers,
         Active(consumed', TreeOf', operands', operator_stack', held', pc', Origin(marks))
  PROVE  (\E ms : Understood(TreeOf, ms))'
<1> DEFINE k == Len(callers)
<1>1. k \in Nat /\ Len(callers') = k
  BY SoundIs
<1>2. k \in 0..Len(callers) /\ k <= Len(callers') /\ k + 1..Len(callers') = {}
  BY <1>1
<1>3. Active(consumed', TreeOf', operands', operator_stack', held', pc', marks[Len(callers') + 1].from)
  BY Zenon DEF Origin
<1>4. \A d \in 1..k : callers'[d] = callers[d]
  OBVIOUS
<1> HIDE DEF k
<1>5. \A d \in k + 1..Len(callers') :
        Suspended(consumed', TreeOf', callers'[d], marks[d], marks[d + 1])
  BY <1>2
<1> QED
  BY <1>1, <1>2, <1>3, <1>4, <1>5, StepGeneral

\* A call is suspended.
LEMMA StepEnter ==
  ASSUME Sound, NEW marks, Understood(TreeOf, marks), Keep, Agree(consumed, consumed', Len(consumed)),
         NEW S, NEW c \in S, callers \in Seq(S), callers' = Append(callers, c), NEW m, m.from = Origin(marks),
         NEW mm,
         NEW k, k = Len(callers) + 1, m = marks[k], Suspended(consumed', TreeOf', c, m, mm),
         Active(consumed', TreeOf', operands', operator_stack', held', pc', mm.from)
  PROVE  (\E ms : Understood(TreeOf, ms))'
<1> DEFINE n == Len(callers)
           j == k + 1
           news == [d \in 1..j |-> IF d = j THEN mm ELSE marks[d]]
<1>1. n \in Nat /\ Len(callers') = k /\ callers'[k] = c /\ \A d \in 1..n : callers'[d] = callers[d]
  <2>1. n \in Nat
    BY SoundIs
  <2> QED
    BY <2>1, AppendProperties
<1>2. /\ n \in 0..Len(callers) /\ n <= Len(callers') /\ Len(callers') + 1 = j /\ n + 1 = k
      /\ Len(callers') \in Nat
  BY <1>1
<1>3. news[j] = mm /\ news[k] = m /\ \A d \in 1..n + 1 : news[d] = marks[d]
  BY <1>1
<1> HIDE DEF news
<1>4. Active(consumed', TreeOf', operands', operator_stack', held', pc', news[Len(callers') + 1].from)
  BY <1>2, <1>3
<1>5. \A d \in n + 1..Len(callers') :
        Suspended(consumed', TreeOf', callers'[d], news[d], news[d + 1])
  <2> SUFFICES ASSUME NEW d \in n + 1..Len(callers')
               PROVE  Suspended(consumed', TreeOf', callers'[d], news[d], news[d + 1])
    OBVIOUS
  <2>1. d = k /\ d + 1 = j
    BY <1>1
  <2> QED
    BY <1>1, <1>3, <2>1
<1> HIDE DEF n
<1> QED
  BY <1>1, <1>2, <1>3, <1>4, <1>5, StepGeneral

\* A call comes back.
LEMMA StepResume ==
  ASSUME Sound, NEW marks, Understood(TreeOf, marks), Keep, Agree(consumed, consumed', Len(consumed)),
         callers # <<>>, callers' = Pop(callers), NEW n, n = Len(callers),
         Active(consumed', TreeOf', operands', operator_stack', held', pc', marks[n].from)
  PROVE  (\E ms : Understood(TreeOf, ms))'
<1> DEFINE k == n - 1
<1>1. n \in Nat /\ n > 0 /\ Len(callers') = k /\ \A d \in 1..k : callers'[d] = callers[d]
  <2>1. callers \in Seq(Frame) /\ n \in Nat
    BY SoundIs
  <2> QED
    BY <2>1, PopLemma
<1>2. /\ k \in 0..Len(callers) /\ k <= Len(callers') /\ Len(callers') + 1 = n /\ k + 1..Len(callers') = {}
      /\ Len(callers') \in Nat
  BY <1>1
<1> HIDE DEF k
<1>3. Active(consumed', TreeOf', operands', operator_stack', held', pc', marks[Len(callers') + 1].from)
  BY <1>2
<1>4. \A d \in k + 1..Len(callers') :
        Suspended(consumed', TreeOf', callers'[d], marks[d], marks[d + 1])
  BY <1>2
<1> QED
  BY <1>1, <1>2, <1>3, <1>4, StepGeneral

\* The caller expects another element.
LEMMA StepArgument ==
  ASSUME Sound, NEW marks, Understood(TreeOf, marks), Keep, Agree(consumed, consumed', Len(consumed)),
         NEW n, n = Len(callers), n > 0, NEW c, callers' = [callers EXCEPT ![n] = c],
         NEW m, m = marks[n], NEW mm, Suspended(consumed', TreeOf', c, m, mm),
         Active(consumed', TreeOf', operands', operator_stack', held', pc', mm.from)
  PROVE  (\E ms : Understood(TreeOf, ms))'
<1> DEFINE k == n - 1
           j == n + 1
           news == [d \in 1..j |-> IF d = j THEN mm ELSE marks[d]]
<1>1. n \in Nat /\ Len(callers') = n /\ callers'[n] = c /\ \A d \in 1..k : callers'[d] = callers[d]
  <2>1. callers \in Seq(Frame) /\ n \in Nat
    BY SoundIs
  <2>2. DOMAIN callers = 1..n
    BY <2>1, LenProperties
  <2> QED
    BY <2>1, <2>2
<1>2. /\ k \in 0..Len(callers) /\ k <= Len(callers') /\ Len(callers') + 1 = j /\ k + 1 = n
      /\ Len(callers') \in Nat
  BY <1>1
<1>3. news[j] = mm /\ news[n] = m /\ \A d \in 1..k + 1 : news[d] = marks[d]
  BY <1>1
<1> HIDE DEF news
<1>4. Active(consumed', TreeOf', operands', operator_stack', held', pc', news[Len(callers') + 1].from)
  BY <1>2, <1>3
<1>5. \A d \in k + 1..Len(callers') :
        Suspended(consumed', TreeOf', callers'[d], news[d], news[d + 1])
  <2> SUFFICES ASSUME NEW d \in k + 1..Len(callers')
               PROVE  Suspended(consumed', TreeOf', callers'[d], news[d], news[d + 1])
    OBVIOUS
  <2>1. d = n /\ d + 1 = j
    BY <1>1
  <2> QED
    BY <1>1, <1>3, <2>1
<1> HIDE DEF k
<1> QED
  BY <1>1, <1>2, <1>3, <1>4, <1>5, StepGeneral

\* No node is made.
LEMMA TreeOfSame == ASSUME heap' = heap PROVE TreeOf' = TreeOf /\ Keep
<1>1. TreeOf' = TreeOf
  BY DEF TreeOf, NodeIds
<1> QED
  BY <1>1 DEF Keep

LEMMA KeepsHere ==
  ASSUME Keep, NEW args \in Seq(NodeIds)
  PROVE  Keeps(TreeOf, TreeOf', args)
<1>1. \A j \in 1..Len(args) : args[j] \in NodeIds
  BY ElementOfSeq
<1> DEFINE U == TreeOf'
<1>2. \A n \in NodeIds : U[n] = TreeOf[n]
  BY DEF Keep
<1> HIDE DEF U
<1>3. Keeps(TreeOf, U, args)
  BY <1>1, <1>2 DEF Keeps
<1> QED
  BY <1>3 DEF U

\* A step that reads a token, or none.
LEMMA Reads1 ==
  ASSUME Sound, Understandable, Known, Advance, Readable'
  PROVE  /\ Extends(consumed, consumed', it) /\ Agree(consumed, consumed', Len(consumed)) /\ Regular(consumed)
         /\ Len(consumed') = Here /\ Len(consumed') = Len(consumed) + 1 /\ Len(consumed') \in Nat
         /\ \E marks : Understood(TreeOf, marks)
<1> DEFINE L == Len(consumed)
<1>1. TypeOK /\ L \in Nat
  BY SoundIs
<1>2. /\ Readable /\ Len(consumed') = L + 1 /\ consumed'[L + 1] = it
      /\ Agree(consumed, consumed', Len(consumed))
      /\ L = 0 => it \in Starting
      /\ L > 0 => Follows(consumed[L], it) /\ (Sign(consumed, L) => it = "int")
  <2>1. L = Len(consumed)
    OBVIOUS
  <2> HIDE DEF L
  <2> QED
    BY <1>1, <2>1, AdvanceReads
<1>3. Extends(consumed, consumed', it)
  BY <1>2, Zenon DEF Extends
<1>4. Len(consumed') = Here /\ Len(consumed') \in Nat
  BY <1>1, <1>2 DEF Here
<1>5. \E marks : Understood(TreeOf, marks)
  BY <1>2, Zenon DEF Understandable
<1>6. Regular(consumed)
  BY <1>2 DEF Readable
<1> QED
  BY <1>2, <1>3, <1>4, <1>5, <1>6

\* The iterator stays.
LEMMA Reads0 ==
  ASSUME Sound, Understandable, Known, Stay, Readable'
  PROVE  /\ Agree(consumed, consumed', Len(consumed)) /\ Regular(consumed) /\ consumed' = consumed
         /\ \E marks : Understood(TreeOf, marks)
<1>1. consumed' = consumed /\ it' = it
  BY DEF Stay
<1>2. Readable
  BY <1>1 DEF Readable, Regular, Follows, Sign
<1>3. Agree(consumed, consumed, Len(consumed))
  BY SoundIs, AgreesWithItself
<1> QED
  BY <1>1, <1>2, <1>3 DEF Readable, Understandable

\* An operator takes its two operands.
LEMMA CombineTrees ==
  ASSUME Sound, Combine, Len(operands) >= 2, NEW a, a = Len(operands) - 1, NEW c, c = Len(operands)
  PROVE  /\ Keep /\ Fresh \in NodeIds' /\ operands \in Seq(NodeIds')
         /\ Keeps(TreeOf, TreeOf', operands)
         /\ TreeOf'[Fresh] = Tree("binary", Top(operator_stack).at, <<TreeOf[operands[a]], TreeOf[operands[c]]>>)
<1>1. /\ TypeOK /\ OwnsOlder(heap) /\ operands \in Seq(NodeIds) /\ Len(operands) \in Nat
  BY SoundIs
<1>2. operands[a] \in NodeIds /\ operands[c] \in NodeIds
  <2>1. a \in 1..Len(operands) /\ c \in 1..Len(operands)
    BY <1>1
  <2> QED
    BY <1>1, <2>1, ElementOfSeq
<1> DEFINE x == operands[a]
           y == operands[c]
           at == Top(operator_stack).at
<1>3. heap' = Append(heap, Node("binary", at, <<x, y>>))
  BY DEF Combine
<1>4. <<x, y>> \in Seq(NodeIds) /\ x \in NodeIds /\ y \in NodeIds
  BY <1>2
<1> HIDE DEF x, y, at
<1>5. Keep /\ TreeOf'[Fresh] = Tree("binary", at, <<TreeOf[x], TreeOf[y]>>)
  BY <1>1, <1>3, <1>4, TreeOfTwo
<1>6. NodeIds \subseteq NodeIds' /\ Fresh \in NodeIds'
  BY <1>1, <1>3, <1>4, TreeMade
<1>7. operands \in Seq(NodeIds') /\ Keeps(TreeOf, TreeOf', operands)
  BY <1>1, <1>5, <1>6, KeepsHere, FrameLemma
<1> QED
  BY <1>5, <1>6, <1>7, Zenon DEF x, y, at

---------------------------------------------------------------------------
(* The steps of the parser.                                                *)

\* One lemma for each action: the marks after the step.
LEMMA ReadsBinaryStep ==
  ASSUME Sound, Understandable, ReadBinary, Readable'
  PROVE  (\E ms : Understood(TreeOf, ms))'
<1>1. pc = "loop" /\ it \in Binary /\ Advance /\ pc' = "reduce" /\ Same /\ Known
  BY DEF ReadBinary, Same, Known
<1>2. /\ Extends(consumed, consumed', it) /\ Agree(consumed, consumed', Len(consumed))
      /\ \E marks : Understood(TreeOf, marks)
  BY <1>1, Reads1
<1>3. PICK marks : Understood(TreeOf, marks)
  BY <1>2
<1> DEFINE from == Origin(marks)
           r == consumed'
<1>4. /\ Stacks(NodeIds, consumed, operands, operator_stack, from)
      /\ Active(consumed, TreeOf, operands, operator_stack, held, "loop", from)
  BY <1>1, <1>3, UnderstoodIs
<1> HIDE DEF from, r
<1>5. Active(r, TreeOf, operands, operator_stack, held, "reduce", from)
  BY <1>1, <1>2, <1>4, BinaryRead DEF r
<1>6. TreeOf' = TreeOf /\ Keep
  BY <1>1, TreeOfSame DEF Same
<1>7. Active(consumed', TreeOf', operands', operator_stack', held', pc', from)
  BY <1>1, <1>5, <1>6 DEF Same, r
<1> QED
  BY <1>1, <1>2, <1>3, <1>6, <1>7, StepSame DEF Same, from

LEMMA ReducesStep ==
  ASSUME Sound, Understandable, Reduce, Readable'
  PROVE  (\E ms : Understood(TreeOf, ms))'
<1>1. /\ pc = "reduce" /\ MustReduce /\ Len(operands) >= 2 /\ Combine /\ Stay
      /\ held' = held /\ callers' = callers /\ pc' = pc /\ Known
  BY DEF Reduce, Known
<1>2. /\ Agree(consumed, consumed', Len(consumed)) /\ consumed' = consumed
      /\ \E marks : Understood(TreeOf, marks)
  BY <1>1, Reads0
<1>3. PICK marks : Understood(TreeOf, marks)
  BY <1>2
<1> DEFINE from == Origin(marks)
           U == TreeOf'
           S == NodeIds'
           a == Len(operands) - 1
           c == Len(operands)
           o == Top(operator_stack)
           b == operands'
           s == consumed
<1>4. Active(s, TreeOf, operands, operator_stack, held, "reduce", from)
  BY <1>1, <1>3, UnderstoodIs
<1>5. /\ operator_stack \in Seq(OperatorEntry) /\ operator_stack # <<>> /\ Rising(operator_stack)
      /\ Len(s) \in Nat /\ Level(o.op) <= Level(s[Len(s)])
  BY <1>1, SoundIs DEF MustReduce, BindsFirst, op1, Top
<1>6. a = Len(operands) - 1 /\ c = Len(operands)
  OBVIOUS
<1>7. b = Append(SubSeq(operands, 1, Len(operands) - 2), Fresh) /\ operator_stack' = Pop(operator_stack)
  BY <1>1 DEF Combine
<1> HIDE DEF from, a, c
<1>8. /\ Keep /\ Fresh \in S /\ operands \in Seq(S) /\ Keeps(TreeOf, U, operands)
      /\ U[Fresh] = Tree("binary", o.at, <<TreeOf[operands[a]], TreeOf[operands[c]]>>)
  BY <1>1, <1>6, CombineTrees
<1>9. o = Top(operator_stack)
  OBVIOUS
<1> HIDE DEF U, S, o, b, s
<1>10. Active(s, U, b, Pop(operator_stack), held, "reduce", from)
  BY <1>4, <1>5, <1>6, <1>7, <1>8, <1>9, ReduceRead
<1>11. Active(consumed', TreeOf', operands', operator_stack', held', pc', from)
  BY <1>1, <1>2, <1>7, <1>10 DEF U, b, s
<1> QED
  BY <1>1, <1>2, <1>3, <1>8, <1>11, StepSame DEF from

LEMMA CleansUpStep ==
  ASSUME Sound, Understandable, CleanUp, Readable'
  PROVE  (\E ms : Understood(TreeOf, ms))'
<1>1. /\ pc = "cleanup" /\ operator_stack # <<>> /\ Len(operands) >= 2 /\ Combine /\ Stay
      /\ held' = held /\ callers' = callers /\ pc' = pc /\ Known
  BY DEF CleanUp, Known
<1>2. /\ Agree(consumed, consumed', Len(consumed)) /\ consumed' = consumed
      /\ \E marks : Understood(TreeOf, marks)
  BY <1>1, Reads0
<1>3. PICK marks : Understood(TreeOf, marks)
  BY <1>2
<1> DEFINE from == Origin(marks)
           U == TreeOf'
           S == NodeIds'
           a == Len(operands) - 1
           c == Len(operands)
           o == Top(operator_stack)
           b == operands'
           s == consumed
<1>4. Active(s, TreeOf, operands, operator_stack, held, "cleanup", from)
  BY <1>1, <1>3, UnderstoodIs
<1>5. /\ operator_stack \in Seq(OperatorEntry) /\ operator_stack # <<>> /\ Rising(operator_stack)
      /\ Len(s) \in Nat
  BY <1>1, SoundIs
<1>6. a = Len(operands) - 1 /\ c = Len(operands)
  OBVIOUS
<1>7. b = Append(SubSeq(operands, 1, Len(operands) - 2), Fresh) /\ operator_stack' = Pop(operator_stack)
  BY <1>1 DEF Combine
<1> HIDE DEF from, a, c
<1>8. /\ Keep /\ Fresh \in S /\ operands \in Seq(S) /\ Keeps(TreeOf, U, operands)
      /\ U[Fresh] = Tree("binary", o.at, <<TreeOf[operands[a]], TreeOf[operands[c]]>>)
  BY <1>1, <1>6, CombineTrees
<1>9. o = Top(operator_stack)
  OBVIOUS
<1> HIDE DEF U, S, o, b, s
<1>10. Active(s, U, b, Pop(operator_stack), held, "cleanup", from)
  BY <1>4, <1>5, <1>6, <1>7, <1>8, <1>9, CleanUpRead
<1>11. Active(consumed', TreeOf', operands', operator_stack', held', pc', from)
  BY <1>1, <1>2, <1>7, <1>10 DEF U, b, s
<1> QED
  BY <1>1, <1>2, <1>3, <1>8, <1>11, StepSame DEF from

LEMMA PushesStep ==
  ASSUME Sound, Understandable, PushBinary, Readable'
  PROVE  (\E ms : Understood(TreeOf, ms))'
<1>1. /\ pc = "reduce" /\ operator_stack' = Append(operator_stack, op1) /\ Stay /\ pc' = "apply"
      /\ held' = held /\ callers' = callers /\ heap' = heap /\ operands' = operands /\ Known
  BY DEF PushBinary, Known
<1>2. /\ Agree(consumed, consumed', Len(consumed)) /\ consumed' = consumed
      /\ \E marks : Understood(TreeOf, marks)
  BY <1>1, Reads0
<1>3. PICK marks : Understood(TreeOf, marks)
  BY <1>2
<1> DEFINE from == Origin(marks)
           s == consumed
<1>4. Active(s, TreeOf, operands, operator_stack, held, "reduce", from)
  BY <1>1, <1>3, UnderstoodIs
<1>5. /\ operator_stack \in Seq(OperatorEntry) /\ operands \in Seq(NodeIds) /\ Len(s) \in Nat
      /\ op1.op = s[Len(s)] /\ op1.at = Len(s)
  BY SoundIs DEF op1, Top
<1>6. op1 \in OperatorEntry
  <2>1. Top(consumed) \in Operators
    <3>1. TypeInv
      BY SoundIs
    <3>2. Top(consumed) \in Binary
      BY <1>1, <3>1 DEF TypeInv, Shape
    <3> QED
      BY <3>2, BinaryIs
  <2> QED
    BY <1>5, <2>1 DEF op1, OperatorEntry
<1> HIDE DEF from, s
<1>7. Active(s, TreeOf, operands, Append(operator_stack, op1), held, "apply", from)
  BY <1>4, <1>5, <1>6, PushRead
<1>8. TreeOf' = TreeOf /\ Keep
  BY <1>1, TreeOfSame
<1>9. Active(consumed', TreeOf', operands', operator_stack', held', pc', from)
  BY <1>1, <1>2, <1>7, <1>8 DEF s
<1> QED
  BY <1>1, <1>2, <1>3, <1>8, <1>9, StepSame DEF from

\* There are more nodes.
LEMMA StacksMore ==
  ASSUME NEW s, NEW args, NEW ops, NEW from, Stacks(NodeIds, s, args, ops, from), NodeIds \subseteq NodeIds'
  PROVE  Stacks(NodeIds', s, args, ops, from)
<1>1. Seq(NodeIds) \subseteq Seq(NodeIds')
  BY FrameLemma
<1> QED
  BY <1>1 DEF Stacks

LEMMA ReadsUnaryStep ==
  ASSUME Sound, Understandable, ReadUnary, Readable'
  PROVE  (\E ms : Understood(TreeOf, ms))'
<1>1. /\ pc = "loop" /\ it \in Unary /\ operator_stack' = Append(operator_stack, [op |-> it, at |-> Here])
      /\ Advance /\ pc' = "apply" /\ heap' = heap /\ operands' = operands /\ held' = held
      /\ callers' = callers /\ Known
  BY DEF ReadUnary, Known
<1>2. /\ Extends(consumed, consumed', it) /\ Agree(consumed, consumed', Len(consumed))
      /\ \E marks : Understood(TreeOf, marks)
  BY <1>1, Reads1
<1>3. PICK marks : Understood(TreeOf, marks)
  BY <1>2
<1> DEFINE from == Origin(marks)
           r == consumed'
           o == [op |-> it, at |-> Here]
<1>4. /\ Stacks(NodeIds, consumed, operands, operator_stack, from)
      /\ Active(consumed, TreeOf, operands, operator_stack, held, "loop", from)
  BY <1>1, <1>3, UnderstoodIs
<1>5. o.op = it /\ o.at = Len(consumed) + 1
  BY DEF Here
<1> HIDE DEF from, r, o
<1>6. Active(r, TreeOf, operands, Append(operator_stack, o), held, "apply", from)
  BY <1>1, <1>2, <1>4, <1>5, UnaryRead DEF r
<1>7. TreeOf' = TreeOf /\ Keep
  BY <1>1, TreeOfSame
<1>8. Active(consumed', TreeOf', operands', operator_stack', held', pc', from)
  BY <1>1, <1>6, <1>7 DEF r, o
<1> QED
  BY <1>1, <1>2, <1>3, <1>7, <1>8, StepSame DEF from

LEMMA AppliesUnaryStep ==
  ASSUME Sound, Understandable, ApplyUnary, Readable'
  PROVE  (\E ms : Understood(TreeOf, ms))'
<1>1. /\ pc \in {"apply", "apply_last"} /\ operator_stack # <<>> /\ operands # <<>>
      /\ Top(operator_stack).op \in Unary
      /\ operands' = Append(Pop(operands), Fresh) /\ operator_stack' = Pop(operator_stack)
      /\ pc' = AfterIteration /\ Stay /\ held' = held /\ callers' = callers /\ Known
  BY DEF ApplyUnary, IterationEnd, UnaryReady, Known
<1>2. /\ Agree(consumed, consumed', Len(consumed)) /\ consumed' = consumed
      /\ \E marks : Understood(TreeOf, marks)
  BY <1>1, Reads0
<1>3. PICK marks : Understood(TreeOf, marks)
  BY <1>2
<1> DEFINE from == Origin(marks)
           U == TreeOf'
           S == NodeIds'
           a == Top(operands)
           o == Top(operator_stack)
           b == operands'
           s == consumed
           at == o.at
<1>4. /\ Active(s, TreeOf, operands, operator_stack, held, pc, from) /\ Begins(s, from)
  BY <1>1, <1>3, UnderstoodIs DEF Stacks
<1>5. /\ operator_stack \in Seq(OperatorEntry) /\ Len(s) \in Nat /\ TypeOK /\ OwnsOlder(heap)
      /\ operands \in Seq(NodeIds)
  BY SoundIs
<1>6. a \in NodeIds
  BY <1>1, <1>5, PopLemma
<1>7. heap' = Append(heap, Node("unary", at, <<a>>))
  BY DEF ApplyUnary
<1>8. o = Top(operator_stack) /\ o.op \in Unary /\ a = Top(operands) /\ <<a>> \in Seq(NodeIds)
  BY <1>1, <1>6
<1> HIDE DEF from, a, o, s
<1>9. Keep /\ U[Fresh] = Tree("unary", o.at, <<TreeOf[a]>>)
  BY <1>5, <1>6, <1>7, TreeOfOne
<1>10. NodeIds \subseteq S /\ Fresh \in S
  BY <1>5, <1>7, <1>8, TreeMade
<1>11. operands \in Seq(S)
  BY <1>5, <1>10, FrameLemma
<1> HIDE DEF U, S, b
<1>12. /\ pc = "apply"
       /\ HasRead(s, U, Append(Pop(operands), Fresh), Pop(operator_stack), from)
  BY <1>1, <1>4, <1>5, <1>8, <1>9, <1>10, <1>11, UnaryApplied
<1>13. Active(s, U, Append(Pop(operands), Fresh), Pop(operator_stack), held, "loop", from)
  BY <1>12, ActiveIs
<1>14. pc' = "loop"
  BY <1>1, <1>12 DEF AfterIteration
<1>15. Active(consumed', TreeOf', operands', operator_stack', held', pc', from)
  BY <1>1, <1>2, <1>13, <1>14 DEF U, s
<1> QED
  BY <1>1, <1>2, <1>3, <1>9, <1>15, StepSame DEF from

LEMMA EndsIterationStep ==
  ASSUME Sound, Understandable, EndIteration, Readable'
  PROVE  (\E ms : Understood(TreeOf, ms))'
<1>1. /\ pc \in {"apply", "apply_last"}
      /\ ~(operator_stack # <<>> /\ Top(operator_stack).op \in Unary /\ operands # <<>>)
      /\ operands' = operands /\ operator_stack' = operator_stack /\ heap' = heap
      /\ pc' = AfterIteration /\ Stay /\ held' = held /\ callers' = callers /\ Known
  BY DEF EndIteration, IterationEnd, UnaryReady, Known
<1>2. /\ Agree(consumed, consumed', Len(consumed)) /\ consumed' = consumed
      /\ \E marks : Understood(TreeOf, marks)
  BY <1>1, Reads0
<1>3. PICK marks : Understood(TreeOf, marks)
  BY <1>2
<1> DEFINE from == Origin(marks)
           s == consumed
<1>4. /\ Active(s, TreeOf, operands, operator_stack, held, pc, from) /\ Begins(s, from)
  BY <1>1, <1>3, UnderstoodIs DEF Stacks
<1>5. /\ operator_stack \in Seq(OperatorEntry) /\ Len(s) \in Nat /\ operands \in Seq(NodeIds)
  BY SoundIs
<1> HIDE DEF from, s
<1>6. Active(s, TreeOf, operands, operator_stack, held, AfterIteration, from)
  <2>1. Active(s, TreeOf, operands, operator_stack, held, IF pc = "apply" THEN "loop" ELSE "cleanup", from)
    BY <1>1, <1>4, <1>5, EndRead
  <2> QED
    BY <2>1, Zenon DEF AfterIteration
<1>7. TreeOf' = TreeOf /\ Keep
  BY <1>1, TreeOfSame
<1>8. Active(consumed', TreeOf', operands', operator_stack', held', pc', from)
  BY <1>1, <1>2, <1>6, <1>7 DEF s
<1> QED
  BY <1>1, <1>2, <1>3, <1>7, <1>8, StepSame DEF from

\* The operands of a call and a node of one token.
LEMMA TokenNode ==
  ASSUME Sound, NEW kind, heap' = Append(heap, Node(kind, Here, <<>>)), Len(consumed') = Here
  PROVE  /\ Keep /\ NodeIds \subseteq NodeIds' /\ Fresh \in NodeIds'
         /\ TreeOf'[Fresh] = Tree(kind, Len(consumed'), <<>>)
         /\ Keeps(TreeOf, TreeOf', operands)
<1> DEFINE none == <<>>
<1>1. TypeOK /\ OwnsOlder(heap) /\ operands \in Seq(NodeIds) /\ none \in Seq(NodeIds)
  BY SoundIs
<1>2. heap' = Append(heap, Node(kind, Here, none))
  OBVIOUS
<1>3. Keep /\ TreeOf'[Fresh] = Tree(kind, Here, <<>>)
  BY <1>1, TreeOfNone
<1> HIDE DEF none
<1>4. NodeIds \subseteq NodeIds' /\ Fresh \in NodeIds'
  BY <1>1, <1>2, TreeMade
<1>5. Keeps(TreeOf, TreeOf', operands)
  BY <1>1, <1>3, KeepsHere
<1> QED
  BY <1>3, <1>4, <1>5

LEMMA ReadsLiteralStep ==
  ASSUME Sound, Understandable, ReadLiteral, Readable'
  PROVE  (\E ms : Understood(TreeOf, ms))'
<1> DEFINE kind == IF Negative /\ it = "int" THEN "negative" ELSE "literal"
<1>1. /\ pc = "loop" /\ it \in Literals /\ Advance /\ pc' = "apply" /\ held' = held
      /\ callers' = callers /\ Known
      /\ heap' = Append(heap, Node(kind, Here, <<>>))
      /\ operands' = Append(operands, Fresh)
      /\ operator_stack' = IF Negative THEN Pop(operator_stack) ELSE operator_stack
  BY DEF ReadLiteral, Known
<1>2. /\ Extends(consumed, consumed', it) /\ Agree(consumed, consumed', Len(consumed))
      /\ Len(consumed') = Here
      /\ \E marks : Understood(TreeOf, marks)
  BY <1>1, Reads1
<1>3. PICK marks : Understood(TreeOf, marks)
  BY <1>2
<1> DEFINE from == Origin(marks)
           r == consumed'
           U == TreeOf'
           S == NodeIds'
<1>4. /\ Stacks(NodeIds, consumed, operands, operator_stack, from)
      /\ Active(consumed, TreeOf, operands, operator_stack, held, "loop", from)
  BY <1>1, <1>3, UnderstoodIs
<1> HIDE DEF kind
<1>5. /\ Keep /\ NodeIds \subseteq S /\ Fresh \in S /\ U[Fresh] = Tree(kind, Len(r), <<>>)
      /\ Keeps(TreeOf, U, operands)
  BY <1>1, <1>2, TokenNode
<1> HIDE DEF from
<1>6. Stacks(S, consumed, operands, operator_stack, from)
  BY <1>4, <1>5, StacksMore
<1> HIDE DEF r, U, S
<1>7. Extends(consumed, r, it)
  BY <1>2 DEF r
<1>8. CASE Negative
  <2>1. operands = <<>> /\ operator_stack # <<>> /\ Top(operator_stack).op = "-"
    BY <1>8 DEF Negative
  <2>2. /\ it = "int" /\ from = Len(consumed) /\ from > 0 /\ consumed[from] = "-"
        /\ Pop(operator_stack) = <<>>
    BY <1>1, <1>4, <1>6, <1>7, <2>1, SignRead
  <2>3. U[Fresh] = Tree("negative", Len(r), <<>>)
    BY <1>5, <1>8, <2>2 DEF kind
  <2>4. Active(r, U, Append(operands, Fresh), Pop(operator_stack), held, "apply", from)
    BY <1>5, <1>7, <2>1, <2>2, <2>3, NegativeRead
  <2>5. Active(consumed', TreeOf', operands', operator_stack', held', pc', from)
    BY <1>1, <1>8, <2>4 DEF r, U
  <2> QED
    BY <1>1, <1>2, <1>3, <1>5, <2>5, StepSame DEF from
<1>9. CASE ~Negative
  <2>1. ~(operands = <<>> /\ operator_stack # <<>> /\ Top(operator_stack).op = "-")
    BY <1>9 DEF Negative
  <2>2. U[Fresh] = Tree("literal", Len(r), <<>>)
    BY <1>5, <1>9 DEF kind
  <2>3. Active(r, U, Append(operands, Fresh), operator_stack, held, "apply", from)
    BY <1>1, <1>4, <1>5, <1>6, <1>7, <2>1, <2>2, LiteralRead
  <2>4. Active(consumed', TreeOf', operands', operator_stack', held', pc', from)
    BY <1>1, <1>9, <2>3 DEF r, U
  <2> QED
    BY <1>1, <1>2, <1>3, <1>5, <2>4, StepSame DEF from
<1> QED
  BY <1>8, <1>9

LEMMA ReadsVariableStep ==
  ASSUME Sound, Understandable, ReadVariable, Readable'
  PROVE  (\E ms : Understood(TreeOf, ms))'
<1>1. /\ pc = "loop" /\ it = "id" /\ Advance /\ pc' = "target" /\ held' = <<Fresh>>
      /\ callers' = callers /\ Known /\ operands' = operands /\ operator_stack' = operator_stack
      /\ heap' = Append(heap, Node("variable", Here, <<>>))
  BY DEF ReadVariable, Known
<1>2. /\ Extends(consumed, consumed', it) /\ Agree(consumed, consumed', Len(consumed))
      /\ Len(consumed') = Here
      /\ \E marks : Understood(TreeOf, marks)
  BY <1>1, Reads1
<1>3. PICK marks : Understood(TreeOf, marks)
  BY <1>2
<1> DEFINE from == Origin(marks)
           r == consumed'
           U == TreeOf'
           S == NodeIds'
<1>4. /\ Stacks(NodeIds, consumed, operands, operator_stack, from)
      /\ Active(consumed, TreeOf, operands, operator_stack, held, "loop", from)
  BY <1>1, <1>3, UnderstoodIs
<1>5. /\ Keep /\ NodeIds \subseteq S /\ Fresh \in S /\ U[Fresh] = Tree("variable", Len(r), <<>>)
      /\ Keeps(TreeOf, U, operands)
  BY <1>1, <1>2, TokenNode
<1> HIDE DEF from
<1>6. Stacks(S, consumed, operands, operator_stack, from)
  BY <1>4, <1>5, StacksMore
<1> HIDE DEF r, U, S
<1>7. Extends(consumed, r, it)
  BY <1>2 DEF r
<1>8. Active(r, U, operands, operator_stack, <<Fresh>>, "target", from)
  BY <1>1, <1>4, <1>5, <1>6, <1>7, VariableRead
<1>9. Active(consumed', TreeOf', operands', operator_stack', held', pc', from)
  BY <1>1, <1>8 DEF r, U
<1> QED
  BY <1>1, <1>2, <1>3, <1>5, <1>9, StepSame DEF from

LEMMA BuildsIndexStep ==
  ASSUME Sound, Understandable, BuildIndexAccess, Readable'
  PROVE  (\E ms : Understood(TreeOf, ms))'
<1> DEFINE a == held[1]
           c == held[2]
<1>1. /\ pc = "target" /\ Len(held) > 1 /\ Stay /\ pc' = pc
      /\ held' = <<Fresh>> \o SubSeq(held, 3, Len(held))
      /\ callers' = callers /\ Known /\ operands' = operands /\ operator_stack' = operator_stack
      /\ heap' = Append(heap, Node("index", 0, <<a, c>>))
  BY DEF BuildIndexAccess, Known
<1>2. /\ Agree(consumed, consumed', Len(consumed)) /\ consumed' = consumed
      /\ \E marks : Understood(TreeOf, marks)
  BY <1>1, Reads0
<1>3. PICK marks : Understood(TreeOf, marks)
  BY <1>2
<1> DEFINE from == Origin(marks)
           s == consumed
           U == TreeOf'
           S == NodeIds'
           g == held'
<1>4. Active(s, TreeOf, operands, operator_stack, held, "target", from)
  BY <1>1, <1>3, UnderstoodIs
<1>5. /\ TypeOK /\ OwnsOlder(heap) /\ held \in Seq(NodeIds) /\ operands \in Seq(NodeIds) /\ Len(s) \in Nat
      /\ Len(held) \in Nat
  BY SoundIs
<1>6. a \in NodeIds /\ c \in NodeIds
  <2>1. 1 \in 1..Len(held) /\ 2 \in 1..Len(held)
    BY <1>1, <1>5
  <2> QED
    BY <1>5, <2>1, ElementOfSeq
<1>7. <<a, c>> \in Seq(NodeIds)
  BY <1>6
<1> HIDE DEF a, c
<1>8. Keep /\ U[Fresh] = Tree("index", 0, <<TreeOf[a], TreeOf[c]>>)
  BY <1>1, <1>5, <1>6, TreeOfTwo
<1>9. NodeIds \subseteq S /\ Fresh \in S
  BY <1>1, <1>5, <1>7, TreeMade
<1>10. Keeps(TreeOf, U, operands) /\ Keeps(TreeOf, U, held) /\ held \in Seq(S)
  BY <1>5, <1>8, <1>9, KeepsHere, FrameLemma
<1> HIDE DEF U, S, from, g, s
<1>11. Indexing(S, TreeOf, U, held, Fresh, g)
  <2>1. U[Fresh] = Tree("index", 0, <<TreeOf[held[1]], TreeOf[held[2]]>>)
    BY <1>8, Zenon DEF a, c
  <2> QED
    BY <1>1, <1>9, <1>10, <2>1, Zenon DEF Indexing, g
<1>12. Active(s, U, operands, operator_stack, g, "target", from)
  BY <1>4, <1>5, <1>10, <1>11, IndexBuilt
<1>13. Active(consumed', TreeOf', operands', operator_stack', held', pc', from)
  BY <1>1, <1>2, <1>12 DEF U, s, g
<1> QED
  BY <1>1, <1>2, <1>3, <1>8, <1>13, StepSame DEF from

LEMMA EndsTargetStep ==
  ASSUME Sound, Understandable, EndTarget, Readable'
  PROVE  (\E ms : Understood(TreeOf, ms))'
<1> DEFINE a == held[1]
<1>1. /\ pc = "target" /\ Len(held) = 1 /\ Stay /\ pc' = "apply"
      /\ held' = <<>> /\ heap' = heap
      /\ callers' = callers /\ Known /\ operands' = Append(operands, a) /\ operator_stack' = operator_stack
  BY DEF EndTarget, Known
<1>2. /\ Agree(consumed, consumed', Len(consumed)) /\ consumed' = consumed /\ Regular(consumed)
      /\ \E marks : Understood(TreeOf, marks)
  BY <1>1, Reads0
<1>3. PICK marks : Understood(TreeOf, marks)
  BY <1>2
<1> DEFINE from == Origin(marks)
           s == consumed
           g == held'
<1>4. Active(s, TreeOf, operands, operator_stack, held, "target", from)
  BY <1>1, <1>3, UnderstoodIs
<1>5. /\ held \in Seq(NodeIds) /\ operands \in Seq(NodeIds) /\ Len(s) \in Nat /\ Len(operator_stack) \in Nat
  BY SoundIs
<1>6. a = held[1] /\ Regular(s)
  BY <1>2
<1> HIDE DEF from, g, s, a
<1>7. Active(s, TreeOf, Append(operands, a), operator_stack, g, "apply", from)
  BY <1>1, <1>4, <1>5, <1>6, TargetRead
<1>8. TreeOf' = TreeOf /\ Keep
  BY <1>1, TreeOfSame
<1>9. Active(consumed', TreeOf', operands', operator_stack', held', pc', from)
  BY <1>1, <1>2, <1>7, <1>8 DEF s, g
<1> QED
  BY <1>1, <1>2, <1>3, <1>8, <1>9, StepSame DEF from

\* A call opens a bracket at the token it reads.
Call(why) == [operands |-> operands, operators |-> operator_stack, why |-> why, held |-> held]

\* What the caller keeps.
LEMMA CallIs ==
  ASSUME Sound, NEW why
  PROVE  /\ Call(why).operands = operands /\ Call(why).operators = operator_stack
         /\ Call(why).why = why /\ Call(why).held = held
         /\ callers \in Seq(Frame \cup {Call(why)})
<1>1. /\ Call(why).operands = operands /\ Call(why).operators = operator_stack
      /\ Call(why).why = why /\ Call(why).held = held
  BY DEF Call
<1>2. callers \in Seq(Frame)
  BY SoundIs
<1> DEFINE F == Frame
           G == Frame \cup {Call(why)}
<1>3. F \subseteq G
  OBVIOUS
<1>4. callers \in Seq(F)
  BY <1>2
<1> HIDE DEF F, G
<1>5. callers \in Seq(G)
  BY <1>3, <1>4
<1> QED
  BY <1>1, <1>5 DEF G

\* The call is suspended, and a new one begins behind the bracket.
LEMMA EntersStep ==
  ASSUME Sound, NEW why, Enter(why), heap' = heap, NEW marks, Understood(TreeOf, marks),
         Extends(consumed, consumed', it), it = IF why = "rotate" THEN "(" ELSE why,
         why \in {"(", "["} \/ held = <<>>,
         NEW k, k = Len(consumed'), NEW mm, mm = [open |-> k, from |-> k + 1],
         NEW m, m = marks[Len(callers) + 1],
         Suspended(consumed', TreeOf, Call(why), m, mm)
  PROVE  (\E ms : Understood(TreeOf, ms))'
<1> DEFINE c == Call(why)
           S == Frame \cup {c}
           r == consumed'
<1>1. /\ callers' = Append(callers, c) /\ operands' = <<>> /\ operator_stack' = <<>>
      /\ held' = <<>> /\ pc' = "loop"
  BY DEF Enter, Call
<1>2. c \in S /\ callers \in Seq(S) /\ Entered(c, mm, operands, operator_stack, why, held, k)
  BY CallIs DEF Entered
<1>3. TreeOf' = TreeOf /\ Keep
  BY TreeOfSame
<1>4. Agree(consumed, r, Len(consumed))
  BY ExtendsIs
<1> DEFINE l == Len(callers) + 1
<1>5. m = marks[l] /\ m.from = Origin(marks) /\ l = Len(callers) + 1
  BY DEF Origin
<1>6. Suspended(r, TreeOf', c, m, mm)
  BY <1>3
<1> HIDE DEF c, S, r, l
<1>7. Extends(consumed, r, it) /\ k = Len(r)
  BY DEF r
<1> DEFINE g == held'
<1> HIDE DEF g
<1>8. Active(r, TreeOf, <<>>, <<>>, g, "loop", mm.from)
  BY <1>2, <1>7, EnteredIs
<1>9. Active(r, TreeOf', operands', operator_stack', held', pc', mm.from)
  BY <1>1, <1>3, <1>8 DEF g
<1> QED
  BY <1>1, <1>2, <1>3, <1>4, <1>5, <1>6, <1>9, StepEnter DEF r

LEMMA OpensBracketStep ==
  ASSUME Sound, Understandable, OpenBracket, Readable'
  PROVE  (\E ms : Understood(TreeOf, ms))'
<1>1. /\ (pc = "loop" /\ it \in {"(", OpenBrace}) \/ (pc = "target" /\ it = "[")
      /\ Enter(it) /\ Advance /\ heap' = heap
  BY Zenon DEF OpenBracket, OpenBrace
<1>2. Known
  BY <1>1 DEF Known
<1>3. /\ Extends(consumed, consumed', it)
      /\ \E marks : Understood(TreeOf, marks)
  BY <1>1, <1>2, Reads1
<1>4. PICK marks : Understood(TreeOf, marks)
  BY <1>3
<1> DEFINE from == Origin(marks)
           r == consumed'
           k == Len(r)
           mm == [open |-> k, from |-> k + 1]
           m == marks[Len(callers) + 1]
           c == Call(it)
<1>5. /\ Stacks(NodeIds, consumed, operands, operator_stack, from)
      /\ Active(consumed, TreeOf, operands, operator_stack, held, pc, from)
  BY <1>4, UnderstoodIs
<1>6. /\ m.from = from /\ k = Len(r)
      /\ \A h : held = h => Entered(c, mm, operands, operator_stack, it, h, k)
  BY CallIs DEF Entered, Origin
<1>7. it = IF it = "rotate" THEN "(" ELSE it
  BY <1>1, OddTokens
<1>8. HeldShape /\ TypeInv /\ held \in Seq(NodeIds) /\ Len(held) \in Nat
  BY SoundIs
<1> HIDE DEF from, r, k, mm, m, c
<1>9. Extends(consumed, r, it)
  BY <1>3 DEF r
<1>10. CASE pc = "loop" /\ it \in {"(", OpenBrace}
  <2>1. held = <<>>
    BY <1>8, <1>10 DEF HeldShape
  <2>2. Entered(c, mm, operands, operator_stack, it, <<>>, k)
    BY <1>6, <2>1
  <2>3. Active(consumed, TreeOf, operands, operator_stack, held, "loop", from)
    BY <1>5, <1>10
  <2>4. Suspended(r, TreeOf, c, m, mm)
    BY <1>5, <1>6, <1>9, <1>10, <2>2, <2>3, BracketOpened
  <2> QED
    BY <1>1, <1>3, <1>4, <1>7, <2>1, <2>4, EntersStep DEF r, k, mm, m, c
<1>11. CASE pc = "target" /\ it = "["
  <2>1. held # <<>>
    BY <1>8, <1>11 DEF TypeInv, Shape
  <2>2. Len(held) > 0
    BY <1>8, <2>1, EmptySeq
  <2>3. Active(consumed, TreeOf, operands, operator_stack, held, "target", from)
    BY <1>5, <1>11
  <2>4. Entered(c, mm, operands, operator_stack, "[", held, k)
    BY <1>6, <1>11
  <2>5. Suspended(r, TreeOf, c, m, mm)
    BY <1>6, <1>8, <1>9, <1>11, <2>1, <2>2, <2>3, <2>4, IndexOpened
  <2>6. it \in {"(", "["}
    BY <1>11
  <2> QED
    BY <1>1, <1>3, <1>4, <1>7, <2>6, <2>5, EntersStep DEF r, k, mm, m, c
<1> QED
  BY <1>1, <1>10, <1>11

LEMMA OpensRotateStep ==
  ASSUME Sound, Understandable, OpenRotate, Readable'
  PROVE  (\E ms : Understood(TreeOf, ms))'
<1> DEFINE why == "rotate"
<1>1. pc = "rotate" /\ it = "(" /\ Enter(why) /\ Advance /\ heap' = heap /\ Known
  BY DEF OpenRotate, Known
<1>2. /\ Extends(consumed, consumed', it)
      /\ \E marks : Understood(TreeOf, marks)
  BY <1>1, Reads1
<1>3. PICK marks : Understood(TreeOf, marks)
  BY <1>2
<1> DEFINE from == Origin(marks)
           r == consumed'
           k == Len(r)
           mm == [open |-> k, from |-> k + 1]
           m == marks[Len(callers) + 1]
           c == Call(why)
<1>4. Active(consumed, TreeOf, operands, operator_stack, held, "rotate", from)
  BY <1>1, <1>3, UnderstoodIs
<1>5. held = <<>>
  BY <1>1, SoundIs DEF HeldShape
<1>6. m.from = from /\ k = Len(r) /\ Entered(c, mm, operands, operator_stack, "rotate", <<>>, k)
  BY <1>5, CallIs DEF Entered, Origin
<1>7. it = IF why = "rotate" THEN "(" ELSE why
  BY <1>1
<1> HIDE DEF from, r, k, mm, m, c, why
<1>8. Extends(consumed, r, it)
  BY <1>2 DEF r
<1>9. Suspended(r, TreeOf, c, m, mm)
  BY <1>1, <1>4, <1>6, <1>8, RotateOpened
<1> QED
  BY <1>1, <1>2, <1>3, <1>5, <1>7, <1>9, EntersStep DEF r, k, mm, m, c

LEMMA ReadsRotateStep ==
  ASSUME Sound, Understandable, ReadRotate, Readable'
  PROVE  (\E ms : Understood(TreeOf, ms))'
<1>1. /\ pc = "loop" /\ it = "rotate" /\ Advance /\ pc' = "rotate" /\ heap' = heap /\ Known
      /\ operands' = operands /\ operator_stack' = operator_stack /\ held' = held /\ callers' = callers
  BY DEF ReadRotate, Known
<1>2. /\ Extends(consumed, consumed', it) /\ Agree(consumed, consumed', Len(consumed))
      /\ \E marks : Understood(TreeOf, marks)
  BY <1>1, Reads1
<1>3. PICK marks : Understood(TreeOf, marks)
  BY <1>2
<1> DEFINE from == Origin(marks)
           r == consumed'
<1>4. /\ Stacks(NodeIds, consumed, operands, operator_stack, from)
      /\ Active(consumed, TreeOf, operands, operator_stack, held, "loop", from)
  BY <1>1, <1>3, UnderstoodIs
<1> HIDE DEF from, r
<1>5. Extends(consumed, r, it)
  BY <1>2 DEF r
<1>6. Active(r, TreeOf, operands, operator_stack, held, "rotate", from)
  BY <1>1, <1>4, <1>5, RotateRead
<1>7. TreeOf' = TreeOf /\ Keep
  BY <1>1, TreeOfSame
<1>8. Active(consumed', TreeOf', operands', operator_stack', held', pc', from)
  BY <1>1, <1>6, <1>7 DEF r
<1> QED
  BY <1>1, <1>2, <1>3, <1>7, <1>8, StepSame DEF from

\* The loop stops, and the call returns.
LEMMA StopsStep ==
  ASSUME Sound, Understandable, Stop \/ Return, Readable'
  PROVE  (\E ms : Understood(TreeOf, ms))'
<1>1. /\ \/ pc = "loop" /\ pc' = "apply_last"
         \/ pc = "cleanup" /\ pc' = "return" /\ operator_stack = <<>> /\ Len(operands) = 1
      /\ Stay /\ heap' = heap /\ Known
      /\ operands' = operands /\ operator_stack' = operator_stack /\ held' = held /\ callers' = callers
  BY DEF Stop, Return, Known
<1>2. /\ Agree(consumed, consumed', Len(consumed)) /\ consumed' = consumed
      /\ \E marks : Understood(TreeOf, marks)
  BY <1>1, Reads0
<1>3. PICK marks : Understood(TreeOf, marks)
  BY <1>2
<1> DEFINE from == Origin(marks)
<1>4. Active(consumed, TreeOf, operands, operator_stack, held, pc, from)
  BY <1>3, UnderstoodIs
<1> HIDE DEF from
<1>5. Active(consumed, TreeOf, operands, operator_stack, held, pc', from)
  <2>1. CASE pc = "loop" /\ pc' = "apply_last"
    <3>1. Active(consumed, TreeOf, operands, operator_stack, held, "loop", from)
      BY <1>4, <2>1
    <3>2. Active(consumed, TreeOf, operands, operator_stack, held, "apply_last", from)
      BY <3>1, ActiveIs
    <3> QED
      BY <2>1, <3>2
  <2>2. CASE pc = "cleanup" /\ pc' = "return" /\ operator_stack = <<>> /\ Len(operands) = 1
    <3>1. Active(consumed, TreeOf, operands, operator_stack, held, "cleanup", from)
      BY <1>4, <2>2
    <3>2. Active(consumed, TreeOf, operands, operator_stack, held, "return", from)
      BY <2>2, <3>1, ActiveIs
    <3> QED
      BY <2>2, <3>2
  <2> QED
    BY <1>1, <2>1, <2>2
<1>6. TreeOf' = TreeOf /\ Keep
  BY <1>1, TreeOfSame
<1>7. Active(consumed', TreeOf', operands', operator_stack', held', pc', from)
  BY <1>1, <1>2, <1>5, <1>6
<1> QED
  BY <1>1, <1>2, <1>3, <1>6, <1>7, StepSame DEF from

\* A call that returns at a closing bracket or a comma gives its caller a tree.
LEMMA ClosesHere ==
  ASSUME Sound, Understandable, pc = "return", callers # <<>>, Advance, Readable',
         it \in Closing \/ it = Comma, NEW n, n = Len(callers), NEW c, c = Top(callers),
         NEW y, y = operands[1]
  PROVE  \E marks : /\ Understood(TreeOf, marks)
                    /\ Closed(NodeIds, consumed, consumed', it, TreeOf, c, marks[n], marks[n + 1], y)
<1>1. Known
  BY DEF Known
<1>2. /\ Extends(consumed, consumed', it) /\ Regular(consumed)
      /\ \E marks : Understood(TreeOf, marks)
  BY <1>1, Reads1
<1>3. PICK marks : Understood(TreeOf, marks)
  BY <1>2
<1>4. TypeInv /\ callers \in Seq(Frame) /\ n \in Nat /\ Len(consumed) \in Nat /\ operands \in Seq(NodeIds)
  BY SoundIs
<1>5. /\ c.operands \in Seq(NodeIds) /\ c.operators \in Seq(OperatorEntry) /\ c.held \in Seq(NodeIds)
      /\ y \in NodeIds
  BY <1>4, CallerLemma
<1>6. n \in 1..Len(callers) /\ c = callers[n]
  <2>1. n \in Nat \ {0}
    BY <1>4, PopLemma
  <2> QED
    BY <2>1 DEF Top
<1>7. Suspended(consumed, TreeOf, c, marks[n], marks[n + 1])
  BY <1>3, <1>6, UnderstoodIs
<1> DEFINE from == Origin(marks)
           L == Len(consumed)
           g == held
<1>8. Active(consumed, TreeOf, operands, operator_stack, g, "return", from)
  BY <1>3, UnderstoodIs
<1>9. from = marks[n + 1].from /\ L = Len(consumed)
  BY DEF Origin
<1>10. L > 0 /\ EndsOperand(consumed[L])
  <2>1. L = 0 => it \in Starting
    BY <1>2, ExtendsIs
  <2>2. L # 0
    BY <2>1, NotStarting
  <2>3. L > 0
    BY <1>4, <2>2
  <2>4. Follows(consumed[L], it)
    BY <1>2, <2>3, ExtendsIs
  <2> QED
    BY <2>3, <2>4, BeforeClosing
<1> HIDE DEF from, g
<1>11. Reads(consumed, TreeOf[y], from, Len(consumed))
  BY <1>4, <1>8, <1>9, <1>10, ReturnReads
<1>12. Reads(consumed, TreeOf[y], marks[n + 1].from, Len(consumed))
  BY <1>9, <1>11
<1> HIDE DEF L
<1>13. Closed(NodeIds, consumed, consumed', it, TreeOf, c, marks[n], marks[n + 1], y)
  BY <1>2, <1>5, <1>7, <1>12, Zenon DEF Closed
<1> QED
  BY <1>3, <1>13

LEMMA ClosedMore ==
  ASSUME NEW S, NEW s, NEW r, NEW t, NEW T, NEW c, NEW m, NEW mm, NEW y,
         Closed(S, s, r, t, T, c, m, mm, y), NEW N, S \subseteq N
  PROVE  Closed(N, s, r, t, T, c, m, mm, y)
<1>1. /\ Extends(s, r, t) /\ Regular(s) /\ Suspended(s, T, c, m, mm)
      /\ c.operands \in Seq(S) /\ c.operators \in Seq(OperatorEntry) /\ c.held \in Seq(S)
      /\ y \in S /\ Reads(s, T[y], mm.from, Len(s))
  BY Zenon DEF Closed
<1>2. c.operands \in Seq(N) /\ c.held \in Seq(N) /\ y \in N
  BY <1>1
<1> QED
  BY <1>1, <1>2, Zenon DEF Closed

\* The calls that return, one lemma for each action.
LEMMA ClosesRoundStep ==
  ASSUME Sound, Understandable, CloseRound, Readable'
  PROVE  (\E ms : Understood(TreeOf, ms))'
<1> DEFINE c == Top(callers)
           n == Len(callers)
           y == operands[1]
<1>1. /\ pc = "return" /\ callers # <<>> /\ c.why = "(" /\ it = ")" /\ Advance /\ heap' = heap
      /\ operands' = Append(c.operands, y) /\ operator_stack' = c.operators
      /\ callers' = Pop(callers) /\ pc' = "apply"
  BY DEF CloseRound, Returning, Resume
<1>2. it \in Closing
  BY <1>1, Classes
<1>3. c = Top(callers) /\ n = Len(callers) /\ y = operands[1]
  OBVIOUS
<1> HIDE DEF c, n, y
<1>4. PICK marks :
        /\ Understood(TreeOf, marks)
        /\ Closed(NodeIds, consumed, consumed', it, TreeOf, c, marks[n], marks[n + 1], y)
  BY <1>1, <1>2, <1>3, ClosesHere
<1>5. Agree(consumed, consumed', Len(consumed))
  BY <1>4, ClosedIs
<1> DEFINE m == marks[n]
           mm == marks[n + 1]
           r == consumed'
           g == held'
<1>6. Closed(NodeIds, consumed, r, it, TreeOf, c, m, mm, y)
  BY <1>4
<1>7. m.from = marks[n].from
  OBVIOUS
<1> HIDE DEF m, mm, r, g
<1>8. Active(r, TreeOf, Append(c.operands, y), c.operators, g, "apply", m.from)
  BY <1>1, <1>6, RoundClosed
<1>9. TreeOf' = TreeOf /\ Keep
  BY <1>1, TreeOfSame
<1>10. Active(consumed', TreeOf', operands', operator_stack', held', pc', marks[n].from)
  BY <1>1, <1>7, <1>8, <1>9 DEF r, g
<1> QED
  BY <1>1, <1>3, <1>4, <1>5, <1>9, <1>10, StepResume

LEMMA ClosesSquareStep ==
  ASSUME Sound, Understandable, CloseSquare, Readable'
  PROVE  (\E ms : Understood(TreeOf, ms))'
<1> DEFINE c == Top(callers)
           n == Len(callers)
           y == operands[1]
<1>1. /\ pc = "return" /\ callers # <<>> /\ c.why = "[" /\ it = "]" /\ Advance /\ heap' = heap
      /\ operands' = c.operands /\ operator_stack' = c.operators /\ held' = Append(c.held, y)
      /\ callers' = Pop(callers) /\ pc' = "target"
  BY DEF CloseSquare, Returning, Resume
<1>2. it \in Closing
  BY <1>1, Classes
<1>3. c = Top(callers) /\ n = Len(callers) /\ y = operands[1]
  OBVIOUS
<1> HIDE DEF c, n, y
<1>4. PICK marks :
        /\ Understood(TreeOf, marks)
        /\ Closed(NodeIds, consumed, consumed', it, TreeOf, c, marks[n], marks[n + 1], y)
  BY <1>1, <1>2, <1>3, ClosesHere
<1>5. Agree(consumed, consumed', Len(consumed))
  BY <1>4, ClosedIs
<1> DEFINE m == marks[n]
           mm == marks[n + 1]
           r == consumed'
<1>6. Closed(NodeIds, consumed, r, it, TreeOf, c, m, mm, y)
  BY <1>4
<1>7. m.from = marks[n].from
  OBVIOUS
<1> HIDE DEF m, mm, r
<1>8. Active(r, TreeOf, c.operands, c.operators, Append(c.held, y), "target", m.from)
  BY <1>1, <1>6, SquareClosed
<1>9. TreeOf' = TreeOf /\ Keep
  BY <1>1, TreeOfSame
<1>10. Active(consumed', TreeOf', operands', operator_stack', held', pc', marks[n].from)
  BY <1>1, <1>7, <1>8, <1>9 DEF r
<1> QED
  BY <1>1, <1>3, <1>4, <1>5, <1>9, <1>10, StepResume

LEMMA ArgumentsStep ==
  ASSUME Sound, Understandable, NextArgument, Readable'
  PROVE  (\E ms : Understood(TreeOf, ms))'
<1> DEFINE c == Top(callers)
           n == Len(callers)
           y == operands[1]
           d == [c EXCEPT !.held = Append(c.held, y)]
<1>1. /\ pc = "return" /\ callers # <<>> /\ c.why \in {OpenBrace, "rotate"} /\ it = Comma
      /\ Advance /\ heap' = heap /\ (c.why = "rotate" => c.held = <<>>)
      /\ operands' = <<>> /\ operator_stack' = operator_stack /\ held' = held /\ pc' = "loop"
      /\ callers' = [callers EXCEPT ![n].held = Append(@, y)]
  BY Zenon DEF NextArgument, Returning, OpenBrace, Comma
<1>2. callers' = [callers EXCEPT ![n] = d]
  BY <1>1 DEF Top
<1>3. /\ c = Top(callers) /\ n = Len(callers) /\ y = operands[1]
  OBVIOUS
<1>4. TypeInv /\ callers \in Seq(Frame) /\ n \in Nat /\ n > 0
  <2>1. TypeInv /\ callers \in Seq(Frame)
    BY SoundIs
  <2> QED
    BY <1>1, <2>1, PopLemma
<1>5. /\ d.operands = c.operands /\ d.operators = c.operators /\ d.why = c.why
      /\ d.held = Append(c.held, y)
  <2>1. c \in Frame
    BY <1>1, <1>4, CallerLemma
  <2> QED
    BY <2>1, Zenon DEF Frame
<1>6. operator_stack = <<>>
  <2>1. \A marks : Understood(TreeOf, marks) => operator_stack = <<>>
    <3> SUFFICES ASSUME NEW marks, Understood(TreeOf, marks) PROVE operator_stack = <<>>
      OBVIOUS
    <3> DEFINE from == Origin(marks)
    <3>1. Active(consumed, TreeOf, operands, operator_stack, held, "return", from)
      BY <1>1, UnderstoodIs
    <3> HIDE DEF from
    <3> QED
      BY <3>1, ActiveIs
  <2>2. Known
    BY <1>1 DEF Known
  <2> QED
    BY <1>1, <2>1, <2>2, Reads1
<1> HIDE DEF c, n, y, d
<1>7. PICK marks :
        /\ Understood(TreeOf, marks)
        /\ Closed(NodeIds, consumed, consumed', it, TreeOf, c, marks[n], marks[n + 1], y)
  BY <1>1, <1>3, ClosesHere
<1>8. Agree(consumed, consumed', Len(consumed))
  BY <1>7, ClosedIs
<1> DEFINE m == marks[n]
           mm == marks[n + 1]
           r == consumed'
           k == Len(r) + 1
           ml == [open |-> mm.open, from |-> k]
           g == held'
<1>9. Closed(NodeIds, consumed, r, it, TreeOf, c, m, mm, y)
  BY <1>7
<1>10. Extended(r, c, d, mm, ml, y) /\ m = marks[n]
  BY <1>5 DEF Extended
<1> HIDE DEF m, mm, r, g, ml, k
<1>11. /\ Suspended(r, TreeOf, d, m, ml)
       /\ Active(r, TreeOf, <<>>, <<>>, g, "loop", ml.from)
  BY <1>1, <1>9, <1>10, ArgumentRead
<1>12. TreeOf' = TreeOf /\ Keep
  BY <1>1, TreeOfSame
<1>13. /\ Suspended(consumed', TreeOf', d, m, ml)
       /\ Active(consumed', TreeOf', operands', operator_stack', held', pc', ml.from)
  BY <1>1, <1>6, <1>11, <1>12 DEF r, g
<1> QED
  BY <1>2, <1>3, <1>4, <1>7, <1>8, <1>10, <1>12, <1>13, StepArgument

LEMMA ClosesGroupStep ==
  ASSUME Sound, Understandable, CloseGroup, Readable'
  PROVE  (\E ms : Understood(TreeOf, ms))'
<1> DEFINE c == Top(callers)
           n == Len(callers)
           y == operands[1]
           h == Append(c.held, y)
           kind == IF it = CloseBrace THEN "list" ELSE "call"
<1>1. /\ pc = "return" /\ callers # <<>> /\ c.why \in {OpenBrace, "rotate"} /\ Advance
      /\ \/ c.why = OpenBrace /\ it = CloseBrace
         \/ c.why = "rotate" /\ it = ")" /\ c.held # <<>>
      /\ heap' = Append(heap, Node(kind, 0, h))
      /\ operands' = Append(c.operands, Fresh) /\ operator_stack' = c.operators
      /\ callers' = Pop(callers) /\ pc' = "apply"
  BY Zenon DEF CloseGroup, Returning, Resume, GroupClosed, OpenBrace, CloseBrace
<1>2. it \in Closing
  BY <1>1, Classes
<1>3. c = Top(callers) /\ n = Len(callers) /\ y = operands[1] /\ h = Append(c.held, y)
  OBVIOUS
<1>4. /\ c.why = OpenBrace /\ it = CloseBrace => kind = "list"
      /\ c.why = "rotate" /\ it = ")" => kind = "call"
  BY OddTokens
<1>5. TypeInv /\ TypeOK /\ OwnsOlder(heap)
  BY SoundIs
<1>6. c.operands \in Seq(NodeIds) /\ h \in Seq(NodeIds)
  <2>1. c.operands \in Seq(NodeIds) /\ c.held \in Seq(NodeIds) /\ y \in NodeIds
    BY <1>1, <1>5, CallerLemma
  <2> QED
    BY <2>1, PushLemma
<1> HIDE DEF c, n, y, h, kind
<1>7. PICK marks :
        /\ Understood(TreeOf, marks)
        /\ Closed(NodeIds, consumed, consumed', it, TreeOf, c, marks[n], marks[n + 1], y)
  BY <1>1, <1>2, <1>3, ClosesHere
<1>8. Agree(consumed, consumed', Len(consumed))
  BY <1>7, ClosedIs
<1> DEFINE m == marks[n]
           mm == marks[n + 1]
           r == consumed'
           g == held'
           S == NodeIds'
           U == TreeOf'
<1>9. /\ Keep /\ NodeIds \subseteq S /\ Fresh \in S
      /\ U[Fresh] = Tree(kind, 0, TreesAt(TreeOf, h))
  BY <1>1, <1>5, <1>6, TreeMade DEF TreesAt
<1>10. Keeps(TreeOf, U, c.operands)
  BY <1>6, <1>9, KeepsHere
<1>11. Closed(NodeIds, consumed, r, it, TreeOf, c, m, mm, y) /\ m.from = marks[n].from
  BY <1>7
<1> HIDE DEF m, mm, r, g, S, U
<1>12. Closed(S, consumed, r, it, TreeOf, c, m, mm, y)
  BY <1>9, <1>11, ClosedMore
<1>13. Active(r, U, Append(c.operands, Fresh), c.operators, g, "apply", m.from)
  <2>1. CASE c.why = OpenBrace /\ it = CloseBrace
    <3>1. U[Fresh] = Tree("list", 0, TreesAt(TreeOf, h))
      BY <1>4, <1>9, <2>1
    <3> QED
      BY <1>3, <1>9, <1>10, <1>12, <2>1, <3>1, ListClosed
  <2>2. CASE c.why = "rotate" /\ it = ")" /\ c.held # <<>>
    <3>1. U[Fresh] = Tree("call", 0, TreesAt(TreeOf, h))
      BY <1>4, <1>9, <2>2
    <3> QED
      BY <1>3, <1>9, <1>10, <1>12, <2>2, <3>1, RotateClosed
  <2> QED
    BY <1>1, <2>1, <2>2
<1>14. Active(consumed', TreeOf', operands', operator_stack', held', pc', marks[n].from)
  BY <1>1, <1>11, <1>13 DEF r, g, U
<1> QED
  BY <1>1, <1>3, <1>7, <1>8, <1>9, <1>14, StepResume

\* No step is made.
LEMMA StandsStill ==
  ASSUME Sound, Understandable, UNCHANGED vars, Readable', Known'
  PROVE  (\E ms : Understood(TreeOf, ms))'
<1>1. /\ Stay /\ heap' = heap /\ operands' = operands /\ operator_stack' = operator_stack
      /\ held' = held /\ callers' = callers /\ pc' = pc /\ Known
  BY DEF vars, Stay, Known
<1>2. /\ Agree(consumed, consumed', Len(consumed)) /\ consumed' = consumed
      /\ \E marks : Understood(TreeOf, marks)
  BY <1>1, Reads0
<1>3. PICK marks : Understood(TreeOf, marks)
  BY <1>2
<1> DEFINE from == Origin(marks)
<1>4. Active(consumed, TreeOf, operands, operator_stack, held, pc, from)
  BY <1>3, UnderstoodIs
<1> HIDE DEF from
<1>5. TreeOf' = TreeOf /\ Keep
  BY <1>1, TreeOfSame
<1>6. Active(consumed', TreeOf', operands', operator_stack', held', pc', from)
  BY <1>1, <1>2, <1>4, <1>5
<1> QED
  BY <1>1, <1>2, <1>3, <1>5, <1>6, StepSame DEF from

\* Every step keeps the text understood.
LEMMA UnderstandsStep ==
  ASSUME Sound, Understandable, [Next]_vars
  PROVE  Understandable'
<1> SUFFICES ASSUME Readable', Known'
             PROVE  (\E ms : Understood(TreeOf, ms))'
  BY DEF Understandable
<1>1. CASE ReadBinary
  BY <1>1, ReadsBinaryStep
<1>2. CASE Reduce
  BY <1>2, ReducesStep
<1>3. CASE PushBinary
  BY <1>3, PushesStep
<1>4. CASE ReadUnary
  BY <1>4, ReadsUnaryStep
<1>5. CASE ApplyUnary
  BY <1>5, AppliesUnaryStep
<1>6. CASE EndIteration
  BY <1>6, EndsIterationStep
<1>7. CASE ReadLiteral
  BY <1>7, ReadsLiteralStep
<1>8. CASE ReadVariable
  BY <1>8, ReadsVariableStep
<1>9. CASE BuildIndexAccess
  BY <1>9, BuildsIndexStep
<1>10. CASE EndTarget
  BY <1>10, EndsTargetStep
<1>11. CASE OpenBracket
  BY <1>11, OpensBracketStep
<1>12. CASE ReadRotate
  BY <1>12, ReadsRotateStep
<1>13. CASE OpenRotate
  BY <1>13, OpensRotateStep
<1>14. CASE Stop \/ Return
  BY <1>14, StopsStep
<1>15. CASE CleanUp
  BY <1>15, CleansUpStep
<1>16. CASE CloseRound
  BY <1>16, ClosesRoundStep
<1>17. CASE CloseSquare
  BY <1>17, ClosesSquareStep
<1>18. CASE NextArgument
  BY <1>18, ArgumentsStep
<1>19. CASE CloseGroup
  BY <1>19, ClosesGroupStep
<1>20. CASE ReadPostFix \/ RejectPostFix
  BY <1>20 DEF ReadPostFix, RejectPostFix, Stay, Readable
<1>21. CASE RejectOperator \/ Underflow \/ RejectNegative \/ RejectRotate \/ RejectExpression \/ RejectClose
  BY <1>21, Zenon DEF RejectOperator, Underflow, RejectNegative, RejectRotate, RejectExpression, RejectClose,
                      Throw, Known
<1>22. CASE UNCHANGED vars
  BY <1>22, StandsStill
<1> QED
  BY <1>1, <1>2, <1>3, <1>4, <1>5, <1>6, <1>7, <1>8, <1>9, <1>10, <1>11, <1>12, <1>13, <1>14, <1>15,
     <1>16, <1>17, <1>18, <1>19, <1>20, <1>21, <1>22, Zenon DEF Next, Step, Finished

LEMMA UnderstandsInit == Init => Understandable
<1> SUFFICES ASSUME Init PROVE \E ms : Understood(TreeOf, ms)
  BY DEF Understandable
<1> DEFINE T == TreeOf
           none == <<>>
           marks == [d \in {1} |-> [open |-> 0, from |-> 1]]
           h == held
<1>1. /\ consumed = none /\ operands = none /\ operator_stack = none /\ callers = none /\ pc = "loop"
  BY DEF Init
<1>2. marks[1].from = 1 /\ Len(none) = 0
  OBVIOUS
<1> HIDE DEF T, marks, h
<1>3. Awaits(none, T, none, none, 1)
  BY <1>2, NothingRead
<1> HIDE DEF none
<1>4. Active(none, T, none, none, h, "loop", 1)
  BY <1>3, ActiveIs
<1>5. Len(callers) = 0 /\ Len(callers) + 1 = 1
  BY <1>1, <1>2
<1>6. Active(consumed, T, operands, operator_stack, held, pc, marks[Len(callers) + 1].from)
  BY <1>1, <1>2, <1>4, <1>5 DEF h
<1>7. \A d \in 1..Len(callers) : Suspended(consumed, T, callers[d], marks[d], marks[d + 1])
  BY <1>5
<1>8. Understood(T, marks)
  BY <1>2, <1>6, <1>7, Zenon DEF Understood
<1> QED
  BY <1>8 DEF T

---------------------------------------------------------------------------
(* Brackets and calls; why a parse ends without a tree.                    *)

\* A token changes the depth and the number of calls alike.
LEMMA DepthMoves ==
  ASSUME TypeOK, Advance, DepthIsCalls, Len(callers') = Len(callers) + Change(it)
  PROVE  DepthIsCalls'
<1> DEFINE s == consumed
           r == consumed'
           k == Len(s) + 1
           n == Len(r) + 1
<1>1. r = Append(s, it) /\ s \in Seq(AllTokens) /\ it \in AllTokens
  BY DEF Advance, TypeOK
<1> HIDE DEF r, s
<1>2. Agree(s, r, Len(s)) /\ Len(r) = k /\ r[k] = it
  BY <1>1, AgreeAppend
<1>3. Len(s) \in Nat /\ Len(r) \in Nat
  BY <1>2, AgreeIs
<1>4. k \in 1..Len(s) + 1 /\ k \in 1..Len(r) /\ n = k + 1
  BY <1>2, <1>3
<1>5. Depth(s)[k] = Depth(r)[k]
  BY <1>2, <1>4, DepthAgrees
<1>6. Depth(r)[n] = Depth(r)[k] + Change(r[k])
  BY <1>3, <1>4, DepthIs
<1>7. Depth(s)[k] = Len(callers)
  BY DEF DepthIsCalls, s
<1>8. Depth(r)[n] = Len(callers')
  BY <1>2, <1>5, <1>6, <1>7
<1> QED
  BY <1>8 DEF DepthIsCalls, r

LEMMA ChangeTokens ==
  /\ \A t \in Binary \cup Unary \cup Literals \cup {"id", "rotate", Comma} : Change(t) = 0
  /\ \A t \in {"(", "[", OpenBrace} : Change(t) = 1
  /\ \A t \in {")", "]", CloseBrace} : Change(t) = -1
<1>1. \A t \in Binary \cup Unary \cup Literals \cup {"id", "rotate", Comma} : t \notin Opening /\ t \notin Closing
  <2>1. "id" \notin Opening /\ "id" \notin Closing /\ "rotate" \notin Opening /\ "rotate" \notin Closing
    BY Classes, OddTokens
  <2>2. \A t \in Binary \cup Unary \cup Literals : t \notin Opening /\ t \notin Closing
    BY Classes, OddTokens DEF Binary, Unary, Literals
  <2>3. Comma \notin Opening /\ Comma \notin Closing
    BY TokensAre
  <2> QED
    BY <2>1, <2>2, <2>3
<1> QED
  BY <1>1, ChangeOf, Classes

\* The open brackets are the suspended calls, after every step.
LEMMA DepthStep ==
  ASSUME TypeInv, DepthIsCalls, [Next]_vars
  PROVE  DepthIsCalls'
<1> TypeOK /\ callers \in Seq(Frame) /\ Len(callers) \in Nat
  BY LenProperties DEF TypeInv, TypeOK
<1>1. CASE Stay /\ callers' = callers
  BY <1>1 DEF Stay, DepthIsCalls
<1>2. CASE /\ ReadBinary \/ ReadUnary \/ ReadLiteral \/ ReadVariable \/ ReadRotate
  <2>1. Advance /\ callers' = callers /\ it \in Binary \cup Unary \cup Literals \cup {"id", "rotate", Comma}
    BY <1>2 DEF ReadBinary, ReadUnary, ReadLiteral, ReadVariable, ReadRotate
  <2>2. Change(it) = 0
    BY <2>1, ChangeTokens
  <2> QED
    BY <2>1, <2>2, DepthMoves
<1>3. CASE OpenBracket \/ OpenRotate
  <2>1. /\ Advance /\ it \in {"(", "[", OpenBrace}
        /\ \E why : callers' = Append(callers, Call(why))
    BY <1>3, Zenon DEF OpenBracket, OpenRotate, Enter, Call, OpenBrace
  <2>2. Change(it) = 1
    BY <2>1, ChangeTokens
  <2>3. Len(callers') = Len(callers) + 1
    BY <2>1, AppendProperties
  <2> QED
    BY <2>1, <2>2, <2>3, DepthMoves
<1>4. CASE CloseRound \/ CloseSquare \/ CloseGroup
  <2>1. Advance /\ it \in {")", "]", CloseBrace} /\ callers # <<>> /\ callers' = Pop(callers)
    BY <1>4, Zenon DEF CloseRound, CloseSquare, CloseGroup, Returning, Resume, GroupClosed, CloseBrace
  <2>2. Change(it) = -1
    BY <2>1, ChangeTokens
  <2>3. Len(callers') = Len(callers) - 1
    BY <2>1, PopLemma
  <2> QED
    BY <2>1, <2>2, <2>3, DepthMoves
<1>5. CASE NextArgument
  <2>1. Advance /\ it = Comma
    BY <1>5, Zenon DEF NextArgument, Comma
  <2>2. Change(it) = 0
    BY <2>1, ChangeTokens
  <2>3. Len(callers') = Len(callers)
    BY <1>5, ArgumentLemma
  <2> QED
    BY <2>1, <2>2, <2>3, DepthMoves
<1>6. CASE \/ RejectOperator \/ Reduce \/ Underflow \/ PushBinary \/ ReadPostFix \/ RejectPostFix
           \/ ApplyUnary \/ EndIteration \/ RejectNegative \/ BuildIndexAccess \/ EndTarget \/ RejectRotate
           \/ Stop \/ CleanUp \/ RejectExpression \/ Return \/ RejectClose
  BY <1>1, <1>6, Zenon DEF RejectOperator, Reduce, Underflow, PushBinary, ReadPostFix, RejectPostFix, ApplyUnary,
       EndIteration, RejectNegative, BuildIndexAccess, EndTarget, RejectRotate, Stop, CleanUp,
       RejectExpression, Return, RejectClose, Throw
<1>7. CASE UNCHANGED vars
  BY <1>1, <1>7 DEF vars, Stay
<1> QED
  BY <1>2, <1>3, <1>4, <1>5, <1>6, <1>7, Zenon DEF Next, Step, Finished

LEMMA DepthInit == Init => DepthIsCalls
<1> SUFFICES ASSUME Init PROVE DepthIsCalls
  OBVIOUS
<1> DEFINE none == <<>>
<1>1. consumed = none /\ callers = none
  BY DEF Init
<1>2. Len(none) = 0 /\ Len(none) \in Nat /\ Len(none) + 1 = 1
  OBVIOUS
<1> HIDE DEF none
<1>3. Depth(none)[1] = 0
  BY <1>2, DepthIs
<1> QED
  BY <1>1, <1>2, <1>3 DEF DepthIsCalls

\* Why the consumed text is not an expression of the grammar that ends here.
Reason == \/ ~Readable
          \/ it \in Continues \cup {"["}
          \/ callers # <<>>
          \/ consumed = <<>>
          \/ ~EndsOperand(consumed[Len(consumed)])

\* A parse that ends does not move the iterator.
LEMMA ReasonStays ==
  ASSUME Reason, Stay, callers' = callers
  PROVE  Reasons'
BY DEF Reason, Reasons, Stay, Readable

LEMMA MarksExist ==
  ASSUME Sound, Understandable, Readable, Known
  PROVE  \E from : Active(consumed, TreeOf, operands, operator_stack, held, pc, from)
BY UnderstoodIs DEF Understandable

\* A rotate without its bracket is no expression.
LEMMA NoRotate ==
  ASSUME Sound, Understandable, RejectRotate, Readable
  PROVE  ~EndsOperand(consumed[Len(consumed)])
<1>1. pc = "rotate" /\ Known
  BY DEF RejectRotate, Known
<1>2. PICK from : Active(consumed, TreeOf, operands, operator_stack, held, pc, from)
  BY <1>1, MarksExist
<1>3. Active(consumed, TreeOf, operands, operator_stack, held, "rotate", from)
  BY <1>1, <1>2
<1>4. consumed[Len(consumed)] = "rotate"
  BY <1>3, ActiveIs
<1> QED
  BY <1>4, NoOperand

\* Stacks that do not come down to one operand are no expression.
LEMMA NoExpression ==
  ASSUME Sound, Understandable, RejectExpression, Readable, consumed # <<>>
  PROVE  ~EndsOperand(consumed[Len(consumed)])
<1> SUFFICES ASSUME EndsOperand(consumed[Len(consumed)]) PROVE FALSE
  OBVIOUS
<1>1. pc = "cleanup" /\ Known
  BY DEF RejectExpression, Known
<1>2. \/ operator_stack # <<>> /\ (Top(operator_stack).op \in Unary \/ Len(operands) < 2)
      \/ operator_stack = <<>> /\ Len(operands) # 1
  BY DEF RejectExpression
<1>3. PICK from : Active(consumed, TreeOf, operands, operator_stack, held, pc, from)
  BY <1>1, MarksExist
<1>4. Active(consumed, TreeOf, operands, operator_stack, held, "cleanup", from)
  BY <1>1, <1>3
<1>5. consumed \in Seq(AllTokens) /\ operator_stack \in Seq(OperatorEntry) /\ Len(operator_stack) \in Nat
  BY SoundIs
<1>6. Len(consumed) > 0
  BY <1>5, EmptySeq, LenProperties
<1>7. Has(consumed, TreeOf, operands, operator_stack, from, Len(consumed))
  BY <1>4, <1>6, ActiveIs
<1> DEFINE T == TreeOf
           e == Len(consumed)
<1>8. Len(operands) = Len(operator_stack) + 1 /\ Pieces(consumed, T, operands, operator_stack, from, e)
  BY <1>7 DEF Has
<1> HIDE DEF T, e
<1>9. CASE operator_stack # <<>>
  <2>1. Top(operator_stack).op \notin Unary
    BY <1>5, <1>8, <1>9, TopBinary
  <2>2. Len(operator_stack) > 0
    BY <1>5, <1>9, EmptySeq
  <2> QED
    BY <1>2, <1>5, <1>8, <2>1, <2>2
<1>10. CASE operator_stack = <<>>
  <2>1. Len(operator_stack) = 0
    BY <1>10
  <2> QED
    BY <1>2, <1>8, <1>10, <2>1
<1> QED
  BY <1>9, <1>10

\* A parse ends without a tree only where the text does not end an expression.
LEMMA ReasonsStep ==
  ASSUME Sound, Understandable, Reasons, [Next]_vars
  PROVE  Reasons'
<1>1. CASE pc' \notin {"threw", "undefined"}
  BY <1>1 DEF Reasons
<1>2. CASE RejectOperator \/ RejectNegative
  <2>1. Stay /\ callers' = callers /\ it \in Continues
    BY <1>2 DEF RejectOperator, RejectNegative, Throw, Continues, Literals
  <2> QED
    BY <2>1, ReasonStays DEF Reason
<1>3. CASE RejectPostFix
  <2>1. Stay /\ callers' = callers /\ ~Readable
    BY <1>3 DEF RejectPostFix, Throw, Readable
  <2> QED
    BY <2>1, ReasonStays DEF Reason
<1>4. CASE RejectRotate
  <2>1. Stay /\ callers' = callers
    BY <1>4 DEF RejectRotate, Throw
  <2> QED
    BY <1>4, <2>1, NoRotate, ReasonStays DEF Reason
<1>5. CASE RejectClose
  <2>1. Stay /\ callers' = callers /\ callers # <<>>
    BY <1>5, Zenon DEF RejectClose, Throw, Returning
  <2> QED
    BY <2>1, ReasonStays DEF Reason
<1>6. CASE RejectExpression
  <2>1. Stay /\ callers' = callers
    BY <1>6 DEF RejectExpression, Throw
  <2> QED
    BY <1>6, <2>1, NoExpression, ReasonStays DEF Reason
<1>7. CASE Underflow
  <2>1. Stay /\ callers' = callers /\ pc = "reduce"
    BY <1>7 DEF Underflow
  <2>2. Top(consumed) \in Binary
    BY <2>1, SoundIs DEF TypeInv, Shape
  <2>3. ~EndsOperand(consumed[Len(consumed)])
    BY <2>2, NoOperand DEF Top, Operators
  <2> QED
    BY <2>1, <2>3, ReasonStays DEF Reason
<1>8. CASE UNCHANGED vars
  BY <1>8 DEF vars, Reasons, Readable
<1>9. CASE \/ ReadBinary \/ Reduce \/ PushBinary \/ ReadUnary \/ ReadPostFix \/ ApplyUnary \/ EndIteration
           \/ ReadLiteral \/ ReadVariable \/ BuildIndexAccess \/ EndTarget
           \/ OpenBracket \/ ReadRotate \/ OpenRotate
           \/ Stop \/ CleanUp \/ Return \/ CloseRound \/ CloseSquare \/ NextArgument \/ CloseGroup
  <2>1. pc' \notin {"threw", "undefined"}
    BY <1>9 DEF ReadBinary, Reduce, PushBinary, ReadUnary, ReadPostFix, ApplyUnary, EndIteration,
       IterationEnd, AfterIteration, ReadLiteral, ReadVariable, BuildIndexAccess, EndTarget, OpenBracket, Enter,
       ReadRotate, OpenRotate, Stop, CleanUp, Return, CloseRound, CloseSquare, NextArgument, CloseGroup, Resume
  <2> QED
    BY <1>1, <2>1
<1> QED
  BY <1>2, <1>3, <1>4, <1>5, <1>6, <1>7, <1>8, <1>9, Zenon DEF Next, Step, Finished

LEMMA ReasonsInit == Init => Reasons
BY DEF Init, Reasons

---------------------------------------------------------------------------
\* A whole expression without late prefixes may be read by the invariant.
LEMMA NotLate ==
  ASSUME TypeOK, ~LatePrefix, NEW L, L = Len(consumed), WellFormed(consumed, 1, L)
  PROVE  Regular(consumed)
<1>1. L \in Nat /\ L >= 1
  BY FormRange, LenProperties DEF TypeOK
<1>2. Pairs(consumed, 1, L) /\ consumed[1] \in Starting
  BY DEF WellFormed
<1>3. \A i \in 1..L - 1 : Follows(consumed[i], consumed[i + 1])
  <2> SUFFICES ASSUME NEW i \in 1..L - 1, ~Follows(consumed[i], consumed[i + 1]) PROVE FALSE
    OBVIOUS
  <2> DEFINE a == consumed[i]
             j == i + 1
             b == consumed[j]
  <2>1. i \in 1..L /\ j \in 1..L /\ j > 1 /\ j # 1 /\ j - 1 = i
    BY <1>1
  <2>2. Beside(a, b)
    BY <1>2 DEF Pairs
  <2>3. a \in Operators /\ b \in Starting /\ b \notin Plain
    <3>1. ~Follows(a, b)
      OBVIOUS
    <3> HIDE DEF a, b
    <3> QED
      BY <2>2, <3>1, Classes, Zenon DEF Beside
  <2>4. b \in Unary \/ b = "-"
    BY <2>3 DEF Starting
  <2>5. ~Opens(j)
    <3>1. consumed[j - 1] = a
      BY <2>1
    <3>2. a \notin Opening \cup {Comma}
      BY <2>3, NoOperand
    <3> HIDE DEF a, j
    <3> QED
      BY <2>1, <3>1, <3>2, Zenon DEF Opens, Comma
  <2>6. consumed[j - 1] \in Operators
    BY <2>1, <2>3
  <2> HIDE DEF j
  <2>7. LatePrefix
    BY <2>1, <2>4, <2>5, <2>6 DEF LatePrefix
  <2> QED
    BY <2>7
<1>4. \A i \in 1..L - 1 : Sign(consumed, i) => consumed[i + 1] = "int"
  BY <1>1, <1>2 DEF Pairs, Sign
<1> QED
  BY <1>2, <1>3, <1>4 DEF Regular

---------------------------------------------------------------------------
(* The theorem.                                                            *)

\* Nothing went wrong if the consumed text is a whole expression.
LEMMA WholeText ==
  ASSUME Sound, DepthIsCalls, Reasons, AtEndOfExpression, ~LatePrefix, NEW L, L = Len(consumed)
  PROVE  /\ L \in Nat /\ L > 0 /\ Readable /\ Known /\ pc = "return" /\ callers = <<>>
         /\ EndsOperand(consumed[L])
<1>1. TypeOK /\ consumed \in Seq(AllTokens) /\ L \in Nat /\ callers \in Seq(Frame) /\ Len(callers) \in Nat
  BY SoundIs
<1>2. Terminated /\ it \notin Continues \cup {"["} /\ IsExpression(Denotes)
  BY DEF AtEndOfExpression
<1>3. Reading(consumed)[<<1, L>>].kind # "none"
  <2>1. Reading(consumed)[<<1, L>>] = Denotes
    BY DEF Denotes
  <2> QED
    BY <1>2, <2>1, ExpressionIs
<1>4. WellFormed(consumed, 1, L)
  <2>1. 1 \in 1..Len(consumed) + 1 /\ L \in 0..Len(consumed)
    BY <1>1
  <2> QED
    BY <1>1, <1>3, <2>1, Forms
<1>5. L > 0
  BY <1>1, <1>4, FormRange
<1>6. Regular(consumed)
  BY <1>1, <1>4, NotLate
<1>7. it \notin PostFix
  BY <1>2 DEF Continues
<1>8. Readable
  BY <1>6, <1>7 DEF Readable
<1>9. callers = <<>>
  <2>1. Depth(consumed)[L + 1] = Depth(consumed)[1] /\ Depth(consumed)[1] = 0
    BY <1>1, <1>4, DepthIs DEF WellFormed, Balanced
  <2>2. Len(callers) = 0
    BY <2>1 DEF DepthIsCalls
  <2> QED
    BY <1>1, <2>2, EmptySeq
<1>10. EndsOperand(consumed[L])
  BY <1>4 DEF WellFormed
<1>11. consumed # <<>>
  <2> DEFINE none == <<>>
  <2>1. Len(none) = 0
    OBVIOUS
  <2> HIDE DEF none
  <2>2. consumed # none
    BY <1>5, <2>1
  <2> QED
    BY <2>2 DEF none
<1>12. Known
  <2>1. Reason \/ Known
    BY DEF Reasons, Reason, Known
  <2>2. ~Reason
    BY <1>2, <1>8, <1>9, <1>10, <1>11, Zenon DEF Reason
  <2> QED
    BY <2>1, <2>2
<1>13. pc = "return"
  BY <1>2, <1>12 DEF Terminated, Known
<1> QED
  BY <1>1, <1>5, <1>8, <1>9, <1>10, <1>12, <1>13

\* The invariant implies the property.
LEMMA TreeRead ==
  ASSUME Sound, DepthIsCalls, Reasons, Understandable
  PROVE  MatchesGrammar
<1> SUFFICES ASSUME AtEndOfExpression, ~LatePrefix
             PROVE  pc = "return" /\ TreeOf[operands[1]] = Denotes
  BY DEF MatchesGrammar
<1> DEFINE L == Len(consumed)
<1>1. /\ L \in Nat /\ L > 0 /\ Readable /\ Known /\ pc = "return" /\ callers = <<>>
      /\ EndsOperand(consumed[L])
  BY WholeText
<1>2. PICK marks : Understood(TreeOf, marks)
  BY <1>1 DEF Understandable
<1> DEFINE from == Origin(marks)
           T == TreeOf
           y == operands[1]
           g == held
<1>3. Active(consumed, T, operands, operator_stack, g, "return", from)
  BY <1>1, <1>2, UnderstoodIs
<1>4. from = 1
  <2>1. Len(callers) + 1 = 1
    BY <1>1
  <2> QED
    BY <1>2, <2>1 DEF Understood, Origin
<1>5. operands \in Seq(NodeIds)
  BY SoundIs
<1>6. L = Len(consumed) /\ y = operands[1]
  OBVIOUS
<1> HIDE DEF from, T, g, y
<1>7. Reads(consumed, T[y], from, Len(consumed))
  BY <1>1, <1>3, <1>5, <1>6, ReturnReads
<1> HIDE DEF L
<1>8. Reading(consumed)[<<from, L>>] = T[y]
  BY <1>6, <1>7 DEF Reads
<1>9. T[y] = Denotes
  BY <1>4, <1>6, <1>8, Zenon DEF Denotes
<1> QED
  BY <1>1, <1>9 DEF T, y

\* The parser reads its text as the grammar does: the inductive invariant.
ReadsGrammar == Sound /\ DepthIsCalls /\ Reasons /\ Understandable

\* It holds at the start and is kept by every step.
LEMMA ReadsGrammarInit == Init => ReadsGrammar
<1>1. Init => OperatorStacksRise
  BY EmptySeq, RiseEmpty DEF Init, OperatorStacksRise
<1> QED
  BY <1>1, TypeInit, AccountedInit, UnderstandsInit, DepthInit, ReasonsInit DEF ReadsGrammar, Sound

LEMMA ReadsGrammarStep == ReadsGrammar /\ [Next]_vars => ReadsGrammar'
<1> SUFFICES ASSUME ReadsGrammar, [Next]_vars PROVE ReadsGrammar'
  OBVIOUS
<1>1. TypeInv' /\ OperatorStacksRise' /\ Accounted'
  BY TypeStep, RiseStep, AccountedStep DEF ReadsGrammar, Sound
<1>2. Understandable' /\ DepthIsCalls' /\ Reasons'
  BY UnderstandsStep, DepthStep, ReasonsStep DEF ReadsGrammar, Sound
<1> QED
  BY <1>1, <1>2 DEF ReadsGrammar, Sound

\* A text that is an expression of the grammar, in which prefixes only open the
\* expression or a bracket, is accepted by parseExpression and becomes the tree
\* that precedence, associativity and brackets give it: whatever the tokens and
\* however long the text.
THEOREM ExpressionsAreRead == Spec => []MatchesGrammar
<1>1. Init => ReadsGrammar
  BY ReadsGrammarInit
<1>2. ReadsGrammar /\ [Next]_vars => ReadsGrammar'
  BY ReadsGrammarStep
<1>3. ReadsGrammar => MatchesGrammar
  BY TreeRead DEF ReadsGrammar
<1> QED
  BY <1>1, <1>2, <1>3, PTL DEF Spec
=============================================================================
