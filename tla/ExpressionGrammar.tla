--------------------------- MODULE ExpressionGrammar ---------------------------
(***************************************************************************)
(* What Parser::parseExpression should return: the tree a sequence of      *)
(* tokens denotes under the precedence levels of comparePrecedence, with   *)
(* left associative binary operators, prefix operators that bind tightest  *)
(* and a minus sign in front of a literal that belongs to the literal.     *)
(* The definition splits at the operator applied last and does not look at *)
(* how the parser works.                                                   *)
(***************************************************************************)
EXTENDS ExpressionParser, Integers

Tree(kind, at, kids) == [kind |-> kind, at |-> at, kids |-> kids]
NoTree == Tree("none", 0, <<>>)

\* What stands between two brackets: one expression or several, or neither.
IsExpression(tree) == tree.kind \notin {"none", "elements"}
Elements(tree) == IF tree.kind = "elements" THEN tree.kids ELSE <<tree>>

\* An expression of such parts.
Make(kind, at, kids) ==
  IF \A i \in DOMAIN kids : IsExpression(kids[i]) THEN Tree(kind, at, kids) ELSE NoTree
Group(kind, inside) ==
  IF inside.kind = "none" THEN NoTree ELSE Tree(kind, 0, Elements(inside))

---------------------------------------------------------------------------
Opening == {"(", "[", "{"}
Closing == {")", "]", "}"}

\* The number of brackets that are open in front of each token of s.
Change(t) == CASE t \in Opening -> 1 [] t \in Closing -> -1 [] OTHER -> 0
Depth(s) ==
  LET depth[p \in 1..Len(s) + 1] == IF p = 1 THEN 0 ELSE depth[p - 1] + Change(s[p - 1])
  IN  depth

\* The positions of s[lo..hi] outside every bracket.
Outside(s, lo, hi) == {p \in lo..hi : Depth(s)[p] = Depth(s)[lo]}
Commas(s, lo, hi) == {p \in Outside(s, lo, hi) : s[p] = ","}

\* A token that may be the last one of an operand.
EndsOperand(t) == t \in Literals \cup {"id", ")", "]", "}"}

\* The binary operators of s[lo..hi] outside brackets, and the one applied last.
BinaryAt(s, lo, hi) ==
  {p \in Outside(s, lo, hi) : p > lo /\ s[p] \in Binary /\ EndsOperand(s[p - 1])}
LastApplied(s, ps) ==
  CHOOSE p \in ps : \A q \in ps : \/ Level(s[q]) < Level(s[p])
                                  \/ Level(s[q]) = Level(s[p]) /\ q <= p
LastOf(ps) == CHOOSE p \in ps : \A q \in ps : q <= p

---------------------------------------------------------------------------
(* The tree of s[lo..hi], from the trees R of all shorter parts of s.      *)

OneToken(s, p) == CASE s[p] = "id"       -> Tree("variable", p, <<>>)
                    [] s[p] \in Literals -> Tree("literal", p, <<>>)
                    [] OTHER             -> NoTree

\* s[hi] closes a bracket.
Bracketed(s, R, lo, hi) ==
  LET open == LastOf(Outside(s, lo, hi - 1))
      inside == R[<<open + 1, hi - 1>>]
  IN CASE open = lo /\ s[open] = "(" /\ s[hi] = ")" ->
            IF IsExpression(inside) THEN inside ELSE NoTree
       [] open = lo /\ s[open] = "{" /\ s[hi] = "}" -> Group("list", inside)
       [] open = lo + 1 /\ s[lo] = "rotate" /\ s[open] = "(" /\ s[hi] = ")" ->
            IF Len(Elements(inside)) = 2 THEN Group("call", inside) ELSE NoTree
       [] open > lo /\ s[lo] = "id" /\ s[open] = "[" /\ s[hi] = "]" ->
            Make("index", 0, <<R[<<lo, open - 1>>], inside>>)
       [] OTHER -> NoTree

\* No comma and no binary operator is outside the brackets of s[lo..hi].
Operand(s, R, lo, hi) ==
  CASE lo = hi                         -> OneToken(s, lo)
    [] lo < hi /\ s[lo] \in Unary      -> Make("unary", lo, <<R[<<lo + 1, hi>>]>>)
    [] lo < hi /\ s[lo] = "-"          ->
         IF hi = lo + 1 /\ s[hi] = "int" THEN Tree("negative", hi, <<>>) ELSE NoTree
    [] lo < hi /\ s[lo] \notin Operators -> Bracketed(s, R, lo, hi)
    [] OTHER                           -> NoTree

Phrase(s, R, lo, hi) ==
  LET commas == Commas(s, lo, hi)
      c == LastOf(commas)
      binary == BinaryAt(s, lo, hi)
      p == LastApplied(s, binary)
  IN CASE lo > hi -> NoTree
       [] lo <= hi /\ commas # {} ->
            IF R[<<lo, c - 1>>].kind # "none" /\ IsExpression(R[<<c + 1, hi>>])
            THEN Tree("elements", 0, Append(Elements(R[<<lo, c - 1>>]), R[<<c + 1, hi>>]))
            ELSE NoTree
       [] lo <= hi /\ commas = {} /\ binary # {} ->
            Make("binary", p, <<R[<<lo, p - 1>>], R[<<p + 1, hi>>]>>)
       [] lo <= hi /\ commas = {} /\ binary = {} -> Operand(s, R, lo, hi)

Parts(s) == (1..Len(s) + 1) \X (0..Len(s))
Reading(s) ==
  LET reads[part \in Parts(s)] == Phrase(s, reads, part[1], part[2])
  IN  reads

Denotes == Reading(consumed)[<<1, Len(consumed)>>]

---------------------------------------------------------------------------
\* The tree of nodes that hangs below each node of the heap.
TreeOf[n \in NodeIds] ==
  Tree(heap[n].kind, heap[n].at, [i \in DOMAIN heap[n].kids |-> TreeOf[heap[n].kids[i]]])

\* The text the outermost parseExpression consumed is a whole expression.
AtEndOfExpression == Terminated /\ it \notin Continues \cup {"["} /\ IsExpression(Denotes)

\* A prefix operator or a negative literal that does not open the expression
\* or a bracket: the parser does not read these as the grammar does.
Opens(i) == i = 1 \/ consumed[i - 1] \in Opening \cup {","}
LatePrefix ==
  \E i \in 1..Len(consumed) :
     \/ consumed[i] \in Unary /\ ~Opens(i)
     \/ consumed[i] = "-" /\ i > 1 /\ consumed[i - 1] \in Operators

---------------------------------------------------------------------------
\* An expression of the grammar is accepted and becomes the tree it denotes:
\* precedence, left associativity, brackets, indices, lists, rotate calls.
MatchesGrammar ==
  AtEndOfExpression /\ ~LatePrefix =>
    /\ pc = "return"
    /\ TreeOf[operands[1]] = Denotes

---------------------------------------------------------------------------
\* comparePrecedence ranks ! and ~ above every binary operator: a prefix
\* operator applies to the operand on its right.
Leftmost[n \in NodeIds] ==
  LET kids == heap[n].kids IN IF kids = <<>> THEN heap[n].at ELSE Leftmost[kids[1]]
PrefixTakesNextOperand ==
  \A n \in NodeIds : heap[n].kind = "unary" => Leftmost[heap[n].kids[1]] > heap[n].at
=============================================================================
