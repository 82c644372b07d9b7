----------------------------- MODULE StatementTexts -----------------------------
(***************************************************************************)
(* The texts that a tree of statements stands for, as the comments of the  *)
(* productions give them.  Nothing here looks at how the parser works.     *)
(***************************************************************************)
EXTENDS StatementParser

\* A text of A and one of B behind it, and the texts of one token.
A ** B == {a \o b : a \in A, b \in B}
Tok(token) == {<<token>>}

\* A text of before, and then one of each of the sets seq.
Followed(before, seq) ==
  LET upto[i \in 0..Len(seq)] == IF i = 0 THEN before ELSE upto[i - 1] ** seq[i]
  IN  upto[Len(seq)]

\* "secret", [] and the comma behind a parameter are optional.
Datatype == Tok("type") \cup (Tok("secret") ** Tok("type"))
Array == {<<>>} \cup (Tok("[") ** Tok("]"))
Parameter == Datatype ** Tok("id") ** ({<<>>} \cup Tok(","))

---------------------------------------------------------------------------
(* T has the texts of the nodes hp, each twice: T[n]["any"] are all of     *)
(* them, T[n]["closed"] those that an else behind them would not belong to. *)
Ends == {"any", "closed"}

\* A statement, with the semicolon of a simple one, and a list of them.
Sentence(T, hp, n, end) ==
  IF hp[n].kind \in Simple THEN T[n][end] ** Tok(";") ELSE T[n][end]
Sentences(T, hp, list) == [i \in DOMAIN list |-> Sentence(T, hp, list[i], "any")]
Clauses(T, list) == [i \in DOMAIN list |-> T[list[i]]["any"]]

\* A branch is a Block, whose braces may be missing around a single statement.
BranchText(T, hp, b, end) ==
  T[b][end] \cup IF Len(hp[b].kids) = 1 THEN Sentence(T, hp, hp[b].kids[1], end) ELSE {}

ReturnText(kids) == IF kids = <<>> THEN Tok("return") ELSE Tok("return") ** Tok("expr")
DeclarationText(kids) ==
  LET declared == Datatype ** Tok("id") ** Array
  IN  IF Len(kids) = 1 THEN declared ELSE declared ** Tok("=") ** Tok("expr")
BlockText(T, hp, kids) == Followed(Tok("{"), Sentences(T, hp, kids)) ** Tok("}")

Condition == Tok("if") ** Tok("(") ** Tok("expr") ** Tok(")")
\* Without its else an if is not closed.
IfText(T, hp, kids, end) ==
  IF Len(kids) = 2
  THEN IF end = "closed" THEN {} ELSE Condition ** BranchText(T, hp, kids[2], "any")
  ELSE Condition ** BranchText(T, hp, kids[2], "closed")
         ** Tok("else") ** BranchText(T, hp, kids[3], end)

\* The header up to the condition, up to the updates, and to its end.
ForStart(T, hp, b) ==
  LET open == Tok("for") ** Tok("(")
  IN  IF hp[b].kids = <<>> THEN open ** Tok(";") ELSE Followed(open, Sentences(T, hp, hp[b].kids))
ForHead(T, hp, b) == ForStart(T, hp, b) ** Tok("expr") ** Tok(";")
ForHeader(T, hp, b, list) == Followed(ForHead(T, hp, b), Clauses(T, list)) ** Tok(")")
ForText(T, hp, kids) == ForHeader(T, hp, kids[1], hp[kids[3]].kids) ** T[kids[4]]["any"]

Signature(parameters) ==
  Followed(Tok("public") ** Datatype ** Tok("id") ** Tok("("), [i \in parameters |-> Parameter])
FunctionText(T, kids) ==
  Signature(1..Len(kids) - 1) ** Tok(")") ** T[kids[Len(kids)]]["any"]

\* A node without the semicolon of a simple statement; what is no statement has no
\* text of its own.
TextOf(T, hp, kind, kids, end) ==
  CASE kind = "Assignment"                     -> Tok("target") ** Tok("=") ** Tok("expr")
    [] kind = "Return"                         -> ReturnText(kids)
    [] kind = "VariableDeclaration"            -> DeclarationText(kids)
    [] kind = "Block"                          -> BlockText(T, hp, kids)
    [] kind = "If" /\ Len(kids) \in {2, 3}     -> IfText(T, hp, kids, end)
    [] kind = "For" /\ Len(kids) = 4           -> ForText(T, hp, kids)
    [] kind = "Function" /\ Len(kids) > 0      -> FunctionText(T, kids)
    [] OTHER                                   -> {}

Texts[n \in NodeIds] ==
  [end \in Ends |-> TextOf(Texts, heap, heap[n].kind, heap[n].kids, end)]

---------------------------------------------------------------------------
\* A text that is accepted is a text of the tree that is returned: nothing is
\* dropped, doubled or put in another order, and an else belongs to the nearest
\* if that can take it.
TreeSpellsText ==
  pc = "done" => consumed \in Followed({<<>>}, Sentences(Texts, heap, frames[1].list))
=============================================================================
