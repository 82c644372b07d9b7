----------------------------- MODULE StatementParser -----------------------------
(***************************************************************************)
(* Parser::parse and the productions for statements, a recursive descent.  *)
(* frames are the active productions, outermost first: where each stands,  *)
(* the children it holds in unique_ptr members (parts) or in a vector      *)
(* (list), and whether parseStatement gobbles the semicolon.  A suspended  *)
(* frame stands where it goes on when the production it called returns.    *)
(*                                                                         *)
(* An expression is one symbol: parseExpression is called on its first     *)
(* token and either throws or returns a node and leaves the iterator on a  *)
(* token that cannot continue it (ExpressionParser models the inside; its  *)
(* texts with ++ and --, which it never leaves, are not among these).      *)
(* Likewise parseTarget reads a variable with its indices.  The text is    *)
(* chosen one token at a time, and ends with "eof"; a lexeme the tokenizer *)
(* refuses may stand behind any token.                                     *)
(*                                                                         *)
(* An exception leaves the frames as they were when it was thrown, with    *)
(* one more on top where a function had a node in a raw pointer only: what *)
(* is freed is what the unique_ptrs of the frames hold.                    *)
(***************************************************************************)
EXTENDS Naturals, Sequences, Ownership

CONSTANT Sources   \* bound: the tokens a text may be made of, and its length

Keywords == {"for", "if", "else", "return", "public", "secret", "type"}
Punctuation == {"(", ")", "[", "]", "{", "}", ",", ";", "="}
AllTokens == Keywords \cup Punctuation \cup {"id", "lit"}
Symbols == AllTokens \cup {"expr", "target"}

ASSUME SourcesAssumption == Sources \subseteq [tokens : SUBSET AllTokens, length : Nat]

VARIABLES source,    \* the element of Sources this text belongs to
          consumed,  \* the symbols read so far
          it,        \* the token the iterator stands on
          heap,      \* the nodes made so far: their kind and their children
          frames,
          pc         \* "parse", "done", "threw", or "refused" by the tokenizer

vars == <<source, consumed, it, heap, frames, pc>>

---------------------------------------------------------------------------
Top(s) == s[Len(s)]
Pop(s) == SubSeq(s, 1, Len(s) - 1)

\* The first tokens of expressions, which also continue one.
Starts == {"id", "lit", "(", "{"}

\* The token behind n symbols.
NextToken(n) == {"eof"} \cup (IF n < source.length THEN source.tokens ELSE {})

\* Read a symbol; the iterator moves to a token outside S.
AdvanceTo(symbol, S) == /\ consumed' = Append(consumed, symbol)
                        /\ it' \in NextToken(Len(consumed) + 1) \ S
                        /\ UNCHANGED source
Advance == AdvanceTo(it, {})
Stay == UNCHANGED <<source, consumed, it>>

Frame(stage, gobble) == [stage |-> stage, parts |-> <<>>, list |-> <<>>, gobble |-> gobble]
Node(kind, kids) == [kind |-> kind, kids |-> kids]
Fresh == Len(heap) + 1

At(stages) == pc = "parse" /\ Top(frames).stage \in stages
Here == Top(frames)

\* The active production goes on at another stage, perhaps with one more child.
Goto(stage) == frames' = [frames EXCEPT ![Len(frames)].stage = stage]
Hold(n, stage) == frames' = [frames EXCEPT ![Len(frames)].stage = stage,
                                           ![Len(frames)].parts = Append(@, n)]
\* It calls another production and is to go on at resume.
Call(resume, callee) ==
  frames' = Append([frames EXCEPT ![Len(frames)].stage = resume], callee)

\* The stages at which a child that arrives goes to a vector.
Collecting == {"statements", "block_body", "Block", "initializers", "updates", "parameters"}

\* Mutant of Received: a vector is filled from the front.
ReceivedFront(f, n) == IF f.stage \in Collecting THEN [f EXCEPT !.list = <<n>> \o @]
                                                 ELSE [f EXCEPT !.parts = Append(@, n)]
\* Mutant of Received: a child replaces the one before it.
ReceivedOver(f, n) == IF f.stage \in Collecting THEN [f EXCEPT !.list = Append(@, n)]
                                                ELSE [f EXCEPT !.parts = <<n>>]

\* The frame f of the caller once n has been returned to it.
Received(f, n) == IF f.stage \in Collecting THEN [f EXCEPT !.list = Append(@, n)]
                                            ELSE [f EXCEPT !.parts = Append(@, n)]

\* The active production returns n.
Return(n) == frames' = [Pop(frames) EXCEPT ![Len(frames) - 1] = Received(@, n)]

Throw == /\ pc' = "threw"
         /\ Stay
         /\ UNCHANGED <<heap, frames>>

\* The exception leaves a function whose local pointer to a node is raw.
ThrowRaw(how, kind) ==
  /\ pc' = how
  /\ heap' = Append(heap, Node(kind, <<>>))
  /\ frames' = Append(frames, [Frame("raw", FALSE) EXCEPT !.parts = <<Fresh>>])
  /\ Stay

Init == /\ source \in Sources
        /\ consumed = <<>>
        /\ it \in NextToken(0)
        /\ heap = <<>>
        /\ frames = <<Frame("statements", FALSE)>>
        /\ pc = "parse"

---------------------------------------------------------------------------
(* Tokens that are looked for: parseTokenValue, parseIdentifier, and       *)
(* parseDatatype, where "type" stands for every type keyword.              *)

Wanted(token, next) == [token |-> token, next |-> next]
Expected ==
  [for_round      |-> Wanted("(", "initializer"),
   condition_end  |-> Wanted(";", "update"),
   for_close      |-> Wanted(")", "update_block"),
   if_round       |-> Wanted("(", "if_condition"),
   if_close       |-> Wanted(")", "then"),
   block          |-> Wanted("{", "block_body"),
   return_type    |-> Wanted("type", "function_name"),
   function_name  |-> Wanted("id", "function_round"),
   function_round |-> Wanted("(", "parameters"),
   parameter_type |-> Wanted("type", "parameter_name"),
   parameter_name |-> Wanted("id", "FunctionParameter"),
   declared_type  |-> Wanted("type", "variable"),
   array_close    |-> Wanted("]", "initial_value"),
   assign         |-> Wanted("=", "assigned_value")]

\* "secret" may come before a type, once.
SecretNext == /\ Here.stage \in {"return_type", "parameter_type", "declared_type"}
              /\ it = "secret"
              /\ consumed # <<>> => Top(consumed) # "secret"

ExpectToken == /\ At(DOMAIN Expected)
               /\ it = Expected[Here.stage].token
               /\ Goto(Expected[Here.stage].next)
               /\ Advance
               /\ UNCHANGED <<heap, pc>>

RejectToken == /\ At(DOMAIN Expected)
               /\ it # Expected[Here.stage].token
               /\ ~SecretNext
               /\ Throw

\* Mutant of ReadSecret: the iterator is not moved.
SecretStays == At(DOMAIN Expected) /\ SecretNext /\ UNCHANGED vars

ReadSecret == /\ At(DOMAIN Expected) /\ SecretNext
              /\ Advance
              /\ UNCHANGED <<heap, frames, pc>>

---------------------------------------------------------------------------
(* Expressions and targets, as their callers see them.                     *)

AfterExpression ==
  [if_condition   |-> "if_close",
   for_condition  |-> "condition_end",
   returned_value |-> "Return",
   assigned_value |-> "Assignment",
   declared_value |-> "VariableDeclaration"]

\* parseExpression returns.
ReadExpression == /\ At(DOMAIN AfterExpression) /\ it \in Starts
                  /\ heap' = Append(heap, Node("Expression", <<>>))
                  /\ Hold(Fresh, AfterExpression[Here.stage])
                  /\ AdvanceTo("expr", Starts)
                  /\ UNCHANGED pc

\* parseExpression throws: an empty expression, or an error inside it, the
\* tokenizer's included.  The operands read so far, one node here, are raw on its
\* stack, in the literal it reads, or in the first argument of rotate.
RejectExpression == /\ At(DOMAIN AfterExpression)
                    /\ Here.stage = "returned_value" => it # ";"
                    /\ \/ Throw
                       \/ it \in Starts /\ ThrowRaw("threw", "Expression")

\* parseTarget returns.
ReadTarget == /\ At({"target"}) /\ it = "id"
              /\ heap' = Append(heap, Node("Target", <<>>))
              /\ Hold(Fresh, "assign")
              /\ AdvanceTo("target", {"["})
              /\ UNCHANGED pc

\* No identifier, or an error in an index; the variable and the indices are raw.
RejectTarget == /\ At({"target"})
                /\ \/ Throw
                   \/ it = "id" /\ ThrowRaw("threw", "Target")

---------------------------------------------------------------------------
(* parseStatement.                                                         *)

\* A keyword that is consumed at once, and the stage that follows.
Opened == [for |-> "for_round", if |-> "if_round", public |-> "return_type",
           return |-> "returned_value"]

DispatchKeyword == /\ At({"statement"}) /\ it \in DOMAIN Opened
                   /\ Goto(Opened[it])
                   /\ Advance
                   /\ UNCHANGED <<heap, pc>>

\* A block, a declaration, and for any other token an assignment.
Dispatch == /\ At({"statement"}) /\ it \notin DOMAIN Opened
            /\ Goto(CASE it = "{"                 -> "block"
                      [] it \in {"secret", "type"} -> "declared_type"
                      [] OTHER                    -> "target")
            /\ Stay
            /\ UNCHANGED <<heap, pc>>

Simple == {"Return", "Assignment", "VariableDeclaration"}
Compound == {"Block", "If", "For", "Function"}

\* Mutant of Build: a semicolon is looked for behind compound statements, too.
BuildAllRaw == /\ At(Simple \cup Compound)
               /\ heap' = Append(heap, Node(Here.stage, Here.list \o Here.parts))
               /\ IF Here.gobble
                  THEN frames' = [frames EXCEPT ![Len(frames)] =
                                    [Frame("semicolon", TRUE) EXCEPT !.parts = <<Fresh>>]]
                  ELSE Return(Fresh)
               /\ Stay
               /\ UNCHANGED pc

\* The production makes its node.  A simple statement is then held by a raw
\* pointer until its semicolon was found.
Build == /\ At(Simple \cup Compound)
         /\ heap' = Append(heap, Node(Here.stage, Here.list \o Here.parts))
         /\ IF Here.stage \in Simple /\ Here.gobble
            THEN frames' = [frames EXCEPT ![Len(frames)] =
                              [@ EXCEPT !.stage = "semicolon", !.parts = <<Fresh>>]]
            ELSE Return(Fresh)
         /\ Stay
         /\ UNCHANGED pc

GobbleSemicolon == /\ At({"semicolon"}) /\ it = ";"
                   /\ Return(Here.parts[1])
                   /\ Advance
                   /\ UNCHANGED <<heap, pc>>

RejectSemicolon == At({"semicolon"}) /\ it # ";" /\ Throw

---------------------------------------------------------------------------
(* Return and variable declarations.                                       *)

ReturnNothing == /\ At({"returned_value"}) /\ it = ";"
                 /\ Goto("Return")
                 /\ Stay
                 /\ UNCHANGED <<heap, pc>>

DeclareVariable == /\ At({"variable"}) /\ it = "id"
                   /\ heap' = Append(heap, Node("Variable", <<>>))
                   /\ Hold(Fresh, "array")
                   /\ Advance
                   /\ UNCHANGED pc

OpenArray == /\ At({"array"}) /\ it = "["
             /\ Goto("array_close")
             /\ Advance
             /\ UNCHANGED <<heap, pc>>

\* The semicolon is left to parseStatement.
DeclareOnly == /\ At({"array", "initial_value"}) /\ it = ";"
               /\ Goto("VariableDeclaration")
               /\ Stay
               /\ UNCHANGED <<heap, pc>>

Initialize == /\ At({"array", "initial_value"}) /\ it = "="
              /\ Goto("declared_value")
              /\ Advance
              /\ UNCHANGED <<heap, pc>>

RejectDeclaration == /\ \/ At({"variable"}) /\ it # "id"
                        \/ At({"array"}) /\ it \notin {"[", ";", "="}
                        \/ At({"initial_value"}) /\ it \notin {";", "="}
                     /\ Throw

---------------------------------------------------------------------------
(* Blocks, branches and function parameters.                               *)

\* The loop of parse() and that of parseBlockStatement.
NextStatement == /\ \/ At({"statements"}) /\ it # "eof"
                    \/ At({"block_body"}) /\ it # "}"
                 /\ Call(Here.stage, Frame("statement", TRUE))
                 /\ Stay
                 /\ UNCHANGED <<heap, pc>>

CloseBlock == /\ At({"block_body"}) /\ it = "}"
              /\ Goto("Block")
              /\ Advance
              /\ UNCHANGED <<heap, pc>>

\* parseBlockOrSingleStatement: a single statement is wrapped in a Block.
Branch == /\ At({"then", "else"})
          /\ LET resume == IF Here.stage = "then" THEN "otherwise" ELSE "If"
                 called == [frames EXCEPT ![Len(frames)].stage = resume]
             IN  frames' = called \o (IF it = "{" THEN <<Frame("block", TRUE)>>
                                      ELSE <<Frame("Block", TRUE), Frame("statement", TRUE)>>)
          /\ Stay
          /\ UNCHANGED <<heap, pc>>

\* The else belongs to the if that is active.
Otherwise == /\ At({"otherwise"})
             /\ IF it = "else" THEN Goto("else") /\ Advance ELSE Goto("If") /\ Stay
             /\ UNCHANGED <<heap, pc>>

NextParameter == /\ At({"parameters"}) /\ it # ")"
                 /\ Call("parameters", Frame("parameter_type", TRUE))
                 /\ Stay
                 /\ UNCHANGED <<heap, pc>>

\* A comma after the parameter is consumed if there is one.
BuildParameter == /\ At({"FunctionParameter"})
                  /\ heap' = Append(heap, Node("FunctionParameter", <<>>))
                  /\ Return(Fresh)
                  /\ IF it = "," THEN Advance ELSE Stay
                  /\ UNCHANGED pc

\* What follows the comma is no token; the parameter is still raw.
LoseParameter == /\ At({"FunctionParameter"}) /\ it = ","
                 /\ ThrowRaw("refused", "FunctionParameter")

CloseParameters == /\ At({"parameters"}) /\ it = ")"
                   /\ Goto("function_body")
                   /\ Advance
                   /\ UNCHANGED <<heap, pc>>

Body == /\ At({"function_body", "for_body"})
        /\ Call(IF Here.stage = "for_body" THEN "For" ELSE "Function", Frame("block", TRUE))
        /\ Stay
        /\ UNCHANGED <<heap, pc>>

---------------------------------------------------------------------------
(* The header of a for.                                                    *)

\* The statements collected so far become a Block.
Wrap(stage) ==
  /\ heap' = Append(heap, Node("Block", Here.list))
  /\ frames' = [frames EXCEPT ![Len(frames)] =
                  [Here EXCEPT !.stage = stage, !.parts = Append(@, Fresh), !.list = <<>>]]

NoInitializer == /\ At({"initializer"}) /\ it = ";"
                 /\ Wrap("for_condition")
                 /\ Advance
                 /\ UNCHANGED pc

\* Mutant of ListedStatement: updates gobble a semicolon, too.
ListedGobbles(resume) == Call(resume, Frame("statement", TRUE))

\* A statement of the list; only those of the initializer gobble a semicolon.
ListedStatement(resume) == Call(resume, Frame("statement", resume = "initializers"))

FirstListed == /\ \/ At({"initializer"}) /\ it # ";"
                  \/ At({"update"}) /\ it # ")"
               /\ ListedStatement(IF Here.stage = "update" THEN "updates" ELSE "initializers")
               /\ Stay
               /\ UNCHANGED <<heap, pc>>

\* A comma goes on with the list, but it is gobbled from the third statement on
\* only (size() > 1), so that the second one starts at the comma.
NextListed == /\ At({"initializers", "updates"}) /\ it = ","
              /\ ListedStatement(Here.stage)
              /\ IF Len(Here.list) > 1 THEN Advance ELSE Stay
              /\ UNCHANGED <<heap, pc>>

EndInitializers == /\ At({"initializers"}) /\ it # ","
                   /\ Wrap("for_condition")
                   /\ Stay
                   /\ UNCHANGED pc

EndUpdates == /\ \/ At({"update"}) /\ it = ")"
                 \/ At({"updates"}) /\ it # ","
              /\ Goto("for_close")
              /\ Stay
              /\ UNCHANGED <<heap, pc>>

WrapUpdates == /\ At({"update_block"})
               /\ Wrap("for_body")
               /\ Stay
               /\ UNCHANGED pc

---------------------------------------------------------------------------
(* The iterator is moved past a token and the tokenizer throws: nothing    *)
(* has changed yet, so a simple statement whose semicolon is passed is     *)
(* still raw.                                                              *)

\* The tokens that are passed besides those of Expected and "secret".
Passed == [statement |-> DOMAIN Opened, semicolon |-> {";"}, variable |-> {"id"},
           array |-> {"[", "="}, initial_value |-> {"="}, block_body |-> {"}"},
           otherwise |-> {"else"}, parameters |-> {")"}, initializer |-> {";"}]

RefuseLexeme == /\ \/ At(DOMAIN Expected) /\ (it = Expected[Here.stage].token \/ SecretNext)
                   \/ At(DOMAIN Passed) /\ it \in Passed[Here.stage]
                   \/ At({"initializers", "updates"}) /\ it = "," /\ Len(Here.list) > 1
                /\ pc' = "refused"
                /\ UNCHANGED <<source, consumed, it, heap, frames>>

---------------------------------------------------------------------------
\* parse() returns; the statements of the program are frames[1].list.
Finish == /\ At({"statements"}) /\ it = "eof"
          /\ pc' = "done"
          /\ UNCHANGED <<source, consumed, it, heap, frames>>

Terminated == pc # "parse"
Finished == Terminated /\ UNCHANGED vars

Step == \/ ExpectToken \/ RejectToken \/ ReadSecret
        \/ ReadExpression \/ RejectExpression \/ ReadTarget \/ RejectTarget
        \/ DispatchKeyword \/ Dispatch \/ Build \/ GobbleSemicolon \/ RejectSemicolon
        \/ ReturnNothing \/ DeclareVariable \/ OpenArray \/ DeclareOnly \/ Initialize
        \/ RejectDeclaration
        \/ NextStatement \/ CloseBlock \/ Branch \/ Otherwise
        \/ NextParameter \/ BuildParameter \/ LoseParameter \/ CloseParameters \/ Body
        \/ NoInitializer \/ FirstListed \/ NextListed \/ EndInitializers
        \/ EndUpdates \/ WrapUpdates \/ RefuseLexeme \/ Finish

Next == Step \/ Finished

Spec == Init /\ [][Next]_vars

\* The parser is a sequential program: it keeps running while it can, whether or not
\* there is a lexeme that the tokenizer refuses.
FairSpec == Spec /\ WF_vars(Step /\ pc' # "refused")
---------------------------------------------------------------------------
NodeIds == 1..Len(heap)

\* What may hold a node: the members and the vector of every active production,
\* and every node; and the nodes each of them holds.
Owners == ({"parts", "list"} \X (1..Len(frames))) \cup ({"node"} \X NodeIds)
Owns == [h \in Owners |-> CASE h[1] = "parts" -> frames[h[2]].parts
                            [] h[1] = "list"  -> frames[h[2]].list
                            [] h[1] = "node"  -> heap[h[2]].kids]

\* Every node has one holder, an active production or a parent node: while
\* productions are left and entered no child is dropped and none is deleted
\* twice, and none comes to hold itself through others.
NodesAreHeld == /\ OwnedOnce(Owns, NodeIds)
                /\ \A n \in NodeIds : Range(heap[n].kids) \subseteq 1..(n - 1)

\* The nodes that go when n is deleted.
Below[n \in NodeIds] == {n} \cup UNION {Below[k] : k \in Range(heap[n].kids)}

\* The frames whose node is in a raw pointer, and what it points to.
Pointed == [semicolon |-> Simple, raw |-> {"Expression", "Target", "FunctionParameter"}]

\* The nodes that are freed when an exception unwinds the frames.
Freed == UNION {Below[n] : n \in
           UNION {Range(frames[f].parts) \cup Range(frames[f].list) :
                    f \in {g \in 1..Len(frames) : frames[g].stage \notin DOMAIN Pointed}}}

\* An exception leaks one tree at most, that of the innermost function: what
\* parseExpression or parseTarget had read, a parameter, or a simple statement
\* whose semicolon is missing or passed in vain.  Whatever the productions around
\* it have read is freed, however deep they are nested.
LeaksOneRawTree ==
  pc \in {"threw", "refused"} => LET lost == NodeIds \ Freed IN
    lost # {} => /\ Here.stage \in DOMAIN Pointed
                 /\ heap[Here.parts[1]].kind \in Pointed[Here.stage]
                 /\ lost = Below[Here.parts[1]]

=============================================================================
