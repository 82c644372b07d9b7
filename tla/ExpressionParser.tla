---------------------------- MODULE ExpressionParser ----------------------------
(***************************************************************************)
(* Parser::parseExpression and the productions it calls (parseTarget,      *)
(* parseLiteral, parseExpressionList, parseOperator, the rotate call): a   *)
(* shunting yard over two stacks, which recurses into itself for every     *)
(* bracket.  The locals of the active call are the variables operands,     *)
(* operator_stack and held; the locals of the suspended calls are the      *)
(* records of callers.                                                     *)
(*                                                                         *)
(* The source text is chosen one token at a time, when the iterator moves  *)
(* to it: consumed is what has been read and `it' the token the iterator   *)
(* stands on.  Every node made with new is an entry of heap, numbered in   *)
(* the order of creation.                                                  *)
(***************************************************************************)
EXTENDS Naturals, Sequences, Ownership

CONSTANTS Sources,   \* bound: the tokens a text may be made of, and its length;
                     \* the text ends (with ";") when no source is longer
          MaxNodes   \* bound: nodes made while the iterator does not move

Unary == {"!", "~"}

\* Lower number means HIGHER precedence.
Level(o) ==
  CASE o \in Unary                  -> 3
    [] o \in {"*", "***", "/", "%"} -> 5
    [] o \in {"+", "+++", "-", "---"} -> 6
    [] o \in {"<", "<=", ">=", ">"} -> 9
    [] o \in {"==", "!="}           -> 10
    [] o = "&"                      -> 11
    [] o = "^"                      -> 12
    [] o = "|"                      -> 13
    [] o = "&&"                     -> 14
    [] o = "||"                     -> 15

\* Binary operators the tokenizer knows and the AST has no node for.
Unsupported == {"..", "\\", "<<", ">>"}

Binary == {"*", "***", "/", "%", "+", "+++", "-", "---", "<", "<=", ">=", ">",
           "==", "!=", "&", "^", "|", "&&", "||"}

Operators == Unary \cup Binary

PostFix == {"++", "--"}

\* "int" stands for every numeric literal, "str" for strings and characters,
\* "bool" for the keywords true and false.
Literals == {"int", "str", "bool"}

AllTokens == Operators \cup Unsupported \cup PostFix \cup Literals
               \cup {"id", "(", ")", "[", "]", "{", "}", ",", ";", "rotate"}

ASSUME SourcesAssumption == Sources \subseteq [tokens : SUBSET AllTokens, length : Nat]
ASSUME MaxNodesAssumption == MaxNodes \in Nat

VARIABLES consumed,        \* the tokens read so far
          it,              \* the token the iterator stands on
          heap,            \* the nodes made so far
          operands,        \* operand stack of the active parseExpression
          operator_stack,  \* operator stack of the active parseExpression
          held,            \* variable and indices of the active parseTarget
          callers,         \* the suspended calls of parseExpression
          pc

vars == <<consumed, it, heap, operands, operator_stack, held, callers, pc>>

---------------------------------------------------------------------------
Top(s) == s[Len(s)]
Pop(s) == SubSeq(s, 1, Len(s) - 1)

\* The sources the text may still be a beginning of.
LongerThan(text) ==
  {s \in Sources : /\ Len(text) < s.length
                   /\ \A i \in 1..Len(text) : text[i] \in s.tokens}
\* ++it: the next token of the text, ";" after the last one.
NextToken(text) == IF LongerThan(text) = {}
                     THEN {";"}
                     ELSE UNION {s.tokens : s \in LongerThan(text)}
Advance == /\ consumed' = Append(consumed, it)
           /\ it' \in NextToken(Append(consumed, it))
Stay == UNCHANGED <<consumed, it>>

\* A node: its kind, the position of its token in the text, the depth of the
\* recursion it was made at and the nodes it owns.
Node(kind, at, kids) ==
  [kind |-> kind, at |-> at, depth |-> Len(callers), kids |-> kids]
\* Mutant of Fresh: the numbering skips a node.
FreshSkips == Len(heap) + 2
Fresh == Len(heap) + 1
Here == Len(consumed) + 1

\* The operator that was just consumed.
op1 == [op |-> Top(consumed), at |-> Len(consumed)]

\* Mutant of BindsFirst: operators of the same level associate to the right.
RightAssociative(op2) == Level(op2.op) < Level(op1.op)

\* Does the operator on the stack get its operands before op1 is pushed?
\* op1 is never right associative here.
BindsFirst(op2) == Level(op2.op) <= Level(op1.op)

\* Mutant of AfterIteration: the loop goes on although nothing was consumed.
NeverLast == "loop"

\* The next stop of the loop's body; the last iteration goes to the cleanup.
IterationEnd == pc \in {"apply", "apply_last"}
AfterIteration == IF pc = "apply" THEN "loop" ELSE "cleanup"

Init == /\ consumed = <<>>
        /\ it \in NextToken(<<>>)
        /\ heap = <<>>
        /\ operands = <<>>
        /\ operator_stack = <<>>
        /\ held = <<>>
        /\ callers = <<>>
        /\ pc = "loop"

Throw == /\ pc' = "threw"
         /\ UNCHANGED <<operands, operator_stack, held, callers>>

---------------------------------------------------------------------------
(* Binary operators.                                                       *)

ReadBinary == /\ pc = "loop" /\ it \in Binary
              /\ Advance
              /\ pc' = "reduce"
              /\ UNCHANGED <<heap, operands, operator_stack, held, callers>>

RejectOperator == /\ pc = "loop" /\ it \in Unsupported
                  /\ Throw /\ Stay
                  /\ UNCHANGED heap

\* Mutant of Combine: the operands are popped in the wrong order.
CombineSwapped ==
  LET n == Len(operands) IN
  /\ heap' = Append(heap, Node("binary", Top(operator_stack).at,
                               <<operands[n], operands[n - 1]>>))
  /\ operands' = Append(SubSeq(operands, 1, n - 2), Fresh)
  /\ operator_stack' = Pop(operator_stack)

\* Pop an operator and two operands, push the BinaryExpression.
Combine ==
  LET n == Len(operands) IN
  /\ heap' = Append(heap, Node("binary", Top(operator_stack).at,
                               <<operands[n - 1], operands[n]>>))
  /\ operands' = Append(SubSeq(operands, 1, n - 2), Fresh)
  /\ operator_stack' = Pop(operator_stack)

MustReduce == operator_stack # <<>> /\ BindsFirst(Top(operator_stack))

Reduce == /\ pc = "reduce" /\ MustReduce
          /\ Len(operands) >= 2
          /\ Combine /\ Stay
          /\ UNCHANGED <<held, callers, pc>>

\* top() and pop() on an empty std::stack: the behaviour is undefined and the
\* model stops.
Underflow == /\ pc = "reduce" /\ MustReduce
             /\ Len(operands) < 2
             /\ pc' = "undefined"
             /\ Stay
             /\ UNCHANGED <<heap, operands, operator_stack, held, callers>>

PushBinary == /\ pc = "reduce" /\ ~MustReduce
              /\ operator_stack' = Append(operator_stack, op1)
              /\ pc' = "apply"
              /\ Stay
              /\ UNCHANGED <<heap, operands, held, callers>>

---------------------------------------------------------------------------
(* Unary and postfix operators, and the check that ends every iteration.   *)

ReadUnary == /\ pc = "loop" /\ it \in Unary
             /\ operator_stack' = Append(operator_stack, [op |-> it, at |-> Here])
             /\ Advance
             /\ pc' = "apply"
             /\ UNCHANGED <<heap, operands, held, callers>>

\* Mutant of ReadPostFix: the operand is read without being popped.
PostFixKeepsOperand ==
  /\ pc = "loop" /\ it \in PostFix
  /\ operands # <<>>
  /\ Len(heap) < MaxNodes
  /\ heap' = heap \o <<Node("literal", Here, <<>>),
                       Node("binary", Here, <<Top(operands), Fresh>>)>>
  /\ operands' = Append(operands, Fresh + 1)
  /\ pc' = "apply"
  /\ Stay
  /\ UNCHANGED <<operator_stack, held, callers>>

\* The operand becomes operand+1 or operand-1; the iterator is not moved.
ReadPostFix ==
  /\ pc = "loop" /\ it \in PostFix
  /\ operands # <<>>
  /\ Len(heap) < MaxNodes
  /\ heap' = heap \o <<Node("literal", Here, <<>>),
                       Node("binary", Here, <<Top(operands), Fresh>>)>>
  /\ operands' = Append(Pop(operands), Fresh + 1)
  /\ pc' = "apply"
  /\ Stay
  /\ UNCHANGED <<operator_stack, held, callers>>

RejectPostFix == /\ pc = "loop" /\ it \in PostFix
                 /\ operands = <<>>
                 /\ Throw /\ Stay
                 /\ UNCHANGED heap

UnaryReady == /\ operator_stack # <<>>
              /\ Top(operator_stack).op \in Unary
              /\ operands # <<>>

ApplyUnary == /\ IterationEnd /\ UnaryReady
              /\ heap' = Append(heap, Node("unary", Top(operator_stack).at,
                                           <<Top(operands)>>))
              /\ operands' = Append(Pop(operands), Fresh)
              /\ operator_stack' = Pop(operator_stack)
              /\ pc' = AfterIteration
              /\ Stay
              /\ UNCHANGED <<held, callers>>

EndIteration == /\ IterationEnd /\ ~UnaryReady
                /\ pc' = AfterIteration
                /\ Stay
                /\ UNCHANGED <<heap, operands, operator_stack, held, callers>>

---------------------------------------------------------------------------
(* Operands: literals, variables with their indices.                       *)

\* A minus on the stack and no operand yet: the minus belongs to the literal.
Negative == /\ operands = <<>>
            /\ operator_stack # <<>>
            /\ Top(operator_stack).op = "-"

ReadLiteral ==
  /\ pc = "loop" /\ it \in Literals
  /\ ~(Negative /\ it = "str")
  /\ heap' = Append(heap, Node(IF Negative /\ it = "int" THEN "negative"
                                                         ELSE "literal", Here, <<>>))
  /\ operands' = Append(operands, Fresh)
  /\ operator_stack' = IF Negative THEN Pop(operator_stack) ELSE operator_stack
  /\ Advance
  /\ pc' = "apply"
  /\ UNCHANGED <<held, callers>>

\* The literal has been made, and is lost, when parseLiteral throws.
RejectNegative == /\ pc = "loop" /\ it = "str" /\ Negative
                  /\ heap' = Append(heap, Node("literal", Here, <<>>))
                  /\ Throw /\ Stay

ReadVariable == /\ pc = "loop" /\ it = "id"
                /\ heap' = Append(heap, Node("variable", Here, <<>>))
                /\ held' = <<Fresh>>
                /\ Advance
                /\ pc' = "target"
                /\ UNCHANGED <<operands, operator_stack, callers>>

\* Once all indices are read the IndexAccess nodes are nested from the left.
BuildIndexAccess ==
  /\ pc = "target" /\ it # "["
  /\ Len(held) > 1
  /\ heap' = Append(heap, Node("index", 0, <<held[1], held[2]>>))
  /\ held' = <<Fresh>> \o SubSeq(held, 3, Len(held))
  /\ Stay
  /\ UNCHANGED <<operands, operator_stack, callers, pc>>

\* Mutant of EndTarget: the target replaces the operands that are waiting.
EndTargetReplaces == /\ pc = "target" /\ it # "["
                     /\ Len(held) = 1
                     /\ operands' = <<held[1]>>
                     /\ held' = <<>>
                     /\ pc' = "apply"
                     /\ Stay
                     /\ UNCHANGED <<heap, operator_stack, callers>>

EndTarget == /\ pc = "target" /\ it # "["
             /\ Len(held) = 1
             /\ operands' = Append(operands, held[1])
             /\ held' = <<>>
             /\ pc' = "apply"
             /\ Stay
             /\ UNCHANGED <<heap, operator_stack, callers>>

---------------------------------------------------------------------------
(* Recursion.  A frame keeps the caller's stacks, the bracket it opened    *)
(* and the nodes it has parsed inside that bracket.                        *)

Enter(why) ==
  /\ callers' = Append(callers, [operands |-> operands, operators |-> operator_stack,
                                 why |-> why, held |-> held])
  /\ operands' = <<>>
  /\ operator_stack' = <<>>
  /\ held' = <<>>
  /\ pc' = "loop"

OpenBracket == /\ \/ pc = "loop"   /\ it \in {"(", "{"}
                  \/ pc = "target" /\ it = "["
               /\ Enter(it)
               /\ Advance
               /\ UNCHANGED heap

ReadRotate == /\ pc = "loop" /\ it = "rotate"
              /\ Advance
              /\ pc' = "rotate"
              /\ UNCHANGED <<heap, operands, operator_stack, held, callers>>

OpenRotate == /\ pc = "rotate" /\ it = "("
              /\ Enter("rotate")
              /\ Advance
              /\ UNCHANGED heap

RejectRotate == /\ pc = "rotate" /\ it # "("
                /\ Throw /\ Stay
                /\ UNCHANGED heap

---------------------------------------------------------------------------
(* The end of a call.                                                      *)

Continues == Operators \cup Unsupported \cup PostFix \cup Literals
               \cup {"id", "(", "{", "rotate"}

Stop == /\ pc = "loop" /\ it \notin Continues
        /\ pc' = "apply_last"
        /\ Stay
        /\ UNCHANGED <<heap, operands, operator_stack, held, callers>>

CleanUp == /\ pc = "cleanup" /\ operator_stack # <<>>
           /\ Top(operator_stack).op \notin Unary
           /\ Len(operands) >= 2
           /\ Combine /\ Stay
           /\ UNCHANGED <<held, callers, pc>>

\* Unresolved unary operator, missing operand, empty expression or more than
\* one operand left.
RejectExpression ==
  /\ pc = "cleanup"
  /\ \/ operator_stack # <<>> /\ ( \/ Top(operator_stack).op \in Unary
                                   \/ Len(operands) < 2 )
     \/ operator_stack = <<>> /\ Len(operands) # 1
  /\ Throw /\ Stay
  /\ UNCHANGED heap

Return == /\ pc = "cleanup" /\ operator_stack = <<>>
          /\ Len(operands) = 1
          /\ pc' = "return"
          /\ Stay
          /\ UNCHANGED <<heap, operands, operator_stack, held, callers>>

Returning(brackets) ==
  pc = "return" /\ callers # <<>> /\ Top(callers).why \in brackets

\* The call returns to its caller, whose stacks come back.
Resume(stack, h, at) ==
  /\ operands' = stack
  /\ operator_stack' = Top(callers).operators
  /\ held' = h
  /\ callers' = Pop(callers)
  /\ pc' = at

CloseRound ==
  /\ Returning({"("}) /\ it = ")"
  /\ Resume(Append(Top(callers).operands, operands[1]), <<>>, "apply")
  /\ Advance
  /\ UNCHANGED heap

CloseSquare ==
  /\ Returning({"["}) /\ it = "]"
  /\ Resume(Top(callers).operands, Append(Top(callers).held, operands[1]), "target")
  /\ Advance
  /\ UNCHANGED heap

\* A comma: the next element of a list, or the second argument of rotate.
NextArgument ==
  /\ Returning({"{", "rotate"}) /\ it = ","
  /\ Top(callers).why = "rotate" => Top(callers).held = <<>>
  /\ callers' = [callers EXCEPT ![Len(callers)].held = Append(@, operands[1])]
  /\ operands' = <<>>
  /\ pc' = "loop"
  /\ Advance
  /\ UNCHANGED <<heap, operator_stack, held>>

GroupClosed == \/ Top(callers).why = "{" /\ it = "}"
               \/ Top(callers).why = "rotate" /\ it = ")" /\ Top(callers).held # <<>>

\* The ExpressionList or the Call takes its elements.
CloseGroup ==
  /\ Returning({"{", "rotate"}) /\ GroupClosed
  /\ heap' = Append(heap, Node(IF it = "}" THEN "list" ELSE "call", 0,
                               Append(Top(callers).held, operands[1])))
  /\ Resume(Append(Top(callers).operands, Fresh), <<>>, "apply")
  /\ Advance

\* parseTokenValue finds another token than the one the caller expects.
RejectClose ==
  /\ Returning({"(", "[", "{", "rotate"})
  /\ ~ \/ Top(callers).why = "(" /\ it = ")"
       \/ Top(callers).why = "[" /\ it = "]"
       \/ it = "," /\ \/ Top(callers).why = "{"
                      \/ Top(callers).why = "rotate" /\ Top(callers).held = <<>>
       \/ GroupClosed
  /\ Throw /\ Stay
  /\ UNCHANGED heap

Terminated == \/ pc \in {"threw", "undefined"}
              \/ pc = "return" /\ callers = <<>>

\* The outermost call is over.
Finished == Terminated /\ UNCHANGED vars

Step == \/ ReadBinary \/ RejectOperator \/ Reduce \/ Underflow \/ PushBinary
        \/ ReadUnary \/ ReadPostFix \/ RejectPostFix \/ ApplyUnary \/ EndIteration
        \/ ReadLiteral \/ RejectNegative \/ ReadVariable \/ BuildIndexAccess \/ EndTarget
        \/ OpenBracket \/ ReadRotate \/ OpenRotate \/ RejectRotate
        \/ Stop \/ CleanUp \/ RejectExpression \/ Return
        \/ CloseRound \/ CloseSquare \/ NextArgument \/ CloseGroup \/ RejectClose

Next == Step \/ Finished

Spec == Init /\ [][Next]_vars

\* The parser is a sequential program: it keeps running while it can.
FairSpec == Spec /\ WF_vars(Step)

---------------------------------------------------------------------------
NodeIds == 1..Len(heap)
OperatorEntry == [op : Operators, at : Nat]
Frame == [operands : Seq(NodeIds), operators : Seq(OperatorEntry),
          why : {"(", "[", "{", "rotate"}, held : Seq(NodeIds)]
Kinds == {"literal", "negative", "variable", "binary", "unary", "index", "list", "call"}
NodeRecord == [kind : Kinds, at : Nat, depth : Nat, kids : Seq(Nat)]
Places == {"loop", "reduce", "apply", "apply_last", "target", "rotate",
           "cleanup", "return", "threw", "undefined"}

\* Every stack and every node refers to nodes that exist.
TypeOK ==
  /\ consumed \in Seq(AllTokens)
  /\ it \in AllTokens
  /\ heap \in Seq(NodeRecord)
  /\ operands \in Seq(NodeIds)
  /\ operator_stack \in Seq(OperatorEntry)
  /\ held \in Seq(NodeIds)
  /\ callers \in Seq(Frame)
  /\ pc \in Places

\* An operator stack, read from the bottom, binds ever tighter: an operator
\* lies directly above another only if it has strictly higher precedence, and
\* only unary operators may repeat.  This is what lets the cleanup at the end
\* of parseExpression combine from the top without comparing precedences.
Rising(stack) ==
  \A i \in 1..Len(stack) - 1 :
     \/ Level(stack[i + 1].op) < Level(stack[i].op)
     \/ stack[i].op \in Unary /\ stack[i + 1].op \in Unary

OperatorStacksRise ==
  /\ Rising(operator_stack)
  /\ \A f \in 1..Len(callers) : Rising(callers[f].operators)

\* Only an operator that lacks its left operand (it follows another operator,
\* or opens the expression or a bracket) can make the reduction run off the
\* operand stack.
LacksLeftOperand(i) ==
  /\ consumed[i] \in Operators
  /\ \/ i = 1
     \/ consumed[i - 1] \in Operators \cup {"(", "[", "{", ","}

UnderflowNeedsMissingOperand ==
  pc = "undefined" => \E i \in 1..Len(consumed) : LacksLeftOperand(i)

\* The call at depth d: a suspended one, or the active one.
CallAt(d) == IF d <= Len(callers) THEN callers[d] ELSE [operands |-> operands, held |-> held]

\* What may hold a node in a unique_ptr: the operand stack and the target of
\* every call, and every node; and the nodes each of them holds.
Owners == ({"operands", "held"} \X (1..Len(callers) + 1)) \cup ({"node"} \X NodeIds)
Owns == [h \in Owners |-> CASE h[1] = "operands" -> CallAt(h[2]).operands
                            [] h[1] = "held"     -> CallAt(h[2]).held
                            [] h[1] = "node"     -> heap[h[2]].kids]

\* The text that parseLiteral has made a literal of when it throws, because of the
\* minus before it: no variable outside has it yet.
LiteralIsLost == pc = "threw" /\ it = "str" /\ heap # <<>> /\ Top(heap).kind = "literal"

\* Every node made by new has exactly one owner: two would delete it twice, none
\* would lose it.  It is so where an exception leaves the calls, too (but for the
\* literal after a minus): what the lists and rotate hold then is deleted, and no
\* other call has it; what the operand stacks and targets hold is lost.  And no node
\* comes to own itself through others, as it owns only nodes that were made before it.
SingleOwner ==
  /\ \/ OwnedOnce(Owns, NodeIds)
     \/ LiteralIsLost /\ OwnedOnce(Owns, NodeIds \ {Len(heap)})
  /\ \A n \in NodeIds : Range(heap[n].kids) \subseteq 1..(n - 1)

\* The parse comes to an end, unless it meets ++ or --: that token is applied
\* to the operand and never passed.
EndsUnlessPostFix == <>(Terminated \/ it \in PostFix)
=============================================================================
