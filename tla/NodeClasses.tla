------------------------------ MODULE NodeClasses ------------------------------
(***************************************************************************)
(* The node classes of the AST: which classes their unique_ptr members may *)
(* hold and which member functions reach those members.  A node has a      *)
(* vector of children, members that hold one child each, or (Function)     *)
(* both; its slots are the entries of the vector and then the members, in  *)
(* the order of declaration.                                               *)
(***************************************************************************)
EXTENDS Integers, Sequences

Targets == {"Variable", "FunctionParameter", "IndexAccess"}
Expressions == Targets \cup {"Literal", "UnaryExpression", "BinaryExpression",
                             "TernaryOperator", "OperatorExpression",
                             "ExpressionList", "Call"}
Statements == {"Assignment", "VariableDeclaration", "Return", "If", "For",
               "Block", "Function"}
ClassNames == Expressions \cup Statements

\* A class without children; the others are described by what they change.
Leaf ==
  [vector |-> {},          \* the classes its vector may hold, {} if it has none
   members |-> <<>>,       \* the classes each member may hold
   set |-> {},             \* the members with a setter
   take |-> {},            \* the members with a take function
   grows |-> FALSE,        \* append, prepend and removeNull of the vector
   open |-> FALSE,         \* the vector is handed out by reference
   adopts |-> FALSE,       \* the constructor calls setParent on the children
   copiesBase |-> FALSE,   \* the operators call AbstractStatement::operator=
   needs |-> {}]           \* the members a copy dereferences without a look

Literal == Leaf
Variable == Leaf
FunctionParameter == Leaf
UnaryExpression == [Leaf EXCEPT !.members = <<Expressions>>, !.set = {1}]
BinaryExpression ==
  [Leaf EXCEPT !.members = <<Expressions, Expressions>>, !.set = {1, 2}]
TernaryOperator ==
  [Leaf EXCEPT !.members = <<Expressions, Expressions, Expressions>>, !.set = {1, 2, 3}]
IndexAccess ==
  [Leaf EXCEPT !.members = <<Targets, Expressions>>, !.set = {1, 2}, !.take = {1}]
OperatorExpression == [Leaf EXCEPT !.vector = Expressions, !.grows = TRUE]
ExpressionList == [Leaf EXCEPT !.vector = Expressions, !.grows = TRUE, !.open = TRUE]
Call == [Leaf EXCEPT !.vector = Expressions]
Assignment ==
  [Leaf EXCEPT !.members = <<Targets, Expressions>>, !.set = {1, 2}, !.take = {1, 2},
               !.adopts = TRUE, !.copiesBase = TRUE]
VariableDeclaration ==
  [Leaf EXCEPT !.members = <<{"Variable"}, Expressions>>, !.set = {1, 2}, !.take = {1, 2}]
Return == [Leaf EXCEPT !.members = <<Expressions>>, !.set = {1}]
If ==
  [Leaf EXCEPT !.members = <<Expressions, {"Block"}, {"Block"}>>, !.set = {1, 2, 3}]
For ==
  [Leaf EXCEPT !.members = <<{"Block"}, Expressions, {"Block"}, {"Block"}>>,
               !.set = {1, 2, 3, 4}]
Block == [Leaf EXCEPT !.vector = Statements, !.grows = TRUE, !.open = TRUE]
Function ==
  [Leaf EXCEPT !.vector = {"FunctionParameter"}, !.members = <<{"Block"}>>, !.needs = {1}]

Class == [c \in ClassNames |->
  CASE c = "Literal"             -> Literal
    [] c = "Variable"            -> Variable
    [] c = "FunctionParameter"   -> FunctionParameter
    [] c = "UnaryExpression"     -> UnaryExpression
    [] c = "BinaryExpression"    -> BinaryExpression
    [] c = "TernaryOperator"     -> TernaryOperator
    [] c = "IndexAccess"         -> IndexAccess
    [] c = "OperatorExpression"  -> OperatorExpression
    [] c = "ExpressionList"      -> ExpressionList
    [] c = "Call"                -> Call
    [] c = "Assignment"          -> Assignment
    [] c = "VariableDeclaration" -> VariableDeclaration
    [] c = "Return"              -> Return
    [] c = "If"                  -> If
    [] c = "For"                 -> For
    [] c = "Block"               -> Block
    [] c = "Function"            -> Function]

MemberCount(c) == Len(Class[c].members)
HasVector(c) == Class[c].vector # {}

\* How many slots a node of class c can have, at most max in the vector.
SlotCounts(c, max) ==
  {MemberCount(c) + v : v \in IF HasVector(c) THEN 0..max ELSE {0}}

\* The member that slot i of len slots is; 0 or less for an entry of the vector.
MemberOf(c, len, i) == i + MemberCount(c) - len
Accepts(c, len, i) ==
  IF i <= len - MemberCount(c) THEN Class[c].vector
                               ELSE Class[c].members[MemberOf(c, len, i)]
=============================================================================
