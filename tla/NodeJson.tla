-------------------------------- MODULE NodeJson --------------------------------
(***************************************************************************)
(* JSON in and out: toJson() of every node class, Parser::parseJson and    *)
(* the fromJson() of the classes.  What a node has besides its children    *)
(* (an identifier, an operator, a datatype, a literal's value) is one      *)
(* datum here; the conversions of operators and datatypes to text and back *)
(* are tables of distinct texts.  A literal's class stands for its six.    *)
(* Names that ParentSettingVisitor has, too, have Json in them here, as    *)
(* MCTreeWalks extends both.                                               *)
(***************************************************************************)
EXTENDS NodeClasses, FiniteSets

CONSTANTS Trees,      \* bound: the trees that are written
          Documents   \* bound: the JSON values that are read

VARIABLES ast, doc, stage
jsonVars == <<ast, doc, stage>>

---------------------------------------------------------------------------
(* Trees: a node is its class, its datum, the entries of its vector and its  *)
(* members.  JSON: null, a text, an array, an object with a type.            *)

NullNode == [class |-> "null", data |-> "none", vector |-> <<>>, members |-> <<>>]
Node(c, d, v, m) == [class |-> c, data |-> d, vector |-> v, members |-> m]

JNull == [kind |-> "null", type |-> "none", fields |-> <<>>, items |-> <<>>]
JText == [JNull EXCEPT !.kind = "text"]       \* ""
JArray(s) == [JNull EXCEPT !.kind = "array", !.items = s]
JObject(t, f) == [JNull EXCEPT !.kind = "object", !.type = t, !.fields = f]
\* The datum of a node, as a JSON value.
JData(d) == [JNull EXCEPT !.kind = "data", !.type = d]

\* An exception.
Failure == [JNull EXCEPT !.kind = "failure"]
FailedNode == [NullNode EXCEPT !.class = "failure"]

\* getNodeType(); the one of TernaryOperator is no name that is read.
TypeName(c) == IF c = "TernaryOperator" THEN "TernaryExpression" ELSE c

\* What the JSON of a class has: a datum (called identifier or otherwise), an array
\* for the vector, a field per member.  `readers' is how fromJson reads the members:
\* by which function, and whether it needs the field; a class that is not read has
\* none.  castUniquePtr to a Block throws on the null pointer of a member that is
\* not there, hence the blocks that are needed.
Plain == [data |-> "none", vector |-> "none", entries |-> "none", members |-> <<>>,
          readers |-> <<>>]
Needs(how) == [how |-> how, needed |-> TRUE]
Spares(how) == [how |-> how, needed |-> FALSE]

LiteralJson == [Plain EXCEPT !.data = "value"]
VariableJson == [Plain EXCEPT !.data = "identifier"]
FunctionParameterJson == [Plain EXCEPT !.data = "identifier"]
UnaryExpressionJson == [Plain EXCEPT !.data = "operator", !.members = <<"operand">>]
BinaryExpressionJson ==
  [Plain EXCEPT !.data = "operator", !.members = <<"left", "right">>,
                !.readers = <<Spares("expression"), Spares("expression")>>]
TernaryOperatorJson == [Plain EXCEPT !.members = <<"condition", "thenExpr", "elseExpr">>]
IndexAccessJson ==
  [Plain EXCEPT !.members = <<"target", "index">>,
                !.readers = <<Needs("target"), Needs("expression")>>]
OperatorExpressionJson == [Plain EXCEPT !.vector = "operands", !.entries = "expression"]
ExpressionListJson == [Plain EXCEPT !.vector = "expressions", !.entries = "expression"]
CallJson ==
  [Plain EXCEPT !.data = "identifier", !.vector = "arguments", !.entries = "expression"]
AssignmentJson ==
  [Plain EXCEPT !.members = <<"target", "value">>,
                !.readers = <<Needs("target"), Needs("expression")>>]
\* Mutant of VariableDeclarationJson: a declaration does without a target.
DeclarationWithoutTarget ==
  [Plain EXCEPT !.data = "datatype", !.members = <<"target", "value">>,
                !.readers = <<Spares("variable"), Needs("expression")>>]
VariableDeclarationJson ==
  [Plain EXCEPT !.data = "datatype", !.members = <<"target", "value">>,
                !.readers = <<Needs("variable"), Needs("expression")>>]
ReturnJson == [Plain EXCEPT !.members = <<"value">>, !.readers = <<Needs("expression")>>]
IfJson ==
  [Plain EXCEPT !.members = <<"condition", "thenBranch", "elseBranch">>,
                !.readers = <<Spares("expression"), Needs("block"), Spares("block")>>]
ForJson ==
  [Plain EXCEPT !.members = <<"initializer", "condition", "update", "body">>,
                !.readers = <<Needs("block"), Spares("expression"),
                              Needs("block"), Needs("block")>>]
BlockJson == [Plain EXCEPT !.vector = "statements", !.entries = "statement"]
FunctionJson ==
  [Plain EXCEPT !.data = "identifier", !.vector = "parameters", !.entries = "parameter",
                !.members = <<"body">>, !.readers = <<Spares("block")>>]

Json == [c \in ClassNames |->
  CASE c = "Literal"             -> LiteralJson
    [] c = "Variable"            -> VariableJson
    [] c = "FunctionParameter"   -> FunctionParameterJson
    [] c = "UnaryExpression"     -> UnaryExpressionJson
    [] c = "BinaryExpression"    -> BinaryExpressionJson
    [] c = "TernaryOperator"     -> TernaryOperatorJson
    [] c = "IndexAccess"         -> IndexAccessJson
    [] c = "OperatorExpression"  -> OperatorExpressionJson
    [] c = "ExpressionList"      -> ExpressionListJson
    [] c = "Call"                -> CallJson
    [] c = "Assignment"          -> AssignmentJson
    [] c = "VariableDeclaration" -> VariableDeclarationJson
    [] c = "Return"              -> ReturnJson
    [] c = "If"                  -> IfJson
    [] c = "For"                 -> ForJson
    [] c = "Block"               -> BlockJson
    [] c = "Function"            -> FunctionJson]

Carries(c) == Json[c].data # "none"
Named == {c \in ClassNames : Json[c].data = "identifier"}
VectorKey(c) == Json[c].vector
MemberKeys(c) == Json[c].members

Indices(s) == 1..Len(s)
Present(s) == {i \in Indices(s) : s[i] # NullNode}
Compacted(s) == SelectSeq(s, LAMBDA t : t # NullNode)
KeyOf(c, i) == MemberKeys(c)[i]

---------------------------------------------------------------------------
(* toJson() *)

\* Mutant of Writes: an else branch is not written.
WritesNoElse(t) ==
  IF t.class = "Assignment" THEN Indices(t.members)
  ELSE {i \in Present(t.members) : KeyOf(t.class, i) # "elseBranch"}

\* The members that have a field: those that are there, both of an Assignment.
Writes(t) == IF t.class = "Assignment" THEN Indices(t.members) ELSE Present(t.members)

RECURSIVE ToJson(_)
ToJson(t) ==
  LET c == t.class
      entries == [i \in Indices(Compacted(t.vector)) |-> ToJson(Compacted(t.vector)[i])]
      written == {KeyOf(c, i) : i \in Writes(t)}
      member(key) == t.members[CHOOSE i \in Indices(t.members) : KeyOf(c, i) = key]
      value == [key \in written |->
                  IF member(key) = NullNode THEN JText ELSE ToJson(member(key))]
      fields == [key \in written \cup (IF HasVector(c) THEN {VectorKey(c)} ELSE {})
                              \cup (IF Carries(c) THEN {"data"} ELSE {}) |->
                   IF key = "data" THEN JData(t.data)
                   ELSE IF key \in written THEN value[key] ELSE JArray(entries)]
  IN \* getTarget() is called without a look
     IF \/ c = "VariableDeclaration" /\ t.members[1] = NullNode
        \/ \E i \in Indices(entries) : entries[i] = Failure
        \/ \E key \in written : value[key] = Failure
     THEN Failure
     ELSE JObject(TypeName(c), fields)

---------------------------------------------------------------------------
(* parseJson() *)

\* The types that have a name in NodeUtils, and those of them that are not read.
Known == Statements \cup Expressions
Unimplemented == {"UnaryExpression", "OperatorExpression", "TernaryOperator"}

\* The types that each function reads; of what parseJsonExpression or
\* parseJsonStatement returns, castUniquePtr takes one class.
Reads(how) ==
  CASE how = "target" -> Targets
    [] how = "expression" -> Expressions \ Unimplemented
    [] how = "statement" -> Statements
    [] how = "block" -> {"Block"}
    [] how = "parameter" -> {"FunctionParameter"}
    [] how = "any" -> Known \ Unimplemented

HasField(j, key) == j.kind = "object" /\ key \in DOMAIN j.fields

\* The values of an object, the text of its type among them, in the order of the keys
\* (the place of the type and of a datum makes no difference: neither is ever read).
KeyOrder == <<"arguments", "body", "condition", "data", "elseBranch", "elseExpr",
              "expressions", "index", "initializer", "left", "operand", "operands",
              "parameters", "right", "statements", "target", "thenBranch", "thenExpr",
              "update", "value">>
ValuesOf(j) ==
  LET keys == SelectSeq(KeyOrder, LAMBDA key : key \in DOMAIN j.fields)
  IN (IF j.type = "none" THEN <<>> ELSE <<JText>>) \o [i \in Indices(keys) |-> j.fields[keys[i]]]

\* The elements a loop over a JSON value meets: none of null, the values of an object,
\* a text or a number itself.
Looped(j) == CASE j.kind = "array"  -> j.items
                 [] j.kind = "null"   -> <<>>
                 [] j.kind = "object" -> ValuesOf(j)
                 [] OTHER             -> <<j>>

ItemsOf(j, key) == IF HasField(j, key) THEN Looped(j.fields[key]) ELSE <<>>

RECURSIVE FromJson(_, _)
FromJson(j, how) ==
  IF how = "variable" THEN   \* Variable::fromJson looks at the identifier only
    IF j.type \in Named \cup {"none"} /\ HasField(j, "data") /\ j.fields["data"].kind = "data"
    THEN Node("Variable", j.fields["data"].type, <<>>, <<>>) ELSE FailedNode
  ELSE IF j.kind # "object" \/ j.type \notin Reads(how) THEN FailedNode
  ELSE
    LET c == j.type
        items == IF HasVector(c) THEN ItemsOf(j, VectorKey(c)) ELSE <<>>
        entries == [i \in Indices(items) |-> FromJson(items[i], Json[c].entries)]
        readers == Json[c].readers
        members == [i \in Indices(readers) |->
                      IF HasField(j, KeyOf(c, i))
                      THEN FromJson(j.fields[KeyOf(c, i)], readers[i].how)
                      ELSE IF readers[i].needed THEN FailedNode ELSE NullNode]
        noData == Carries(c) /\ ~(HasField(j, "data") /\ j.fields["data"].kind = "data")
    IN IF \/ noData
          \/ \E i \in Indices(entries) : entries[i] = FailedNode
          \/ \E i \in Indices(members) : members[i] = FailedNode
       THEN FailedNode
       ELSE Node(c, IF Carries(c) THEN j.fields["data"].type ELSE "none", entries, members)

---------------------------------------------------------------------------
JsonInit == \/ ast \in Trees /\ doc = JNull /\ stage = "write"
            \/ ast = NullNode /\ doc \in Documents /\ stage = "read"

Write == /\ stage = "write"
         /\ doc' = ToJson(ast)
         /\ stage' = IF doc' = Failure THEN "not_written" ELSE "read_back"
         /\ UNCHANGED ast

\* The tree that was written is kept, to be compared with what is read.
ReadBack == /\ stage = "read_back"
            /\ stage' = IF FromJson(doc, "any") = FailedNode THEN "not_read_back" ELSE "read_again"
            /\ UNCHANGED <<ast, doc>>

Read == /\ stage = "read"
        /\ ast' = FromJson(doc, "any")
        /\ stage' = IF ast' = FailedNode THEN "refused" ELSE "accepted"
        /\ UNCHANGED doc

Converted == stage \notin {"write", "read_back", "read"} /\ UNCHANGED jsonVars

JsonNext == Write \/ ReadBack \/ Read \/ Converted
JsonSpec == JsonInit /\ [][JsonNext]_jsonVars

---------------------------------------------------------------------------
(* Properties *)

RECURSIVE WithoutNulls(_)
WithoutNulls(t) ==
  IF t = NullNode THEN t
  ELSE Node(t.class, t.data,
            [i \in Indices(Compacted(t.vector)) |-> WithoutNulls(Compacted(t.vector)[i])],
            [i \in Indices(t.members) |-> WithoutNulls(t.members[i])])

\* The members a node may be without, and still be written and read: as the code is,
\* and as the comments of Return and VariableDeclaration have it.
MayLack == [c \in ClassNames |-> CASE c = "BinaryExpression" -> {1, 2}
                                   [] c = "If" -> {1, 3}
                                   [] c = "For" -> {2}
                                   [] c = "Function" -> {1}
                                   [] OTHER -> {}]
Optional == [MayLack EXCEPT !["Return"] = {1}, !["VariableDeclaration"] = {2}]

\* A node and all below it are of classes that are read, and lack no other members
\* than they may.
RECURSIVE Writable(_, _)
Writable(t, lack) ==
  /\ t.class \notin {"UnaryExpression", "TernaryOperator", "OperatorExpression"}
  /\ \A i \in Indices(t.members) :
       IF t.members[i] = NullNode THEN i \in lack[t.class] ELSE Writable(t.members[i], lack)
  /\ \A i \in Present(t.vector) : Writable(t.vector[i], lack)

\* A node and all below it are of the classes that their owners hold.
RECURSIVE WellTyped(_)
WellTyped(t) ==
  /\ \A i \in Indices(t.vector) :
       t.vector[i].class \in Class[t.class].vector /\ WellTyped(t.vector[i])
  /\ Len(t.members) = MemberCount(t.class)
  /\ \A i \in Present(t.members) :
       t.members[i].class \in Class[t.class].members[i] /\ WellTyped(t.members[i])

\* parseJson of toJson is the tree again, but for the null entries of its vectors,
\* whenever it is read at all; and it is refused, with an exception, for no other
\* reason than a class that is never read or a child that fromJson counts on and that
\* is not there.
RoundTrip ==
  /\ stage = "read_again" => FromJson(doc, "any") = WithoutNulls(ast)
  /\ stage \in {"not_written", "not_read_back"} => ~Writable(ast, MayLack)

\* The value of a Return and of a VariableDeclaration is optional (return.h:11,
\* variable_declaration.h:12) and fromJson creates a node from the JSON of a node
\* (return.h:71, variable_declaration.h:125): a tree with such nodes is read again.
OptionalValuesAreRead ==
  stage \in {"not_written", "not_read_back"} => ~Writable(ast, Optional)

\* Whatever JSON is accepted, with fields of the wrong type or none and objects or
\* texts in the place of arrays, gives a tree in which every child has a class its
\* owner holds, and which can be written and read again without a change.
AcceptedIsWritable ==
  stage = "accepted" =>
    WellTyped(ast) /\ ToJson(ast) # Failure /\ FromJson(ToJson(ast), "any") = ast
=============================================================================
