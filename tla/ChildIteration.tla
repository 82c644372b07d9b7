----------------------------- MODULE ChildIteration -----------------------------
(***************************************************************************)
(* A loop `for (auto &child : node)' over a node of any class, as          *)
(* PlainVisitor, ScopedVisitor and toString run it: begin(), end() (once), *)
(* then compare, dereference and increment with the iterator the class     *)
(* brings along.  held says which slots of the node hold a child.  Names   *)
(* that ParentSettingVisitor has, too, have a Loop in them here, as        *)
(* MCTreeWalks extends both.                                               *)
(***************************************************************************)
EXTENDS NodeClasses, FiniteSets

CONSTANT MaxVector   \* bound: entries of a vector of children
ASSUME MaxVectorAssumption == MaxVector \in Nat

VARIABLES class,     \* the class of the node
          held,      \* which of its slots hold a child
          iter,      \* the iterator: its position, and Function's steps past the vector
          visited,   \* the slots visited so far
          loop       \* "going", "done", "threw", or "undefined"

loopVars == <<class, held, iter, visited, loop>>

---------------------------------------------------------------------------
VectorLen == Len(held) - MemberCount(class)
Iterator(at, past) == [at |-> at, past |-> past]

Begin == Iterator(0, 0)

CountChildren == Cardinality({s \in DOMAIN held : held[s]})

\* Mutant of FunctionEnd: the body is not counted.
FunctionEndWithoutBody == Iterator(VectorLen, IF VectorLen > 0 THEN 1 ELSE 0)

\* !parameters.empty() + hasBody()
FunctionEnd == Iterator(VectorLen, (IF VectorLen > 0 THEN 1 ELSE 0)
                                     + (IF held[Len(held)] THEN 1 ELSE 0))

End == CASE class = "Function"                       -> FunctionEnd
         [] class # "Function" /\ HasVector(class)   -> Iterator(VectorLen, 0)
         [] ~HasVector(class)                        -> Iterator(CountChildren, 0)

---------------------------------------------------------------------------
(* operator* of each class: the slot of the child at position p.           *)

\* No slots: an exception, and a null pointer that is followed.
Past == 0
NullRef == -1

\* The first of the slots S that holds a child.
FirstOf(h, S) ==
  IF \E s \in S : h[s] THEN CHOOSE s \in S : h[s] /\ \A r \in S : h[r] => s <= r ELSE Past

OneMember(h, p) == IF p = 0 THEN FirstOf(h, {1}) ELSE Past

TwoMembers(h, p) == CASE p = 0          -> FirstOf(h, 1..2)
                      [] p = 1 /\ h[1]  -> FirstOf(h, {2})
                      [] OTHER          -> Past

ThreeMembers(h, p) ==
  CASE p = 0                  -> FirstOf(h, 1..3)
    [] p = 1 /\ h[1]          -> FirstOf(h, 2..3)
    [] p = 1 /\ ~h[1]         -> FirstOf(h, {3})
    [] p = 2 /\ h[1] /\ h[2]  -> FirstOf(h, {3})
    [] OTHER                  -> Past

ReturnIteratorImpl(h, p) == OneMember(h, p)
UnaryExpressionIteratorImpl(h, p) == OneMember(h, p)
AssignmentIteratorImpl(h, p) == TwoMembers(h, p)
BinaryExpressionIteratorImpl(h, p) == TwoMembers(h, p)
IndexAccessIteratorImpl(h, p) == TwoMembers(h, p)
VariableDeclarationIteratorImpl(h, p) == TwoMembers(h, p)
IfIteratorImpl(h, p) == ThreeMembers(h, p)
TernaryExpressionIteratorImpl(h, p) == ThreeMembers(h, p)

ForIteratorImpl(h, p) ==
  CASE p = 0                                  -> FirstOf(h, 1..4)
    [] p = 1 /\ h[1]                          -> FirstOf(h, 2..4)
    [] p = 1 /\ ~h[1] /\ h[2]                 -> FirstOf(h, 3..4)
    [] p = 1 /\ ~h[1] /\ ~h[2] /\ h[3]        -> FirstOf(h, {4})
    [] p = 2 /\ h[1] /\ h[2]                  -> FirstOf(h, 3..4)
    [] p = 2 /\ (h[1] # h[2]) /\ h[3]         -> FirstOf(h, {4})
    [] p = 3 /\ h[1] /\ h[2] /\ h[3]          -> FirstOf(h, {4})
    [] OTHER                                  -> Past

\* **it on an entry of a vector.
Entry(h, at) == IF h[at + 1] THEN at + 1 ELSE NullRef

BlockIteratorImpl(h, at) == Entry(h, at)
ExpressionListIteratorImpl(h, at) == Entry(h, at)
OperatorExpressionIteratorImpl(h, at) == Entry(h, at)
CallIteratorImpl(h, at) == Entry(h, at)

\* Past the vector comes the body, present or not.
FunctionIteratorImpl(h, at) ==
  IF at < VectorLen THEN Entry(h, at) ELSE Entry(h, Len(h) - 1)

Dereference ==
  LET p == iter.at IN
  CASE class = "Return"              -> ReturnIteratorImpl(held, p)
    [] class = "UnaryExpression"     -> UnaryExpressionIteratorImpl(held, p)
    [] class = "Assignment"          -> AssignmentIteratorImpl(held, p)
    [] class = "BinaryExpression"    -> BinaryExpressionIteratorImpl(held, p)
    [] class = "IndexAccess"         -> IndexAccessIteratorImpl(held, p)
    [] class = "VariableDeclaration" -> VariableDeclarationIteratorImpl(held, p)
    [] class = "If"                  -> IfIteratorImpl(held, p)
    [] class = "TernaryOperator"     -> TernaryExpressionIteratorImpl(held, p)
    [] class = "For"                 -> ForIteratorImpl(held, p)
    [] class = "Block"               -> BlockIteratorImpl(held, p)
    [] class = "ExpressionList"      -> ExpressionListIteratorImpl(held, p)
    [] class = "OperatorExpression"  -> OperatorExpressionIteratorImpl(held, p)
    [] class = "Call"                -> CallIteratorImpl(held, p)
    [] class = "Function"            -> FunctionIteratorImpl(held, p)

---------------------------------------------------------------------------
(* increment.                                                              *)

\* Mutant of NextEntry: empty entries are not jumped over.
NextEntryAnyway(at) == at + 1

\* The next entry of the vector that holds a child, or its end.
NextEntry(at) ==
  CHOOSE e \in (at + 1)..VectorLen :
    /\ e = VectorLen \/ held[e + 1]
    /\ \A f \in (at + 1)..(e - 1) : ~held[f + 1]

FunctionIncrement ==
  IF iter.at = VectorLen THEN Iterator(iter.at, iter.past + 1)
  ELSE Iterator(NextEntry(iter.at), IF NextEntry(iter.at) = VectorLen THEN 1 ELSE iter.past)

Increment == CASE class = "Function"                     -> FunctionIncrement
               [] class # "Function" /\ HasVector(class) -> Iterator(NextEntry(iter.at), 0)
               [] ~HasVector(class)                      -> Iterator(iter.at + 1, 0)

---------------------------------------------------------------------------
LoopInit == /\ class \in ClassNames
            /\ \E n \in SlotCounts(class, MaxVector) : held \in [1..n -> BOOLEAN]
            /\ iter = Begin
            /\ visited = <<>>
            /\ loop = "going"

Visit == /\ loop = "going" /\ iter # End
         /\ Dereference \notin {Past, NullRef}
         /\ visited' = Append(visited, Dereference)
         /\ iter' = Increment
         /\ UNCHANGED <<class, held, loop>>

\* An exception of operator*, or a null pointer is followed.
Fail == /\ loop = "going" /\ iter # End
        /\ Dereference \in {Past, NullRef}
        /\ loop' = IF Dereference = Past THEN "threw" ELSE "undefined"
        /\ UNCHANGED <<class, held, iter, visited>>

LeaveLoop == /\ loop = "going" /\ iter = End
             /\ loop' = "done"
             /\ UNCHANGED <<class, held, iter, visited>>

LoopOver == loop # "going"
LoopFinished == LoopOver /\ UNCHANGED loopVars

LoopNext == Visit \/ Fail \/ LeaveLoop \/ LoopFinished

LoopSpec == LoopInit /\ [][LoopNext]_loopVars

---------------------------------------------------------------------------
\* A loop that ends has visited every child, in the order of the slots and
\* each of them once: where the iterators start, how they step over empty
\* slots and where end() puts the end agree for every class.
VisitsChildren ==
  loop = "done" => visited = SelectSeq([s \in 1..Len(held) |-> s], LAMBDA s : held[s])

\* The loop fails for one reason only, a leading empty entry of a vector: over no
\* other pattern of empty slots does an iterator stop on an empty slot or run past
\* the last child.
FailsOnlyOnLeadingNull ==
  loop \in {"threw", "undefined"} => VectorLen > 0 /\ ~held[1]

\* A child that is null does not exist and is not exposed externally
\* (abstract_node.h:28-30): whatever slots are empty, the loop does not meet them.
EmptySlotsAreHidden == loop \notin {"threw", "undefined"}
=============================================================================
