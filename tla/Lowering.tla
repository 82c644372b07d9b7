-------------------------------- MODULE Lowering --------------------------------
(***************************************************************************)
(* SpecialAbcAstToMlirVisitor: the AST is translated into operations of    *)
(* the AST dialect.  Each visit makes one operation with a region per      *)
(* child, and appends it to the block the visitor stands in.  `block' is   *)
(* the one place where the visits meet: recursive_visit and visit(Block &) *)
(* set it, go down, and set it back, unless an exception goes past them.   *)
(*                                                                         *)
(* A client hands trees to the visitor and goes on after an exception.     *)
(* The tree is chosen as it is walked, a null child included; nodes are    *)
(* numbered in the order of their visits, MLIR blocks in the order of      *)
(* their creation.  Null entries of a vector are left out: the getters of  *)
(* the vectors skip them.                                                  *)
(***************************************************************************)
EXTENDS NodeClasses, FiniteSets

CONSTANTS MaxNodes,   \* bound: nodes of all trees
          MaxRoots,   \* bound: trees
          MaxVector   \* bound: entries of one vector

ASSUME BoundsAssumption == MaxNodes \in Nat /\ MaxRoots \in Nat /\ MaxVector \in Nat

VARIABLES nodes,      \* the class of each node and its parent
          regions,    \* the blocks in the regions of each node's operation
          contents,   \* the nodes whose operations each block holds
          block,      \* the visitor's insertion block
          frames,     \* the active visits
          roots,      \* the trees handed over, and how that ended
          pc

vars == <<nodes, regions, contents, block, frames, roots, pc>>

RootBlock == 1   \* the block the constructor makes
NoNode == 0

---------------------------------------------------------------------------
Top(s) == s[Len(s)]
Pop(s) == SubSeq(s, 1, Len(s) - 1)
Fresh == Len(contents) + 1

Current == Top(frames)
ClassOf(f) == nodes[f.node].class
SlotsOf(f) == f.count + MemberCount(ClassOf(f))
InVisit(c) == pc = "visit" /\ ClassOf(Current) = c
HasSlot == pc = "visit" /\ Current.next <= SlotsOf(Current)
AtEntry == Current.next <= Current.count
Advanced(step) == [frames EXCEPT ![Len(frames)].next = @ + step]

\* The classes for which there is no visit: visit(AbstractExpression &) is chosen
\* again, for ever.
Recursing == {"ExpressionList", "TernaryOperator"}
Translated == ClassNames \ Recursing

\* Children without which there is an operation still.
Optional(c, member) == <<c, member>> \in {<<"If", 3>>, <<"Return", 1>>}

\* Mutant of RegionOf: the parameters of a function in the region of its body.
RegionOfShifted(f) ==
  CASE ClassOf(f) \in {"Block", "Call", "Function"} -> 0
    [] ClassOf(f) = "VariableDeclaration" -> 0
    [] ClassOf(f) = "OperatorExpression" -> f.next
    [] OTHER -> f.next - 1

\* The region that the next child goes to; that of an OperatorExpression starts
\* from 1.
RegionOf(f) ==
  CASE ClassOf(f) \in {"Block", "Call"} -> 0
    [] ClassOf(f) = "Function" -> IF f.next <= f.count THEN 0 ELSE 1
    [] ClassOf(f) = "VariableDeclaration" -> 0
    [] ClassOf(f) = "OperatorExpression" -> f.next
    [] OTHER -> f.next - 1
\* The operation of an OperatorExpression has a region per operand.
HasRegion(f) == ClassOf(f) = "OperatorExpression" => RegionOf(f) < f.count

\* How many entries of the vectors of active visits are still to be walked.
Owed(fs) ==
  LET owed[i \in 0..Len(fs)] ==
        IF i = 0 THEN 0
        ELSE owed[i - 1] + (IF fs[i].next > fs[i].count THEN 0 ELSE fs[i].count - fs[i].next + 1)
  IN owed[Len(fs)]

\* visit(c) with the insertion block `target', `made' blocks having been made on the
\* way; `caller' is the block that is set again when it returns.
Enter(c, rest, made, target, caller) ==
  LET n == Len(nodes) + 1
      own == Len(contents) + made + 1 IN
  /\ c \in Translated
  /\ nodes' = Append(nodes, [class |-> c,
                             parent |-> IF rest = <<>> THEN NoNode ELSE Top(rest).node])
  /\ \E count \in IF HasVector(c) THEN 0..MaxVector ELSE {0} :
       /\ n + count + Owed(rest) <= MaxNodes
       /\ frames' = Append(rest, [node |-> n, count |-> count, next |-> 1,
                                  target |-> target, caller |-> caller])
  /\ contents' = contents \o [i \in 1..(IF c = "Block" THEN made + 1 ELSE made) |-> <<>>]
  /\ block' = IF c = "Block" THEN own ELSE target
  /\ pc' = "visit"

Init == /\ nodes = <<>>
        /\ regions = <<>>
        /\ contents = <<<<>>>>
        /\ block = RootBlock
        /\ frames = <<>>
        /\ roots = <<>>
        /\ pc = "idle"

---------------------------------------------------------------------------
\* tree->accept(visitor)
Accept == /\ pc = "idle" /\ Len(roots) < MaxRoots
          /\ \E c \in Statements : Enter(c, <<>>, 0, block, block)
          /\ roots' = Append(roots, [node |-> Len(nodes) + 1, outcome |-> "none"])
          /\ regions' = Append(regions, <<>>)

\* Mutant of VisitChild: the child is put into the parent's block.
VisitChildInPlace ==
  /\ HasSlot /\ ~InVisit("Block") /\ HasRegion(Current)
  /\ ~(InVisit("VariableDeclaration") /\ Current.next = 1)
  /\ \E c \in Accepts(ClassOf(Current), SlotsOf(Current), Current.next) :
       Enter(c, Advanced(1), 1, block, block)
  /\ regions' = Append([regions EXCEPT ![Current.node] =
                          Append(@, [index |-> RegionOf(Current), block |-> Fresh])], <<>>)
  /\ UNCHANGED roots

\* recursive_visit with a fresh block in the region of the child; the operation of
\* a declaration is made only after the value's visit, which no one can tell.
VisitChild ==
  /\ HasSlot /\ ~InVisit("Block") /\ HasRegion(Current)
  /\ ~(InVisit("VariableDeclaration") /\ Current.next = 1)
  /\ \E c \in Accepts(ClassOf(Current), SlotsOf(Current), Current.next) :
       Enter(c, Advanced(1), 1, Fresh, block)
  /\ regions' = Append([regions EXCEPT ![Current.node] =
                          Append(@, [index |-> RegionOf(Current), block |-> Fresh])], <<>>)
  /\ UNCHANGED roots

\* s.get().accept(*this): the statements of a Block go to the Block's own block.
VisitStatement ==
  /\ HasSlot /\ InVisit("Block")
  /\ \E c \in Statements : Enter(c, Advanced(1), 0, block, block)
  /\ regions' = Append(regions, <<>>)
  /\ UNCHANGED roots

\* The target of a declaration is its name: it is not visited.
TakeTarget == /\ HasSlot /\ InVisit("VariableDeclaration") /\ Current.next = 1
              /\ frames' = Advanced(1)
              /\ UNCHANGED <<nodes, regions, contents, block, roots, pc>>

\* Mutant of SkipOptional: the loop stands still.
SkipNothing == /\ HasSlot /\ ~AtEntry
               /\ Optional(ClassOf(Current), Current.next)
               /\ UNCHANGED vars

SkipOptional == /\ HasSlot /\ ~AtEntry
                /\ Optional(ClassOf(Current), Current.next)
                /\ frames' = Advanced(1)
                /\ UNCHANGED <<nodes, regions, contents, block, roots, pc>>

\* An exception leaves every active visit, and nothing sets the block back.
Throw == /\ frames' = <<>>
         /\ roots' = [roots EXCEPT ![Len(roots)].outcome = "threw"]
         /\ pc' = "idle"
         /\ UNCHANGED <<nodes, regions, contents, block>>

\* A getter throws on a null child (hasTarget() does in a declaration).
MissingChild == /\ HasSlot /\ ~AtEntry
                /\ ~Optional(ClassOf(Current), Current.next)
                /\ ~InVisit("Function")
                /\ Throw

\* translate_type knows no secret type: it throws before the visit has a child.
SecretType == /\ InVisit("Function") \/ InVisit("FunctionParameter")
              /\ Current.next = 1
              /\ Throw

\* The getter of a function's body dereferences a null pointer.
MissingBody == /\ HasSlot /\ ~AtEntry /\ InVisit("Function")
               /\ pc' = "undefined"
               /\ UNCHANGED <<nodes, regions, contents, block, frames, roots>>

\* getRegion(i) for a region the operation does not have.
RegionOutOfRange == /\ HasSlot /\ ~HasRegion(Current)
                    /\ pc' = "undefined"
                    /\ UNCHANGED <<nodes, regions, contents, block, frames, roots>>

\* visit(*exprList) and visit(*ternOp) are visit(AbstractExpression &).
VisitForEver ==
  /\ HasSlot /\ ~(InVisit("VariableDeclaration") /\ Current.next = 1)
  /\ HasRegion(Current)
  /\ Accepts(ClassOf(Current), SlotsOf(Current), Current.next) \cap Recursing # {}
  /\ pc' = "recursing"
  /\ UNCHANGED <<nodes, regions, contents, block, frames, roots>>

\* Mutant of Finish: the Block's own block stays the insertion block.
FinishInside ==
  /\ pc = "visit" /\ ~HasSlot
  /\ contents' = [contents EXCEPT ![Current.target] = Append(@, Current.node)]
  /\ regions' = IF InVisit("Block")
                THEN [regions EXCEPT ![Current.node] = <<[index |-> 0, block |-> block]>>]
                ELSE regions
  /\ frames' = Pop(frames)
  /\ block' = IF InVisit("Block") THEN block ELSE Current.caller
  /\ pc' = IF Len(frames) = 1 THEN "idle" ELSE "visit"
  /\ roots' = IF Len(frames) = 1 THEN [roots EXCEPT ![Len(roots)].outcome = "done"] ELSE roots
  /\ UNCHANGED nodes

\* The operation is appended to the block its visit started in, that of a Block
\* with its own block as its region, and the caller has its block back.
Finish ==
  /\ pc = "visit" /\ ~HasSlot
  /\ contents' = [contents EXCEPT ![Current.target] = Append(@, Current.node)]
  /\ regions' = IF InVisit("Block")
                THEN [regions EXCEPT ![Current.node] = <<[index |-> 0, block |-> block]>>]
                ELSE regions
  /\ frames' = Pop(frames)
  /\ block' = Current.caller
  /\ pc' = IF Len(frames) = 1 THEN "idle" ELSE "visit"
  /\ roots' = IF Len(frames) = 1 THEN [roots EXCEPT ![Len(roots)].outcome = "done"] ELSE roots
  /\ UNCHANGED nodes

Dead == pc \in {"undefined", "recursing"}
Finished == (Dead \/ (pc = "idle" /\ (Len(roots) = MaxRoots \/ Len(nodes) = MaxNodes)))
            /\ UNCHANGED vars

Step == \/ VisitChild \/ VisitStatement \/ TakeTarget \/ SkipOptional
        \/ MissingChild \/ SecretType \/ MissingBody \/ RegionOutOfRange \/ VisitForEver \/ Finish
Next == Accept \/ Step \/ Finished

Spec == Init /\ [][Next]_vars
\* The visitor runs on; the client need not have another tree.
FairSpec == Spec /\ WF_vars(Step)

---------------------------------------------------------------------------
(* Properties *)

ChildrenOf(n) == {c \in 1..Len(nodes) : nodes[c].parent = n}
Ordered(S) == CHOOSE s \in [1..Cardinality(S) -> S] :
                \A i, j \in 1..Cardinality(S) : i < j => s[i] < s[j]

\* The operation of n has its children's operations, in their order, each whole: a
\* Block's in the one block of its body, another class's in a block of its own.
Whole[n \in 1..Len(nodes)] ==
  LET children == Ordered(ChildrenOf(n))
      blocks == regions[n] IN
  /\ IF nodes[n].class = "Block"
     THEN Len(blocks) = 1 /\ contents[blocks[1].block] = children
     ELSE /\ Len(blocks) = Len(children)
          /\ \A i \in 1..Len(blocks) : contents[blocks[i].block] = <<children[i]>>
          /\ \A i, j \in 1..Len(blocks) : i < j =>
               /\ blocks[i].block # blocks[j].block
               /\ \/ blocks[i].index < blocks[j].index
                  \/ /\ blocks[i].index = blocks[j].index
                     /\ {nodes[children[i]].class, nodes[children[j]].class}
                          \cap {"Block"} = {}
  /\ \A i \in 1..Len(children) : Whole[children[i]]

\* What has reached the client's block is never half a tree, while a visit is
\* active or after any exception, and nothing of one statement is found in the
\* regions of another.
RootHoldsWholeTrees ==
  \A i \in 1..Len(contents[RootBlock]) :
    LET n == contents[RootBlock][i] IN nodes[n].parent = NoNode /\ Whole[n]

\* The operation of n is in a block: its visit has returned.
Placed(n) == \E b \in 1..Len(contents) : \E i \in 1..Len(contents[b]) : contents[b][i] = n

\* The exception went past a visit that had set the block.
Buried(i) ==
  LET n == roots[i].node IN
  /\ roots[i].outcome = "threw"
  /\ nodes[n].class = "Block" \/ \E c \in ChildrenOf(n) : ~Placed(c)

\* The client's block has the operation of each tree that was translated, up to the
\* first exception from below the top of a tree; from then on getBlockPtr() is
\* another block and every later tree is lost, without an error.
LostAfterNestedThrow ==
  pc = "idle" =>
    LET Lost(i) == \E j \in 1..i : Buried(j)
        kept == {i \in 1..Len(roots) : roots[i].outcome = "done" /\ ~Lost(i)} IN
    /\ contents[RootBlock] = [i \in 1..Cardinality(kept) |-> roots[Ordered(kept)[i]].node]
    /\ block = RootBlock <=> \A i \in 1..Len(roots) : ~Buried(i)

\* Every tree is translated or refused, unless it has an expression list or a
\* ternary operator, or is undefined.
EndsUnlessList == pc = "visit" ~> (pc = "idle" \/ Dead)

\* AST.td gives the operands of an OperatorExpression all regions of the operation,
\* so none is out of range.
OperandsHaveRegions == HasSlot => HasRegion(Current)
=============================================================================
