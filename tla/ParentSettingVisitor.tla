-------------------------- MODULE ParentSettingVisitor --------------------------
(***************************************************************************)
(* The pass Parser::parse runs over the finished tree to fill in the       *)
(* parent pointers: SpecialParentSettingVisitor::visit under the dispatch  *)
(* of the Visitor template and of PlainVisitor.  The template has no       *)
(* visit(Call &), so a Call is handled by PlainVisitor, which walks its    *)
(* arguments and nothing else.                                             *)
(*                                                                         *)
(* The tree is given by the owner of each node; the children of a node are *)
(* walked in the order of their numbers.  frames are the active calls of   *)
(* visit: the node and the children its loop has not reached.              *)
(***************************************************************************)
EXTENDS Naturals, Sequences

CONSTANT N   \* number of nodes; node 1 is the Block that parse() built

ASSUME NAssumption == N \in Nat \ {0}

Nodes == 1..N
Root == 1
Null == 0

VARIABLES owner,   \* the node that owns each node (Null for the root)
          calls,   \* the nodes that are Calls
          parent,  \* the parent pointers
          stack,   \* SpecialParentSettingVisitor::stack
          frames,  \* the active calls of visit
          pc

tree == <<owner, calls>>
vars == <<owner, calls, parent, stack, frames, pc>>

---------------------------------------------------------------------------
Top(s) == s[Len(s)]
Pop(s) == SubSeq(s, 1, Len(s) - 1)

Children(n) == {c \in Nodes : owner[c] = n}

\* The child the innermost loop visits next.
Following == CHOOSE c \in Top(frames).rest : \A d \in Top(frames).rest : c <= d
HasNext == frames # <<>> /\ Top(frames).rest # {}

\* A node's parent pointer is null or, after the constructor of Assignment or
\* a clone, its owner.
Init == /\ owner \in [Nodes -> Nodes \cup {Null}]
        /\ \A n \in Nodes : IF n = Root THEN owner[n] = Null ELSE owner[n] \in 1..(n - 1)
        /\ calls \in SUBSET (Nodes \ {Root})
        /\ parent \in [Nodes -> Nodes \cup {Null}]
        /\ \A n \in Nodes : parent[n] \in {Null, owner[n]}
        /\ stack = <<>>
        /\ frames = <<>>
        /\ pc = "start"

\* Enter visit(c): the loop of the caller is past c.
Enter(c) ==
  LET past == IF frames = <<>> THEN <<>>
              ELSE [frames EXCEPT ![Len(frames)].rest = @ \ {c}]
  IN  frames' = Append(past, [node |-> c, rest |-> Children(c)])

\* Mutant of Start: the parent of the root is pushed.
StartWithNull == /\ pc = "start"
                 /\ Enter(Root)
                 /\ stack' = <<Null>>
                 /\ pc' = "walk"
                 /\ UNCHANGED <<tree, parent>>

\* block->accept(p): the stack is empty, the parent of the root is not touched.
Start == /\ pc = "start"
         /\ Enter(Root)
         /\ stack' = <<Root>>
         /\ pc' = "walk"
         /\ UNCHANGED <<tree, parent>>

\* Mutant of VisitNode: the parent is set without a look at the old one.
VisitNodeUnchecked ==
  /\ pc = "walk" /\ HasNext
  /\ LET c == Following IN
       /\ c \notin calls
       /\ parent' = [parent EXCEPT ![c] = Top(stack)]
       /\ stack' = Append(stack, c)
       /\ Enter(c)
  /\ UNCHANGED <<tree, pc>>

\* SpecialParentSettingVisitor::visit of a child.
VisitNode ==
  /\ pc = "walk" /\ HasNext
  /\ LET c == Following IN
       /\ c \notin calls
       /\ parent[c] \in {Null, Top(stack)}
       /\ parent' = [parent EXCEPT ![c] = Top(stack)]
       /\ stack' = Append(stack, c)
       /\ Enter(c)
  /\ UNCHANGED <<tree, pc>>

\* "Original parent and parent we would set do not match."
Mismatch ==
  /\ pc = "walk" /\ HasNext
  /\ Following \notin calls
  /\ parent[Following] \notin {Null, Top(stack)}
  /\ pc' = "threw"
  /\ UNCHANGED <<tree, parent, stack, frames>>

\* PlainVisitor::visit(Call &).
VisitCall ==
  /\ pc = "walk" /\ HasNext
  /\ Following \in calls
  /\ Enter(Following)
  /\ UNCHANGED <<tree, parent, stack, pc>>

\* Mutant of Leave: the node stays on the stack.
LeaveKeepsStack ==
  /\ pc = "walk" /\ frames # <<>> /\ ~HasNext
  /\ frames' = Pop(frames)
  /\ pc' = IF Len(frames) = 1 THEN "done" ELSE "walk"
  /\ UNCHANGED <<tree, parent, stack>>

\* The loop over the children is done.
Leave ==
  /\ pc = "walk" /\ frames # <<>> /\ ~HasNext
  /\ stack' = IF Top(frames).node \in calls THEN stack ELSE Pop(stack)
  /\ frames' = Pop(frames)
  /\ pc' = IF Len(frames) = 1 THEN "done" ELSE "walk"
  /\ UNCHANGED <<tree, parent>>

Terminated == pc \in {"done", "threw"}
Finished == Terminated /\ UNCHANGED vars

Next == Start \/ VisitNode \/ Mismatch \/ VisitCall \/ Leave \/ Finished

Spec == Init /\ [][Next]_vars

---------------------------------------------------------------------------
TypeOK ==
  /\ owner \in [Nodes -> Nodes \cup {Null}]
  /\ calls \subseteq Nodes
  /\ parent \in [Nodes -> Nodes \cup {Null}]
  /\ stack \in Seq(Nodes)
  /\ frames \in Seq([node : Nodes, rest : SUBSET Nodes])
  /\ pc \in {"start", "walk", "done", "threw"}

Active == {frames[i].node : i \in DOMAIN frames}
Elements(s) == {s[i] : i \in DOMAIN s}
Rises(s) == \A i, j \in DOMAIN s : i < j => s[i] < s[j]

\* The stack holds the nodes whose visit is active, without the Calls, each
\* below its ancestors (which have the smaller numbers): what is about to
\* become a parent is an ancestor of the node at hand, never a node whose
\* subtree was left.
StackIsPath ==
  /\ Elements(stack) = Active \ calls
  /\ Rises(stack)

\* n and the nodes around it: those in every set that holds n and, with a
\* node, its owner.
Outwards(n) ==
  {a \in Nodes : \A S \in SUBSET Nodes :
     n \in S /\ (\A m \in S \ {Root} : owner[m] \in S) => a \in S}

\* When the pass ends every node points to its owner, and no node to anything but an
\* ancestor.  Left open is which ancestor it is for a Call and for the arguments of a
\* Call, which the pass does not push: there it may be any, or null.
ParentsAfterWalk ==
  pc = "done" =>
    /\ \A n \in Nodes \ (calls \cup {Root}) : owner[n] \notin calls => parent[n] = owner[n]
    /\ \A n \in Nodes : parent[n] # Null => parent[n] \in Outwards(n) \ {n}

\* A node's parent has the node as its child (abstract_node.h:128), whatever class
\* the owner has.
ParentsHaveTheChild ==
  \A n \in Nodes : parent[n] # Null => n \in Children(parent[n])

\* The pass fails only on an argument of a Call that had its parent set before
\* (a cloned argument); what it has set by then stays set.
FailsOnlyOnArguments ==
  pc = "threw" => \E n \in Nodes : owner[n] \in calls /\ parent[n] = owner[n]

\* A parent pointer that is set is never replaced.
ParentsAreKept ==
  [][\A n \in Nodes : parent[n] # Null => parent'[n] = parent[n]]_vars
=============================================================================
