-------------------------------- MODULE AstNodes --------------------------------
(***************************************************************************)
(* The life cycle of AST nodes: which node owns which (the unique_ptr      *)
(* slots of the node classes), where the raw parent pointers point, and    *)
(* the numbers the nodes are known by.                                     *)
(*                                                                         *)
(* Nodes are numbered in the order their constructors run, which is also   *)
(* the number the AbstractNode constructor reserves.  A deleted node keeps *)
(* its number, so a parent pointer to it is visibly dangling.              *)
(***************************************************************************)
EXTENDS NodeClasses, FiniteSets

CONSTANTS Classes,   \* the node classes in use
          MaxNodes,  \* bound: constructors that run in one behaviour
          MaxSlots   \* bound: entries of a vector, empty ones included

ASSUME ClassesAssumption == Classes \subseteq ClassNames
ASSUME BoundsAssumption == MaxNodes \in Nat /\ MaxSlots \in Nat

Nodes == 1..MaxNodes
Null == 0

VARIABLES made,    \* nodeIdCounter: how many constructors have run
          alive,   \* the nodes that exist; the functions below are on these
          class,   \* the class of each node
          kids,    \* the unique_ptr slots of each node
          parent,  \* the raw parent pointer of each node
          nodeId   \* assignedNodeId of each node

vars == <<made, alive, class, kids, parent, nodeId>>

---------------------------------------------------------------------------
Slots(n) == 1..Len(kids[n])
Children(n) == {kids[n][i] : i \in Slots(n)} \ {Null}
FullSlots(n) == {i \in Slots(n) : kids[n][i] # Null}
Vector(n) == 1..(Len(kids[n]) - MemberCount(class[n]))
SlotOfMember(n, j) == Len(kids[n]) - MemberCount(class[n]) + j

\* The sets that hold, with a node, its children.
Closed(S) == \A k \in S : Children(k) \subseteq S

\* n and everything it owns: no closed set has n and is without them.
Below(n) == {m \in alive : \A S \in SUBSET (alive \ {m}) : n \in S => ~Closed(S)}

\* Nodes in no slot are held by a local unique_ptr (or are local objects).
Loose == {n \in alive : \A m \in alive : n \notin Children(m)}

\* What is left when the nodes of S are deleted with all they own.
Survivors(S) == alive \ UNION {Below(n) : n \in S}

\* f on the nodes of S only; f with a new node.
Keep(f, S) == [n \in S |-> f[n]]
Extend(f, n, v) == [m \in DOMAIN f \cup {n} |-> IF m = n THEN v ELSE f[m]]

\* The numbers of S in ascending order (the only member).
InOrder(S) == {f \in [1..Cardinality(S) -> S] : \A i, j \in DOMAIN f : i < j => f[i] < f[j]}

\* The number of the next node.
NextNode == made + 1

Init == /\ made = 0
        /\ alive = {}
        /\ class = <<>>
        /\ kids = <<>>
        /\ parent = <<>>
        /\ nodeId = <<>>

---------------------------------------------------------------------------
(* Constructors.                                                           *)

\* Mutant of AdoptedBy: the number is read before the base class reserves it.
AdoptedByPrevious(c, ks, n) ==
  IF Class[c].adopts /\ \E i \in DOMAIN ks : ks[i] = n THEN made ELSE parent[n]

\* The parent of an older node n once a constructor has been given ks: only the
\* constructor of Assignment calls setParent.
AdoptedBy(c, ks, n) ==
  IF Class[c].adopts /\ \E i \in DOMAIN ks : ks[i] = n THEN NextNode ELSE parent[n]

\* Members may be given null, except to a constructor that dereferences them;
\* entries of a vector are not null.
Construct(c, ks) ==
  /\ made < MaxNodes
  /\ \A i, j \in DOMAIN ks : ks[i] = ks[j] /\ ks[i] # Null => i = j
  /\ \A i \in DOMAIN ks :
       IF ks[i] = Null THEN MemberOf(c, Len(ks), i) > 0 /\ ~Class[c].adopts
       ELSE class[ks[i]] \in Accepts(c, Len(ks), i)
  /\ made' = NextNode
  /\ alive' = alive \cup {NextNode}
  /\ class' = Extend(class, NextNode, c)
  /\ kids' = Extend(kids, NextNode, ks)
  /\ parent' = [n \in alive' |-> IF n = NextNode THEN Null ELSE AdoptedBy(c, ks, n)]
  /\ nodeId' = Extend(nodeId, NextNode, NextNode)

---------------------------------------------------------------------------
(* Setters, take functions and the vectors of children.                    *)

\* The nodes of S stay; the others are gone.
KeepOnly(S) == /\ alive' = S
               /\ class' = Keep(class, S)

\* setLeft, setTarget, setBody...: the old child is destroyed and the parent of
\* the new one is left as it is.
SetChild(n, j, k) ==
  LET i == SlotOfMember(n, j) IN
  /\ j \in Class[class[n]].set
  /\ k # Null => class[k] \in Accepts(class[n], Len(kids[n]), i) /\ n \notin Below(k)
  /\ KeepOnly(Survivors({kids[n][i]} \ {Null}))
  /\ kids' = Keep([kids EXCEPT ![n][i] = k], alive')
  /\ parent' = Keep(parent, alive')
  /\ nodeId' = Keep(nodeId, alive')
  /\ UNCHANGED made

\* takeTarget and takeValue; a move out of the vector getStatementPointers() or
\* getExpressionPtrs() gives access to.
TakeChild(n, i) ==
  /\ \/ i \in Vector(n) /\ Class[class[n]].open
     \/ MemberOf(class[n], Len(kids[n]), i) \in Class[class[n]].take
  /\ kids[n][i] # Null
  /\ kids' = [kids EXCEPT ![n][i] = Null]
  /\ UNCHANGED <<made, alive, class, parent, nodeId>>

\* appendStatement, prependStatement and their like.
AddChild(n, k) ==
  /\ Class[class[n]].grows
  /\ Len(kids[n]) < MaxSlots
  /\ class[k] \in Class[class[n]].vector /\ n \notin Below(k)
  /\ \/ kids' = [kids EXCEPT ![n] = Append(@, k)]
     \/ kids' = [kids EXCEPT ![n] = <<k>> \o @]
  /\ UNCHANGED <<made, alive, class, parent, nodeId>>

\* removeNullStatements and its like.
RemoveNull(n) ==
  /\ Class[class[n]].grows
  /\ \E f \in InOrder(FullSlots(n)) : kids' = [kids EXCEPT ![n] = [i \in DOMAIN f |-> @[f[i]]]]
  /\ UNCHANGED <<made, alive, class, parent, nodeId>>

TakeExpressions(n) ==
  /\ class[n] = "ExpressionList"
  /\ kids' = [kids EXCEPT ![n] = <<>>]
  /\ UNCHANGED <<made, alive, class, parent, nodeId>>

\* setExpressions with the expressions of another vector.
SetExpressions(n, ks) ==
  /\ class[n] = "ExpressionList"
  /\ \A i, j \in DOMAIN ks : ks[i] = ks[j] => i = j
  /\ \A i \in DOMAIN ks : /\ ks[i] # Null
                          /\ class[ks[i]] \in Expressions /\ n \notin Below(ks[i])
  /\ KeepOnly(Survivors(Children(n)))
  /\ kids' = Keep([kids EXCEPT ![n] = ks], alive')
  /\ parent' = Keep(parent, alive')
  /\ nodeId' = Keep(nodeId, alive')
  /\ UNCHANGED made

\* The end of the local unique_ptr (or object) that holds n.
Delete(n) ==
  /\ KeepOnly(Survivors({n}))
  /\ kids' = Keep(kids, alive')
  /\ parent' = Keep(parent, alive')
  /\ nodeId' = Keep(nodeId, alive')
  /\ UNCHANGED made

---------------------------------------------------------------------------
(* Copies.  A copy of the nodes of S takes the next Cardinality(S) numbers *)
(* in preorder: the base class of a node is constructed before its members *)
(* clone the children.  A copy constructor fills the members before the    *)
(* vector, an assignment follows the order of the slots.                   *)

Rank(S, o, i) == IF o \in S /\ i \notin Vector(o) THEN i - Len(kids[o]) ELSE i

\* Is a copied before b?  sub are the nodes below each node.
Before(S, sub, a, b) ==
  \E o \in alive :
     \/ a = o /\ b \in sub[o]
     \/ \E i, j \in Slots(o) : /\ Rank(S, o, i) < Rank(S, o, j)
                              /\ kids[o][i] # Null /\ kids[o][j] # Null
                              /\ a \in sub[kids[o][i]] /\ b \in sub[kids[o][j]]

\* The function from the nodes of S to their copies (the only member).
Copies(S) ==
  LET sub == [n \in alive |-> Below(n)]
      order == {p \in S \X S : Before(S, sub, p[1], p[2])}
  IN  {f \in [S -> NextNode..(made + Cardinality(S))] :
         \A a, b \in S : a # b => f[a] # f[b] /\ (f[a] < f[b] <=> <<a, b>> \in order)}

\* Copying a Function without a body dereferences null: the program ends there.
CopySafe(S) ==
  \A m \in S : \A j \in Class[class[m]].needs : kids[m][SlotOfMember(m, j)] # Null

\* A slot's copy: null stays null.
Image(f, ks) == [i \in DOMAIN ks |-> IF ks[i] = Null THEN Null ELSE f[ks[i]]]

\* g on the nodes that exist, and V(m) on the copy of m.
WithCopies(g, f, V(_)) ==
  [n \in DOMAIN g \cup {f[m] : m \in DOMAIN f} |->
     IF n \in DOMAIN g THEN g[n] ELSE V(CHOOSE m \in DOMAIN f : f[m] = n)]

Owner(m) == CHOOSE o \in alive : m \in Children(o)

\* Mutant of CopyParent: the copy is told the owner of the original.
CopyParentOriginal(f, m) == Owner(m)

\* clone(parent) on the child m of a node that is copied.
CopyParent(f, m) == f[Owner(m)]

\* clone(nullptr): deep copy; a copied child gets the copy of its owner as
\* parent.
Clone(n) ==
  LET S == Below(n) IN
  /\ CopySafe(S)
  /\ made + Cardinality(S) <= MaxNodes
  /\ \E f \in Copies(S) :
       /\ alive' = alive \cup {f[m] : m \in S}
       /\ class' = WithCopies(class, f, LAMBDA m : class[m])
       /\ kids' = WithCopies(kids, f, LAMBDA m : Image(f, kids[m]))
       /\ parent' = WithCopies(parent, f, LAMBDA m : IF m = n THEN Null ELSE CopyParent(f, m))
       /\ nodeId' = WithCopies(nodeId, f, LAMBDA m : f[m])
  /\ made' = made + Cardinality(S)

\* Mutant of MovedFrom: the slots are copied, not moved.
MovedFromKeeps(n) == kids[n]

\* What is left of the slots of a node that was moved from.
MovedFrom(n) == [i \in 1..MemberCount(class[n]) |-> Null]

\* The move constructor takes the slots; the children's parents stay behind.
MoveConstruct(n) ==
  /\ made < MaxNodes
  /\ made' = NextNode
  /\ alive' = alive \cup {NextNode}
  /\ class' = Extend(class, NextNode, class[n])
  /\ kids' = Extend([kids EXCEPT ![n] = MovedFrom(n)], NextNode, kids[n])
  /\ parent' = Extend(parent, NextNode, Null)
  /\ nodeId' = Extend(nodeId, NextNode, NextNode)

\* Mutant of Base: every class copies the base of the node.
BaseCopied(f, n, m) == [f EXCEPT ![n] = f[m]]

\* Assignment's operators call AbstractStatement::operator=, which copies the
\* parent pointer and the number of the node.
Base(f, n, m) == IF Class[class[n]].copiesBase THEN [f EXCEPT ![n] = f[m]] ELSE f

\* Assignment of a node to its own ancestor or descendant is left out.
Assignable(n, m) ==
  /\ class[n] = class[m]
  /\ n \notin Below(m) /\ m \notin Below(n)

AssignMove(n, m) ==
  /\ Assignable(n, m)
  /\ KeepOnly(Survivors(Children(n)))
  /\ kids' = Keep([kids EXCEPT ![n] = kids[m], ![m] = MovedFrom(m)], alive')
  /\ parent' = Keep(Base(parent, n, m), alive')
  /\ nodeId' = Keep(Base(nodeId, n, m), alive')
  /\ UNCHANGED made

\* The copies of m's children get n as parent.
AssignCopy(n, m) ==
  LET S == Below(m) \ {m}
      rest == Survivors(Children(n))
  IN
  /\ Assignable(n, m)
  /\ CopySafe(S \cup {m})
  /\ made + Cardinality(S) <= MaxNodes
  /\ \E f \in Copies(S) :
       /\ alive' = rest \cup {f[k] : k \in S}
       /\ class' = WithCopies(Keep(class, rest), f, LAMBDA k : class[k])
       /\ kids' = WithCopies(Keep([kids EXCEPT ![n] = Image(f, kids[m])], rest), f,
                             LAMBDA k : Image(f, kids[k]))
       /\ parent' = WithCopies(Keep(Base(parent, n, m), rest), f,
                      LAMBDA k : IF k \in Children(m) THEN n ELSE CopyParent(f, k))
       /\ nodeId' = WithCopies(Keep(Base(nodeId, n, m), rest), f, LAMBDA k : f[k])
  /\ made' = made + Cardinality(S)

---------------------------------------------------------------------------
\* Sequences of slots that may be given to a node of class c.
Given(c) == UNION {[1..k -> Loose \cup {Null}] : k \in SlotCounts(c, MaxSlots)}

Build == \/ \E c \in Classes : \E ks \in Given(c) : Construct(c, ks)
         \/ \E n \in alive, k \in Loose : AddChild(n, k)

Edit == \/ \E n \in alive : \/ \E j \in 1..MemberCount(class[n]), k \in Loose \cup {Null} : SetChild(n, j, k)
                            \/ \E i \in Slots(n) : TakeChild(n, i)
                            \/ RemoveNull(n) \/ TakeExpressions(n)
                            \/ \E ks \in Given(class[n]) : SetExpressions(n, ks)
        \/ \E n \in Loose : Delete(n)

Copy == \E n \in alive : \/ Clone(n) \/ MoveConstruct(n)
                         \/ \E m \in alive : AssignMove(n, m) \/ AssignCopy(n, m)

Next == Build \/ Edit \/ Copy

\* Every operation of the classes.
Spec == Init /\ [][Next]_vars

---------------------------------------------------------------------------
\* Ownership is a forest: a node is in one slot at most (unique_ptr), the slots of
\* a node that exists hold nodes that exist, and nodes do not own each other in a
\* circle (any nodes that exist include one that none of them owns).  So nothing is
\* deleted twice, used after that, or lost, whatever sequence of operations is called.
OneOwner ==
  /\ \A n, m \in alive : \A i \in Slots(n), j \in Slots(m) :
       kids[n][i] = kids[m][j] /\ kids[n][i] # Null => n = m /\ i = j
  /\ \A n \in alive : Children(n) \subseteq alive
  /\ \A S \in (SUBSET alive) \ {{}} : \E n \in S : \A m \in S : n \notin Children(m)

\* Two nodes share a number only if both are Assignments.
SharedIdsAreAssignments ==
  \A n, m \in alive : n # m /\ nodeId[n] = nodeId[m] =>
     class[n] = "Assignment" /\ class[m] = "Assignment"

\* A parent pointer that changes points to the owner from then on, whoever
\* changes it: a constructor, clone, or the copy of the children.  Only an
\* Assignment that is assigned to takes over the parent of another node.
ParentsChangeToOwners ==
  [][\A n \in alive' :
       LET old == IF n \in alive THEN parent[n] ELSE Null
           new == parent'[n]
       IN  new # old /\ new # Null =>
             \/ \E i \in DOMAIN kids'[new] : kids'[new][i] = n
             \/ n \in alive /\ class[n] = "Assignment"]_vars

\* A parent pointer, where there is one, points to the owner.
ParentIsOwner ==
  \A n \in alive : parent[n] # Null =>
     parent[n] \in alive /\ n \in Children(parent[n])

\* Constructors and append functions, the operations the parser uses, never
\* spoil that; setters, take functions, moves and assignments do.
BuildKeepsOwners == [][ParentIsOwner /\ ~ParentIsOwner' => ~Build]_vars
=============================================================================
