------------------------------ MODULE ScopedVisitor ------------------------------
(***************************************************************************)
(* ScopedVisitor and the Scope objects it builds.  Of the AST only the     *)
(* nodes that open a scope are kept, with the nearest such node around     *)
(* each (the initializer and update Blocks of a For are walked without     *)
(* being entered, so they are not among them).  The walk descends into the *)
(* openers inside the current one and meets declarations in any order.  A  *)
(* visitor may be asked to walk again, an overriding visit may throw in    *)
(* the middle of a walk, and the caller may take the root scope.           *)
(*                                                                         *)
(* Scopes are numbered in the order of their creation.                     *)
(***************************************************************************)
EXTENDS Naturals, Sequences

CONSTANTS Openers,    \* the nodes that open a scope: Function, Block, For, If
          NoNode,
          Encloser,   \* the nearest opener around each opener, NoNode if none
          Ids,        \* the names that are declared
          MaxWalks,   \* bound: calls of accept() on the visitor
          MayThrow    \* may a derived visitor throw inside visit()?

ASSUME EncloserAssumption == Encloser \in [Openers -> Openers \cup {NoNode}]
ASSUME NoNodeAssumption == NoNode \notin Openers
ASSUME BoundAssumption == MaxWalks \in Nat /\ MayThrow \in BOOLEAN

Null == 0

VARIABLES scopes,   \* the Scope objects: opener, parent, names declared
          root,     \* rootScope
          current,  \* currentScope
          path,     \* the active visits of openers, outermost first
          walks     \* walks begun

vars == <<scopes, root, current, path, walks>>

---------------------------------------------------------------------------
ScopeIds == 1..Len(scopes)
Scope == [astNode : Openers, parent : Nat, identifiers : SUBSET Ids]

Init == /\ scopes = <<>>
        /\ root = Null
        /\ current = Null
        /\ path = <<>>
        /\ walks = 0

\* Mutant of NewScope: the new scope is not stored in its parent.
NewScopeLost(n, p) == scopes

NewScope(n, p) == Append(scopes, [astNode |-> n, parent |-> p, identifiers |-> {}])

\* The scopes directly in p that n opened.
NestedBy(p, n) == {s \in ScopeIds : scopes[s].parent = p /\ scopes[s].astNode = n}

\* Mutant of CreateNestedScope: no look for a scope that is there already.
CreateAlways(p, n) == /\ scopes' = NewScope(n, p)
                      /\ current' = Len(scopes) + 1

\* Scope::createNestedScope: the first one if there is one, else a new one.
CreateNestedScope(p, n) ==
  IF NestedBy(p, n) # {}
  THEN /\ current' = CHOOSE s \in NestedBy(p, n) : \A t \in NestedBy(p, n) : s <= t
       /\ UNCHANGED scopes
  ELSE /\ scopes' = NewScope(n, p)
       /\ current' = Len(scopes) + 1

EnterScope(n) ==
  IF root = Null
  THEN /\ scopes' = NewScope(n, Null)
       /\ root' = Len(scopes) + 1
       /\ current' = Len(scopes) + 1
  ELSE /\ CreateNestedScope(IF current = Null THEN root ELSE current, n)
       /\ UNCHANGED root

\* accept() from outside, on an outermost opener.
Walk(n) == /\ path = <<>> /\ walks < MaxWalks
           /\ Encloser[n] = NoNode
           /\ EnterScope(n)
           /\ path' = <<n>>
           /\ walks' = walks + 1

\* accept() on a child of the node that is being visited; a derived visitor may
\* do so again (an interpreter visits the body of a loop many times).
Descend(n) == /\ path # <<>> /\ Encloser[n] = path[Len(path)]
              /\ EnterScope(n)
              /\ path' = Append(path, n)
              /\ UNCHANGED walks

\* Mutant of Declare: names go to the root scope.
DeclareInRoot(x) == /\ path # <<>>
                    /\ scopes' = [scopes EXCEPT ![root].identifiers = @ \cup {x}]
                    /\ UNCHANGED <<root, current, path, walks>>

\* visit of a VariableDeclaration or a FunctionParameter; a name that is
\* there already is ignored.
Declare(x) == /\ path # <<>>
              /\ scopes' = [scopes EXCEPT ![current].identifiers = @ \cup {x}]
              /\ UNCHANGED <<root, current, path, walks>>

\* Mutant of Leave: back to the root instead of one scope outwards.
LeaveToRoot == /\ path # <<>>
               /\ current' = IF current = root THEN Null ELSE root
               /\ path' = SubSeq(path, 1, Len(path) - 1)
               /\ UNCHANGED <<scopes, root, walks>>

\* exitScope at the end of the visit.
Leave == /\ path # <<>>
         /\ current' = scopes[current].parent
         /\ path' = SubSeq(path, 1, Len(path) - 1)
         /\ UNCHANGED <<scopes, root, walks>>

\* An exception unwinds the visits; no exitScope is run.
Abort == /\ MayThrow /\ path # <<>>
         /\ path' = <<>>
         /\ UNCHANGED <<scopes, root, current, walks>>

TakeRootScope == /\ path = <<>> /\ root # Null
                 /\ walks < MaxWalks
                 /\ root' = Null
                 /\ UNCHANGED <<scopes, current, path, walks>>

Next == \/ \E n \in Openers : Walk(n) \/ Descend(n)
        \/ \E x \in Ids : Declare(x)
        \/ Leave \/ Abort \/ TakeRootScope

Spec == Init /\ [][Next]_vars

---------------------------------------------------------------------------
\* The k-th scope outwards from s, s itself for k = 0, Null beyond the root.
Outward(s, k) ==
  LET up[i \in 0..k] == IF i = 0 THEN s
                        ELSE IF up[i - 1] = Null THEN Null ELSE scopes[up[i - 1]].parent
  IN  up[k]

\* Scope::resolveIdentifier: the opener of the first scope outwards from s
\* that declares x, NoNode when the code throws.
Found(s, x) ==
  {k \in 0..Len(scopes) : Outward(s, k) # Null /\ x \in scopes[Outward(s, k)].identifiers}
Resolve(s, x) ==
  IF Found(s, x) = {} THEN NoNode
  ELSE scopes[Outward(s, CHOOSE k \in Found(s, x) : \A j \in Found(s, x) : k <= j)].astNode

TypeOK ==
  /\ scopes \in Seq(Scope)
  /\ root \in {Null} \cup ScopeIds
  /\ current \in {Null} \cup ScopeIds
  /\ path \in Seq(Openers)
  /\ walks \in 0..MaxWalks

\* A scope lies in an older one and a scope has one nested scope per opener,
\* so the walk upwards of resolveIdentifier ends and createNestedScope never
\* has a choice, however often the visitor is used.
ScopesFormTree ==
  /\ \A s \in ScopeIds : scopes[s].parent < s
  /\ \A s, t \in ScopeIds :
       /\ s # t
       /\ scopes[s].parent = scopes[t].parent /\ scopes[s].parent # Null
       => scopes[s].astNode # scopes[t].astNode

\* Inside a walk the scopes outwards from the current one are those of the
\* nodes being visited, innermost first: exitScope undoes enterScope even
\* after an earlier walk of the same visitor was cut short.
PathIsInnermost ==
  \E open \in [1..Len(path) -> ScopeIds] :
    /\ path # <<>> => open[Len(path)] = current
    /\ \A i \in 1..Len(path) : scopes[open[i]].astNode = path[i]
    /\ \A i \in 2..Len(path) : scopes[open[i]].parent = open[i - 1]

\* The scope objects implement the lexical scopes, walk after walk.
Lexical == INSTANCE LexicalScopes WITH
  declared <- [n \in Openers |->
     UNION {scopes[s].identifiers : s \in {t \in ScopeIds : scopes[t].astNode = n}}]
LexicalSpec == Lexical!LexSpec

\* In the first walk of a visitor a name resolves to the innermost open node
\* that declares it.  (In a later walk the declarations of an earlier one that
\* lie below its root are out of sight until they are met again.)
ResolvesLexically ==
  walks = 1 /\ path # <<>> =>
    \A x \in Ids : Resolve(current, x) = Lexical!Meaning(x, NoNode)
=============================================================================
