------------------------------ MODULE LexicalScopes ------------------------------
(***************************************************************************)
(* What one walk of a ScopedVisitor over an AST promises: the nodes that   *)
(* open a scope are entered and left like brackets, a declaration belongs  *)
(* to the innermost of them, and a name means the declaration of the       *)
(* innermost open node that has one.  There is no scope object here, only  *)
(* the nodes.                                                              *)
(***************************************************************************)
EXTENDS Naturals, Sequences

CONSTANTS Openers,   \* the nodes that open a scope: Function, Block, For, If
          Ids        \* the names that are declared

VARIABLES path,      \* the nodes that are open, outermost first
          declared   \* the names declared so far in each node's scope

lexvars == <<path, declared>>

LexInit == /\ path = <<>>
           /\ declared = [n \in Openers |-> {}]

Open(n) == /\ path' = Append(path, n)
           /\ UNCHANGED declared

Declares(x) == /\ path # <<>>
               /\ declared' = [declared EXCEPT ![path[Len(path)]] = @ \cup {x}]
               /\ UNCHANGED path

Close == /\ path # <<>>
         /\ path' = SubSeq(path, 1, Len(path) - 1)
         /\ UNCHANGED declared

\* The walk is given up: every open node is left at once.
Unwind == /\ path' = <<>>
          /\ UNCHANGED declared

LexNext == \/ \E n \in Openers : Open(n)
           \/ \E x \in Ids : Declares(x)
           \/ Close
           \/ Unwind

LexSpec == LexInit /\ [][LexNext]_lexvars

\* The open node that declares x, none if no open node does.
Declaring(x) == {i \in 1..Len(path) : x \in declared[path[i]]}
Meaning(x, none) ==
  IF Declaring(x) = {} THEN none
  ELSE path[CHOOSE i \in Declaring(x) : \A j \in Declaring(x) : j <= i]
=============================================================================
