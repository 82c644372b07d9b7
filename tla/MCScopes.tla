--------------------------------- MODULE MCScopes ---------------------------------
(***************************************************************************)
(* The scoped visitor, and the map whose keys name its Scopes.  The two    *)
(* have no state in common (the map does not follow a Scope's pointers):   *)
(* one of them runs, and the other stays at its beginning.                 *)
(***************************************************************************)
EXTENDS ScopedVisitor, VariableMap, TLC

\* A Function with a parameter list around its body Block, which holds a For and an If.
TreeOpeners == {"function", "block", "for", "if"}
Tree == "function" :> NoNode @@ "block" :> "function" @@ "for" :> "block" @@ "if" :> "block"

\* Two Scopes of the node n1, one of n2.
CONSTANTS s1, s2, s3, n1, n2
ScopeOpeners == (s1 :> n1) @@ (s2 :> n1) @@ (s3 :> n2)

Symmetry == Permutations(Values) \cup Permutations(Maps) \cup Permutations({s1, s2})

VARIABLE runs
allVars == <<vars, mapVars, runs>>

BothInit == runs \in {"visitor", "map"} /\ Init /\ MapInit

BothNext == \/ runs = "visitor" /\ Next /\ UNCHANGED <<mapVars, runs>>
            \/ runs = "map" /\ MapNext /\ UNCHANGED <<vars, runs>>

BothSpec == BothInit /\ [][BothNext]_allVars
=============================================================================
