------------------------------- MODULE Ownership -------------------------------
(***************************************************************************)
(* std::unique_ptr and the raw pointers that stand in for it: the parsers  *)
(* hand the nodes they make from one owner to the next, and what no owner  *)
(* has is never deleted.                                                   *)
(***************************************************************************)
EXTENDS Functions

\* K maps every owner to the sequence of nodes it holds: each of the nodes N is
\* in one place of one owner, and nothing else is in any.
OwnedOnce(K, N) ==
  LET places == UNION {{h} \X DOMAIN K[h] : h \in DOMAIN K}
      node == [p \in places |-> K[p[1]][p[2]]]
  IN  Range(node) = N /\ IsInjective(node)
=============================================================================
