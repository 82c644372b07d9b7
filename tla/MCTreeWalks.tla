------------------------------- MODULE MCTreeWalks -------------------------------
(***************************************************************************)
(* What goes over the nodes of a tree without touching who owns them: the  *)
(* parent setting pass, the loop over the children of one node that it and *)
(* every other walk rests on, and the way of a tree into JSON and back.    *)
(* They have no state in common: one of them runs, and the others stay at  *)
(* a beginning.                                                            *)
(***************************************************************************)
EXTENDS ParentSettingVisitor, ChildIteration, MCNodeJson

VARIABLE runs
allVars == <<vars, loopVars, jsonVars, runs>>

\* One beginning of each, for while another one runs.
PassRests == /\ owner = [n \in Nodes |-> IF n = Root THEN Null ELSE Root]
             /\ calls = {}
             /\ parent = [n \in Nodes |-> Null]
             /\ Init
LoopRests == class = "Literal" /\ LoopInit
JsonRests == ast = NullNode /\ doc = JNull /\ stage = "read"

WalksInit == \/ runs = "pass" /\ Init /\ LoopRests /\ JsonRests
             \/ runs = "loop" /\ PassRests /\ LoopInit /\ JsonRests
             \/ runs = "json" /\ PassRests /\ LoopRests /\ JsonInit

WalksNext == \/ runs = "pass" /\ Next /\ UNCHANGED <<loopVars, jsonVars, runs>>
             \/ runs = "loop" /\ LoopNext /\ UNCHANGED <<vars, jsonVars, runs>>
             \/ runs = "json" /\ JsonNext /\ UNCHANGED <<vars, loopVars, runs>>

WalksSpec == WalksInit /\ [][WalksNext]_allVars
=============================================================================
