------------------------------- MODULE MCAstNodes -------------------------------
EXTENDS AstNodes

\* A leaf that fits everywhere, the classes whose vector is handed out, the
\* class that adopts and copies its base, and the one with a vector and a member.
EveryKind == {"FunctionParameter", "ExpressionList", "Assignment", "Block", "Function"}
=============================================================================
