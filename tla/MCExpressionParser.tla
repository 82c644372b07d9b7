--------------------------- MODULE MCExpressionParser ---------------------------
EXTENDS ExpressionGrammar

\* All brackets, and an operator of every kind: two binary levels, the sign
\* and a prefix operator.
TreeTokens == {"id", "int", "*", "-", "!", "(", ")", "[", "]", "{", "}", ",", "rotate"}
\* One token of every kind.
EveryToken == {"id", "int", "str", "bool", "-", "*", "&&", "!", "<<", "++",
               "(", ")", "[", "]", "{", "}", ",", "rotate"}

MCSources == {[tokens |-> TreeTokens, length |-> 6], [tokens |-> EveryToken, length |-> 5]}
ShortSources == {[tokens |-> EveryToken, length |-> 4]}
=============================================================================
