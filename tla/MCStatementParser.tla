---------------------------- MODULE MCStatementParser ----------------------------
EXTENDS StatementGrammar

Source(tokens, length) == [tokens |-> tokens, length |-> length]

\* Every text of eight symbols, and longer ones over the tokens of a branch
\* with a dangling else and of a for with two statements in its lists.
SourceTexts ==
  {Source(AllTokens, 8),
   Source({"if", "else", "return", "(", ")", "id", ";"}, 14),
   Source({"for", "(", ")", "id", ";", "=", ",", "{", "}"}, 12)}
=============================================================================
