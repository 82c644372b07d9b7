------------------------------- MODULE MCTokenizer -------------------------------
EXTENDS TokenGrammar

\* Every text of up to 2 characters, and longer ones over the characters of each
\* scanner: operators, numbers, strings, comments.
MCSources ==
  {[chars |-> Char \ {"eof"}, length |-> 2],
   [chars |-> {"+", "-", "=", "*", ".", "1"}, length |-> 5],
   [chars |-> {"<", "=", "&", "nl"}, length |-> 6],
   [chars |-> {"1", ".", "f", "i", "="}, length |-> 6],
   [chars |-> {"quote", "\\", "n", "nl"}, length |-> 7],
   [chars |-> {"/", "*", "nl", "1", "="}, length |-> 6]}
=============================================================================
