---------------------------- MODULE StatementGrammar ----------------------------
(***************************************************************************)
(* What Parser::parse should accept: the grammar of statements, as the     *)
(* comments of the productions give it.                                    *)
(***************************************************************************)
EXTENDS StatementTexts

\* The productions; a symbol that has none is a terminal.
Grammar ==
  [Program     |-> {<<>>, <<"Statement", "Program">>},
   Statement   |-> {<<"Clause", ";">>, <<"return", ";">>, <<"return", "expr", ";">>,
                    <<"Datatype", "id", "Array", ";">>, <<"Block">>,
                    <<"if", "(", "expr", ")", "Statement">>,
                    <<"if", "(", "expr", ")", "Statement", "else", "Statement">>,
                    <<"for", "(", "Clauses", ";", "expr", ";", "Clauses", ")", "Block">>,
                    <<"public", "Datatype", "id", "(", "Parameters", ")", "Block">>},
   Clause      |-> {<<"target", "=", "expr">>, <<"Datatype", "id", "Array", "=", "expr">>},
   Clauses     |-> {<<>>, <<"Clause", "More">>},
   More        |-> {<<>>, <<",", "Clause", "More">>},
   Array       |-> Array,
   Datatype    |-> Datatype,
   Block       |-> {<<"{", "Statements", "}">>},
   Statements  |-> {<<>>, <<"Statement", "Statements">>},
   Parameters  |-> {<<>>, <<"Datatype", "id", "Others">>},
   Others      |-> {<<>>, <<",", "Datatype", "id", "Others">>}]

\* What can be empty is so at once, and nothing else of it begins with what can be empty.
Nullable == {n \in DOMAIN Grammar : <<>> \in Grammar[n]}
\* The positions of the form f that its first symbol may come from.
Heads(f) == {i \in 1..Len(f) : \A j \in 1..(i - 1) : f[j] \in Nullable}

\* The ways to read one symbol of the form f, given those of its symbols: the
\* symbol, and the form of what follows it.
Ways(f, ways) ==
  UNION {{<<w[1], w[2] \o SubSeq(f, i + 1, Len(f))>> : w \in ways[f[i]]} : i \in Heads(f)}
WaysOf[x \in Symbols \cup DOMAIN Grammar] ==
  IF x \in DOMAIN Grammar THEN UNION {Ways(f, WaysOf) : f \in Grammar[x]} ELSE {<<x, <<>>>>}

\* What may follow once the symbol has been read, from the forms of S.
Derive(S, symbol) == {w[2] : w \in {v \in UNION {Ways(f, WaysOf) : f \in S} : v[1] = symbol}}

\* What may follow once the text has been read.
Forms(text) ==
  LET after[n \in 0..Len(text)] ==
        IF n = 0 THEN {<<"Program">>} ELSE Derive(after[n - 1], text[n])
  IN  after[Len(text)]

\* Some program begins with the text.
Viable(text) == Forms(text) # {}

---------------------------------------------------------------------------
\* The symbols that the token under the iterator may begin.
Beginning == {it} \cup (IF it \in Starts THEN {"expr"} ELSE {})
                  \cup (IF it = "id" THEN {"target"} ELSE {})
InsideExpression == \/ Here.stage = "raw"
                    \/ Here.stage \in DOMAIN AfterExpression /\ it \in Starts
                    \/ Here.stage = "target" /\ it = "id"
InForHeader == \E f \in 1..Len(frames) - 1 : frames[f].stage \in {"initializers", "updates"}

\* The productions reject a text only where it has ceased to be the beginning
\* of a program, with one exception: a second statement in the lists of a for,
\* whose comma is never gobbled.
RejectsOnlyNonPrograms ==
  pc = "threw" /\ ~InsideExpression =>
    \/ \A symbol \in Beginning : ~Viable(Append(consumed, symbol))
    \/ it = "," /\ InForHeader

\* The parse of every text comes to an end, also where the text breaks off.
Termination == <>Terminated
=============================================================================
