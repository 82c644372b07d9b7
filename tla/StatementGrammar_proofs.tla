-------------------------- MODULE StatementGrammar_proofs --------------------------
(***************************************************************************)
(* Which texts StatementParser rejects: that what it does not accept       *)
(* begins no program of the grammar.                                       *)
(*                                                                         *)
(* The proof is about Tracks: whatever the grammar lets follow the text    *)
(* read so far, the active productions let follow, too.  Active are the    *)
(* forms that a production goes on with when those of a set Q are to       *)
(* follow it, and Waits those that follow a production it has called.      *)
(***************************************************************************)
EXTENDS StatementGrammar, StatementParser_proofs

---------------------------------------------------------------------------
(* What may follow, as the active productions see it.                      *)

\* x and then a form of Q.
Led(x, q) == <<x>> \o q
x ## Q == {Led(x, q) : q \in Q}

\* How a statement ends that was called at the stage s.
Ending(s, Q) == CASE s = "initializers" -> "More" ## (";" ## Q)
                  [] s = "updates"      -> Q
                  [] OTHER              -> ";" ## Q
Valued(s, Q) == "expr" ## Ending(s, Q)
\* A declaration behind its array, and behind its type.
Initial(s, Q) == ("=" ## Valued(s, Q))
                   \cup IF s \in {"initializers", "updates"} THEN {} ELSE ";" ## Q
Declares(s, Q) == "id" ## ("Array" ## Initial(s, Q))
\* An if behind its "then" branch.
Alternative(Q) == Q \cup ("else" ## ("Statement" ## Q))
\* A for from its condition, its updates, and the bracket behind them.
ForEnding(Q) == ")" ## ("Block" ## Q)
Updates(Q) == "Clauses" ## ForEnding(Q)
ForTest(Q) == "expr" ## (";" ## Updates(Q))
\* A function from its name.
Named(Q) == "id" ## ("(" ## ("Parameters" ## ForEnding(Q)))

TypeStages == {"return_type", "parameter_type", "declared_type"}
ClauseStages == {"statement", "target", "assign", "assigned_value", "Assignment", "semicolon",
                 "declared_type", "variable", "array", "array_close", "initial_value",
                 "declared_value", "VariableDeclaration"}
\* Behind "secret" there is the type itself.
TypeOr(secret) == IF secret THEN "type" ELSE "Datatype"

\* A production at stage, called at the stage s, before Q.
ClauseForms(stage, s, secret, Q) ==
  CASE stage = "statement"      -> IF s \in {"initializers", "updates"} THEN "Clause" ## Ending(s, Q) ELSE "Statement" ## Q
    [] stage = "target"         -> "target" ## ("=" ## Valued(s, Q))
    [] stage = "assign"         -> "=" ## Valued(s, Q)
    [] stage \in {"assigned_value", "declared_value"} -> Valued(s, Q)
    [] stage \in {"Assignment", "VariableDeclaration", "semicolon"} -> Ending(s, Q)
    [] stage = "declared_type"  -> TypeOr(secret) ## Declares(s, Q)
    [] stage = "variable"       -> Declares(s, Q)
    [] stage = "array"          -> "Array" ## Initial(s, Q)
    [] stage = "array_close"    -> "]" ## Initial(s, Q)
    [] stage = "initial_value"  -> Initial(s, Q)
PlainForms(stage, secret, Q) ==
  CASE stage = "statements"     -> "Program" ## Q
    [] stage = "block"          -> "Block" ## Q
    [] stage = "block_body"     -> "Statements" ## ("}" ## Q)
    [] stage = "returned_value" -> (";" ## Q) \cup ("expr" ## (";" ## Q))
    [] stage = "Return"         -> ";" ## Q
    [] stage = "if_round"       -> "(" ## ("expr" ## (")" ## ("Statement" ## Alternative(Q))))
    [] stage = "if_condition"   -> "expr" ## (")" ## ("Statement" ## Alternative(Q)))
    [] stage = "if_close"       -> ")" ## ("Statement" ## Alternative(Q))
    [] stage = "then"           -> "Statement" ## Alternative(Q)
    [] stage = "otherwise"      -> Alternative(Q)
    [] stage = "else"           -> "Statement" ## Q
    [] stage \in {"Block", "If", "For", "Function", "FunctionParameter"} -> Q
    [] stage = "for_round"      -> "(" ## ("Clauses" ## (";" ## ForTest(Q)))
    [] stage = "initializer"    -> "Clauses" ## (";" ## ForTest(Q))
    [] stage \in {"initializers", "for_condition"} -> ForTest(Q)
    [] stage = "condition_end"  -> ";" ## Updates(Q)
    [] stage = "update"         -> Updates(Q)
    [] stage = "updates"        -> "More" ## ForEnding(Q)
    [] stage = "for_close"      -> ForEnding(Q)
    [] stage \in {"update_block", "for_body", "function_body"} -> "Block" ## Q
    [] stage = "return_type"    -> TypeOr(secret) ## Named(Q)
    [] stage = "function_name"  -> Named(Q)
    [] stage = "function_round" -> "(" ## ("Parameters" ## ForEnding(Q))
    [] stage = "parameters"     -> ("Parameters" ## ForEnding(Q)) \cup ("Datatype" ## ("id" ## ("Others" ## ForEnding(Q))))
    [] stage = "parameter_type" -> TypeOr(secret) ## ("id" ## Q)
    [] stage = "parameter_name" -> "id" ## Q

Active(stage, s, secret, Q) ==
  IF stage \in ClauseStages THEN ClauseForms(stage, s, secret, Q)
  ELSE IF s \in {"initializers", "updates"} THEN {} ELSE PlainForms(stage, secret, Q)
Waits(stage, s, Q) ==
  IF stage = "parameters" /\ s \notin {"initializers", "updates"} THEN "Others" ## ForEnding(Q) ELSE Active(stage, s, FALSE, Q)

CalledAt(fs, i) == IF i > 1 THEN fs[i - 1].stage ELSE "none"

---------------------------------------------------------------------------
(* The ways to read a symbol.                                              *)

Vocabulary == Symbols \cup DOMAIN Grammar
FormSets == SUBSET Seq(Vocabulary)

\* The nonterminals, and their productions.
LEMMA GrammarDomain ==
  DOMAIN Grammar = {"Program", "Statement", "Clause", "Clauses", "More", "Array", "Datatype",
                    "Block", "Statements", "Parameters", "Others"}
BY DEF Grammar

LEMMA ProgramIs == Grammar["Program"] = {<<>>, <<"Statement", "Program">>}
BY DEF Grammar
LEMMA StatementIs ==
  Grammar["Statement"] =
    {<<"Clause", ";">>, <<"return", ";">>, <<"return", "expr", ";">>,
     <<"Datatype", "id", "Array", ";">>, <<"Block">>,
     <<"if", "(", "expr", ")", "Statement">>,
     <<"if", "(", "expr", ")", "Statement", "else", "Statement">>,
     <<"for", "(", "Clauses", ";", "expr", ";", "Clauses", ")", "Block">>,
     <<"public", "Datatype", "id", "(", "Parameters", ")", "Block">>}
BY DEF Grammar
LEMMA ClauseIs ==
  Grammar["Clause"] = {<<"target", "=", "expr">>, <<"Datatype", "id", "Array", "=", "expr">>}
BY DEF Grammar
LEMMA ListsAre ==
  /\ Grammar["Clauses"] = {<<>>, <<"Clause", "More">>}
  /\ Grammar["More"] = {<<>>, <<",", "Clause", "More">>}
  /\ Grammar["Statements"] = {<<>>, <<"Statement", "Statements">>}
  /\ Grammar["Parameters"] = {<<>>, <<"Datatype", "id", "Others">>}
  /\ Grammar["Others"] = {<<>>, <<",", "Datatype", "id", "Others">>}
  /\ Grammar["Block"] = {<<"{", "Statements", "}">>}
BY DEF Grammar
LEMMA PairOf == ASSUME NEW a, NEW b PROVE <<a>> \o <<b>> = <<a, b>>
<1>1. <<a>> \in Seq({a, b}) /\ <<b>> \in Seq({a, b}) /\ <<a, b>> \in Seq({a, b})
  OBVIOUS
<1> DEFINE s == <<a>> \o <<b>>
<1>2. s \in Seq({a, b}) /\ Len(s) = 2 /\ s[1] = a /\ s[2] = b
  BY <1>1
<1>3. Len(<<a, b>>) = 2 /\ <<a, b>>[1] = a /\ <<a, b>>[2] = b
  OBVIOUS
<1> HIDE DEF s
<1>4. \A i \in 1..Len(s) : s[i] = <<a, b>>[i]
  BY <1>2, <1>3
<1>5. s = <<a, b>>
  BY <1>1, <1>2, <1>3, <1>4, SeqEqual
<1> QED
  BY <1>5 DEF s
LEMMA TypesAre ==
  /\ Grammar["Array"] = {<<>>, <<"[", "]">>}
  /\ Grammar["Datatype"] = {<<"type">>, <<"secret", "type">>}
<1>1. Grammar["Array"] = Array /\ Grammar["Datatype"] = Datatype
  BY DEF Grammar
<1>2. <<"[">> \o <<"]">> = <<"[", "]">> /\ <<"secret">> \o <<"type">> = <<"secret", "type">>
  BY PairOf, Zenon
<1>3. Array = {<<>>, <<"[", "]">>}
  <2>1. Tok("[") ** Tok("]") = {<<"[">> \o <<"]">>}
    BY DEF Tok, **
  <2> QED
    BY <1>2, <2>1 DEF Array
<1>4. Datatype = {<<"type">>, <<"secret", "type">>}
  <2>1. Tok("secret") ** Tok("type") = {<<"secret">> \o <<"type">>}
    BY DEF Tok, **
  <2>2. Tok("type") = {<<"type">>}
    BY DEF Tok
  <2> QED
    BY <1>2, <2>1, <2>2 DEF Datatype
<1> QED
  BY <1>1, <1>3, <1>4

LEMMA NullableIs ==
  Nullable = {"Program", "Clauses", "More", "Array", "Statements", "Parameters", "Others"}
<1>1. /\ <<>> \notin Grammar["Statement"] /\ <<>> \notin Grammar["Clause"]
      /\ <<>> \notin Grammar["Datatype"] /\ <<>> \notin Grammar["Block"]
  BY StatementIs, ClauseIs, TypesAre, ListsAre
<1>2. /\ <<>> \in Grammar["Program"] /\ <<>> \in Grammar["Clauses"] /\ <<>> \in Grammar["More"]
      /\ <<>> \in Grammar["Array"] /\ <<>> \in Grammar["Statements"]
      /\ <<>> \in Grammar["Parameters"] /\ <<>> \in Grammar["Others"]
  BY ProgramIs, TypesAre, ListsAre
<1> QED
  BY <1>1, <1>2, GrammarDomain DEF Nullable

LEMMA SymbolsAre ==
  /\ {"for", "if", "else", "return", "public", "secret", "type", "(", ")", "[", "]", "{", "}",
      ",", ";", "=", "id", "lit", "expr", "target"} = Symbols
  /\ Symbols \cap DOMAIN Grammar = {}
<1>1. {"for", "if", "else", "return", "public", "secret", "type", "(", ")", "[", "]", "{", "}",
      ",", ";", "=", "id", "lit", "expr", "target"} = Symbols
  BY DEF Symbols, AllTokens, Keywords, Punctuation
<1>2. ASSUME NEW x \in Symbols PROVE x \notin DOMAIN Grammar
  BY <1>1, GrammarDomain
<1> QED
  BY <1>1, <1>2

LEMMA Words ==
  /\ {"Statement", "Program", "Clause", "Clauses", "More", "Array", "Datatype", "Block", "Statements",
      "Parameters", "Others", "for", "if", "else", "return", "public", "secret", "type", "(", ")", "[", "]", "{", "}",
      ",", ";", "=", "id", "lit", "expr", "target"} = Vocabulary
BY GrammarDomain, SymbolsAre DEF Vocabulary
LEMMA Terminals == \A x \in Symbols : x \notin Nullable /\ x \in Vocabulary
BY SymbolsAre DEF Nullable, Vocabulary

\* What a production begins with cannot be empty, and is simpler than its nonterminal.
Rank1 == Symbols \cup {"Array", "Datatype", "More", "Block", "Others"}
Rank2 == Rank1 \cup {"Clause", "Parameters"}
Rank3 == Rank2 \cup {"Statement", "Clauses"}
Opens(p, T) == p \in Seq(Vocabulary) /\ (p = <<>> \/ (p[1] \in T /\ p[1] \notin Nullable))

LEMMA Opens0 == \A T : Opens(<<>>, T)
BY DEF Opens
LEMMA Opens1 ==
  ASSUME NEW T, NEW a \in T, a \in Vocabulary, a \notin Nullable PROVE Opens(<<a>>, T)
BY DEF Opens
LEMMA Opens2 ==
  ASSUME NEW T, NEW a \in T, a \in Vocabulary, a \notin Nullable, NEW b \in Vocabulary
  PROVE  Opens(<<a, b>>, T)
BY DEF Opens
LEMMA Opens3 ==
  ASSUME NEW T, NEW a \in T, a \in Vocabulary, a \notin Nullable, NEW b \in Vocabulary, NEW c \in Vocabulary
  PROVE  Opens(<<a, b, c>>, T)
BY DEF Opens
LEMMA Opens4 ==
  ASSUME NEW T, NEW a \in T, a \in Vocabulary, a \notin Nullable, NEW b \in Vocabulary, NEW c \in Vocabulary,
         NEW d \in Vocabulary
  PROVE  Opens(<<a, b, c, d>>, T)
BY DEF Opens
LEMMA Opens5 ==
  ASSUME NEW T, NEW a \in T, a \in Vocabulary, a \notin Nullable, NEW b \in Vocabulary, NEW c \in Vocabulary,
         NEW d \in Vocabulary, NEW e \in Vocabulary
  PROVE  Opens(<<a, b, c, d, e>>, T)
BY DEF Opens
LEMMA Opens7 ==
  ASSUME NEW T, NEW a \in T, a \in Vocabulary, a \notin Nullable, NEW b \in Vocabulary, NEW c \in Vocabulary,
         NEW d \in Vocabulary, NEW e \in Vocabulary, NEW f \in Vocabulary, NEW g \in Vocabulary
  PROVE  Opens(<<a, b, c, d, e, f, g>>, T)
BY DEF Opens
LEMMA Opens9 ==
  ASSUME NEW T, NEW a \in T, a \in Vocabulary, a \notin Nullable, NEW b \in Vocabulary, NEW c \in Vocabulary,
         NEW d \in Vocabulary, NEW e \in Vocabulary, NEW f \in Vocabulary, NEW g \in Vocabulary,
         NEW h \in Vocabulary, NEW i \in Vocabulary
  PROVE  Opens(<<a, b, c, d, e, f, g, h, i>>, T)
BY DEF Opens

LEMMA OpensSimple ==
  /\ \A p \in Grammar["Array"] : Opens(p, Symbols)
  /\ \A p \in Grammar["Datatype"] : Opens(p, Symbols)
  /\ \A p \in Grammar["More"] : Opens(p, Symbols)
  /\ \A p \in Grammar["Block"] : Opens(p, Symbols)
  /\ \A p \in Grammar["Others"] : Opens(p, Symbols)
<1>1. {"[", "]", "type", "secret", ",", "{", "}", "id"} \subseteq Symbols
  BY SymbolsAre
<1>2. {"Clause", "More", "Statements", "Datatype", "Others"} \subseteq Vocabulary
  BY Words
<1>3. Opens(<<"[", "]">>, Symbols) /\ Opens(<<"type">>, Symbols) /\ Opens(<<"secret", "type">>, Symbols)
  BY <1>1, Terminals, Opens1, Opens2
<1>4. Opens(<<",", "Clause", "More">>, Symbols) /\ Opens(<<"{", "Statements", "}">>, Symbols)
  BY <1>1, <1>2, Terminals, Opens3
<1>5. Opens(<<",", "Datatype", "id", "Others">>, Symbols)
  BY <1>1, <1>2, Terminals, Opens4
<1>6. \A p \in Grammar["Array"] : Opens(p, Symbols)
  BY <1>3, Opens0, TypesAre, Zenon
<1>7. \A p \in Grammar["Datatype"] : Opens(p, Symbols)
  BY <1>3, TypesAre, Zenon
<1>8. \A p \in Grammar["More"] : Opens(p, Symbols)
  BY <1>4, Opens0, ListsAre, Zenon
<1>9. \A p \in Grammar["Block"] : Opens(p, Symbols)
  BY <1>4, ListsAre, Zenon
<1>10. \A p \in Grammar["Others"] : Opens(p, Symbols)
  BY <1>5, Opens0, ListsAre, Zenon
<1> QED
  BY <1>6, <1>7, <1>8, <1>9, <1>10

LEMMA OpensClause ==
  /\ \A p \in Grammar["Clause"] : Opens(p, Rank1)
  /\ \A p \in Grammar["Parameters"] : Opens(p, Rank1)
<1>1. {"target", "Datatype"} \subseteq Rank1 /\ {"target", "Datatype"} \cap Nullable = {}
  BY SymbolsAre, NullableIs DEF Rank1
<1>2. {"target", "Datatype", "=", "expr", "id", "Array", "Others"} \subseteq Vocabulary
  BY Words
<1>3. Opens(<<"target", "=", "expr">>, Rank1)
  BY <1>1, <1>2, Opens3
<1>4. Opens(<<"Datatype", "id", "Array", "=", "expr">>, Rank1)
  BY <1>1, <1>2, Opens5
<1>5. Opens(<<"Datatype", "id", "Others">>, Rank1)
  BY <1>1, <1>2, Opens3
<1> QED
  BY <1>3, <1>4, <1>5, Opens0, ClauseIs, ListsAre, ZenonT(30)

LEMMA OpensStatement ==
  /\ \A p \in Grammar["Statement"] : Opens(p, Rank2)
  /\ \A p \in Grammar["Clauses"] : Opens(p, Rank2)
<1>1. /\ {"Clause", "return", "Datatype", "Block", "if", "for", "public"} \subseteq Rank2
      /\ {"Clause", "return", "Datatype", "Block", "if", "for", "public"} \cap Nullable = {}
  BY SymbolsAre, NullableIs DEF Rank1, Rank2
<1>2. {"Clause", "More", "return", "Datatype", "Block", "if", "for", "public", ";", "expr", "id", "Array", "(", ")", "Statement",
       "else", "Clauses", "Parameters"} \subseteq Vocabulary
  BY Words
<1>3. Opens(<<"Clause", ";">>, Rank2) /\ Opens(<<"return", ";">>, Rank2) /\ Opens(<<"Clause", "More">>, Rank2)
  BY <1>1, <1>2, Opens2
<1>4. Opens(<<"return", "expr", ";">>, Rank2) /\ Opens(<<"Block">>, Rank2)
  BY <1>1, <1>2, Opens1, Opens3
<1>5. Opens(<<"Datatype", "id", "Array", ";">>, Rank2)
  BY <1>1, <1>2, Opens4
<1>6. Opens(<<"if", "(", "expr", ")", "Statement">>, Rank2)
  BY <1>1, <1>2, Opens5
<1>7. Opens(<<"if", "(", "expr", ")", "Statement", "else", "Statement">>, Rank2)
  BY <1>1, <1>2, Opens7
<1>8. Opens(<<"for", "(", "Clauses", ";", "expr", ";", "Clauses", ")", "Block">>, Rank2)
  BY <1>1, <1>2, Opens9
<1>9. Opens(<<"public", "Datatype", "id", "(", "Parameters", ")", "Block">>, Rank2)
  BY <1>1, <1>2, Opens7
<1>10. \A p \in Grammar["Clauses"] : Opens(p, Rank2)
  BY <1>3, Opens0, ListsAre, Zenon
<1>11. ASSUME NEW p \in Grammar["Statement"] PROVE Opens(p, Rank2)
  BY <1>3, <1>4, <1>5, <1>6, <1>7, <1>8, <1>9, <1>11, StatementIs, ZenonT(30)
<1> QED
  BY <1>10, <1>11

LEMMA OpensProgram ==
  /\ \A p \in Grammar["Program"] : Opens(p, Rank3)
  /\ \A p \in Grammar["Statements"] : Opens(p, Rank3)
<1>1. "Statement" \in Rank3 /\ "Statement" \notin Nullable /\ {"Statement", "Statements", "Program"} \subseteq Vocabulary
  BY NullableIs, Words DEF Rank3
<1>2. Opens(<<"Statement", "Program">>, Rank3) /\ Opens(<<"Statement", "Statements">>, Rank3)
  BY <1>1, Opens2
<1> QED
  BY <1>2, Opens0, ProgramIs, ListsAre, Zenon

\* The positions that what cannot be empty, and what can be, give to a form.
Rest(p) == SubSeq(p, 2, Len(p))
\* The symbol x before the form q, and the way w before it.
Before(w, q) == <<w[1], w[2] \o q>>

LEMMA RestOf ==
  ASSUME NEW x, NEW q, NEW S, q \in Seq(S)
  PROVE  /\ Len(<<x>> \o q) = Len(q) + 1
         /\ (<<x>> \o q)[1] = x
         /\ \A i \in 1..Len(q) : (<<x>> \o q)[i + 1] = q[i]
         /\ Rest(<<x>> \o q) = q
         /\ <<x>> \o q # <<>>
<1> DEFINE f == <<x>> \o q
<1>1. <<x>> \in Seq({x} \cup S) /\ q \in Seq({x} \cup S) /\ Len(q) \in Nat
  OBVIOUS
<1>2. f \in Seq({x} \cup S) /\ Len(f) = Len(q) + 1 /\ f[1] = x /\ \A i \in 1..Len(q) : f[i + 1] = q[i]
  BY <1>1
<1> HIDE DEF f
<1>3. Rest(f) = q
  <2>1. Rest(f) \in Seq({x} \cup S) /\ Len(Rest(f)) = Len(q) /\ \A i \in 1..Len(q) : Rest(f)[i] = f[i + 1]
    BY <1>1, <1>2 DEF Rest
  <2> QED
    BY <1>1, <1>2, <2>1, SeqEqual
<1>4. f # <<>>
  BY <1>1, <1>2
<1> QED
  BY <1>2, <1>3, <1>4 DEF f

LEMMA FirstAndRest ==
  ASSUME NEW S, NEW p \in Seq(S), p # <<>>
  PROVE  p[1] \in S /\ Rest(p) \in Seq(S) /\ p = <<p[1]>> \o Rest(p)
<1>1. Len(p) \in Nat /\ Len(p) >= 1 /\ p[1] \in S
  OBVIOUS
<1>2. Rest(p) \in Seq(S) /\ Len(Rest(p)) = Len(p) - 1 /\ \A i \in 1..(Len(p) - 1) : Rest(p)[i] = p[i + 1]
  <2>1. \A i \in 2..Len(p) : p[i] \in S
    BY <1>1
  <2>2. /\ SubSeq(p, 2, Len(p)) \in Seq(S)
        /\ Len(SubSeq(p, 2, Len(p))) = IF 2 <= Len(p) THEN Len(p) - 2 + 1 ELSE 0
        /\ \A i \in 1..(Len(p) - 2 + 1) : SubSeq(p, 2, Len(p))[i] = p[2 + i - 1]
    BY <1>1, <2>1, SubSeqProperties
  <2>3. \A i \in 1..(Len(p) - 1) : i \in 1..(Len(p) - 2 + 1) /\ 2 + i - 1 = i + 1
    BY <1>1
  <2>4. (IF 2 <= Len(p) THEN Len(p) - 2 + 1 ELSE 0) = Len(p) - 1
    BY <1>1
  <2>5. \A i \in 1..(Len(p) - 1) : SubSeq(p, 2, Len(p))[i] = p[i + 1]
    BY <2>2, <2>3
  <2> QED
    BY <2>2, <2>4, <2>5 DEF Rest
<1> DEFINE f == <<p[1]>> \o Rest(p)
<1>3. /\ f \in Seq(S) /\ Len(f) = Len(p) /\ f[1] = p[1]
      /\ \A i \in 1..(Len(p) - 1) : f[i + 1] = p[i + 1]
  <2>1. /\ Len(f) = Len(Rest(p)) + 1 /\ f[1] = p[1]
        /\ \A i \in 1..Len(Rest(p)) : f[i + 1] = Rest(p)[i]
    BY <1>2, RestOf
  <2>2. f \in Seq(S)
    <3>1. <<p[1]>> \in Seq(S)
      BY <1>1
    <3> QED
      BY <1>2, <3>1
  <2> HIDE DEF f
  <2>3. Len(f) = Len(p)
    BY <1>1, <1>2, <2>1
  <2> QED
    BY <1>1, <1>2, <2>1, <2>2, <2>3
<1> HIDE DEF f
<1>4. \A i \in 1..Len(p) : f[i] = p[i]
  <2> TAKE i \in 1..Len(p)
  <2>1. CASE i = 1
    BY <1>3, <2>1
  <2>2. CASE i # 1
    <3>1. i - 1 \in 1..(Len(p) - 1) /\ (i - 1) + 1 = i
      BY <1>1, <2>2
    <3> QED
      BY <1>3, <3>1
  <2> QED
    BY <2>1, <2>2
<1>5. f = p
  BY <1>1, <1>3, <1>4, SeqEqual
<1> QED
  BY <1>1, <1>2, <1>5 DEF f

LEMMA HeadsFirst ==
  ASSUME NEW S, NEW p \in Seq(S), p # <<>>, p[1] \notin Nullable
  PROVE  Heads(p) = {1}
<1>1. Len(p) \in Nat /\ 1 \in 1..Len(p)
  OBVIOUS
<1>2. 1 \in Heads(p)
  BY <1>1 DEF Heads
<1>3. ASSUME NEW i \in Heads(p) PROVE i = 1
  <2>1. i \in 1..Len(p) /\ \A j \in 1..(i - 1) : p[j] \in Nullable
    BY <1>3 DEF Heads
  <2>2. CASE i # 1
    <3>1. 1 \in 1..(i - 1)
      BY <1>1, <2>1, <2>2
    <3> QED
      BY <2>1, <3>1
  <2> QED
    BY <2>2
<1> QED
  BY <1>2, <1>3

LEMMA HeadsNone == Heads(<<>>) = {}
BY DEF Heads

\* What is read of a form whose first symbol cannot be empty.
LEMMA WaysFirst ==
  ASSUME NEW S, NEW p \in Seq(S), p # <<>>, p[1] \notin Nullable, NEW W
  PROVE  Ways(p, W) = {Before(w, Rest(p)) : w \in W[p[1]]}
<1>1. Heads(p) = {1}
  BY HeadsFirst
<1>2. Ways(p, W) = UNION {{<<w[1], w[2] \o SubSeq(p, i + 1, Len(p))>> : w \in W[p[i]]} : i \in {1}}
  BY <1>1 DEF Ways
<1>3. 1 + 1 = 2
  OBVIOUS
<1>4. Ways(p, W) = {<<w[1], w[2] \o SubSeq(p, 1 + 1, Len(p))>> : w \in W[p[1]]}
  BY <1>2, Zenon
<1> QED
  BY <1>3, <1>4 DEF Rest, Before

LEMMA WaysNone == \A W : Ways(<<>>, W) = {}
BY HeadsNone DEF Ways

\* And of one whose first symbol can be.
LEMMA WaysSkip ==
  ASSUME NEW S, NEW x \in Nullable, NEW q \in Seq(S), NEW W
  PROVE  Ways(Led(x, q), W) = {Before(w, q) : w \in W[x]} \cup Ways(q, W)
<1> DEFINE f == <<x>> \o q
           At1(i) == {<<w[1], w[2] \o SubSeq(f, i + 1, Len(f))>> : w \in W[f[i]]}
           Atq(i) == {<<w[1], w[2] \o SubSeq(q, i + 1, Len(q))>> : w \in W[q[i]]}
<1>1. /\ Len(f) = Len(q) + 1 /\ f[1] = x /\ Rest(f) = q
      /\ \A i \in 1..Len(q) : f[i + 1] = q[i]
      /\ f \in Seq(S \cup {x}) /\ Len(q) \in Nat
  <2>1. <<x>> \in Seq(S \cup {x}) /\ q \in Seq(S \cup {x}) /\ Len(q) \in Nat
    OBVIOUS
  <2>2. f \in Seq(S \cup {x})
    BY <2>1
  <2> QED
    BY <2>1, <2>2, RestOf
<1> HIDE DEF f
<1>2. ASSUME NEW i \in 1..Len(q) PROVE SubSeq(f, (i + 1) + 1, Len(f)) = SubSeq(q, i + 1, Len(q))
  <2>1. /\ SubSeq(f, (i + 1) + 1, Len(f)) \in Seq(S \cup {x})
        /\ Len(SubSeq(f, (i + 1) + 1, Len(f))) = Len(q) - i
        /\ \A k \in 1..(Len(q) - i) : SubSeq(f, (i + 1) + 1, Len(f))[k] = f[(k + i) + 1]
    BY <1>1
  <2>2. /\ SubSeq(q, i + 1, Len(q)) \in Seq(S)
        /\ Len(SubSeq(q, i + 1, Len(q))) = Len(q) - i
        /\ \A k \in 1..(Len(q) - i) : SubSeq(q, i + 1, Len(q))[k] = q[k + i]
    BY <1>1
  <2>3. \A k \in 1..(Len(q) - i) : k + i \in 1..Len(q)
    BY <1>1
  <2>4. \A k \in 1..(Len(q) - i) : SubSeq(f, (i + 1) + 1, Len(f))[k] = SubSeq(q, i + 1, Len(q))[k]
    BY <1>1, <2>1, <2>2, <2>3
  <2>5. SubSeq(q, i + 1, Len(q)) \in Seq(S \cup {x})
    BY <2>2
  <2> QED
    BY <2>1, <2>2, <2>4, <2>5, SeqEqual
<1>3. ASSUME NEW i \in 1..Len(q) PROVE At1(i + 1) = Atq(i)
  <2>1. f[i + 1] = q[i] /\ SubSeq(f, (i + 1) + 1, Len(f)) = SubSeq(q, i + 1, Len(q))
    BY <1>1, <1>2
  <2> QED
    BY <2>1, Zenon
<1>4. At1(1) = {<<w[1], w[2] \o q>> : w \in W[x]}
  <2>1. SubSeq(f, 1 + 1, Len(f)) = q
    BY <1>1 DEF Rest
  <2> QED
    BY <1>1, <2>1, Zenon
<1>5. ASSUME NEW i \in 1..Len(q) PROVE i + 1 \in Heads(f) <=> i \in Heads(q)
  <2>1. i + 1 \in 1..Len(f)
    BY <1>1
  <2>2. ASSUME \A j \in 1..i : f[j] \in Nullable PROVE \A j \in 1..(i - 1) : q[j] \in Nullable
    <3> TAKE j \in 1..(i - 1)
    <3>1. j + 1 \in 1..i /\ j \in 1..Len(q)
      BY <1>1
    <3> QED
      BY <1>1, <2>2, <3>1
  <2>3. ASSUME \A j \in 1..(i - 1) : q[j] \in Nullable PROVE \A j \in 1..i : f[j] \in Nullable
    <3> TAKE j \in 1..i
    <3>1. CASE j = 1
      BY <1>1, <3>1
    <3>2. CASE j # 1
      <4>1. j - 1 \in 1..(i - 1) /\ j - 1 \in 1..Len(q) /\ (j - 1) + 1 = j
        BY <1>1, <3>2
      <4> QED
        BY <1>1, <2>3, <4>1
    <3> QED
      BY <3>1, <3>2
  <2>4. (i + 1) - 1 = i
    OBVIOUS
  <2> QED
    BY <2>1, <2>2, <2>3, <2>4 DEF Heads
<1>6. 1 \in Heads(f)
  BY <1>1 DEF Heads
<1>7. \A i \in Heads(f) : i = 1 \/ \E k \in 1..Len(q) : i = k + 1
  <2> TAKE i \in Heads(f)
  <2>1. i \in 1..Len(f)
    BY DEF Heads
  <2>2. CASE i # 1
    <3>1. i - 1 \in 1..Len(q) /\ i = (i - 1) + 1
      BY <1>1, <2>1, <2>2
    <3> QED
      BY <3>1
  <2> QED
    BY <2>2
<1>8. Heads(q) \subseteq 1..Len(q)
  BY DEF Heads
<1>9. Ways(f, W) = UNION {At1(i) : i \in Heads(f)} /\ Ways(q, W) = UNION {Atq(i) : i \in Heads(q)}
  BY DEF Ways
<1> HIDE DEF At1, Atq
<1>10. ASSUME NEW v \in Ways(f, W) PROVE v \in At1(1) \/ v \in Ways(q, W)
  <2>1. PICK i \in Heads(f) : v \in At1(i)
    BY <1>9, <1>10
  <2>2. CASE i = 1
    BY <2>1, <2>2
  <2>3. CASE \E k \in 1..Len(q) : i = k + 1
    <3>1. PICK k \in 1..Len(q) : i = k + 1
      BY <2>3
    <3>2. k \in Heads(q) /\ v \in Atq(k)
      BY <1>3, <1>5, <2>1, <3>1
    <3> QED
      BY <1>9, <3>2
  <2> QED
    BY <1>7, <2>2, <2>3
<1>11. ASSUME NEW v \in Ways(q, W) PROVE v \in Ways(f, W)
  <2>1. PICK i \in Heads(q) : v \in Atq(i)
    BY <1>9, <1>11
  <2>2. i \in 1..Len(q) /\ i + 1 \in Heads(f) /\ v \in At1(i + 1)
    BY <1>3, <1>5, <1>8, <2>1
  <2> QED
    BY <1>9, <2>2
<1>12. At1(1) \subseteq Ways(f, W)
  BY <1>6, <1>9
<1>13. Ways(f, W) = At1(1) \cup Ways(q, W)
  BY <1>10, <1>11, <1>12
<1> QED
  BY <1>4, <1>13 DEF f, Before, Led

LEMMA LedIs ==
  ASSUME NEW x, NEW q, NEW S, q \in Seq(S)
  PROVE  Led(x, q)[1] = x /\ Rest(Led(x, q)) = q /\ Led(x, q) # <<>>
BY RestOf DEF Led
LEMMA LedType == \A S : \A x \in S : \A q \in Seq(S) : Led(x, q) \in Seq(S)
BY DEF Led
LEMMA LedAll ==
  ASSUME NEW S, NEW p \in Seq(S), p # <<>>
  PROVE  p[1] \in S /\ Rest(p) \in Seq(S) /\ p = Led(p[1], Rest(p))
BY FirstAndRest DEF Led
LEMMA LedBehind ==
  ASSUME NEW S, NEW x \in S, NEW p \in Seq(S), NEW q \in Seq(S)
  PROVE  Led(x, p) \o q = Led(x, p \o q)
<1> DEFINE h == <<x>>
<1>1. h \in Seq(S)
  OBVIOUS
<1> HIDE DEF h
<1>2. (h \o p) \o q = h \o (p \o q)
  BY <1>1, ConcatAssociative
<1> QED
  BY <1>2 DEF h, Led
LEMMA BeforeIs == \A w, q : Before(w, q)[1] = w[1] /\ Before(w, q)[2] = w[2] \o q
BY DEF Before
LEMMA Regroup ==
  ASSUME NEW S, NEW a \in Seq(S), NEW p \in Seq(S), NEW q \in Seq(S)
  PROVE  (a \o p) \o q = a \o (p \o q)
BY ConcatAssociative
LEMMA BeforeBoth ==
  ASSUME NEW S, NEW a \in Seq(S), NEW w, w[2] = a, NEW p \in Seq(S), NEW q \in Seq(S)
  PROVE  Before(Before(w, p), q) = Before(w, p \o q)
<1>1. (a \o p) \o q = a \o (p \o q)
  BY Regroup
<1> DEFINE X == Before(w, p)
<1>2. X[1] = w[1] /\ X[2] = a \o p
  BY BeforeIs
<1> HIDE DEF X
<1>3. Before(X, q) = <<w[1], (a \o p) \o q>>
  BY <1>2 DEF Before
<1>4. Before(w, p \o q) = <<w[1], a \o (p \o q)>>
  BY DEF Before
<1> QED
  BY <1>1, <1>3, <1>4 DEF X
LEMMA BeforeType ==
  ASSUME NEW S, NEW R, NEW w, w[1] \in R, w[2] \in Seq(S), NEW q \in Seq(S)
  PROVE  Before(w, q) \in R \X Seq(S)
<1>1. w[2] \o q \in Seq(S)
  OBVIOUS
<1> QED
  BY <1>1, Zenon DEF Before

---------------------------------------------------------------------------
(* The ways to read a symbol: there are such, and they are forms.          *)

NextWays(W) ==
  [x \in Symbols \cup DOMAIN Grammar |->
     IF x \in DOMAIN Grammar THEN UNION {Ways(f, W) : f \in Grammar[x]} ELSE {<<x, <<>>>>}]
Agree(A, B, T) == \A x \in T : A[x] = B[x]

LEMMA AgreeSymbols == \A A, B : Agree(NextWays(A), NextWays(B), Symbols)
<1> TAKE A, B
<1>1. ASSUME NEW x \in Symbols PROVE NextWays(A)[x] = {<<x, <<>>>>} /\ NextWays(B)[x] = {<<x, <<>>>>}
  BY SymbolsAre DEF NextWays
<1> QED
  BY <1>1 DEF Agree

LEMMA AgreeNext ==
  ASSUME NEW A, NEW B, NEW T, Agree(A, B, T),
         NEW n \in DOMAIN Grammar, \A p \in Grammar[n] : Opens(p, T)
  PROVE  NextWays(A)[n] = NextWays(B)[n]
<1>1. ASSUME NEW p \in Grammar[n] PROVE Ways(p, A) = Ways(p, B)
  <2>1. CASE p = <<>>
    BY <2>1, WaysNone
  <2>2. CASE p # <<>>
    <3>1. p \in Seq(Vocabulary) /\ p[1] \in T /\ p[1] \notin Nullable
      BY <2>2 DEF Opens
    <3>2. A[p[1]] = B[p[1]]
      BY <3>1 DEF Agree
    <3>3. /\ Ways(p, A) = {Before(w, Rest(p)) : w \in A[p[1]]}
          /\ Ways(p, B) = {Before(w, Rest(p)) : w \in B[p[1]]}
      BY <2>2, <3>1, WaysFirst
    <3> QED
      BY <3>2, <3>3
  <2> QED
    BY <2>1, <2>2
<1>2. {Ways(p, A) : p \in Grammar[n]} = {Ways(p, B) : p \in Grammar[n]}
  BY <1>1
<1>3. /\ NextWays(A)[n] = UNION {Ways(p, A) : p \in Grammar[n]}
      /\ NextWays(B)[n] = UNION {Ways(p, B) : p \in Grammar[n]}
  BY DEF NextWays
<1> QED
  BY <1>2, <1>3

LEMMA Ranks ==
  /\ Rank1 = Symbols \cup {"Array", "Datatype", "More", "Block", "Others"}
  /\ Rank2 = Rank1 \cup {"Clause", "Parameters"}
  /\ Rank3 = Rank2 \cup {"Statement", "Clauses"}
  /\ Vocabulary = Rank3 \cup {"Program", "Statements"}
<1>1. Vocabulary = Rank3 \cup {"Program", "Statements"}
  BY GrammarDomain, Zenon DEF Vocabulary, Rank1, Rank2, Rank3
<1> QED
  BY <1>1 DEF Rank1, Rank2, Rank3

LEMMA AgreeMore ==
  ASSUME NEW A, NEW B
  PROVE  /\ Agree(A, B, Symbols) => Agree(NextWays(A), NextWays(B), Rank1)
         /\ Agree(A, B, Rank1) => Agree(NextWays(A), NextWays(B), Rank2)
         /\ Agree(A, B, Rank2) => Agree(NextWays(A), NextWays(B), Rank3)
         /\ Agree(A, B, Rank3) => Agree(NextWays(A), NextWays(B), Vocabulary)
<1> DEFINE Same(x) == NextWays(A)[x] = NextWays(B)[x]
<1>1. \A x \in Symbols : Same(x)
  BY AgreeSymbols DEF Agree
<1>2. Agree(A, B, Rank1) => Agree(A, B, Symbols)
  BY Ranks DEF Agree
<1>3. Agree(A, B, Rank2) => Agree(A, B, Rank1)
  BY Ranks DEF Agree
<1>4. Agree(A, B, Rank3) => Agree(A, B, Rank2)
  BY Ranks DEF Agree
<1>5. /\ Agree(A, B, Symbols) => Same("Array") /\ Same("Datatype") /\ Same("More") /\ Same("Block") /\ Same("Others")
      /\ Agree(A, B, Rank1) => Same("Clause") /\ Same("Parameters")
      /\ Agree(A, B, Rank2) => Same("Statement") /\ Same("Clauses")
      /\ Agree(A, B, Rank3) => Same("Program") /\ Same("Statements")
  BY AgreeNext, OpensSimple, OpensClause, OpensStatement, OpensProgram, GrammarDomain
<1> HIDE DEF Same
<1>6. Agree(A, B, Symbols) => \A x \in Rank1 : Same(x)
  BY <1>1, <1>5, Ranks
<1>7. Agree(A, B, Rank1) => \A x \in Rank2 : Same(x)
  BY <1>2, <1>5, <1>6, Ranks
<1>8. Agree(A, B, Rank2) => \A x \in Rank3 : Same(x)
  BY <1>3, <1>5, <1>7, Ranks
<1>9. Agree(A, B, Rank3) => \A x \in Vocabulary : Same(x)
  BY <1>4, <1>5, <1>8, Ranks
<1> QED
  BY <1>6, <1>7, <1>8, <1>9 DEF Agree, Same

LEMMA WaysExist == \E W : W = NextWays(W)
<1> DEFINE R1 == NextWays({})
           R2 == NextWays(R1)
           R3 == NextWays(R2)
           R4 == NextWays(R3)
           R5 == NextWays(R4)
           R6 == NextWays(R5)
<1>1. Agree(R1, R2, Symbols)
  BY AgreeSymbols
<1>2. Agree(R2, R3, Rank1)
  <2> HIDE DEF R1
  <2> QED
    BY <1>1, AgreeMore
<1>3. Agree(R3, R4, Rank2)
  <2> HIDE DEF R2
  <2> QED
    BY <1>2, AgreeMore
<1>4. Agree(R4, R5, Rank3)
  <2> HIDE DEF R3
  <2> QED
    BY <1>3, AgreeMore
<1>5. Agree(R5, R6, Vocabulary)
  <2> HIDE DEF R4
  <2> QED
    BY <1>4, AgreeMore
<1>6. R5 = [x \in Vocabulary |-> R5[x]] /\ R6 = [x \in Vocabulary |-> R6[x]]
  <2>1. \A W : NextWays(W) = [x \in Vocabulary |-> NextWays(W)[x]]
    BY DEF NextWays, Vocabulary
  <2> HIDE DEF R4
  <2>2. R5 = [x \in Vocabulary |-> R5[x]]
    BY <2>1
  <2> HIDE DEF R5
  <2>3. R6 = [x \in Vocabulary |-> R6[x]]
    BY <2>1
  <2> QED
    BY <2>2, <2>3
<1> HIDE DEF R5
<1>7. R5 = R6
  <2> HIDE DEF R6
  <2> QED
    BY <1>5, <1>6 DEF Agree
<1> QED
  BY <1>7

LEMMA WaysOfIs == WaysOf = NextWays(WaysOf)
<1> DEFINE Is(W) == W = [x \in Symbols \cup DOMAIN Grammar |->
     IF x \in DOMAIN Grammar THEN UNION {Ways(f, W) : f \in Grammar[x]} ELSE {<<x, <<>>>>}]
<1>1. WaysOf = CHOOSE W : Is(W)
  BY Zenon DEF WaysOf
<1>2. \A W : Is(W) <=> W = NextWays(W)
  BY DEF NextWays
<1> HIDE DEF Is
<1>3. \E W : Is(W)
  BY <1>2, WaysExist
<1>4. Is(WaysOf)
  BY <1>1, <1>3
<1> QED
  BY <1>2, <1>4

LEMMA WaysOfSymbol ==
  ASSUME NEW x \in Symbols PROVE WaysOf[x] = {<<x, <<>>>>}
<1>1. NextWays(WaysOf)[x] = {<<x, <<>>>>}
  BY SymbolsAre DEF NextWays
<1> QED
  BY <1>1, WaysOfIs

LEMMA WaysOfNonterminal ==
  ASSUME NEW x \in DOMAIN Grammar PROVE WaysOf[x] = UNION {Ways(f, WaysOf) : f \in Grammar[x]}
<1>1. NextWays(WaysOf)[x] = UNION {Ways(f, WaysOf) : f \in Grammar[x]}
  BY DEF NextWays
<1> QED
  BY <1>1, WaysOfIs

\* A way is a symbol and a form.
WaySet == SUBSET (Symbols \X Seq(Vocabulary))
LEMMA WayType ==
  ASSUME NEW T, \A x \in T : WaysOf[x] \in WaySet,
         NEW n \in DOMAIN Grammar, \A p \in Grammar[n] : Opens(p, T)
  PROVE  WaysOf[n] \in WaySet
<1>1. ASSUME NEW p \in Grammar[n], NEW v \in Ways(p, WaysOf) PROVE v \in Symbols \X Seq(Vocabulary)
  <2>1. p # <<>>
    BY <1>1, WaysNone
  <2>2. p \in Seq(Vocabulary) /\ p[1] \in T /\ p[1] \notin Nullable
    BY <2>1 DEF Opens
  <2>3. Ways(p, WaysOf) = {Before(w, Rest(p)) : w \in WaysOf[p[1]]}
    BY <2>1, <2>2, WaysFirst
  <2>4. PICK w \in WaysOf[p[1]] : v = Before(w, Rest(p))
    BY <1>1, <2>3
  <2>5. w[1] \in Symbols /\ w[2] \in Seq(Vocabulary)
    BY <2>2, <2>4 DEF WaySet
  <2>6. Rest(p) \in Seq(Vocabulary)
    BY <2>1, <2>2, FirstAndRest
  <2> QED
    BY <2>4, <2>5, <2>6, BeforeType
<1> QED
  BY <1>1, WaysOfNonterminal DEF WaySet

LEMMA WaysType == \A x \in Vocabulary : WaysOf[x] \in WaySet
<1> DEFINE WaysIn(T) == \A x \in T : WaysOf[x] \in WaySet
<1>1. WaysIn(Symbols)
  <2> SUFFICES ASSUME NEW x \in Symbols PROVE WaysOf[x] \in WaySet
    OBVIOUS
  <2>1. <<>> \in Seq(Vocabulary)
    OBVIOUS
  <2>2. <<x, <<>>>> \in Symbols \X Seq(Vocabulary)
    BY <2>1
  <2> QED
    BY <2>2, WaysOfSymbol, Zenon DEF WaySet
<1>2. WaysIn(Rank1)
  BY <1>1, WayType, OpensSimple, GrammarDomain, Ranks
<1>3. WaysIn(Rank2)
  BY <1>2, WayType, OpensClause, GrammarDomain, Ranks
<1>4. WaysIn(Rank3)
  BY <1>3, WayType, OpensStatement, GrammarDomain, Ranks
<1>5. WaysIn(Vocabulary)
  BY <1>4, WayType, OpensProgram, GrammarDomain, Ranks
<1> QED
  BY <1>5

---------------------------------------------------------------------------
(* What may follow a symbol.                                               *)

LEMMA DeriveIs ==
  \A S, t, v : v \in Derive(S, t) <=> \E f \in S : \E w \in Ways(f, WaysOf) : w[1] = t /\ w[2] = v
<1> TAKE S, t, v
<1> DEFINE All == UNION {Ways(f, WaysOf) : f \in S}
<1>1. Derive(S, t) = {w[2] : w \in {u \in All : u[1] = t}}
  BY DEF Derive
<1>2. \A w : w \in All <=> \E f \in S : w \in Ways(f, WaysOf)
  OBVIOUS
<1> HIDE DEF All
<1>3. v \in Derive(S, t) <=> \E w \in All : w[1] = t /\ w[2] = v
  BY <1>1
<1> QED
  BY <1>2, <1>3

LEMMA DeriveMore == \A S, R, t : S \subseteq R => Derive(S, t) \subseteq Derive(R, t)
BY DeriveIs
LEMMA DeriveEither == \A S, R, t : Derive(S \cup R, t) = Derive(S, t) \cup Derive(R, t)
BY DeriveIs
LEMMA DeriveNothing == \A t : Derive({}, t) = {}
BY DeriveIs
LEMMA DeriveEmpty == \A t : Derive({<<>>}, t) = {}
BY DeriveIs, WaysNone

LEMMA InThen == \A x, Q, f : f \in x ## Q <=> \E q \in Q : f = Led(x, q)
BY DEF ##
LEMMA ThenType == \A x \in Vocabulary : \A Q \in FormSets : x ## Q \in FormSets
<1> TAKE x \in Vocabulary
<1> TAKE Q \in FormSets
<1>1. \A q \in Q : Led(x, q) \in Seq(Vocabulary)
  BY LedType DEF FormSets
<1> QED
  BY <1>1, InThen DEF FormSets
LEMMA ThenMore == \A x, Q, R : Q \subseteq R => x ## Q \subseteq x ## R
BY InThen

\* Behind a terminal.
LEMMA WaysTerminal ==
  ASSUME NEW x \in Symbols, NEW q \in Seq(Vocabulary)
  PROVE  \A v : v \in Ways(Led(x, q), WaysOf) <=> v = <<x, q>>
<1>1. x \notin Nullable /\ x \in Vocabulary
  BY Terminals
<1> DEFINE f == Led(x, q)
           way == <<x, <<>>>>
<1>2. f \in Seq(Vocabulary) /\ f # <<>> /\ f[1] = x /\ Rest(f) = q
  BY <1>1, LedIs, LedType
<1> HIDE DEF f
<1>3. Ways(f, WaysOf) = {Before(w, Rest(f)) : w \in WaysOf[f[1]]}
  BY <1>1, <1>2, WaysFirst
<1>4. WaysOf[f[1]] = {way}
  BY <1>2, WaysOfSymbol
<1>5. way[1] = x /\ way[2] \o q = q
  OBVIOUS
<1> HIDE DEF way
<1>6. \A v : v \in Ways(f, WaysOf) <=> v = Before(way, q)
  BY <1>2, <1>3, <1>4
<1>7. Before(way, q) = <<x, q>>
  BY <1>5 DEF Before
<1> QED
  BY <1>6, <1>7 DEF f

LEMMA DeriveTerminal ==
  ASSUME NEW x \in Symbols, NEW Q \in FormSets, NEW t
  PROVE  Derive(x ## Q, t) = IF t = x THEN Q ELSE {}
<1>1. \A q \in Q : q \in Seq(Vocabulary)
  BY DEF FormSets
<1>2. \A v : v \in Derive(x ## Q, t) <=> t = x /\ v \in Q
  <2> TAKE v
  <2>1. v \in Derive(x ## Q, t) <=> \E q \in Q : \E w \in Ways(Led(x, q), WaysOf) : w[1] = t /\ w[2] = v
    BY DeriveIs, InThen
  <2>2. ASSUME NEW q \in Q PROVE (\E w \in Ways(Led(x, q), WaysOf) : w[1] = t /\ w[2] = v) <=> t = x /\ v = q
    <3> DEFINE way == <<x, q>>
    <3>1. way[1] = x /\ way[2] = q
      OBVIOUS
    <3>2. \A w : w \in Ways(Led(x, q), WaysOf) <=> w = way
      BY <1>1, WaysTerminal
    <3> HIDE DEF way
    <3> QED
      BY <3>1, <3>2
  <2> QED
    BY <2>1, <2>2
<1> QED
  BY <1>2

\* Behind a nonterminal: its productions, before what follows it.
Onto(p, Q) == {p \o q : q \in Q}

LEMMA DeriveProductions ==
  ASSUME NEW x \in DOMAIN Grammar, NEW Q \in FormSets, NEW t, NEW v \in Derive(x ## Q, t)
  PROVE  \E p \in Grammar[x] : v \in Derive(Onto(p, Q), t)
<1>1. PICK q \in Q : \E w \in Ways(Led(x, q), WaysOf) : w[1] = t /\ w[2] = v
  BY DeriveIs, InThen
<1> PICK w \in Ways(Led(x, q), WaysOf) : w[1] = t /\ w[2] = v
  BY <1>1
<1>2. q \in Seq(Vocabulary) /\ x \in Vocabulary
  BY DEF FormSets, Vocabulary
<1>3. ASSUME NEW u \in WaysOf[x], w = Before(u, q)
      PROVE  \E p \in Grammar[x] : v \in Derive(Onto(p, Q), t)
  <2>1. PICK p \in Grammar[x] : u \in Ways(p, WaysOf)
    BY <1>3, WaysOfNonterminal
  <2>2. p # <<>>
    BY <2>1, WaysNone
  <2>3. PICK T : Opens(p, T)
    BY GrammarDomain, OpensSimple, OpensClause, OpensStatement, OpensProgram
  <2>4. p \in Seq(Vocabulary) /\ p[1] \notin Nullable
    BY <2>2, <2>3 DEF Opens
  <2> DEFINE a == p[1]
             r == Rest(p)
             f == Led(a, r \o q)
  <2>5. a \in Vocabulary /\ r \in Seq(Vocabulary) /\ p = Led(a, r) /\ a \notin Nullable
    BY <2>2, <2>4, LedAll
  <2>6. Ways(p, WaysOf) = {Before(z, r) : z \in WaysOf[a]}
    BY <2>2, <2>4, WaysFirst
  <2> HIDE DEF a, r
  <2>7. PICK z \in WaysOf[a] : u = Before(z, r)
    BY <2>1, <2>6
  <2>8. z[2] \in Seq(Vocabulary)
    BY <2>5, WaysType DEF WaySet
  <2>9. p \o q = f
    <3>1. Led(a, r) \o q = Led(a, r \o q)
      <4>1. a \in Vocabulary
        BY <2>5
      <4>2. r \in Seq(Vocabulary)
        BY <2>5
      <4>3. q \in Seq(Vocabulary)
        BY <1>2
      <4> QED
        BY <4>1, <4>2, <4>3, LedBehind
    <3> QED
      BY <2>5, <3>1, Zenon
  <2>10. r \o q \in Seq(Vocabulary)
    BY <1>2, <2>5
  <2>11. f \in Seq(Vocabulary) /\ f # <<>> /\ f[1] = a /\ Rest(f) = r \o q
    <3> DEFINE rq == r \o q
    <3> HIDE DEF rq
    <3>1. rq \in Seq(Vocabulary)
      BY <2>10 DEF rq
    <3>2. Led(a, rq) \in Seq(Vocabulary) /\ Led(a, rq) # <<>> /\ Led(a, rq)[1] = a /\ Rest(Led(a, rq)) = rq
      BY <2>5, <3>1, LedIs, LedType
    <3> QED
      BY <3>2 DEF rq
  <2> HIDE DEF f
  <2>12. Ways(f, WaysOf) = {Before(y, Rest(f)) : y \in WaysOf[f[1]]}
    BY <2>5, <2>11, WaysFirst
  <2>13. w = Before(z, Rest(f))
    BY <1>2, <1>3, <2>5, <2>7, <2>8, <2>11, BeforeBoth
  <2>14. w \in Ways(f, WaysOf)
    BY <2>11, <2>12, <2>13
  <2>15. f \in Onto(p, Q)
    BY <2>9 DEF Onto
  <2> QED
    BY <1>1, <2>14, <2>15, DeriveIs
<1>4. CASE x \notin Nullable
  <2> DEFINE f == Led(x, q)
  <2>1. f \in Seq(Vocabulary) /\ f # <<>> /\ f[1] = x /\ Rest(f) = q
    BY <1>2, LedIs, LedType
  <2> HIDE DEF f
  <2>2. Ways(f, WaysOf) = {Before(u, Rest(f)) : u \in WaysOf[f[1]]}
    BY <1>4, <2>1, WaysFirst
  <2>3. \E u \in WaysOf[x] : w = Before(u, q)
    BY <2>1, <2>2 DEF f
  <2> QED
    BY <1>3, <2>3
<1>5. CASE x \in Nullable
  <2>1. Ways(Led(x, q), WaysOf) = {Before(u, q) : u \in WaysOf[x]} \cup Ways(q, WaysOf)
    BY <1>2, <1>5, WaysSkip
  <2>2. CASE \E u \in WaysOf[x] : w = Before(u, q)
    BY <1>3, <2>2
  <2>3. CASE w \in Ways(q, WaysOf)
    <3>1. <<>> \in Grammar[x]
      BY <1>5 DEF Nullable
    <3>2. <<>> \o q = q
      BY <1>2
    <3>3. q \in Onto(<<>>, Q)
      BY <3>2 DEF Onto
    <3>4. v \in Derive(Onto(<<>>, Q), t)
      BY <2>3, <3>3, DeriveIs
    <3> QED
      BY <3>1, <3>4
  <2> QED
    BY <2>1, <2>2, <2>3
<1> QED
  BY <1>4, <1>5

\* What can be empty hides nothing of what follows it.
LEMMA DeriveBehind ==
  ASSUME NEW x \in Nullable, NEW Q \in FormSets, NEW t
  PROVE  Derive(Q, t) \subseteq Derive(x ## Q, t)
<1> SUFFICES ASSUME NEW v \in Derive(Q, t) PROVE v \in Derive(x ## Q, t)
  OBVIOUS
<1>1. PICK q \in Q : \E w \in Ways(q, WaysOf) : w[1] = t /\ w[2] = v
  BY DeriveIs
<1> PICK w \in Ways(q, WaysOf) : w[1] = t /\ w[2] = v
  BY <1>1
<1>2. q \in Seq(Vocabulary)
  BY DEF FormSets
<1>3. Ways(Led(x, q), WaysOf) = {Before(u, q) : u \in WaysOf[x]} \cup Ways(q, WaysOf)
  BY <1>2, WaysSkip
<1>4. Led(x, q) \in x ## Q
  BY InThen
<1> QED
  BY <1>3, <1>4, DeriveIs

LEMMA OntoNothing == \A Q \in FormSets : Onto(<<>>, Q) = Q
<1> TAKE Q \in FormSets
<1>1. \A q \in Q : <<>> \o q = q
  BY DEF FormSets
<1> QED
  BY <1>1 DEF Onto
LEMMA OntoLed ==
  ASSUME NEW a \in Vocabulary, NEW p \in Seq(Vocabulary), NEW Q \in FormSets
  PROVE  Onto(Led(a, p), Q) = a ## Onto(p, Q)
<1>1. ASSUME NEW q \in Q PROVE Led(a, p) \o q = Led(a, p \o q)
  BY LedBehind DEF FormSets
<1>2. \A f : f \in Onto(Led(a, p), Q) <=> \E q \in Q : f = Led(a, p \o q)
  BY <1>1 DEF Onto
<1>3. \A f : f \in a ## Onto(p, Q) <=> \E q \in Q : f = Led(a, p \o q)
  <2>1. \A g : g \in Onto(p, Q) <=> \E q \in Q : g = p \o q
    BY DEF Onto
  <2>2. \A f : f \in a ## Onto(p, Q) <=> \E g \in Onto(p, Q) : f = Led(a, g)
    BY InThen
  <2> QED
    BY <2>1, <2>2, Zenon
<1> QED
  BY <1>2, <1>3
LEMMA RestIs ==
  ASSUME NEW S, NEW p \in Seq(S), Len(p) >= 1
  PROVE  /\ Rest(p) \in Seq(S) /\ Len(Rest(p)) = Len(p) - 1
         /\ \A i \in 1..(Len(p) - 1) : Rest(p)[i] = p[i + 1]
<1>1. p # <<>> /\ Len(p) \in Nat
  OBVIOUS
<1> DEFINE r == Rest(p)
           x == p[1]
<1>2. r \in Seq(S) /\ p = Led(x, r)
  BY <1>1, LedAll
<1> HIDE DEF r, x
<1>3. Len(Led(x, r)) = Len(r) + 1 /\ \A i \in 1..Len(r) : Led(x, r)[i + 1] = r[i]
  BY <1>2, RestOf DEF Led
<1>4. Len(p) = Len(r) + 1 /\ Len(r) \in Nat /\ \A i \in 1..Len(r) : p[i + 1] = r[i]
  BY <1>2, <1>3
<1> QED
  BY <1>2, <1>4 DEF r
LEMMA OntoRest ==
  ASSUME NEW p \in Seq(Vocabulary), Len(p) >= 1, NEW Q \in FormSets
  PROVE  Onto(p, Q) = p[1] ## Onto(Rest(p), Q)
<1>1. p # <<>>
  OBVIOUS
<1> DEFINE r == Rest(p)
           x == p[1]
<1>2. x \in Vocabulary /\ r \in Seq(Vocabulary) /\ p = Led(x, r)
  BY <1>1, LedAll
<1> HIDE DEF r, x
<1>3. Onto(Led(x, r), Q) = x ## Onto(r, Q)
  BY <1>2, OntoLed
<1> QED
  BY <1>2, <1>3 DEF r, x
LEMMA Onto0 ==
  ASSUME NEW Q \in FormSets, NEW p \in Seq(Vocabulary), Len(p) = 0
  PROVE  Onto(p, Q) = Q
<1>1. p = <<>>
  OBVIOUS
<1> QED
  BY <1>1, OntoNothing
LEMMA Onto1 ==
  ASSUME NEW Q \in FormSets, NEW p \in Seq(Vocabulary), Len(p) = 1
  PROVE  Onto(p, Q) = p[1] ## Q
<1> DEFINE r == Rest(p)
<1>1. Len(p) >= 1
  OBVIOUS
<1>2. Onto(p, Q) = p[1] ## Onto(r, Q)
  BY <1>1, OntoRest
<1>3. r \in Seq(Vocabulary) /\ Len(r) = Len(p) - 1 /\ \A i \in 1..(Len(p) - 1) : r[i] = p[i + 1]
  BY <1>1, RestIs
<1> HIDE DEF r
<1>4. Len(r) = 0
  BY <1>3
<1>5. Onto(r, Q) = Q
  BY <1>3, <1>4, Onto0
<1> QED
  BY <1>2, <1>4, <1>5
LEMMA Onto2 ==
  ASSUME NEW Q \in FormSets, NEW p \in Seq(Vocabulary), Len(p) = 2
  PROVE  Onto(p, Q) = p[1] ## (p[2] ## Q)
<1> DEFINE r == Rest(p)
<1>1. Len(p) >= 1
  OBVIOUS
<1>2. Onto(p, Q) = p[1] ## Onto(r, Q)
  BY <1>1, OntoRest
<1>3. r \in Seq(Vocabulary) /\ Len(r) = Len(p) - 1 /\ \A i \in 1..(Len(p) - 1) : r[i] = p[i + 1]
  BY <1>1, RestIs
<1> HIDE DEF r
<1>4. Len(r) = 1 /\ r[1] = p[2]
  BY <1>3
<1>5. Onto(r, Q) = r[1] ## Q
  BY <1>3, <1>4, Onto1
<1> QED
  BY <1>2, <1>4, <1>5
LEMMA Onto3 ==
  ASSUME NEW Q \in FormSets, NEW p \in Seq(Vocabulary), Len(p) = 3
  PROVE  Onto(p, Q) = p[1] ## (p[2] ## (p[3] ## Q))
<1> DEFINE r == Rest(p)
<1>1. Len(p) >= 1
  OBVIOUS
<1>2. Onto(p, Q) = p[1] ## Onto(r, Q)
  BY <1>1, OntoRest
<1>3. r \in Seq(Vocabulary) /\ Len(r) = Len(p) - 1 /\ \A i \in 1..(Len(p) - 1) : r[i] = p[i + 1]
  BY <1>1, RestIs
<1> HIDE DEF r
<1>4. Len(r) = 2 /\ r[1] = p[2] /\ r[2] = p[3]
  BY <1>3
<1>5. Onto(r, Q) = r[1] ## (r[2] ## Q)
  BY <1>3, <1>4, Onto2
<1> QED
  BY <1>2, <1>4, <1>5
LEMMA Onto4 ==
  ASSUME NEW Q \in FormSets, NEW p \in Seq(Vocabulary), Len(p) = 4
  PROVE  Onto(p, Q) = p[1] ## (p[2] ## (p[3] ## (p[4] ## Q)))
<1> DEFINE r == Rest(p)
<1>1. Len(p) >= 1
  OBVIOUS
<1>2. Onto(p, Q) = p[1] ## Onto(r, Q)
  BY <1>1, OntoRest
<1>3. r \in Seq(Vocabulary) /\ Len(r) = Len(p) - 1 /\ \A i \in 1..(Len(p) - 1) : r[i] = p[i + 1]
  BY <1>1, RestIs
<1> HIDE DEF r
<1>4. Len(r) = 3 /\ r[1] = p[2] /\ r[2] = p[3] /\ r[3] = p[4]
  BY <1>3
<1>5. Onto(r, Q) = r[1] ## (r[2] ## (r[3] ## Q))
  BY <1>3, <1>4, Onto3
<1> QED
  BY <1>2, <1>4, <1>5
LEMMA Onto5 ==
  ASSUME NEW Q \in FormSets, NEW p \in Seq(Vocabulary), Len(p) = 5
  PROVE  Onto(p, Q) = p[1] ## (p[2] ## (p[3] ## (p[4] ## (p[5] ## Q))))
<1> DEFINE r == Rest(p)
<1>1. Len(p) >= 1
  OBVIOUS
<1>2. Onto(p, Q) = p[1] ## Onto(r, Q)
  BY <1>1, OntoRest
<1>3. r \in Seq(Vocabulary) /\ Len(r) = Len(p) - 1 /\ \A i \in 1..(Len(p) - 1) : r[i] = p[i + 1]
  BY <1>1, RestIs
<1> HIDE DEF r
<1>4. Len(r) = 4 /\ r[1] = p[2] /\ r[2] = p[3] /\ r[3] = p[4] /\ r[4] = p[5]
  BY <1>3
<1>5. Onto(r, Q) = r[1] ## (r[2] ## (r[3] ## (r[4] ## Q)))
  BY <1>3, <1>4, Onto4
<1> QED
  BY <1>2, <1>4, <1>5
LEMMA Onto6 ==
  ASSUME NEW Q \in FormSets, NEW p \in Seq(Vocabulary), Len(p) = 6
  PROVE  Onto(p, Q) = p[1] ## (p[2] ## (p[3] ## (p[4] ## (p[5] ## (p[6] ## Q)))))
<1> DEFINE r == Rest(p)
<1>1. Len(p) >= 1
  OBVIOUS
<1>2. Onto(p, Q) = p[1] ## Onto(r, Q)
  BY <1>1, OntoRest
<1>3. r \in Seq(Vocabulary) /\ Len(r) = Len(p) - 1 /\ \A i \in 1..(Len(p) - 1) : r[i] = p[i + 1]
  BY <1>1, RestIs
<1> HIDE DEF r
<1>4. Len(r) = 5 /\ r[1] = p[2] /\ r[2] = p[3] /\ r[3] = p[4] /\ r[4] = p[5] /\ r[5] = p[6]
  BY <1>3
<1>5. Onto(r, Q) = r[1] ## (r[2] ## (r[3] ## (r[4] ## (r[5] ## Q))))
  BY <1>3, <1>4, Onto5
<1> QED
  BY <1>2, <1>4, <1>5
LEMMA Onto7 ==
  ASSUME NEW Q \in FormSets, NEW p \in Seq(Vocabulary), Len(p) = 7
  PROVE  Onto(p, Q) = p[1] ## (p[2] ## (p[3] ## (p[4] ## (p[5] ## (p[6] ## (p[7] ## Q))))))
<1> DEFINE r == Rest(p)
<1>1. Len(p) >= 1
  OBVIOUS
<1>2. Onto(p, Q) = p[1] ## Onto(r, Q)
  BY <1>1, OntoRest
<1>3. r \in Seq(Vocabulary) /\ Len(r) = Len(p) - 1 /\ \A i \in 1..(Len(p) - 1) : r[i] = p[i + 1]
  BY <1>1, RestIs
<1> HIDE DEF r
<1>4. Len(r) = 6 /\ r[1] = p[2] /\ r[2] = p[3] /\ r[3] = p[4] /\ r[4] = p[5] /\ r[5] = p[6] /\ r[6] = p[7]
  BY <1>3
<1>5. Onto(r, Q) = r[1] ## (r[2] ## (r[3] ## (r[4] ## (r[5] ## (r[6] ## Q)))))
  BY <1>3, <1>4, Onto6
<1> QED
  BY <1>2, <1>4, <1>5
LEMMA Onto8 ==
  ASSUME NEW Q \in FormSets, NEW p \in Seq(Vocabulary), Len(p) = 8
  PROVE  Onto(p, Q) = p[1] ## (p[2] ## (p[3] ## (p[4] ## (p[5] ## (p[6] ## (p[7] ## (p[8] ## Q)))))))
<1> DEFINE r == Rest(p)
<1>1. Len(p) >= 1
  OBVIOUS
<1>2. Onto(p, Q) = p[1] ## Onto(r, Q)
  BY <1>1, OntoRest
<1>3. r \in Seq(Vocabulary) /\ Len(r) = Len(p) - 1 /\ \A i \in 1..(Len(p) - 1) : r[i] = p[i + 1]
  BY <1>1, RestIs
<1> HIDE DEF r
<1>4. Len(r) = 7 /\ r[1] = p[2] /\ r[2] = p[3] /\ r[3] = p[4] /\ r[4] = p[5] /\ r[5] = p[6] /\ r[6] = p[7] /\ r[7] = p[8]
  BY <1>3
<1>5. Onto(r, Q) = r[1] ## (r[2] ## (r[3] ## (r[4] ## (r[5] ## (r[6] ## (r[7] ## Q))))))
  BY <1>3, <1>4, Onto7
<1> QED
  BY <1>2, <1>4, <1>5
LEMMA Onto9 ==
  ASSUME NEW Q \in FormSets, NEW p \in Seq(Vocabulary), Len(p) = 9
  PROVE  Onto(p, Q) = p[1] ## (p[2] ## (p[3] ## (p[4] ## (p[5] ## (p[6] ## (p[7] ## (p[8] ## (p[9] ## Q))))))))
<1> DEFINE r == Rest(p)
<1>1. Len(p) >= 1
  OBVIOUS
<1>2. Onto(p, Q) = p[1] ## Onto(r, Q)
  BY <1>1, OntoRest
<1>3. r \in Seq(Vocabulary) /\ Len(r) = Len(p) - 1 /\ \A i \in 1..(Len(p) - 1) : r[i] = p[i + 1]
  BY <1>1, RestIs
<1> HIDE DEF r
<1>4. Len(r) = 8 /\ r[1] = p[2] /\ r[2] = p[3] /\ r[3] = p[4] /\ r[4] = p[5] /\ r[5] = p[6] /\ r[6] = p[7] /\ r[7] = p[8] /\ r[8] = p[9]
  BY <1>3
<1>5. Onto(r, Q) = r[1] ## (r[2] ## (r[3] ## (r[4] ## (r[5] ## (r[6] ## (r[7] ## (r[8] ## Q)))))))
  BY <1>3, <1>4, Onto8
<1> QED
  BY <1>2, <1>4, <1>5

---------------------------------------------------------------------------
(* What each nonterminal begins with.                                      *)

LEMMA ProductionType ==
  ASSUME NEW x \in DOMAIN Grammar, NEW p \in Grammar[x]
  PROVE  p \in Seq(Vocabulary)
<1>1. PICK T : Opens(p, T)
  BY GrammarDomain, OpensSimple, OpensClause, OpensStatement, OpensProgram
<1> QED
  BY <1>1 DEF Opens

LEMMA ReadProgram ==
  ASSUME NEW Q \in FormSets, NEW t, NEW v \in Derive("Program" ## Q, t)
  PROVE  \/ v \in Derive(Q, t)
         \/ v \in Derive("Statement" ## ("Program" ## Q), t)
<1>1. PICK p \in Grammar["Program"] : v \in Derive(Onto(p, Q), t)
  BY DeriveProductions, GrammarDomain
<1>2. p \in Seq(Vocabulary)
  BY ProductionType, GrammarDomain
<1>3. CASE p = <<>>
  BY <1>1, <1>3, OntoNothing
<1>4. CASE p = <<"Statement", "Program">>
  <2>1. Len(p) = 2 /\ p[1] = "Statement" /\ p[2] = "Program"
    BY <1>4
  <2>2. Onto(p, Q) = p[1] ## (p[2] ## Q)
    BY <1>2, <2>1, Onto2
  <2> QED
    BY <1>1, <2>1, <2>2
<1> QED
  BY <1>3, <1>4, ProgramIs

LEMMA ReadStatements ==
  ASSUME NEW Q \in FormSets, NEW t, NEW v \in Derive("Statements" ## Q, t)
  PROVE  \/ v \in Derive(Q, t)
         \/ v \in Derive("Statement" ## ("Statements" ## Q), t)
<1>1. PICK p \in Grammar["Statements"] : v \in Derive(Onto(p, Q), t)
  BY DeriveProductions, GrammarDomain
<1>2. p \in Seq(Vocabulary)
  BY ProductionType, GrammarDomain
<1>3. CASE p = <<>>
  BY <1>1, <1>3, OntoNothing
<1>4. CASE p = <<"Statement", "Statements">>
  <2>1. Len(p) = 2 /\ p[1] = "Statement" /\ p[2] = "Statements"
    BY <1>4
  <2>2. Onto(p, Q) = p[1] ## (p[2] ## Q)
    BY <1>2, <2>1, Onto2
  <2> QED
    BY <1>1, <2>1, <2>2
<1> QED
  BY <1>3, <1>4, ListsAre

LEMMA ReadClauses ==
  ASSUME NEW Q \in FormSets, NEW t, NEW v \in Derive("Clauses" ## Q, t)
  PROVE  \/ v \in Derive(Q, t)
         \/ v \in Derive("Clause" ## ("More" ## Q), t)
<1>1. PICK p \in Grammar["Clauses"] : v \in Derive(Onto(p, Q), t)
  BY DeriveProductions, GrammarDomain
<1>2. p \in Seq(Vocabulary)
  BY ProductionType, GrammarDomain
<1>3. CASE p = <<>>
  BY <1>1, <1>3, OntoNothing
<1>4. CASE p = <<"Clause", "More">>
  <2>1. Len(p) = 2 /\ p[1] = "Clause" /\ p[2] = "More"
    BY <1>4
  <2>2. Onto(p, Q) = p[1] ## (p[2] ## Q)
    BY <1>2, <2>1, Onto2
  <2> QED
    BY <1>1, <2>1, <2>2
<1> QED
  BY <1>3, <1>4, ListsAre

LEMMA ReadMore ==
  ASSUME NEW Q \in FormSets, NEW t, NEW v \in Derive("More" ## Q, t)
  PROVE  \/ v \in Derive(Q, t)
         \/ v \in Derive("," ## ("Clause" ## ("More" ## Q)), t)
<1>1. PICK p \in Grammar["More"] : v \in Derive(Onto(p, Q), t)
  BY DeriveProductions, GrammarDomain
<1>2. p \in Seq(Vocabulary)
  BY ProductionType, GrammarDomain
<1>3. CASE p = <<>>
  BY <1>1, <1>3, OntoNothing
<1>4. CASE p = <<",", "Clause", "More">>
  <2>1. Len(p) = 3 /\ p[1] = "," /\ p[2] = "Clause" /\ p[3] = "More"
    BY <1>4
  <2>2. Onto(p, Q) = p[1] ## (p[2] ## (p[3] ## Q))
    BY <1>2, <2>1, Onto3
  <2> QED
    BY <1>1, <2>1, <2>2
<1> QED
  BY <1>3, <1>4, ListsAre

LEMMA ReadArray ==
  ASSUME NEW Q \in FormSets, NEW t, NEW v \in Derive("Array" ## Q, t)
  PROVE  \/ v \in Derive(Q, t)
         \/ v \in Derive("[" ## ("]" ## Q), t)
<1>1. PICK p \in Grammar["Array"] : v \in Derive(Onto(p, Q), t)
  BY DeriveProductions, GrammarDomain
<1>2. p \in Seq(Vocabulary)
  BY ProductionType, GrammarDomain
<1>3. CASE p = <<>>
  BY <1>1, <1>3, OntoNothing
<1>4. CASE p = <<"[", "]">>
  <2>1. Len(p) = 2 /\ p[1] = "[" /\ p[2] = "]"
    BY <1>4
  <2>2. Onto(p, Q) = p[1] ## (p[2] ## Q)
    BY <1>2, <2>1, Onto2
  <2> QED
    BY <1>1, <2>1, <2>2
<1> QED
  BY <1>3, <1>4, TypesAre

LEMMA ReadDatatype ==
  ASSUME NEW Q \in FormSets, NEW t, NEW v \in Derive("Datatype" ## Q, t)
  PROVE  \/ v \in Derive("type" ## Q, t)
         \/ v \in Derive("secret" ## ("type" ## Q), t)
<1>1. PICK p \in Grammar["Datatype"] : v \in Derive(Onto(p, Q), t)
  BY DeriveProductions, GrammarDomain
<1>2. p \in Seq(Vocabulary)
  BY ProductionType, GrammarDomain
<1>3. CASE p = <<"type">>
  <2>1. Len(p) = 1 /\ p[1] = "type"
    BY <1>3
  <2>2. Onto(p, Q) = p[1] ## Q
    BY <1>2, <2>1, Onto1
  <2> QED
    BY <1>1, <2>1, <2>2
<1>4. CASE p = <<"secret", "type">>
  <2>1. Len(p) = 2 /\ p[1] = "secret" /\ p[2] = "type"
    BY <1>4
  <2>2. Onto(p, Q) = p[1] ## (p[2] ## Q)
    BY <1>2, <2>1, Onto2
  <2> QED
    BY <1>1, <2>1, <2>2
<1> QED
  BY <1>3, <1>4, TypesAre

LEMMA ReadBlock ==
  ASSUME NEW Q \in FormSets, NEW t, NEW v \in Derive("Block" ## Q, t)
  PROVE  v \in Derive("{" ## ("Statements" ## ("}" ## Q)), t)
<1>1. PICK p \in Grammar["Block"] : v \in Derive(Onto(p, Q), t)
  BY DeriveProductions, GrammarDomain
<1>2. p \in Seq(Vocabulary)
  BY ProductionType, GrammarDomain
<1>3. CASE p = <<"{", "Statements", "}">>
  <2>1. Len(p) = 3 /\ p[1] = "{" /\ p[2] = "Statements" /\ p[3] = "}"
    BY <1>3
  <2>2. Onto(p, Q) = p[1] ## (p[2] ## (p[3] ## Q))
    BY <1>2, <2>1, Onto3
  <2> QED
    BY <1>1, <2>1, <2>2
<1> QED
  BY <1>3, ListsAre

LEMMA ReadParameters ==
  ASSUME NEW Q \in FormSets, NEW t, NEW v \in Derive("Parameters" ## Q, t)
  PROVE  \/ v \in Derive(Q, t)
         \/ v \in Derive("Datatype" ## ("id" ## ("Others" ## Q)), t)
<1>1. PICK p \in Grammar["Parameters"] : v \in Derive(Onto(p, Q), t)
  BY DeriveProductions, GrammarDomain
<1>2. p \in Seq(Vocabulary)
  BY ProductionType, GrammarDomain
<1>3. CASE p = <<>>
  BY <1>1, <1>3, OntoNothing
<1>4. CASE p = <<"Datatype", "id", "Others">>
  <2>1. Len(p) = 3 /\ p[1] = "Datatype" /\ p[2] = "id" /\ p[3] = "Others"
    BY <1>4
  <2>2. Onto(p, Q) = p[1] ## (p[2] ## (p[3] ## Q))
    BY <1>2, <2>1, Onto3
  <2> QED
    BY <1>1, <2>1, <2>2
<1> QED
  BY <1>3, <1>4, ListsAre

LEMMA ReadOthers ==
  ASSUME NEW Q \in FormSets, NEW t, NEW v \in Derive("Others" ## Q, t)
  PROVE  \/ v \in Derive(Q, t)
         \/ v \in Derive("," ## ("Datatype" ## ("id" ## ("Others" ## Q))), t)
<1>1. PICK p \in Grammar["Others"] : v \in Derive(Onto(p, Q), t)
  BY DeriveProductions, GrammarDomain
<1>2. p \in Seq(Vocabulary)
  BY ProductionType, GrammarDomain
<1>3. CASE p = <<>>
  BY <1>1, <1>3, OntoNothing
<1>4. CASE p = <<",", "Datatype", "id", "Others">>
  <2>1. Len(p) = 4 /\ p[1] = "," /\ p[2] = "Datatype" /\ p[3] = "id" /\ p[4] = "Others"
    BY <1>4
  <2>2. Onto(p, Q) = p[1] ## (p[2] ## (p[3] ## (p[4] ## Q)))
    BY <1>2, <2>1, Onto4
  <2> QED
    BY <1>1, <2>1, <2>2
<1> QED
  BY <1>3, <1>4, ListsAre

LEMMA ReadClause ==
  ASSUME NEW Q \in FormSets, NEW t, NEW v \in Derive("Clause" ## Q, t)
  PROVE  \/ v \in Derive("target" ## ("=" ## ("expr" ## Q)), t)
         \/ v \in Derive("Datatype" ## ("id" ## ("Array" ## ("=" ## ("expr" ## Q)))), t)
<1>1. PICK p \in Grammar["Clause"] : v \in Derive(Onto(p, Q), t)
  BY DeriveProductions, GrammarDomain
<1>2. p \in Seq(Vocabulary)
  BY ProductionType, GrammarDomain
<1>3. CASE p = <<"target", "=", "expr">>
  <2>1. Len(p) = 3 /\ p[1] = "target" /\ p[2] = "=" /\ p[3] = "expr"
    BY <1>3
  <2>2. Onto(p, Q) = p[1] ## (p[2] ## (p[3] ## Q))
    BY <1>2, <2>1, Onto3
  <2> QED
    BY <1>1, <2>1, <2>2
<1>4. CASE p = <<"Datatype", "id", "Array", "=", "expr">>
  <2>1. Len(p) = 5 /\ p[1] = "Datatype" /\ p[2] = "id" /\ p[3] = "Array" /\ p[4] = "=" /\ p[5] = "expr"
    BY <1>4
  <2>2. Onto(p, Q) = p[1] ## (p[2] ## (p[3] ## (p[4] ## (p[5] ## Q))))
    BY <1>2, <2>1, Onto5
  <2> QED
    BY <1>1, <2>1, <2>2
<1> QED
  BY <1>3, <1>4, ClauseIs

\* The forms of a statement.
IfForm(Q) == "if" ## ("(" ## ("expr" ## (")" ## ("Statement" ## Q))))
LoopForm(Q) ==
  "for" ## ("(" ## ("Clauses" ## (";" ## ("expr" ## (";" ## ("Clauses" ## (")" ## ("Block" ## Q))))))))
FunctionForm(Q) == "public" ## ("Datatype" ## ("id" ## ("(" ## ("Parameters" ## (")" ## ("Block" ## Q))))))

LEMMA ReadStatement ==
  ASSUME NEW Q \in FormSets, NEW t, NEW v \in Derive("Statement" ## Q, t)
  PROVE  \/ v \in Derive("Clause" ## (";" ## Q), t)
         \/ v \in Derive("return" ## (";" ## Q), t)
         \/ v \in Derive("return" ## ("expr" ## (";" ## Q)), t)
         \/ v \in Derive("Datatype" ## ("id" ## ("Array" ## (";" ## Q))), t)
         \/ v \in Derive("Block" ## Q, t)
         \/ v \in Derive(IfForm(Q), t)
         \/ v \in Derive(IfForm("else" ## ("Statement" ## Q)), t)
         \/ v \in Derive(LoopForm(Q), t)
         \/ v \in Derive(FunctionForm(Q), t)
<1>1. PICK p \in Grammar["Statement"] : v \in Derive(Onto(p, Q), t)
  BY DeriveProductions, GrammarDomain
<1>2. p \in Seq(Vocabulary)
  BY ProductionType, GrammarDomain
<1>3. CASE p = <<"Clause", ";">>
  <2>1. Len(p) = 2 /\ p[1] = "Clause" /\ p[2] = ";"
    BY <1>3
  <2>2. Onto(p, Q) = p[1] ## (p[2] ## Q)
    BY <1>2, <2>1, Onto2
  <2> QED
    BY <1>1, <2>1, <2>2
<1>4. CASE p = <<"return", ";">>
  <2>1. Len(p) = 2 /\ p[1] = "return" /\ p[2] = ";"
    BY <1>4
  <2>2. Onto(p, Q) = p[1] ## (p[2] ## Q)
    BY <1>2, <2>1, Onto2
  <2> QED
    BY <1>1, <2>1, <2>2
<1>5. CASE p = <<"return", "expr", ";">>
  <2>1. Len(p) = 3 /\ p[1] = "return" /\ p[2] = "expr" /\ p[3] = ";"
    BY <1>5
  <2>2. Onto(p, Q) = p[1] ## (p[2] ## (p[3] ## Q))
    BY <1>2, <2>1, Onto3
  <2> QED
    BY <1>1, <2>1, <2>2
<1>6. CASE p = <<"Datatype", "id", "Array", ";">>
  <2>1. Len(p) = 4 /\ p[1] = "Datatype" /\ p[2] = "id" /\ p[3] = "Array" /\ p[4] = ";"
    BY <1>6
  <2>2. Onto(p, Q) = p[1] ## (p[2] ## (p[3] ## (p[4] ## Q)))
    BY <1>2, <2>1, Onto4
  <2> QED
    BY <1>1, <2>1, <2>2
<1>7. CASE p = <<"Block">>
  <2>1. Len(p) = 1 /\ p[1] = "Block"
    BY <1>7
  <2>2. Onto(p, Q) = p[1] ## Q
    BY <1>2, <2>1, Onto1
  <2> QED
    BY <1>1, <2>1, <2>2
<1>8. CASE p = <<"if", "(", "expr", ")", "Statement">>
  <2>1. Len(p) = 5 /\ p[1] = "if" /\ p[2] = "(" /\ p[3] = "expr" /\ p[4] = ")" /\ p[5] = "Statement"
    BY <1>8
  <2>2. Onto(p, Q) = p[1] ## (p[2] ## (p[3] ## (p[4] ## (p[5] ## Q))))
    BY <1>2, <2>1, Onto5
  <2> QED
    BY <1>1, <2>1, <2>2 DEF IfForm
<1>9. CASE p = <<"if", "(", "expr", ")", "Statement", "else", "Statement">>
  <2>1. Len(p) = 7 /\ p[1] = "if" /\ p[2] = "(" /\ p[3] = "expr" /\ p[4] = ")" /\ p[5] = "Statement" /\ p[6] = "else" /\ p[7] = "Statement"
    BY <1>9
  <2>2. Onto(p, Q) = p[1] ## (p[2] ## (p[3] ## (p[4] ## (p[5] ## (p[6] ## (p[7] ## Q))))))
    BY <1>2, <2>1, Onto7
  <2> QED
    BY <1>1, <2>1, <2>2 DEF IfForm
<1>10. CASE p = <<"for", "(", "Clauses", ";", "expr", ";", "Clauses", ")", "Block">>
  <2>1. Len(p) = 9 /\ p[1] = "for" /\ p[2] = "(" /\ p[3] = "Clauses" /\ p[4] = ";" /\ p[5] = "expr" /\ p[6] = ";" /\ p[7] = "Clauses" /\ p[8] = ")" /\ p[9] = "Block"
    BY <1>10
  <2>2. Onto(p, Q) = p[1] ## (p[2] ## (p[3] ## (p[4] ## (p[5] ## (p[6] ## (p[7] ## (p[8] ## (p[9] ## Q))))))))
    BY <1>2, <2>1, Onto9
  <2> QED
    BY <1>1, <2>1, <2>2 DEF LoopForm
<1>11. CASE p = <<"public", "Datatype", "id", "(", "Parameters", ")", "Block">>
  <2>1. Len(p) = 7 /\ p[1] = "public" /\ p[2] = "Datatype" /\ p[3] = "id" /\ p[4] = "(" /\ p[5] = "Parameters" /\ p[6] = ")" /\ p[7] = "Block"
    BY <1>11
  <2>2. Onto(p, Q) = p[1] ## (p[2] ## (p[3] ## (p[4] ## (p[5] ## (p[6] ## (p[7] ## Q))))))
    BY <1>2, <2>1, Onto7
  <2> QED
    BY <1>1, <2>1, <2>2 DEF FunctionForm
<1>12. \/ p = <<"Clause", ";">>
      \/ p = <<"return", ";">>
      \/ p = <<"return", "expr", ";">>
      \/ p = <<"Datatype", "id", "Array", ";">>
      \/ p = <<"Block">>
      \/ p = <<"if", "(", "expr", ")", "Statement">>
      \/ p = <<"if", "(", "expr", ")", "Statement", "else", "Statement">>
      \/ p = <<"for", "(", "Clauses", ";", "expr", ";", "Clauses", ")", "Block">>
      \/ p = <<"public", "Datatype", "id", "(", "Parameters", ")", "Block">>
  BY StatementIs, Zenon
<1> QED
  BY <1>3, <1>4, <1>5, <1>6, <1>7, <1>8, <1>9, <1>10, <1>11, <1>12

---------------------------------------------------------------------------
(* What the productions expect are forms.                                  *)

LEMMA FormsEither == \A Q, R \in FormSets : Q \cup R \in FormSets
BY DEF FormSets
LEMMA FormsNone == {} \in FormSets /\ {<<>>} \in FormSets
<1>1. <<>> \in Seq(Vocabulary)
  OBVIOUS
<1> QED
  BY <1>1 DEF FormSets

\* A symbol before forms.
LEMMA SymbolForms == \A Q \in FormSets : \A x \in Symbols : x ## Q \in FormSets
BY ThenType, Terminals
LEMMA NonterminalForms == \A Q \in FormSets : \A x \in DOMAIN Grammar : x ## Q \in FormSets
BY ThenType DEF Vocabulary

LEMMA Terms ==
  /\ "for" \in Symbols /\ "if" \in Symbols /\ "else" \in Symbols /\ "return" \in Symbols /\ "public" \in Symbols
  /\ "secret" \in Symbols /\ "type" \in Symbols /\ "(" \in Symbols /\ ")" \in Symbols /\ "[" \in Symbols
  /\ "]" \in Symbols /\ "{" \in Symbols /\ "}" \in Symbols /\ "," \in Symbols /\ ";" \in Symbols /\ "=" \in Symbols
  /\ "id" \in Symbols /\ "expr" \in Symbols /\ "target" \in Symbols
BY SymbolsAre
LEMMA Nonterms ==
  /\ "Program" \in DOMAIN Grammar /\ "Statement" \in DOMAIN Grammar /\ "Clause" \in DOMAIN Grammar
  /\ "Clauses" \in DOMAIN Grammar /\ "More" \in DOMAIN Grammar /\ "Array" \in DOMAIN Grammar
  /\ "Datatype" \in DOMAIN Grammar /\ "Block" \in DOMAIN Grammar /\ "Statements" \in DOMAIN Grammar
  /\ "Parameters" \in DOMAIN Grammar /\ "Others" \in DOMAIN Grammar
BY GrammarDomain

LEMMA EndingForms == \A Q \in FormSets : \A s : Ending(s, Q) \in FormSets
BY SymbolForms, NonterminalForms, Terms, Nonterms DEF Ending
LEMMA ValuedForms == \A Q \in FormSets : \A s : Valued(s, Q) \in FormSets
BY SymbolForms, Terms, EndingForms DEF Valued
LEMMA InitialForms == \A Q \in FormSets : \A s : Initial(s, Q) \in FormSets
<1> TAKE Q \in FormSets
<1> TAKE s
<1>1. ("=" ## Valued(s, Q)) \in FormSets /\ (";" ## Q) \in FormSets
  BY SymbolForms, Terms, ValuedForms
<1> QED
  BY <1>1, FormsEither DEF Initial
LEMMA DeclaresForms == \A Q \in FormSets : \A s : Declares(s, Q) \in FormSets
BY SymbolForms, NonterminalForms, Terms, Nonterms, InitialForms DEF Declares
LEMMA AlternativeForms == \A Q \in FormSets : Alternative(Q) \in FormSets
<1> TAKE Q \in FormSets
<1>1. ("else" ## ("Statement" ## Q)) \in FormSets
  BY SymbolForms, NonterminalForms, Terms, Nonterms
<1> QED
  BY <1>1, FormsEither DEF Alternative
LEMMA LoopForms == \A Q \in FormSets : ForEnding(Q) \in FormSets /\ Updates(Q) \in FormSets /\ ForTest(Q) \in FormSets
<1> TAKE Q \in FormSets
<1>1. ForEnding(Q) \in FormSets
  BY SymbolForms, NonterminalForms, Terms, Nonterms DEF ForEnding
<1>2. Updates(Q) \in FormSets
  BY <1>1, NonterminalForms, Nonterms DEF Updates
<1>3. ForTest(Q) \in FormSets
  BY <1>2, SymbolForms, Terms DEF ForTest
<1> QED
  BY <1>1, <1>2, <1>3
LEMMA NamedForms == \A Q \in FormSets : Named(Q) \in FormSets
BY SymbolForms, NonterminalForms, Terms, Nonterms, LoopForms DEF Named
LEMMA TypeForms == \A Q \in FormSets : \A secret : (TypeOr(secret) ## Q) \in FormSets
BY SymbolForms, NonterminalForms, Terms, Nonterms DEF TypeOr

LEMMA ClauseType ==
  ASSUME NEW Q \in FormSets, NEW s, NEW secret, NEW stage \in ClauseStages
  PROVE  ClauseForms(stage, s, secret, Q) \in FormSets
<1>1. /\ Ending(s, Q) \in FormSets /\ Valued(s, Q) \in FormSets /\ Initial(s, Q) \in FormSets
      /\ Declares(s, Q) \in FormSets /\ (TypeOr(secret) ## Declares(s, Q)) \in FormSets
  BY EndingForms, ValuedForms, InitialForms, DeclaresForms, TypeForms
<1>2. /\ ("Clause" ## Ending(s, Q)) \in FormSets /\ ("Statement" ## Q) \in FormSets
      /\ ("target" ## ("=" ## Valued(s, Q))) \in FormSets
      /\ ("=" ## Valued(s, Q)) \in FormSets /\ ("Array" ## Initial(s, Q)) \in FormSets
      /\ ("]" ## Initial(s, Q)) \in FormSets
  BY <1>1, SymbolForms, NonterminalForms, Terms, Nonterms
<1> QED
  BY <1>1, <1>2 DEF ClauseForms, ClauseStages

PlainStages ==
  {"statements", "block", "block_body", "returned_value", "Return", "if_round", "if_condition", "if_close",
   "then", "otherwise", "else", "Block", "If", "For", "Function", "FunctionParameter", "for_round",
   "initializer", "initializers", "for_condition", "condition_end", "update", "updates", "for_close",
   "update_block", "for_body", "function_body", "return_type", "function_name", "function_round",
   "parameters", "parameter_type", "parameter_name"}

LEMMA PlainType1 ==
  ASSUME NEW Q \in FormSets, NEW secret, NEW stage \in PlainStages
  PROVE  PlainForms(stage, secret, Q) \in FormSets
<1> DEFINE N(x) == x ## Q
<1>1. /\ ("Program" ## Q) \in FormSets /\ ("Block" ## Q) \in FormSets /\ ("Statement" ## Q) \in FormSets
      /\ (";" ## Q) \in FormSets /\ ("expr" ## (";" ## Q)) \in FormSets
      /\ ("Statements" ## ("}" ## Q)) \in FormSets /\ ("id" ## Q) \in FormSets
  BY SymbolForms, NonterminalForms, Terms, Nonterms
<1>2. ((";" ## Q) \cup ("expr" ## (";" ## Q))) \in FormSets
  BY <1>1, FormsEither
<1>3. Alternative(Q) \in FormSets /\ ("Statement" ## Alternative(Q)) \in FormSets
      /\ (")" ## ("Statement" ## Alternative(Q))) \in FormSets
  BY AlternativeForms, SymbolForms, NonterminalForms, Terms, Nonterms
<1>4. /\ ("expr" ## (")" ## ("Statement" ## Alternative(Q)))) \in FormSets
      /\ ("(" ## ("expr" ## (")" ## ("Statement" ## Alternative(Q))))) \in FormSets
  BY <1>3, SymbolForms, Terms
<1>5. ForEnding(Q) \in FormSets /\ Updates(Q) \in FormSets /\ ForTest(Q) \in FormSets /\ Named(Q) \in FormSets
  BY LoopForms, NamedForms
<1>6. /\ (";" ## ForTest(Q)) \in FormSets /\ ("Clauses" ## (";" ## ForTest(Q))) \in FormSets
      /\ ("(" ## ("Clauses" ## (";" ## ForTest(Q)))) \in FormSets /\ (";" ## Updates(Q)) \in FormSets
      /\ ("More" ## ForEnding(Q)) \in FormSets /\ ("Parameters" ## ForEnding(Q)) \in FormSets
      /\ ("Others" ## ForEnding(Q)) \in FormSets
  BY <1>5, SymbolForms, NonterminalForms, Terms, Nonterms
<1>7. /\ ("(" ## ("Parameters" ## ForEnding(Q))) \in FormSets /\ ("id" ## ("Others" ## ForEnding(Q))) \in FormSets
      /\ ("Datatype" ## ("id" ## ("Others" ## ForEnding(Q)))) \in FormSets
  BY <1>6, SymbolForms, NonterminalForms, Terms, Nonterms
<1>8. (("Parameters" ## ForEnding(Q)) \cup ("Datatype" ## ("id" ## ("Others" ## ForEnding(Q))))) \in FormSets
  BY <1>6, <1>7, FormsEither
<1>9. (TypeOr(secret) ## Named(Q)) \in FormSets /\ (TypeOr(secret) ## ("id" ## Q)) \in FormSets
  BY <1>1, <1>5, TypeForms
<1> HIDE DEF FormSets
<1>10. CASE stage \in {"statements", "block", "block_body", "returned_value", "Return", "else", "Block", "If", "For", "Function",
                     "FunctionParameter", "update_block", "for_body", "function_body", "parameter_name"}
  BY <1>1, <1>2, <1>10 DEF PlainForms
<1>11. CASE stage \in {"if_round", "if_condition", "if_close", "then", "otherwise"}
  BY <1>3, <1>4, <1>11 DEF PlainForms
<1>12. CASE stage \in {"for_round", "initializer", "initializers", "for_condition", "condition_end", "update", "updates",
                     "for_close"}
  BY <1>5, <1>6, <1>12 DEF PlainForms
<1>13. CASE stage \in {"return_type", "function_name", "function_round", "parameters", "parameter_type"}
  BY <1>5, <1>7, <1>8, <1>9, <1>13 DEF PlainForms
<1> QED
  BY <1>10, <1>11, <1>12, <1>13 DEF PlainStages

LEMMA ActiveType ==
  ASSUME NEW Q \in FormSets, NEW s, NEW secret, NEW stage \in ClauseStages \cup PlainStages
  PROVE  Active(stage, s, secret, Q) \in FormSets
BY ClauseType, PlainType1, FormsNone DEF Active
LEMMA WaitsType ==
  ASSUME NEW Q \in FormSets, NEW s, NEW stage \in ClauseStages \cup PlainStages
  PROVE  Waits(stage, s, Q) \in FormSets
<1>1. ("Others" ## ForEnding(Q)) \in FormSets
  BY LoopForms, NonterminalForms, Nonterms
<1> QED
  BY <1>1, ActiveType DEF Waits

---------------------------------------------------------------------------
(* What may follow a text.                                                 *)

\* What may follow each prefix of the text s, from the forms before.
Follows(u, before, s, n) == u = [i \in 0..n |-> IF i = 0 THEN before ELSE Derive(u[i - 1], s[i])]

LEMMA FollowsOnce ==
  ASSUME NEW n \in Nat, NEW before, NEW s, NEW u, NEW v, Follows(u, before, s, n), Follows(v, before, s, n)
  PROVE  u = v
<1>1. ASSUME NEW i \in 0..n, u[i] # v[i] PROVE FALSE
  <2> DEFINE T == {j \in 0..n : u[j] # v[j]}
  <2>1. PICK m \in T : \A j \in T : m <= j
    <3>1. T \subseteq Nat /\ i \in T
      BY <1>1
    <3> HIDE DEF T
    <3> QED
      BY <3>1, Smallest
  <2>2. /\ m \in 0..n /\ u[m] # v[m]
        /\ u[m] = IF m = 0 THEN before ELSE Derive(u[m - 1], s[m])
        /\ v[m] = IF m = 0 THEN before ELSE Derive(v[m - 1], s[m])
    BY DEF Follows
  <2>3. m # 0 /\ m - 1 \in 0..n /\ ~(m <= m - 1)
    BY <2>2
  <2>4. m - 1 \notin T
    <3> HIDE DEF T
    <3> QED
      BY <2>1, <2>3
  <2> QED
    BY <2>2, <2>3, <2>4
<1>2. u = [i \in 0..n |-> u[i]] /\ v = [i \in 0..n |-> v[i]]
  BY DEF Follows
<1> QED
  BY <1>1, <1>2

\* One more.
LEMMA FollowsNext ==
  ASSUME NEW n \in Nat, NEW before, NEW s, NEW u, Follows(u, before, s, n)
  PROVE  LET v == [i \in 0..(n + 1) |-> IF i = n + 1 THEN Derive(u[n], s[n + 1]) ELSE u[i]]
         IN  Follows(v, before, s, n + 1) /\ v[n + 1] = Derive(u[n], s[n + 1])
<1> DEFINE v == [i \in 0..(n + 1) |-> IF i = n + 1 THEN Derive(u[n], s[n + 1]) ELSE u[i]]
<1>1. \A i \in 0..n : u[i] = IF i = 0 THEN before ELSE Derive(u[i - 1], s[i])
  BY DEF Follows
<1>2. v[n + 1] = Derive(u[n], s[n + 1]) /\ \A i \in 0..n : v[i] = u[i]
  OBVIOUS
<1>3. ASSUME NEW i \in 0..(n + 1) PROVE v[i] = IF i = 0 THEN before ELSE Derive(v[i - 1], s[i])
  <2> HIDE DEF v
  <2>1. CASE i = n + 1
    <3>1. n \in 0..n /\ i # 0 /\ i - 1 = n
      BY <2>1
    <3> QED
      BY <1>2, <2>1, <3>1
  <2>2. CASE i = 0
    BY <1>1, <1>2, <2>2
  <2>3. CASE i \in 1..n
    <3>1. i \in 0..n /\ i - 1 \in 0..n /\ i # 0
      BY <2>3
    <3> QED
      BY <1>1, <1>2, <3>1
  <2> QED
    BY <2>1, <2>2, <2>3
<1>4. v = [i \in 0..(n + 1) |-> v[i]]
  OBVIOUS
<1>5. v = [i \in 0..(n + 1) |-> IF i = 0 THEN before ELSE Derive(v[i - 1], s[i])]
  <2> HIDE DEF v
  <2> QED
    BY <1>3, <1>4
<1> HIDE DEF v
<1>6. Follows(v, before, s, n + 1)
  BY <1>5 DEF Follows
<1> QED
  BY <1>2, <1>6 DEF v

LEMMA FollowsNone ==
  ASSUME NEW before, NEW s
  PROVE  \E u : Follows(u, before, s, 0) /\ u[0] = before
<1> DEFINE u == [i \in 0..0 |-> before]
<1>1. u = [i \in 0..0 |-> IF i = 0 THEN before ELSE Derive(u[i - 1], s[i])]
  OBVIOUS
<1>2. u[0] = before
  OBVIOUS
<1> HIDE DEF u
<1> QED
  BY <1>1, <1>2 DEF Follows

LEMMA FollowsExist ==
  ASSUME NEW n \in Nat, NEW before, NEW s
  PROVE  \E u : Follows(u, before, s, n)
<1> DEFINE Has(m) == \E u : Follows(u, before, s, m)
           T == {m \in Nat : ~Has(m)}
<1>1. ASSUME T # {} PROVE FALSE
  <2>1. PICK m \in T : \A j \in T : m <= j
    <3>1. T \subseteq Nat
      OBVIOUS
    <3> HIDE DEF T
    <3> QED
      BY <1>1, <3>1, Smallest
  <2>2. m \in Nat /\ ~Has(m) /\ \A j \in Nat : ~Has(j) => m <= j
    <3> HIDE DEF Has
    <3> QED
      BY <2>1
  <2>3. Has(0)
    BY FollowsNone
  <2> HIDE DEF T
  <2>4. m # 0
    <3> HIDE DEF Has
    <3> QED
      BY <2>2, <2>3
  <2>5. m - 1 \in Nat /\ ~(m <= m - 1) /\ (m - 1) + 1 = m
    BY <2>2, <2>4
  <2>6. Has(m - 1)
    <3> HIDE DEF Has
    <3> QED
      BY <2>2, <2>5
  <2>7. PICK u : Follows(u, before, s, m - 1)
    BY <2>6
  <2>8. Has((m - 1) + 1)
    BY <2>5, <2>7, FollowsNext
  <2> HIDE DEF Has
  <2> QED
    BY <2>2, <2>5, <2>8
<1>2. Has(n)
  <2> HIDE DEF Has
  <2> QED
    BY <1>1
<1> QED
  BY <1>2

\* Forms is where they end.
LEMMA FormsEnd ==
  ASSUME NEW s, Len(s) \in Nat, NEW u, Follows(u, {<<"Program">>}, s, Len(s))
  PROVE  Forms(s) = u[Len(s)]
<1> DEFINE Is(v) == v = [i \in 0..Len(s) |-> IF i = 0 THEN {<<"Program">>} ELSE Derive(v[i - 1], s[i])]
<1>1. Forms(s) = (CHOOSE v : Is(v))[Len(s)]
  BY Zenon DEF Forms
<1>2. \A v : Is(v) <=> Follows(v, {<<"Program">>}, s, Len(s))
  BY DEF Follows
<1> HIDE DEF Is
<1>3. (CHOOSE v : Is(v)) = u
  <2>1. Is(u) /\ \A v : Is(v) => v = u
    BY <1>2, FollowsOnce
  <2> QED
    BY <2>1
<1> QED
  BY <1>1, <1>3

LEMMA FormsNothing == Forms(<<>>) = {<<"Program">>}
<1>1. PICK u : Follows(u, {<<"Program">>}, <<>>, 0) /\ u[0] = {<<"Program">>}
  BY FollowsNone
<1>2. Len(<<>>) = 0
  OBVIOUS
<1> QED
  BY <1>1, <1>2, FormsEnd

LEMMA FormsNext ==
  ASSUME NEW S, NEW w \in Seq(S), NEW t \in S
  PROVE  Forms(Append(w, t)) = Derive(Forms(w), t)
<1> DEFINE n == Len(w)
           s == Append(w, t)
           P == {<<"Program">>}
<1>1. n \in Nat /\ Len(s) = n + 1 /\ s[n + 1] = t /\ \A i \in 1..n : s[i] = w[i]
  OBVIOUS
<1> HIDE DEF s, P, n
<1>2. PICK u : Follows(u, P, s, n)
  BY <1>1, FollowsExist
<1>3. Follows(u, P, w, n)
  <2>1. u = [i \in 0..n |-> IF i = 0 THEN P ELSE Derive(u[i - 1], s[i])]
    BY <1>2 DEF Follows
  <2>2. \A i \in 0..n : i # 0 => s[i] = w[i]
    BY <1>1
  <2>3. u = [i \in 0..n |-> IF i = 0 THEN P ELSE Derive(u[i - 1], w[i])]
    BY <2>1, <2>2
  <2> QED
    BY <2>3 DEF Follows
<1>4. Forms(w) = u[n]
  BY <1>1, <1>3, FormsEnd DEF n, P
<1>5. PICK v : Follows(v, P, s, n + 1) /\ v[n + 1] = Derive(u[n], s[n + 1])
  BY <1>1, <1>2, FollowsNext
<1>6. Len(s) \in Nat
  BY <1>1
<1>7. Forms(s) = v[n + 1]
  BY <1>1, <1>5, <1>6, FormsEnd DEF P
<1> QED
  BY <1>1, <1>4, <1>5, <1>7 DEF s

---------------------------------------------------------------------------
(* What each nonterminal cannot begin with.                                *)

\* What E reads is y, and R is what follows it.
Steps(E, y, R) == \A t : \A v \in Derive(E, t) : t = y /\ v \in R

LEMMA StepsNothing == \A y, R : Steps({}, y, R)
BY DeriveNothing DEF Steps
LEMMA StepsTerminal ==
  ASSUME NEW x \in Symbols, NEW Q \in FormSets, NEW R, Q \subseteq R
  PROVE  Steps(x ## Q, x, R)
<1>1. \A t : Derive(x ## Q, t) = IF t = x THEN Q ELSE {}
  BY DeriveTerminal
<1> QED
  BY <1>1 DEF Steps

LEMMA TerminalReads ==
  ASSUME NEW x \in Symbols, NEW Q \in FormSets, NEW t, NEW v \in Derive(x ## Q, t)
  PROVE  t = x /\ v \in Q
<1>1. Derive(x ## Q, t) = IF t = x THEN Q ELSE {}
  BY DeriveTerminal
<1> QED
  BY <1>1

LEMMA DatatypeReads ==
  ASSUME NEW Q \in FormSets, NEW t, NEW v \in Derive("Datatype" ## Q, t)
  PROVE  (t = "type" /\ v \in Q) \/ (t = "secret" /\ v \in "type" ## Q)
<1>1. v \in Derive("type" ## Q, t) \/ v \in Derive("secret" ## ("type" ## Q), t)
  BY ReadDatatype
<1> DEFINE R == "type" ## Q
<1>2. R \in FormSets /\ "type" \in Symbols /\ "secret" \in Symbols
  BY Terms, SymbolForms
<1>3. v \in Derive("type" ## Q, t) => t = "type" /\ v \in Q
  BY <1>2, TerminalReads
<1> HIDE DEF R
<1>4. v \in Derive("secret" ## R, t) => t = "secret" /\ v \in R
  BY <1>2, TerminalReads
<1> QED
  BY <1>1, <1>3, <1>4 DEF R

LEMMA BlockReads ==
  ASSUME NEW Q \in FormSets
  PROVE  Steps("Block" ## Q, "{", "Statements" ## ("}" ## Q))
<1>1. ("Statements" ## ("}" ## Q)) \in FormSets /\ "{" \in Symbols
  BY Terms, Nonterms, SymbolForms, NonterminalForms
<1>2. Steps("{" ## ("Statements" ## ("}" ## Q)), "{", "Statements" ## ("}" ## Q))
  BY <1>1, StepsTerminal
<1> QED
  BY <1>2, ReadBlock DEF Steps

LEMMA ClauseReads ==
  ASSUME NEW Q \in FormSets, NEW t, NEW v \in Derive("Clause" ## Q, t)
  PROVE  \/ t = "target" /\ v \in Derive("target" ## ("=" ## ("expr" ## Q)), t)
         \/ t \in {"type", "secret"} /\ v \in Derive("Datatype" ## ("id" ## ("Array" ## ("=" ## ("expr" ## Q)))), t)
<1> DEFINE R == "=" ## ("expr" ## Q)
           D == "id" ## ("Array" ## R)
<1>1. R \in FormSets /\ D \in FormSets /\ "target" \in Symbols
  BY Terms, Nonterms, SymbolForms, NonterminalForms
<1>2. v \in Derive("target" ## R, t) \/ v \in Derive("Datatype" ## D, t)
  BY ReadClause
<1> HIDE DEF R, D
<1>3. v \in Derive("target" ## R, t) => t = "target"
  BY <1>1, DeriveTerminal
<1>4. v \in Derive("Datatype" ## D, t) => t \in {"type", "secret"}
  BY <1>1, DatatypeReads
<1> QED
  BY <1>2, <1>3, <1>4 DEF R, D

LEMMA StatementReads ==
  ASSUME NEW Q \in FormSets, NEW t, NEW v \in Derive("Statement" ## Q, t)
  PROVE  \/ t \in {"target", "type", "secret"} /\ v \in Derive("Clause" ## (";" ## Q), t)
         \/ t = "return" /\ v \in (";" ## Q) \cup ("expr" ## (";" ## Q))
         \/ t \in {"type", "secret"} /\ v \in Derive("Datatype" ## ("id" ## ("Array" ## (";" ## Q))), t)
         \/ t = "{" /\ v \in Derive("Block" ## Q, t)
         \/ t = "if" /\ v \in "(" ## ("expr" ## (")" ## ("Statement" ## Alternative(Q))))
         \/ t = "for" /\ v \in "(" ## ("Clauses" ## (";" ## ForTest(Q)))
         \/ t = "public" /\ v \in "Datatype" ## Named(Q)
<1>1. /\ (";" ## Q) \in FormSets /\ ("expr" ## (";" ## Q)) \in FormSets
      /\ ("id" ## ("Array" ## (";" ## Q))) \in FormSets
      /\ ("else" ## ("Statement" ## Q)) \in FormSets
  BY Terms, Nonterms, SymbolForms, NonterminalForms
<1>2. Named(Q) \in FormSets /\ ForTest(Q) \in FormSets
  BY NamedForms, LoopForms
<1>3. ("(" ## ("Clauses" ## (";" ## ForTest(Q)))) \in FormSets /\ ("Datatype" ## Named(Q)) \in FormSets
  BY <1>2, Terms, Nonterms, SymbolForms, NonterminalForms
<1>4. "return" \in Symbols /\ "if" \in Symbols /\ "for" \in Symbols /\ "public" \in Symbols
  BY Terms
<1>5. CASE v \in Derive("Clause" ## (";" ## Q), t)
  <2>1. t \in {"target", "type", "secret"}
    BY <1>1, <1>5, ClauseReads
  <2> QED
    BY <1>5, <2>1
<1>6. CASE v \in Derive("return" ## (";" ## Q), t) \/ v \in Derive("return" ## ("expr" ## (";" ## Q)), t)
  <2>1. ASSUME NEW R \in FormSets, v \in Derive("return" ## R, t) PROVE t = "return" /\ v \in R
    BY <1>4, <2>1, TerminalReads
  <2>2. t = "return" /\ v \in (";" ## Q) \cup ("expr" ## (";" ## Q))
    BY <1>1, <1>6, <2>1
  <2> QED
    BY <2>2
<1>7. CASE v \in Derive("Datatype" ## ("id" ## ("Array" ## (";" ## Q))), t)
  <2> DEFINE D == "id" ## ("Array" ## (";" ## Q))
  <2>1. t \in {"type", "secret"}
    <3>1. D \in FormSets /\ v \in Derive("Datatype" ## D, t)
      BY <1>1, <1>7
    <3> HIDE DEF D
    <3> QED
      BY <3>1, DatatypeReads
  <2> QED
    BY <1>7, <2>1
<1>8. CASE v \in Derive("Block" ## Q, t)
  <2>1. Steps("Block" ## Q, "{", "Statements" ## ("}" ## Q))
    BY BlockReads
  <2>2. t = "{"
    BY <1>8, <2>1 DEF Steps
  <2> QED
    BY <1>8, <2>2
<1>9. ASSUME NEW R \in FormSets, R \subseteq Alternative(Q), v \in Derive(IfForm(R), t)
      PROVE  t = "if" /\ v \in "(" ## ("expr" ## (")" ## ("Statement" ## Alternative(Q))))
  <2> DEFINE F == "(" ## ("expr" ## (")" ## ("Statement" ## R)))
  <2>1. F \in FormSets
    BY Terms, Nonterms, SymbolForms, NonterminalForms
  <2>2. F \subseteq "(" ## ("expr" ## (")" ## ("Statement" ## Alternative(Q))))
    BY <1>9, ThenMore
  <2>3. v \in Derive("if" ## F, t)
    BY <1>9 DEF IfForm
  <2> HIDE DEF F
  <2>4. t = "if" /\ v \in F
    BY <1>4, <2>1, <2>3, TerminalReads
  <2> QED
    BY <2>2, <2>4
<1>10. CASE v \in Derive(IfForm(Q), t) \/ v \in Derive(IfForm("else" ## ("Statement" ## Q)), t)
  <2>1. t = "if" /\ v \in "(" ## ("expr" ## (")" ## ("Statement" ## Alternative(Q))))
    BY <1>1, <1>9, <1>10 DEF Alternative
  <2> QED
    BY <2>1
<1>11. CASE v \in Derive(LoopForm(Q), t)
  <2>1. v \in Derive("for" ## ("(" ## ("Clauses" ## (";" ## ForTest(Q)))), t)
    BY <1>11 DEF LoopForm, ForTest, Updates, ForEnding
  <2> DEFINE F == "(" ## ("Clauses" ## (";" ## ForTest(Q)))
  <2>2. t = "for" /\ v \in "(" ## ("Clauses" ## (";" ## ForTest(Q)))
    <3>1. F \in FormSets /\ v \in Derive("for" ## F, t)
      BY <1>3, <2>1
    <3> HIDE DEF F
    <3>2. t = "for" /\ v \in F
      BY <1>4, <3>1, TerminalReads
    <3> QED
      BY <3>2 DEF F
  <2> QED
    BY <2>2
<1>12. CASE v \in Derive(FunctionForm(Q), t)
  <2>1. v \in Derive("public" ## ("Datatype" ## Named(Q)), t)
    BY <1>12 DEF FunctionForm, Named, ForEnding
  <2> DEFINE F == "Datatype" ## Named(Q)
  <2>2. t = "public" /\ v \in "Datatype" ## Named(Q)
    <3>1. F \in FormSets /\ v \in Derive("public" ## F, t)
      BY <1>3, <2>1
    <3> HIDE DEF F
    <3>2. t = "public" /\ v \in F
      BY <1>4, <3>1, TerminalReads
    <3> QED
      BY <3>2 DEF F
  <2> QED
    BY <2>2
<1> QED
  BY <1>5, <1>6, <1>7, <1>8, <1>10, <1>11, <1>12, ReadStatement, Zenon

---------------------------------------------------------------------------
(* What is read at a stage, and what is expected behind it.                *)

LEMMA PlainActive ==
  ASSUME NEW Q, NEW s, NEW sec, NEW a \in PlainStages
  PROVE  Active(a, s, sec, Q) = IF s \in Lists THEN {} ELSE PlainForms(a, sec, Q)
<1>1. a \notin ClauseStages
  BY DEF PlainStages, ClauseStages
<1> QED
  BY <1>1 DEF Active, Lists
LEMMA ClauseActive ==
  ASSUME NEW Q, NEW s, NEW sec, NEW a \in ClauseStages
  PROVE  Active(a, s, sec, Q) = ClauseForms(a, s, sec, Q)
BY DEF Active

\* From one stage to another by a terminal.
LEMMA PlainSteps ==
  ASSUME NEW Q \in FormSets, NEW s, NEW sec, NEW a \in PlainStages, NEW b \in PlainStages,
         NEW x \in Symbols, NEW R \in FormSets,
         PlainForms(a, sec, Q) = x ## R, R \subseteq PlainForms(b, FALSE, Q)
  PROVE  Steps(Active(a, s, sec, Q), x, Active(b, s, FALSE, Q))
<1>1. CASE s \in Lists
  BY <1>1, PlainActive, StepsNothing
<1>2. CASE s \notin Lists
  <2>1. Active(a, s, sec, Q) = x ## R /\ Active(b, s, FALSE, Q) = PlainForms(b, FALSE, Q)
    BY <1>2, PlainActive
  <2>2. Steps(x ## R, x, PlainForms(b, FALSE, Q))
    BY StepsTerminal
  <2> QED
    BY <2>1, <2>2
<1> QED
  BY <1>1, <1>2
LEMMA ClauseSteps ==
  ASSUME NEW Q \in FormSets, NEW s, NEW sec, NEW a \in ClauseStages, NEW b \in ClauseStages,
         NEW x \in Symbols, NEW R \in FormSets,
         ClauseForms(a, s, sec, Q) = x ## R, R \subseteq ClauseForms(b, s, FALSE, Q)
  PROVE  Steps(Active(a, s, sec, Q), x, Active(b, s, FALSE, Q))
<1>1. Steps(x ## R, x, ClauseForms(b, s, FALSE, Q))
  BY StepsTerminal
<1> QED
  BY <1>1, ClauseActive

\* Types.
Typing(E, R) == \A t : \A v \in Derive(E, t) : (t = "type" /\ v \in R) \/ (t = "secret" /\ v \in "type" ## R)
LEMMA TypeSteps ==
  ASSUME NEW R \in FormSets
  PROVE  /\ Steps(TypeOr(TRUE) ## R, "type", R)
         /\ Typing(TypeOr(FALSE) ## R, R)
<1>1. TypeOr(TRUE) = "type" /\ TypeOr(FALSE) = "Datatype" /\ "type" \in Symbols
  BY Terms DEF TypeOr
<1>2. Steps("type" ## R, "type", R)
  BY <1>1, StepsTerminal
<1>3. Typing("Datatype" ## R, R)
  BY DatatypeReads DEF Typing
<1> QED
  BY <1>1, <1>2, <1>3

\* The forms of parts of a production.
LEMMA PartForms ==
  ASSUME NEW Q \in FormSets
  PROVE  /\ Alternative(Q) \in FormSets /\ ("Statement" ## Alternative(Q)) \in FormSets
         /\ (")" ## ("Statement" ## Alternative(Q))) \in FormSets
         /\ ("expr" ## (")" ## ("Statement" ## Alternative(Q)))) \in FormSets
         /\ ForEnding(Q) \in FormSets /\ Updates(Q) \in FormSets /\ ForTest(Q) \in FormSets
         /\ ("Block" ## Q) \in FormSets /\ (";" ## Q) \in FormSets /\ ("Statement" ## Q) \in FormSets
         /\ ("Clauses" ## (";" ## ForTest(Q))) \in FormSets /\ (";" ## ForTest(Q)) \in FormSets
         /\ (";" ## Updates(Q)) \in FormSets /\ ("More" ## ForEnding(Q)) \in FormSets
         /\ ("Parameters" ## ForEnding(Q)) \in FormSets /\ ("(" ## ("Parameters" ## ForEnding(Q))) \in FormSets
         /\ ("Others" ## ForEnding(Q)) \in FormSets /\ ("id" ## ("Others" ## ForEnding(Q))) \in FormSets
         /\ Named(Q) \in FormSets
<1>1. Alternative(Q) \in FormSets /\ ForEnding(Q) \in FormSets /\ Updates(Q) \in FormSets /\ ForTest(Q) \in FormSets
      /\ Named(Q) \in FormSets
  BY AlternativeForms, LoopForms, NamedForms
<1>2. /\ ("Statement" ## Alternative(Q)) \in FormSets /\ ("Block" ## Q) \in FormSets /\ (";" ## Q) \in FormSets
      /\ ("Statement" ## Q) \in FormSets
      /\ (";" ## ForTest(Q)) \in FormSets /\ (";" ## Updates(Q)) \in FormSets /\ ("More" ## ForEnding(Q)) \in FormSets
      /\ ("Parameters" ## ForEnding(Q)) \in FormSets /\ ("Others" ## ForEnding(Q)) \in FormSets
  BY <1>1, Terms, Nonterms, SymbolForms, NonterminalForms
<1>3. /\ (")" ## ("Statement" ## Alternative(Q))) \in FormSets /\ ("Clauses" ## (";" ## ForTest(Q))) \in FormSets
      /\ ("(" ## ("Parameters" ## ForEnding(Q))) \in FormSets /\ ("id" ## ("Others" ## ForEnding(Q))) \in FormSets
  BY <1>2, Terms, Nonterms, SymbolForms, NonterminalForms
<1>4. ("expr" ## (")" ## ("Statement" ## Alternative(Q)))) \in FormSets
  BY <1>3, Terms, SymbolForms
<1> QED
  BY <1>1, <1>2, <1>3, <1>4

LEMMA PlainAre ==
  ASSUME NEW Q, NEW sec
  PROVE  /\ PlainForms("statements", sec, Q) = "Program" ## Q
         /\ PlainForms("block", sec, Q) = "Block" ## Q
         /\ PlainForms("block_body", sec, Q) = "Statements" ## ("}" ## Q)
         /\ PlainForms("returned_value", sec, Q) = (";" ## Q) \cup ("expr" ## (";" ## Q))
         /\ PlainForms("Return", sec, Q) = ";" ## Q
         /\ PlainForms("if_round", sec, Q) = "(" ## ("expr" ## (")" ## ("Statement" ## Alternative(Q))))
         /\ PlainForms("if_condition", sec, Q) = "expr" ## (")" ## ("Statement" ## Alternative(Q)))
         /\ PlainForms("if_close", sec, Q) = ")" ## ("Statement" ## Alternative(Q))
         /\ PlainForms("then", sec, Q) = "Statement" ## Alternative(Q)
         /\ PlainForms("otherwise", sec, Q) = Alternative(Q)
         /\ PlainForms("else", sec, Q) = "Statement" ## Q
         /\ PlainForms("Block", sec, Q) = Q /\ PlainForms("If", sec, Q) = Q /\ PlainForms("For", sec, Q) = Q
         /\ PlainForms("Function", sec, Q) = Q /\ PlainForms("FunctionParameter", sec, Q) = Q
BY DEF PlainForms
LEMMA LoopsAre ==
  ASSUME NEW Q, NEW sec
  PROVE  /\ PlainForms("for_round", sec, Q) = "(" ## ("Clauses" ## (";" ## ForTest(Q)))
         /\ PlainForms("initializer", sec, Q) = "Clauses" ## (";" ## ForTest(Q))
         /\ PlainForms("initializers", sec, Q) = ForTest(Q) /\ PlainForms("for_condition", sec, Q) = ForTest(Q)
         /\ PlainForms("condition_end", sec, Q) = ";" ## Updates(Q)
         /\ PlainForms("update", sec, Q) = Updates(Q)
         /\ PlainForms("updates", sec, Q) = "More" ## ForEnding(Q)
         /\ PlainForms("for_close", sec, Q) = ForEnding(Q)
         /\ PlainForms("update_block", sec, Q) = "Block" ## Q /\ PlainForms("for_body", sec, Q) = "Block" ## Q
         /\ PlainForms("function_body", sec, Q) = "Block" ## Q
         /\ PlainForms("return_type", sec, Q) = TypeOr(sec) ## Named(Q)
         /\ PlainForms("function_name", sec, Q) = Named(Q)
         /\ PlainForms("function_round", sec, Q) = "(" ## ("Parameters" ## ForEnding(Q))
         /\ PlainForms("parameters", sec, Q) =
              ("Parameters" ## ForEnding(Q)) \cup ("Datatype" ## ("id" ## ("Others" ## ForEnding(Q))))
         /\ PlainForms("parameter_type", sec, Q) = TypeOr(sec) ## ("id" ## Q)
         /\ PlainForms("parameter_name", sec, Q) = "id" ## Q
BY DEF PlainForms

---------------------------------------------------------------------------
(* The steps that read a symbol.                                           *)

LEMMA TokensAre ==
  /\ Expected["for_round"].token = "(" /\ Expected["for_round"].next = "initializer"
  /\ Expected["condition_end"].token = ";" /\ Expected["condition_end"].next = "update"
  /\ Expected["for_close"].token = ")" /\ Expected["for_close"].next = "update_block"
  /\ Expected["if_round"].token = "(" /\ Expected["if_round"].next = "if_condition"
  /\ Expected["if_close"].token = ")" /\ Expected["if_close"].next = "then"
  /\ Expected["block"].token = "{" /\ Expected["block"].next = "block_body"
  /\ Expected["return_type"].token = "type" /\ Expected["return_type"].next = "function_name"
  /\ Expected["function_name"].token = "id" /\ Expected["function_name"].next = "function_round"
  /\ Expected["function_round"].token = "(" /\ Expected["function_round"].next = "parameters"
  /\ Expected["parameter_type"].token = "type" /\ Expected["parameter_type"].next = "parameter_name"
  /\ Expected["parameter_name"].token = "id" /\ Expected["parameter_name"].next = "FunctionParameter"
  /\ Expected["declared_type"].token = "type" /\ Expected["declared_type"].next = "variable"
  /\ Expected["array_close"].token = "]" /\ Expected["array_close"].next = "initial_value"
  /\ Expected["assign"].token = "=" /\ Expected["assign"].next = "assigned_value"
BY DEF Expected, Wanted
LEMMA Looking ==
  DOMAIN Expected = {"for_round", "condition_end", "for_close", "if_round", "if_close", "block",
                     "return_type", "function_name", "function_round", "parameter_type",
                     "parameter_name", "declared_type", "array_close", "assign"}
BY DEF Expected

LEMMA BlockSteps ==
  ASSUME NEW Q \in FormSets, NEW s, NEW sec
  PROVE  Steps(Active("block", s, sec, Q), "{", Active("block_body", s, FALSE, Q))
<1>1. "block" \in PlainStages /\ "block_body" \in PlainStages
  BY DEF PlainStages
<1>2. CASE s \in Lists
  BY <1>1, <1>2, PlainActive, StepsNothing
<1>3. CASE s \notin Lists
  <2> DEFINE A == "Block" ## Q
             B == "Statements" ## ("}" ## Q)
  <2>1. PlainForms("block", sec, Q) = A /\ PlainForms("block_body", FALSE, Q) = B
    BY DEF PlainForms
  <2>2. Steps(A, "{", B)
    BY BlockReads
  <2> HIDE DEF A, B
  <2>3. Active("block", s, sec, Q) = A /\ Active("block_body", s, FALSE, Q) = B
    BY <1>1, <1>3, <2>1, PlainActive
  <2> QED
    BY <2>2, <2>3
<1> QED
  BY <1>2, <1>3

LEMMA TokenSteps ==
  ASSUME NEW Q \in FormSets, NEW s, NEW sec, NEW a \in DOMAIN Expected \ TypeStages
  PROVE  Steps(Active(a, s, sec, Q), Expected[a].token, Active(Expected[a].next, s, FALSE, Q))
<1> DEFINE Good(b, x, n) == Steps(Active(b, s, sec, Q), x, Active(n, s, FALSE, Q))
<1>1. Good("for_round", "(", "initializer")
  <2>1. "for_round" \in PlainStages /\ "initializer" \in PlainStages /\ "(" \in Symbols
    BY Terms DEF PlainStages
  <2> DEFINE R == "Clauses" ## (";" ## ForTest(Q))
  <2>2. R \in FormSets /\ PlainForms("for_round", sec, Q) = "(" ## R /\ PlainForms("initializer", FALSE, Q) = R
    <3>1. R \in FormSets
      BY PartForms
    <3>2. PlainForms("for_round", sec, Q) = "(" ## R
      BY LoopsAre, ZenonT(40)
    <3>3. PlainForms("initializer", FALSE, Q) = R
      BY LoopsAre, ZenonT(40)
    <3> QED
      BY <3>1, <3>2, <3>3
  <2> HIDE DEF R
  <2> QED
    BY <2>1, <2>2, PlainSteps
<1>2. Good("condition_end", ";", "update")
  <2>1. "condition_end" \in PlainStages /\ "update" \in PlainStages /\ ";" \in Symbols
    BY Terms DEF PlainStages
  <2>2. Updates(Q) \in FormSets /\ PlainForms("condition_end", sec, Q) = ";" ## Updates(Q) /\ PlainForms("update", FALSE, Q) = Updates(Q)
    <3>1. Updates(Q) \in FormSets
      BY PartForms
    <3>2. PlainForms("condition_end", sec, Q) = ";" ## Updates(Q)
      BY LoopsAre
    <3>3. PlainForms("update", FALSE, Q) = Updates(Q)
      BY LoopsAre
    <3> QED
      BY <3>1, <3>2, <3>3
  <2> QED
    BY <2>1, <2>2, PlainSteps
<1>3. Good("for_close", ")", "update_block")
  <2>1. "for_close" \in PlainStages /\ "update_block" \in PlainStages /\ ")" \in Symbols
    BY Terms DEF PlainStages
  <2> DEFINE R == "Block" ## Q
  <2>2. R \in FormSets /\ PlainForms("for_close", sec, Q) = ")" ## R /\ PlainForms("update_block", FALSE, Q) = R
    <3>1. R \in FormSets
      BY PartForms
    <3>2. PlainForms("for_close", sec, Q) = ")" ## R
      BY LoopsAre DEF ForEnding
    <3>3. PlainForms("update_block", FALSE, Q) = R
      BY LoopsAre
    <3> QED
      BY <3>1, <3>2, <3>3
  <2> HIDE DEF R
  <2> QED
    BY <2>1, <2>2, PlainSteps
<1>4. Good("if_round", "(", "if_condition")
  <2>1. "if_round" \in PlainStages /\ "if_condition" \in PlainStages /\ "(" \in Symbols
    BY Terms DEF PlainStages
  <2> DEFINE R == "expr" ## (")" ## ("Statement" ## Alternative(Q)))
  <2>2. R \in FormSets /\ PlainForms("if_round", sec, Q) = "(" ## R /\ PlainForms("if_condition", FALSE, Q) = R
    <3>1. R \in FormSets
      BY PartForms
    <3>2. PlainForms("if_round", sec, Q) = "(" ## R
      BY PlainAre
    <3>3. PlainForms("if_condition", FALSE, Q) = R
      BY PlainAre
    <3> QED
      BY <3>1, <3>2, <3>3
  <2> HIDE DEF R
  <2> QED
    BY <2>1, <2>2, PlainSteps
<1>5. Good("if_close", ")", "then")
  <2>1. "if_close" \in PlainStages /\ "then" \in PlainStages /\ ")" \in Symbols
    BY Terms DEF PlainStages
  <2> DEFINE R == "Statement" ## Alternative(Q)
  <2>2. R \in FormSets /\ PlainForms("if_close", sec, Q) = ")" ## R /\ PlainForms("then", FALSE, Q) = R
    <3>1. R \in FormSets
      BY PartForms
    <3>2. PlainForms("if_close", sec, Q) = ")" ## R
      BY PlainAre
    <3>3. PlainForms("then", FALSE, Q) = R
      BY PlainAre
    <3> QED
      BY <3>1, <3>2, <3>3
  <2> HIDE DEF R
  <2> QED
    BY <2>1, <2>2, PlainSteps
<1>6. Good("block", "{", "block_body")
  BY BlockSteps
<1>7. Good("function_name", "id", "function_round")
  <2>1. "function_name" \in PlainStages /\ "function_round" \in PlainStages /\ "id" \in Symbols
    BY Terms DEF PlainStages
  <2> DEFINE R == "(" ## ("Parameters" ## ForEnding(Q))
  <2>2. R \in FormSets /\ PlainForms("function_name", sec, Q) = "id" ## R /\ PlainForms("function_round", FALSE, Q) = R
    <3>1. R \in FormSets
      BY PartForms
    <3>2. PlainForms("function_name", sec, Q) = "id" ## R
      BY LoopsAre DEF Named
    <3>3. PlainForms("function_round", FALSE, Q) = R
      BY LoopsAre
    <3> QED
      BY <3>1, <3>2, <3>3
  <2> HIDE DEF R
  <2> QED
    BY <2>1, <2>2, PlainSteps
<1>8. Good("function_round", "(", "parameters")
  <2>1. "function_round" \in PlainStages /\ "parameters" \in PlainStages /\ "(" \in Symbols
    BY Terms DEF PlainStages
  <2> DEFINE R == "Parameters" ## ForEnding(Q)
  <2>2. R \in FormSets /\ PlainForms("function_round", sec, Q) = "(" ## R /\ R \subseteq PlainForms("parameters", FALSE, Q)
    BY PartForms DEF PlainForms
  <2> HIDE DEF R
  <2> QED
    BY <2>1, <2>2, PlainSteps
<1>9. Good("parameter_name", "id", "FunctionParameter")
  <2>1. "parameter_name" \in PlainStages /\ "FunctionParameter" \in PlainStages /\ "id" \in Symbols
    BY Terms DEF PlainStages
  <2>2. PlainForms("parameter_name", sec, Q) = "id" ## Q /\ PlainForms("FunctionParameter", FALSE, Q) = Q
    BY LoopsAre, PlainAre
  <2> QED
    BY <2>1, <2>2, PlainSteps
<1>10. Good("array_close", "]", "initial_value")
  <2>1. "array_close" \in ClauseStages /\ "initial_value" \in ClauseStages /\ "]" \in Symbols
    BY Terms DEF ClauseStages
  <2>2. ClauseForms("array_close", s, sec, Q) = "]" ## Initial(s, Q) /\ ClauseForms("initial_value", s, FALSE, Q) = Initial(s, Q)
    BY DEF ClauseForms
  <2>3. Initial(s, Q) \in FormSets
    BY InitialForms
  <2> QED
    BY <2>1, <2>2, <2>3, ClauseSteps
<1>11. Good("assign", "=", "assigned_value")
  <2>1. "assign" \in ClauseStages /\ "assigned_value" \in ClauseStages /\ "=" \in Symbols
    BY Terms DEF ClauseStages
  <2>2. ClauseForms("assign", s, sec, Q) = "=" ## Valued(s, Q) /\ ClauseForms("assigned_value", s, FALSE, Q) = Valued(s, Q)
    BY DEF ClauseForms
  <2>3. Valued(s, Q) \in FormSets
    BY ValuedForms
  <2> QED
    BY <2>1, <2>2, <2>3, ClauseSteps
<1> HIDE DEF Good
<1>12. Good(a, Expected[a].token, Expected[a].next)
  <2>1. CASE a = "for_round"
    BY <1>1, <2>1, TokensAre
  <2>2. CASE a = "condition_end"
    BY <1>2, <2>2, TokensAre
  <2>3. CASE a = "for_close"
    BY <1>3, <2>3, TokensAre
  <2>4. CASE a = "if_round"
    BY <1>4, <2>4, TokensAre
  <2>5. CASE a = "if_close"
    BY <1>5, <2>5, TokensAre
  <2>6. CASE a = "block"
    BY <1>6, <2>6, TokensAre
  <2>7. CASE a = "function_name"
    BY <1>7, <2>7, TokensAre
  <2>8. CASE a = "function_round"
    BY <1>8, <2>8, TokensAre
  <2>9. CASE a = "parameter_name"
    BY <1>9, <2>9, TokensAre
  <2>10. CASE a = "array_close"
    BY <1>10, <2>10, TokensAre
  <2>11. CASE a = "assign"
    BY <1>11, <2>11, TokensAre
  <2> QED
    BY <2>1, <2>2, <2>3, <2>4, <2>5, <2>6, <2>7, <2>8, <2>9, <2>10, <2>11, Looking DEF TypeStages
<1> QED
  BY <1>12 DEF Good

\* A type, where "secret" may come first.
ReadsType(a, b, s, Q) ==
  /\ Steps(Active(a, s, TRUE, Q), "type", Active(b, s, FALSE, Q))
  /\ \A t : \A v \in Derive(Active(a, s, FALSE, Q), t) :
       (t = "type" /\ v \in Active(b, s, FALSE, Q)) \/ (t = "secret" /\ v \in Active(a, s, TRUE, Q))
LEMMA TypeNone ==
  ASSUME NEW a, NEW b, NEW s, NEW Q, Active(a, s, TRUE, Q) = {}, Active(a, s, FALSE, Q) = {}
  PROVE  ReadsType(a, b, s, Q)
BY StepsNothing, DeriveNothing DEF ReadsType
LEMMA TypeSome ==
  ASSUME NEW a, NEW b, NEW s, NEW Q, NEW R \in FormSets, R \subseteq Active(b, s, FALSE, Q),
         \A sec : Active(a, s, sec, Q) = TypeOr(sec) ## R
  PROVE  ReadsType(a, b, s, Q)
<1>1. Steps(Active(a, s, TRUE, Q), "type", R)
  BY TypeSteps
<1>2. \A t : \A v \in Derive(Active(a, s, FALSE, Q), t) : (t = "type" /\ v \in R) \/ (t = "secret" /\ v \in "type" ## R)
  BY TypeSteps DEF Typing
<1>3. Active(a, s, TRUE, Q) = "type" ## R
  BY DEF TypeOr
<1> QED
  BY <1>1, <1>2, <1>3 DEF ReadsType, Steps

LEMMA TypesRead ==
  ASSUME NEW Q \in FormSets, NEW s, NEW a \in TypeStages
  PROVE  a \in DOMAIN Expected /\ Expected[a].token = "type" /\ ReadsType(a, Expected[a].next, s, Q)
<1>1. a \in DOMAIN Expected /\ Expected[a].token = "type"
  <2>1. CASE a = "return_type"
    BY <2>1, Looking, TokensAre
  <2>2. CASE a = "parameter_type"
    BY <2>2, Looking, TokensAre
  <2>3. CASE a = "declared_type"
    BY <2>3, Looking, TokensAre
  <2> QED
    BY <2>1, <2>2, <2>3 DEF TypeStages
<1>2. CASE a = "declared_type"
  <2>1. a \in ClauseStages /\ "variable" \in ClauseStages /\ Expected[a].next = "variable"
    <3>1. a \in ClauseStages /\ "variable" \in ClauseStages
      BY <1>2 DEF ClauseStages
    <3>2. Expected[a].next = "variable"
      BY <1>2, TokensAre
    <3> QED
      BY <3>1, <3>2
  <2>2. Declares(s, Q) \in FormSets
    BY DeclaresForms
  <2>3. /\ \A sec : Active(a, s, sec, Q) = TypeOr(sec) ## Declares(s, Q)
        /\ Active("variable", s, FALSE, Q) = Declares(s, Q)
    <3>1. /\ \A sec : ClauseForms(a, s, sec, Q) = TypeOr(sec) ## Declares(s, Q)
          /\ ClauseForms("variable", s, FALSE, Q) = Declares(s, Q)
      BY <1>2 DEF ClauseForms
    <3> QED
      BY <2>1, <3>1, ClauseActive
  <2>4. ReadsType(a, "variable", s, Q)
    BY <2>2, <2>3, TypeSome
  <2> QED
    BY <1>1, <2>1, <2>4
<1>3. ASSUME NEW b \in PlainStages, a \in PlainStages, NEW R \in FormSets, Expected[a].next = b,
             \A sec : PlainForms(a, sec, Q) = TypeOr(sec) ## R, PlainForms(b, FALSE, Q) = R
      PROVE  ReadsType(a, Expected[a].next, s, Q)
  <2>1. CASE s \in Lists
    <3>1. \A sec : Active(a, s, sec, Q) = {}
      BY <1>3, <2>1, PlainActive
    <3> QED
      BY <3>1, TypeNone
  <2>2. CASE s \notin Lists
    <3>1. \A sec : Active(a, s, sec, Q) = TypeOr(sec) ## R
      BY <1>3, <2>2, PlainActive
    <3>2. R \subseteq Active(b, s, FALSE, Q)
      BY <1>3, <2>2, PlainActive
    <3> QED
      BY <1>3, <3>1, <3>2, TypeSome
  <2> QED
    BY <2>1, <2>2
<1>4. CASE a = "return_type"
  <2>1. a \in PlainStages /\ "function_name" \in PlainStages /\ Expected[a].next = "function_name"
    <3>1. a \in PlainStages /\ "function_name" \in PlainStages
      BY <1>4 DEF PlainStages
    <3>2. Expected[a].next = "function_name"
      BY <1>4, TokensAre
    <3> QED
      BY <3>1, <3>2
  <2>2. Named(Q) \in FormSets
    BY PartForms
  <2>3. (\A sec : PlainForms(a, sec, Q) = TypeOr(sec) ## Named(Q)) /\ PlainForms("function_name", FALSE, Q) = Named(Q)
    BY <1>4, LoopsAre
  <2> QED
    BY <1>1, <1>3, <1>4, <2>1, <2>2, <2>3
<1>5. CASE a = "parameter_type"
  <2>1. a \in PlainStages /\ "parameter_name" \in PlainStages /\ Expected[a].next = "parameter_name"
    <3>1. a \in PlainStages /\ "parameter_name" \in PlainStages
      BY <1>5 DEF PlainStages
    <3>2. Expected[a].next = "parameter_name"
      BY <1>5, TokensAre
    <3> QED
      BY <3>1, <3>2
  <2> DEFINE R == "id" ## Q
  <2>2. R \in FormSets
    BY Terms, SymbolForms
  <2>3. (\A sec : PlainForms(a, sec, Q) = TypeOr(sec) ## R) /\ PlainForms("parameter_name", FALSE, Q) = R
    BY <1>5, LoopsAre
  <2> HIDE DEF R
  <2> QED
    BY <1>1, <1>3, <1>5, <2>1, <2>2, <2>3
<1> QED
  BY <1>2, <1>4, <1>5 DEF TypeStages

\* An expression.
LEMMA ExpressionSteps ==
  ASSUME NEW Q \in FormSets, NEW s, NEW sec, NEW a \in DOMAIN AfterExpression
  PROVE  /\ Derive(Active(a, s, sec, Q), "expr") \subseteq Active(AfterExpression[a], s, FALSE, Q)
         /\ \A t : t # "expr" /\ (a = "returned_value" => t # ";") => Derive(Active(a, s, sec, Q), t) = {}
<1> DEFINE Good(b, n) == Steps(Active(b, s, sec, Q), "expr", Active(n, s, FALSE, Q))
<1>1. Good("if_condition", "if_close")
  <2>1. "if_condition" \in PlainStages /\ "if_close" \in PlainStages /\ "expr" \in Symbols
    BY Terms DEF PlainStages
  <2> DEFINE R == ")" ## ("Statement" ## Alternative(Q))
  <2>2. R \in FormSets /\ PlainForms("if_condition", sec, Q) = "expr" ## R /\ PlainForms("if_close", FALSE, Q) = R
    BY PartForms, PlainAre, ZenonT(40)
  <2> HIDE DEF R
  <2> QED
    BY <2>1, <2>2, PlainSteps
<1>2. Good("for_condition", "condition_end")
  <2>1. "for_condition" \in PlainStages /\ "condition_end" \in PlainStages /\ "expr" \in Symbols
    BY Terms DEF PlainStages
  <2> DEFINE R == ";" ## Updates(Q)
  <2>2. R \in FormSets /\ PlainForms("for_condition", sec, Q) = "expr" ## R /\ PlainForms("condition_end", FALSE, Q) = R
    BY PartForms, LoopsAre, ZenonT(40) DEF ForTest
  <2> HIDE DEF R
  <2> QED
    BY <2>1, <2>2, PlainSteps
<1>3. Ending(s, Q) \in FormSets /\ "expr" \in Symbols
  BY EndingForms, Terms
<1>4. Good("assigned_value", "Assignment") /\ Good("declared_value", "VariableDeclaration")
  <2>1. /\ "assigned_value" \in ClauseStages /\ "declared_value" \in ClauseStages
        /\ "Assignment" \in ClauseStages /\ "VariableDeclaration" \in ClauseStages
    BY DEF ClauseStages
  <2>2. /\ ClauseForms("assigned_value", s, sec, Q) = "expr" ## Ending(s, Q)
        /\ ClauseForms("declared_value", s, sec, Q) = "expr" ## Ending(s, Q)
        /\ ClauseForms("Assignment", s, FALSE, Q) = Ending(s, Q)
        /\ ClauseForms("VariableDeclaration", s, FALSE, Q) = Ending(s, Q)
    BY DEF ClauseForms, Valued
  <2> QED
    BY <1>3, <2>1, <2>2, ClauseSteps
<1> HIDE DEF Good
<1>5. CASE a = "returned_value"
  <2> DEFINE R == ";" ## Q
  <2>1. "returned_value" \in PlainStages /\ "Return" \in PlainStages /\ ";" \in Symbols /\ R \in FormSets
    BY PartForms, Terms DEF PlainStages
  <2>2. PlainForms("returned_value", sec, Q) = R \cup ("expr" ## R) /\ PlainForms("Return", FALSE, Q) = R
    BY PlainAre
  <2>3. \A t : Derive(R, t) = IF t = ";" THEN Q ELSE {}
    BY <2>1, DeriveTerminal
  <2> HIDE DEF R
  <2>4. \A t : Derive("expr" ## R, t) = IF t = "expr" THEN R ELSE {}
    BY <1>3, <2>1, DeriveTerminal
  <2>5. \A t : Derive(R \cup ("expr" ## R), t) = Derive(R, t) \cup Derive("expr" ## R, t)
    BY DeriveEither
  <2>6. Derive(R \cup ("expr" ## R), "expr") = R /\ \A t : t # "expr" /\ t # ";" => Derive(R \cup ("expr" ## R), t) = {}
    BY <2>3, <2>4, <2>5
  <2>7. AfterExpression[a] = "Return"
    BY <1>5 DEF AfterExpression
  <2>8. CASE s \in Lists
    BY <1>5, <2>1, <2>8, PlainActive, DeriveNothing
  <2>9. CASE s \notin Lists
    <3>1. Active(a, s, sec, Q) = R \cup ("expr" ## R) /\ Active("Return", s, FALSE, Q) = R
      BY <1>5, <2>1, <2>2, <2>9, PlainActive
    <3> QED
      BY <1>5, <2>6, <2>7, <3>1
  <2> QED
    BY <2>8, <2>9
<1>6. CASE a # "returned_value"
  <2>1. Good(a, AfterExpression[a])
    BY <1>1, <1>2, <1>4, <1>6 DEF AfterExpression
  <2> QED
    BY <1>6, <2>1 DEF Good, Steps
<1> QED
  BY <1>5, <1>6

LEMMA TargetSteps ==
  ASSUME NEW Q \in FormSets, NEW s, NEW sec
  PROVE  Steps(Active("target", s, sec, Q), "target", Active("assign", s, FALSE, Q))
<1>1. "target" \in ClauseStages /\ "assign" \in ClauseStages /\ "target" \in Symbols
  BY Terms DEF ClauseStages
<1> DEFINE R == "=" ## Valued(s, Q)
<1>2. ClauseForms("target", s, sec, Q) = "target" ## R /\ ClauseForms("assign", s, FALSE, Q) = R
  BY DEF ClauseForms
<1>3. R \in FormSets
  BY ValuedForms, SymbolForms, Terms
<1> HIDE DEF R
<1> QED
  BY <1>1, <1>2, <1>3, ClauseSteps

---------------------------------------------------------------------------
(* The first token of a statement.                                         *)

\* The symbols that the token look may begin.
Begins(look) == {look} \cup (IF look \in Starts THEN {"expr"} ELSE {})
                       \cup (IF look = "id" THEN {"target"} ELSE {})
LEMMA BeginsIs ==
  \A look : \A t \in Begins(look) : \/ t = look
                                    \/ t = "expr" /\ look \in {"id", "lit", "(", "{"}
                                    \/ t = "target" /\ look = "id"
BY DEF Begins, Starts

LEMMA StatementAt ==
  ASSUME NEW Q, NEW s, NEW sec
  PROVE  Active("statement", s, sec, Q) = IF s \in Lists THEN "Clause" ## Ending(s, Q) ELSE "Statement" ## Q
<1>1. "statement" \in ClauseStages
  BY DEF ClauseStages
<1> QED
  BY <1>1, ClauseActive DEF ClauseForms, Lists

LEMMA OpenedIs ==
  /\ DOMAIN Opened = {"for", "if", "public", "return"}
  /\ Opened["for"] = "for_round" /\ Opened["if"] = "if_round"
  /\ Opened["public"] = "return_type" /\ Opened["return"] = "returned_value"
BY DEF Opened

\* A keyword.
LEMMA KeywordReads ==
  ASSUME NEW Q \in FormSets, NEW s, NEW sec, NEW t \in DOMAIN Opened
  PROVE  Derive(Active("statement", s, sec, Q), t) \subseteq Active(Opened[t], s, FALSE, Q)
<1>1. CASE s \in Lists
  <2>1. Active("statement", s, sec, Q) = "Clause" ## Ending(s, Q) /\ Ending(s, Q) \in FormSets
    BY <1>1, StatementAt, EndingForms
  <2>2. t \notin {"target", "type", "secret"}
    BY OpenedIs
  <2>3. Derive("Clause" ## Ending(s, Q), t) = {}
    BY <2>1, <2>2, ClauseReads
  <2> QED
    BY <2>1, <2>3
<1>2. CASE s \notin Lists
  <2>1. Active("statement", s, sec, Q) = "Statement" ## Q
    BY <1>2, StatementAt
  <2> SUFFICES ASSUME NEW v \in Derive("Statement" ## Q, t) PROVE v \in Active(Opened[t], s, FALSE, Q)
    BY <2>1
  <2>7. \/ t \in {"target", "type", "secret", "{"}
        \/ t = "return" /\ v \in (";" ## Q) \cup ("expr" ## (";" ## Q))
        \/ t = "if" /\ v \in "(" ## ("expr" ## (")" ## ("Statement" ## Alternative(Q))))
        \/ t = "for" /\ v \in "(" ## ("Clauses" ## (";" ## ForTest(Q)))
        \/ t = "public" /\ v \in "Datatype" ## Named(Q)
    BY StatementReads, Zenon
  <2>2. ASSUME NEW a \in PlainStages, v \in PlainForms(a, FALSE, Q), Opened[t] = a PROVE v \in Active(Opened[t], s, FALSE, Q)
    BY <1>2, <2>2, PlainActive
  <2>3. CASE t = "for"
    <3>1. v \in "(" ## ("Clauses" ## (";" ## ForTest(Q)))
      BY <2>3, <2>7
    <3>2. "for_round" \in PlainStages
      BY DEF PlainStages
    <3>3. v \in PlainForms("for_round", FALSE, Q)
      BY <3>1 DEF PlainForms
    <3> QED
      BY <2>2, <2>3, <3>2, <3>3, OpenedIs
  <2>4. CASE t = "if"
    <3>1. v \in "(" ## ("expr" ## (")" ## ("Statement" ## Alternative(Q))))
      BY <2>4, <2>7
    <3>2. "if_round" \in PlainStages
      BY DEF PlainStages
    <3>3. v \in PlainForms("if_round", FALSE, Q)
      BY <3>1 DEF PlainForms
    <3> QED
      BY <2>2, <2>4, <3>2, <3>3, OpenedIs
  <2>5. CASE t = "public"
    <3>1. v \in "Datatype" ## Named(Q)
      BY <2>5, <2>7
    <3>2. "return_type" \in PlainStages
      BY DEF PlainStages
    <3>3. v \in PlainForms("return_type", FALSE, Q)
      BY <3>1 DEF PlainForms, TypeOr
    <3> QED
      BY <2>2, <2>5, <3>2, <3>3, OpenedIs
  <2>6. CASE t = "return"
    <3>1. v \in (";" ## Q) \cup ("expr" ## (";" ## Q))
      BY <2>6, <2>7
    <3>2. "returned_value" \in PlainStages
      BY DEF PlainStages
    <3>3. v \in PlainForms("returned_value", FALSE, Q)
      BY <3>1 DEF PlainForms
    <3> QED
      BY <2>2, <2>6, <3>2, <3>3, OpenedIs
  <2> QED
    BY <2>3, <2>4, <2>5, <2>6, OpenedIs
<1> QED
  BY <1>1, <1>2

\* A brace.
LEMMA BraceReads ==
  ASSUME NEW Q \in FormSets, NEW t \in {"{", "expr"}
  PROVE  Derive("Statement" ## Q, t) \subseteq Derive("Block" ## Q, t)
<1> SUFFICES ASSUME NEW v \in Derive("Statement" ## Q, t) PROVE v \in Derive("Block" ## Q, t)
  OBVIOUS
<1> QED
  BY StatementReads

\* A type, and the name of a target.
LEMMA DeclarationReads ==
  ASSUME NEW Q \in FormSets, NEW s, NEW t \in {"type", "secret"}
  PROVE  Derive(Active("statement", s, FALSE, Q), t) \subseteq Derive(Active("declared_type", s, FALSE, Q), t)
<1> DEFINE A == "=" ## ("expr" ## Ending(s, Q))
           D == "Datatype" ## ("id" ## ("Array" ## A))
           N == "Datatype" ## ("id" ## ("Array" ## (";" ## Q)))
           I == Initial(s, Q)
           E == "Datatype" ## ("id" ## ("Array" ## I))
<1>1. Active("declared_type", s, FALSE, Q) = E
  <2>1. "declared_type" \in ClauseStages
    BY DEF ClauseStages
  <2>2. ClauseForms("declared_type", s, FALSE, Q) = E
    BY DEF ClauseForms, TypeOr, Declares
  <2> QED
    BY <2>1, <2>2, ClauseActive
<1>2. A \subseteq I
  BY DEF Initial, Valued
<1>3. D \subseteq E
  <2> HIDE DEF A, I
  <2> QED
    BY <1>2, ThenMore
<1>4. s \notin Lists => N \subseteq E
  <2>1. s \notin Lists => (";" ## Q) \subseteq I
    BY DEF Initial, Lists
  <2> DEFINE B == ";" ## Q
  <2> HIDE DEF I, B
  <2>2. B \subseteq I => ("Array" ## B) \subseteq ("Array" ## I)
    BY ThenMore
  <2> DEFINE X == "Array" ## B
             Y == "Array" ## I
  <2>3. X \subseteq Y => ("id" ## X) \subseteq ("id" ## Y)
    BY ThenMore
  <2> DEFINE Z == "id" ## X
             W == "id" ## Y
  <2> HIDE DEF X, Y
  <2>4. Z \subseteq W => ("Datatype" ## Z) \subseteq ("Datatype" ## W)
    BY ThenMore
  <2> QED
    BY <2>1, <2>2, <2>3, <2>4 DEF B, X, Y
<1> HIDE DEF D, E, N
<1>5. Derive(D, t) \subseteq Derive(E, t) /\ (s \notin Lists => Derive(N, t) \subseteq Derive(E, t))
  BY <1>3, <1>4, DeriveMore
<1>6. Ending(s, Q) \in FormSets
  BY EndingForms
<1>7. ASSUME NEW v \in Derive("Clause" ## Ending(s, Q), t) PROVE v \in Derive(E, t)
  <2>1. v \in Derive(D, t)
    BY <1>6, ClauseReads DEF D
  <2> QED
    BY <1>5, <2>1
<1>8. CASE s \in Lists
  BY <1>1, <1>7, <1>8, StatementAt
<1>9. CASE s \notin Lists
  <2>1. Ending(s, Q) = ";" ## Q
    BY <1>9 DEF Ending, Lists
  <2> SUFFICES ASSUME NEW v \in Derive("Statement" ## Q, t) PROVE v \in Derive(E, t)
    BY <1>1, <1>9, StatementAt
  <2>2. v \in Derive("Clause" ## (";" ## Q), t) \/ v \in Derive(N, t)
    BY StatementReads DEF N
  <2> QED
    BY <1>5, <1>7, <1>9, <2>1, <2>2
<1> QED
  BY <1>8, <1>9
LEMMA AssignmentReads ==
  ASSUME NEW Q \in FormSets, NEW s, NEW sec, NEW t,
         t \notin {"for", "if", "public", "return", "{", "type", "secret"}
  PROVE  Derive(Active("statement", s, sec, Q), t) \subseteq Derive(Active("target", s, FALSE, Q), t)
<1> DEFINE E == "target" ## ("=" ## ("expr" ## Ending(s, Q)))
<1>1. Active("target", s, FALSE, Q) = E
  <2>1. "target" \in ClauseStages
    BY DEF ClauseStages
  <2>2. ClauseForms("target", s, FALSE, Q) = E
    BY DEF ClauseForms, Valued
  <2> QED
    BY <2>1, <2>2, ClauseActive
<1> HIDE DEF E
<1>2. Ending(s, Q) \in FormSets
  BY EndingForms
<1>3. ASSUME NEW v \in Derive("Clause" ## Ending(s, Q), t) PROVE v \in Derive(E, t)
  BY <1>2, ClauseReads DEF E
<1>4. CASE s \in Lists
  BY <1>1, <1>3, <1>4, StatementAt
<1>5. CASE s \notin Lists
  <2>1. Ending(s, Q) = ";" ## Q
    BY <1>5 DEF Ending, Lists
  <2> SUFFICES ASSUME NEW v \in Derive("Statement" ## Q, t) PROVE v \in Derive(E, t)
    BY <1>1, <1>5, StatementAt
  <2>2. v \in Derive("Clause" ## (";" ## Q), t)
    BY StatementReads
  <2> QED
    BY <1>3, <2>1, <2>2
<1> QED
  BY <1>4, <1>5

\* Where parseStatement goes on.
Statement(look) == CASE look = "{"                 -> "block"
                     [] look \in {"secret", "type"} -> "declared_type"
                     [] OTHER                      -> "target"
LEMMA StatementGoes ==
  ASSUME NEW Q \in FormSets, NEW s, NEW look, look \notin DOMAIN Opened, NEW t \in Begins(look)
  PROVE  Derive(Active("statement", s, FALSE, Q), t) \subseteq Derive(Active(Statement(look), s, FALSE, Q), t)
<1>1. CASE look = "{"
  <2>1. t \in {"{", "expr"} /\ Statement(look) = "block" /\ "block" \in PlainStages
    BY <1>1, BeginsIs DEF Statement, PlainStages
  <2>2. CASE s \in Lists
    <3>1. Active("statement", s, FALSE, Q) = "Clause" ## Ending(s, Q) /\ Ending(s, Q) \in FormSets
      BY <2>2, StatementAt, EndingForms
    <3>2. Derive("Clause" ## Ending(s, Q), t) = {}
      BY <2>1, <3>1, ClauseReads
    <3> QED
      BY <3>1, <3>2
  <2>3. CASE s \notin Lists
    <3>1. Active("block", s, FALSE, Q) = "Block" ## Q
      <4>1. PlainForms("block", FALSE, Q) = "Block" ## Q
        BY DEF PlainForms
      <4> QED
        BY <2>1, <2>3, <4>1, PlainActive
    <3>2. Active("statement", s, FALSE, Q) = "Statement" ## Q
      BY <2>3, StatementAt
    <3> QED
      BY <2>1, <3>1, <3>2, BraceReads
  <2> QED
    BY <2>2, <2>3
<1>2. CASE look \in {"secret", "type"}
  <2>1. t \in {"type", "secret"} /\ Statement(look) = "declared_type"
    BY <1>2, BeginsIs DEF Statement
  <2> QED
    BY <2>1, DeclarationReads
<1>3. CASE look \notin {"{", "secret", "type"}
  <2>1. t \notin {"for", "if", "public", "return", "{", "type", "secret"} /\ Statement(look) = "target"
    BY <1>3, BeginsIs, OpenedIs DEF Statement
  <2> QED
    BY <2>1, AssignmentReads
<1> QED
  BY <1>1, <1>2, <1>3

---------------------------------------------------------------------------
(* The ends of statements, and declarations.                               *)

LEMMA ClauseAt ==
  ASSUME NEW Q, NEW s, NEW sec
  PROVE  /\ Active("semicolon", s, sec, Q) = Ending(s, Q)
         /\ Active("Assignment", s, sec, Q) = Ending(s, Q)
         /\ Active("VariableDeclaration", s, sec, Q) = Ending(s, Q)
         /\ Active("variable", s, sec, Q) = "id" ## ("Array" ## Initial(s, Q))
         /\ Active("array", s, sec, Q) = "Array" ## Initial(s, Q)
         /\ Active("array_close", s, sec, Q) = "]" ## Initial(s, Q)
         /\ Active("initial_value", s, sec, Q) = Initial(s, Q)
         /\ Active("declared_value", s, sec, Q) = Valued(s, Q)
BY DEF Active, ClauseStages, ClauseForms, Declares

LEMMA EndingReads ==
  ASSUME NEW Q \in FormSets, NEW s, s # "updates", NEW t, NEW v \in Derive(Ending(s, Q), t)
  PROVE  \/ t = ";" /\ v \in Q
         \/ t = "," /\ s = "initializers"
<1>1. ";" \in Symbols /\ "," \in Symbols
  BY Terms
<1> DEFINE E == ";" ## Q
           M == "Clause" ## ("More" ## E)
<1>2. E \in FormSets
  BY Terms, SymbolForms
<1>3. M \in FormSets
  <2> HIDE DEF E
  <2> QED
    BY <1>2, Nonterms, NonterminalForms
<1>4. v \in Derive(E, t) => t = ";" /\ v \in Q
  BY <1>1, TerminalReads
<1>5. CASE s = "initializers"
  <2>1. v \in Derive("More" ## E, t)
    BY <1>5 DEF Ending
  <2>2. v \in Derive(E, t) \/ v \in Derive("," ## M, t)
    <3> HIDE DEF E
    <3> QED
      BY <1>2, <2>1, ReadMore DEF M
  <2> HIDE DEF M, E
  <2>3. v \in Derive("," ## M, t) => t = ","
    BY <1>1, <1>3, TerminalReads
  <2> QED
    BY <1>4, <1>5, <2>2, <2>3
<1>6. CASE s # "initializers"
  <2>1. Ending(s, Q) = E
    BY <1>6 DEF Ending
  <2> QED
    BY <1>4, <2>1
<1> QED
  BY <1>5, <1>6

LEMMA VariableSteps ==
  ASSUME NEW Q \in FormSets, NEW s, NEW sec
  PROVE  Steps(Active("variable", s, sec, Q), "id", Active("array", s, FALSE, Q))
<1> DEFINE R == "Array" ## Initial(s, Q)
<1>1. R \in FormSets /\ "id" \in Symbols
  BY InitialForms, Terms, Nonterms, NonterminalForms
<1>2. Active("variable", s, sec, Q) = "id" ## R /\ Active("array", s, FALSE, Q) = R
  BY ClauseAt
<1> HIDE DEF R
<1> QED
  BY <1>1, <1>2, StepsTerminal

LEMMA InitialReads ==
  ASSUME NEW Q \in FormSets, NEW s, NEW t, NEW v \in Derive(Initial(s, Q), t)
  PROVE  \/ t = "=" /\ v \in Valued(s, Q)
         \/ t = ";" /\ v \in Derive(Ending(s, Q), t)
<1> DEFINE V == Valued(s, Q)
           A == "=" ## V
           B == ";" ## Q
<1>1. V \in FormSets /\ "=" \in Symbols /\ ";" \in Symbols
  BY ValuedForms, Terms
<1>2. CASE v \in Derive(A, t)
  <2> HIDE DEF V
  <2>1. t = "=" /\ v \in V
    BY <1>1, <1>2, TerminalReads
  <2> QED
    BY <2>1 DEF V
<1>3. CASE s \notin Lists /\ v \in Derive(B, t)
  <2>1. t = ";"
    BY <1>1, <1>3, TerminalReads
  <2>2. Ending(s, Q) = B
    BY <1>3 DEF Ending, Lists
  <2> QED
    BY <1>3, <2>1, <2>2
<1>4. Initial(s, Q) = A \cup IF s \in Lists THEN {} ELSE B
  BY DEF Initial, Lists
<1> HIDE DEF A, B
<1>5. v \in Derive(A, t) \/ (s \notin Lists /\ v \in Derive(B, t))
  <2>1. CASE s \in Lists
    <3>1. Initial(s, Q) = A
      BY <1>4, <2>1
    <3> QED
      BY <3>1
  <2>2. CASE s \notin Lists
    <3>1. Initial(s, Q) = A \cup B
      BY <1>4, <2>2
    <3>2. Derive(A \cup B, t) = Derive(A, t) \cup Derive(B, t)
      BY DeriveEither
    <3> QED
      BY <2>2, <3>1, <3>2
  <2> QED
    BY <2>1, <2>2
<1> QED
  BY <1>2, <1>3, <1>5

LEMMA ArrayReads ==
  ASSUME NEW Q \in FormSets, NEW s, NEW sec, NEW t, NEW v \in Derive(Active("array", s, sec, Q), t)
  PROVE  \/ t = "[" /\ v \in Active("array_close", s, FALSE, Q)
         \/ v \in Derive(Initial(s, Q), t)
<1> DEFINE I == Initial(s, Q)
           C == "]" ## I
<1>1. I \in FormSets
  BY InitialForms
<1>2. Active("array", s, sec, Q) = "Array" ## I /\ Active("array_close", s, FALSE, Q) = C
  BY ClauseAt
<1> HIDE DEF I
<1>3. C \in FormSets /\ "[" \in Symbols
  BY <1>1, Terms, SymbolForms
<1>4. v \in Derive(I, t) \/ v \in Derive("[" ## C, t)
  BY <1>1, <1>2, ReadArray
<1> HIDE DEF C
<1>5. v \in Derive("[" ## C, t) => t = "[" /\ v \in C
  BY <1>3, TerminalReads
<1> QED
  BY <1>2, <1>4, <1>5 DEF I

\* The "=" and the semicolon of a declaration, at its array and behind it.
LEMMA DeclaredReads ==
  ASSUME NEW Q \in FormSets, NEW s, NEW sec, NEW a \in {"array", "initial_value"},
         NEW t, NEW v \in Derive(Active(a, s, sec, Q), t)
  PROVE  \/ t = "[" /\ a = "array" /\ v \in Active("array_close", s, FALSE, Q)
         \/ t = "=" /\ v \in Active("declared_value", s, FALSE, Q)
         \/ t = ";" /\ v \in Derive(Active("VariableDeclaration", s, FALSE, Q), t)
<1>1. /\ Active("declared_value", s, FALSE, Q) = Valued(s, Q)
      /\ Active("VariableDeclaration", s, FALSE, Q) = Ending(s, Q)
      /\ Active("initial_value", s, sec, Q) = Initial(s, Q)
  BY ClauseAt
<1>2. \/ a = "array" /\ t = "[" /\ v \in Active("array_close", s, FALSE, Q)
      \/ v \in Derive(Initial(s, Q), t)
  BY <1>1, ArrayReads
<1> QED
  BY <1>1, <1>2, InitialReads

---------------------------------------------------------------------------
(* Productions that return.                                                *)

LEMMA SimpleWithin ==
  ASSUME NEW Q \in FormSets, NEW s, NEW sec, NEW a \in Simple
  PROVE  /\ Active(a, s, sec, Q) \subseteq Active("semicolon", s, FALSE, Q)
         /\ s = "updates" => Active(a, s, sec, Q) \subseteq Q
<1>a. s = "updates" => Ending(s, Q) = Q
  BY DEF Ending
<1>b. Active("semicolon", s, FALSE, Q) = Ending(s, Q)
  BY ClauseAt
<1>1. Active("semicolon", s, FALSE, Q) = Ending(s, Q) /\ (s = "updates" => Ending(s, Q) = Q)
  BY <1>a, <1>b
<1>2. CASE a \in {"Assignment", "VariableDeclaration"}
  <2>1. CASE a = "Assignment"
    <3>1. Active("Assignment", s, sec, Q) = Ending(s, Q)
      BY ClauseAt
    <3> QED
      BY <1>1, <2>1, <3>1
  <2>2. CASE a = "VariableDeclaration"
    <3>1. Active("VariableDeclaration", s, sec, Q) = Ending(s, Q)
      BY ClauseAt
    <3> QED
      BY <1>1, <2>2, <3>1
  <2> QED
    BY <1>2, <2>1, <2>2
<1>3. CASE a = "Return"
  <2>1. a \in PlainStages /\ PlainForms(a, sec, Q) = ";" ## Q
    BY <1>3 DEF PlainStages, PlainForms
  <2>2. CASE s \in Lists
    BY <2>1, <2>2, PlainActive
  <2>3. CASE s \notin Lists
    <3>1. Ending(s, Q) = ";" ## Q /\ s # "updates"
      BY <2>3 DEF Ending, Lists
    <3>2. Active(a, s, sec, Q) = ";" ## Q
      BY <2>1, <2>3, PlainActive
    <3> QED
      BY <1>1, <3>1, <3>2
  <2> QED
    BY <2>2, <2>3
<1> QED
  BY <1>2, <1>3 DEF Simple

LEMMA CompoundWithin ==
  ASSUME NEW Q, NEW s, NEW sec, NEW a \in Compound \cup {"FunctionParameter"}
  PROVE  Active(a, s, sec, Q) \subseteq Q
<1>1. a \in PlainStages /\ PlainForms(a, sec, Q) = Q
  BY DEF PlainStages, PlainForms, Compound
<1> QED
  BY <1>1, PlainActive

\* The caller is active again.
LEMMA WaitsActive ==
  ASSUME NEW Q, NEW s, NEW r, r # "parameters"
  PROVE  Waits(r, s, Q) = Active(r, s, FALSE, Q)
BY DEF Waits
LEMMA OthersReads ==
  ASSUME NEW Q \in FormSets, NEW s, NEW t, NEW v \in Derive(Waits("parameters", s, Q), t)
  PROVE  v \in Derive(Active("parameters", s, FALSE, Q), t) \/ t = ","
<1> DEFINE F == ForEnding(Q)
           P == "Parameters" ## F
           D == "Datatype" ## ("id" ## ("Others" ## F))
<1>1. "parameters" \in PlainStages /\ PlainForms("parameters", FALSE, Q) = P \cup D
  BY DEF PlainStages, PlainForms
<1>2. F \in FormSets /\ "Parameters" \in Nullable /\ "," \in Symbols /\ D \in FormSets
  BY LoopForms, NullableIs, Terms, Nonterms, SymbolForms, NonterminalForms
<1>3. CASE s \in Lists
  <2>1. Active("parameters", s, FALSE, Q) = {}
    BY <1>1, <1>3, PlainActive
  <2>2. Waits("parameters", s, Q) = {}
    BY <1>3, <2>1 DEF Waits, Lists
  <2> QED
    BY <2>2, DeriveNothing
<1>4. CASE s \notin Lists
  <2>1. Waits("parameters", s, Q) = "Others" ## F /\ Active("parameters", s, FALSE, Q) = P \cup D
    BY <1>1, <1>4, PlainActive DEF Waits, Lists
  <2>2. v \in Derive(F, t) \/ v \in Derive("," ## D, t)
    <3> HIDE DEF F
    <3> QED
      BY <1>2, <2>1, ReadOthers
  <2>3. Derive(F, t) \subseteq Derive(P, t)
    <3> HIDE DEF F
    <3> QED
      BY <1>2, DeriveBehind
  <2> HIDE DEF F, P, D
  <2>4. v \in Derive("," ## D, t) => t = ","
    BY <1>2, TerminalReads
  <2>5. Derive(P \cup D, t) = Derive(P, t) \cup Derive(D, t)
    BY DeriveEither
  <2> QED
    BY <2>1, <2>2, <2>3, <2>4, <2>5
<1> QED
  BY <1>3, <1>4
LEMMA CommaReads ==
  ASSUME NEW Q \in FormSets, NEW s
  PROVE  Derive(Waits("parameters", s, Q), ",") \subseteq Active("parameters", s, FALSE, Q)
<1> DEFINE B == "Block" ## Q
           P == "Parameters" ## ForEnding(Q)
           D == "Datatype" ## ("id" ## ("Others" ## ForEnding(Q)))
<1>1. "parameters" \in PlainStages /\ PlainForms("parameters", FALSE, Q) = P \cup D
  BY DEF PlainStages, PlainForms
<1>2. ForEnding(Q) \in FormSets /\ ForEnding(Q) = ")" ## B /\ B \in FormSets /\ "," \in Symbols /\ ")" \in Symbols /\ D \in FormSets
  BY LoopForms, Terms, Nonterms, SymbolForms, NonterminalForms DEF ForEnding
<1>3. CASE s \in Lists
  <2>1. Active("parameters", s, FALSE, Q) = {}
    BY <1>1, <1>3, PlainActive
  <2>2. Waits("parameters", s, Q) = {}
    BY <1>3, <2>1 DEF Waits, Lists
  <2> QED
    BY <2>2, DeriveNothing
<1>4. CASE s \notin Lists
  <2>1. Waits("parameters", s, Q) = "Others" ## ForEnding(Q) /\ Active("parameters", s, FALSE, Q) = P \cup D
    BY <1>1, <1>4, PlainActive DEF Waits, Lists
  <2> SUFFICES ASSUME NEW v \in Derive("Others" ## ForEnding(Q), ",") PROVE v \in D
    BY <2>1
  <2>2. v \in Derive(ForEnding(Q), ",") \/ v \in Derive("," ## D, ",")
    BY <1>2, ReadOthers
  <2> HIDE DEF B, D
  <2>3. v \notin Derive(")" ## B, ",")
    BY <1>2, TerminalReads
  <2>4. v \in Derive("," ## D, ",") => v \in D
    BY <1>2, TerminalReads
  <2> QED
    BY <1>2, <2>2, <2>3, <2>4
<1> QED
  BY <1>3, <1>4

---------------------------------------------------------------------------
(* The stages that go on without a token, or call another production.      *)

LEMMA PlainGoes ==
  ASSUME NEW Q, NEW s, NEW sec, NEW a \in PlainStages, NEW t, NEW G,
         s \notin Lists => Derive(PlainForms(a, sec, Q), t) \subseteq G
  PROVE  Derive(Active(a, s, sec, Q), t) \subseteq G
<1>1. CASE s \in Lists
  BY <1>1, PlainActive, DeriveNothing
<1>2. CASE s \notin Lists
  BY <1>2, PlainActive
<1> QED
  BY <1>1, <1>2

LEMMA WaitsPlain ==
  ASSUME NEW Q, NEW s, NEW r \in PlainStages, r # "parameters"
  PROVE  Waits(r, s, Q) = IF s \in Lists THEN {} ELSE PlainForms(r, FALSE, Q)
<1>1. Waits(r, s, Q) = Active(r, s, FALSE, Q)
  BY WaitsActive
<1>2. Active(r, s, FALSE, Q) = IF s \in Lists THEN {} ELSE PlainForms(r, FALSE, Q)
  BY PlainActive
<1> QED
  BY <1>1, <1>2

LEMMA CalledStatement ==
  ASSUME NEW Q, NEW r, r \notin Lists
  PROVE  Active("statement", r, FALSE, Q) = "Statement" ## Q
BY StatementAt
LEMMA CalledClause ==
  ASSUME NEW Q
  PROVE  /\ Active("statement", "initializers", FALSE, Q) = "Clause" ## ("More" ## (";" ## Q))
         /\ Active("statement", "updates", FALSE, Q) = "Clause" ## Q
<1>1. /\ Active("statement", "initializers", FALSE, Q) = "Clause" ## Ending("initializers", Q)
      /\ Active("statement", "updates", FALSE, Q) = "Clause" ## Ending("updates", Q)
  BY StatementAt DEF Lists
<1>2. Ending("initializers", Q) = "More" ## (";" ## Q) /\ Ending("updates", Q) = Q
  BY DEF Ending
<1> QED
  BY <1>1, <1>2

LEMMA ReturnGoes ==
  ASSUME NEW Q \in FormSets, NEW s, NEW sec
  PROVE  Derive(Active("returned_value", s, sec, Q), ";") \subseteq Derive(Active("Return", s, FALSE, Q), ";")
<1> DEFINE R == ";" ## Q
           G == Derive(Active("Return", s, FALSE, Q), ";")
<1>1. "returned_value" \in PlainStages /\ "Return" \in PlainStages /\ "expr" \in Symbols /\ R \in FormSets
  BY PartForms, Terms DEF PlainStages
<1>2. PlainForms("returned_value", sec, Q) = R \cup ("expr" ## R) /\ PlainForms("Return", FALSE, Q) = R
  BY PlainAre
<1>3. ASSUME s \notin Lists PROVE Derive(PlainForms("returned_value", sec, Q), ";") \subseteq G
  <2>1. Active("Return", s, FALSE, Q) = R
    BY <1>1, <1>2, <1>3, PlainActive
  <2> HIDE DEF R
  <2>2. Derive("expr" ## R, ";") = {}
    BY <1>1, DeriveTerminal
  <2>3. \A t : Derive(R \cup ("expr" ## R), t) = Derive(R, t) \cup Derive("expr" ## R, t)
    BY DeriveEither
  <2> QED
    BY <1>2, <2>1, <2>2, <2>3
<1> HIDE DEF G, R
<1>4. Derive(Active("returned_value", s, sec, Q), ";") \subseteq G
  BY <1>1, <1>3, PlainGoes
<1> QED
  BY <1>4 DEF G

LEMMA ProgramGoes ==
  ASSUME NEW s, NEW sec, NEW t
  PROVE  Derive(Active("statements", s, sec, {<<>>}), t)
           \subseteq Derive(Active("statement", "statements", FALSE, Waits("statements", s, {<<>>})), t)
<1> DEFINE N == {<<>>}
           P == "Program" ## N
           G == Derive(Active("statement", "statements", FALSE, Waits("statements", s, N)), t)
<1>1. "statements" \in PlainStages /\ N \in FormSets
  BY FormsNone DEF PlainStages
<1>2. \A x : PlainForms("statements", x, N) = P
  BY PlainAre
<1>3. ASSUME s \notin Lists PROVE Derive(PlainForms("statements", sec, N), t) \subseteq G
  <2>1. Waits("statements", s, N) = P
    BY <1>1, <1>2, <1>3, WaitsPlain
  <2> HIDE DEF P
  <2>2. Active("statement", "statements", FALSE, P) = "Statement" ## P
    BY CalledStatement DEF Lists
  <2> HIDE DEF N
  <2>3. \A v \in Derive(P, t) : v \in Derive(N, t) \/ v \in Derive("Statement" ## P, t)
    BY <1>1, ReadProgram DEF P
  <2>4. Derive(N, t) = {}
    BY DeriveEmpty DEF N
  <2> QED
    BY <1>2, <2>1, <2>2, <2>3, <2>4
<1> HIDE DEF G, N
<1>4. Derive(Active("statements", s, sec, N), t) \subseteq G
  BY <1>1, <1>3, PlainGoes
<1> QED
  BY <1>4 DEF G, N

LEMMA BlockGoes ==
  ASSUME NEW Q \in FormSets, NEW s, NEW sec, NEW t
  PROVE  Derive(Active("block_body", s, sec, Q), t)
           \subseteq IF t = "}" THEN Active("Block", s, FALSE, Q)
                     ELSE Derive(Active("statement", "block_body", FALSE, Waits("block_body", s, Q)), t)
<1> DEFINE R == "}" ## Q
           P == "Statements" ## R
           G == IF t = "}" THEN Active("Block", s, FALSE, Q)
                ELSE Derive(Active("statement", "block_body", FALSE, Waits("block_body", s, Q)), t)
<1>1. /\ "block_body" \in PlainStages /\ "Block" \in PlainStages /\ R \in FormSets /\ P \in FormSets /\ "}" \in Symbols
  <2>1. R \in FormSets
    BY Terms, SymbolForms
  <2> HIDE DEF R
  <2> QED
    BY <2>1, Terms, Nonterms, NonterminalForms DEF PlainStages
<1>2. (\A x : PlainForms("block_body", x, Q) = P) /\ PlainForms("Block", FALSE, Q) = Q
  BY PlainAre
<1>3. ASSUME s \notin Lists PROVE Derive(PlainForms("block_body", sec, Q), t) \subseteq G
  <2> HIDE DEF P
  <2>a. Waits("block_body", s, Q) = PlainForms("block_body", FALSE, Q)
    BY <1>1, <1>3, WaitsPlain
  <2>b. Active("Block", s, FALSE, Q) = PlainForms("Block", FALSE, Q)
    BY <1>1, <1>3, PlainActive
  <2>1. Waits("block_body", s, Q) = P /\ Active("Block", s, FALSE, Q) = Q
    BY <1>2, <2>a, <2>b
  <2>2. \A v \in Derive(R, t) : t = "}" /\ v \in Q
    BY <1>1, TerminalReads
  <2> HIDE DEF R
  <2>3. \A v \in Derive(P, t) : v \in Derive(R, t) \/ v \in Derive("Statement" ## P, t)
    BY <1>1, ReadStatements DEF P
  <2> HIDE DEF P
  <2>4. Active("statement", "block_body", FALSE, P) = "Statement" ## P
    BY CalledStatement DEF Lists
  <2>5. t = "}" => Derive("Statement" ## P, t) = {}
    <3> SUFFICES ASSUME t = "}", NEW v \in Derive("Statement" ## P, t) PROVE FALSE
      OBVIOUS
    <3>1. t \in {"target", "type", "secret", "return", "{", "if", "for", "public"}
      BY <1>1, StatementReads, Zenon
    <3> QED
      BY <3>1
  <2> QED
    BY <1>2, <2>1, <2>2, <2>3, <2>4, <2>5
<1> HIDE DEF G
<1>4. Derive(Active("block_body", s, sec, Q), t) \subseteq G
  BY <1>1, <1>3, PlainGoes
<1> QED
  BY <1>4 DEF G

\* A branch calls parseBlock, or parseStatement from inside of a Block.
LEMMA BranchGoes ==
  ASSUME NEW Q \in FormSets, NEW s, NEW sec, NEW a \in {"then", "else"}, NEW r,
         r = IF a = "then" THEN "otherwise" ELSE "If", NEW t
  PROVE  LET W == Waits(r, s, Q)
         IN  /\ t \in {"{", "expr"} =>
                  Derive(Active(a, s, sec, Q), t) \subseteq Derive(Active("block", r, FALSE, W), t)
             /\ Derive(Active(a, s, sec, Q), t)
                  \subseteq Derive(Active("statement", "Block", FALSE, Waits("Block", r, W)), t)
<1> DEFINE W == Waits(r, s, Q)
           S == "Statement" ## W
<1>1. r \in {"otherwise", "If"} /\ r \in PlainStages /\ "Block" \in PlainStages /\ r \notin Lists /\ a \in PlainStages
      /\ "block" \in PlainStages
  BY DEF PlainStages, Lists
<1>2. W \in FormSets
  BY <1>1, WaitsType
<1>3. ASSUME s \notin Lists PROVE PlainForms(a, sec, Q) = S
  <2>1. W = PlainForms(r, FALSE, Q)
    BY <1>1, <1>3, WaitsPlain
  <2>2. CASE a = "then"
    <3>1. PlainForms("otherwise", FALSE, Q) = Alternative(Q) /\ PlainForms("then", sec, Q) = "Statement" ## Alternative(Q)
      BY PlainAre
    <3> QED
      BY <2>1, <2>2, <3>1
  <2>3. CASE a = "else"
    <3>1. PlainForms("If", FALSE, Q) = Q /\ PlainForms("else", sec, Q) = "Statement" ## Q
      BY PlainAre
    <3> QED
      BY <2>1, <2>3, <3>1
  <2> QED
    BY <2>2, <2>3
<1> HIDE DEF W
<1>4. Active("block", r, FALSE, W) = "Block" ## W /\ Waits("Block", r, W) = W
  <2>1. PlainForms("block", FALSE, W) = "Block" ## W /\ PlainForms("Block", FALSE, W) = W
    BY PlainAre
  <2>2. Active("block", r, FALSE, W) = PlainForms("block", FALSE, W)
    BY <1>1, PlainActive, ZenonT(40)
  <2>3. Waits("Block", r, W) = PlainForms("Block", FALSE, W)
    BY <1>1, WaitsPlain
  <2> QED
    BY <2>1, <2>2, <2>3
<1>5. Active("statement", "Block", FALSE, W) = S
  BY CalledStatement DEF Lists
<1>6. t \in {"{", "expr"} => Derive(S, t) \subseteq Derive("Block" ## W, t)
  BY <1>2, BraceReads
<1>7. Derive(Active(a, s, sec, Q), t) \subseteq Derive(S, t)
  <2> HIDE DEF S
  <2> QED
    BY <1>1, <1>3, PlainGoes
<1> HIDE DEF S
<1> QED
  BY <1>4, <1>5, <1>6, <1>7 DEF W

LEMMA OtherwiseGoes ==
  ASSUME NEW Q \in FormSets, NEW s, NEW sec, NEW t, Derive(Q, "else") \subseteq "Statement" ## Q
  PROVE  Derive(Active("otherwise", s, sec, Q), t)
           \subseteq IF t = "else" THEN Active("else", s, FALSE, Q) ELSE Derive(Active("If", s, FALSE, Q), t)
<1> DEFINE S == "Statement" ## Q
           E == "else" ## S
           G == IF t = "else" THEN Active("else", s, FALSE, Q) ELSE Derive(Active("If", s, FALSE, Q), t)
<1>1. "otherwise" \in PlainStages /\ "else" \in PlainStages /\ "If" \in PlainStages /\ S \in FormSets /\ "else" \in Symbols
  BY PartForms, Terms DEF PlainStages
<1>2. PlainForms("otherwise", sec, Q) = Q \cup E /\ PlainForms("else", FALSE, Q) = S /\ PlainForms("If", FALSE, Q) = Q
  BY PlainAre DEF Alternative
<1>3. ASSUME s \notin Lists PROVE Derive(PlainForms("otherwise", sec, Q), t) \subseteq G
  <2> HIDE DEF S
  <2>a. Active("else", s, FALSE, Q) = PlainForms("else", FALSE, Q)
    BY <1>1, <1>3, PlainActive
  <2>b. Active("If", s, FALSE, Q) = PlainForms("If", FALSE, Q)
    BY <1>1, <1>3, PlainActive
  <2>1. Active("else", s, FALSE, Q) = S
    BY <1>2, <2>a
  <2>2. Active("If", s, FALSE, Q) = Q
    BY <1>2, <2>b
  <2>3. Derive(E, t) = IF t = "else" THEN S ELSE {}
    BY <1>1, DeriveTerminal
  <2> HIDE DEF E
  <2>4. \A x : Derive(Q \cup E, x) = Derive(Q, x) \cup Derive(E, x)
    BY DeriveEither
  <2>5. t = "else" => Derive(Q, t) \subseteq S
    BY DEF S
  <2> QED
    BY <1>2, <2>1, <2>2, <2>3, <2>4, <2>5
<1> HIDE DEF G
<1>4. Derive(Active("otherwise", s, sec, Q), t) \subseteq G
  BY <1>1, <1>3, PlainGoes
<1> QED
  BY <1>4 DEF G

LEMMA ParametersGo ==
  ASSUME NEW Q \in FormSets, NEW s, NEW sec, NEW t
  PROVE  Derive(Active("parameters", s, sec, Q), t)
           \subseteq IF t = ")" THEN Active("function_body", s, FALSE, Q)
                     ELSE Derive(Active("parameter_type", "parameters", FALSE, Waits("parameters", s, Q)), t)
<1> DEFINE B == "Block" ## Q
           F == ForEnding(Q)
           O == "Others" ## F
           D == "Datatype" ## ("id" ## O)
           P == "Parameters" ## F
           G == IF t = ")" THEN Active("function_body", s, FALSE, Q)
                ELSE Derive(Active("parameter_type", "parameters", FALSE, Waits("parameters", s, Q)), t)
<1>1. /\ "parameters" \in PlainStages /\ "function_body" \in PlainStages /\ "parameter_type" \in PlainStages
      /\ "parameters" \notin Lists
  BY DEF PlainStages, Lists
<1>2. B \in FormSets /\ F \in FormSets /\ O \in FormSets /\ ("id" ## O) \in FormSets /\ ")" \in Symbols
  BY PartForms, Terms
<1>3. PlainForms("parameters", sec, Q) = P \cup D /\ PlainForms("function_body", FALSE, Q) = B
  BY LoopsAre
<1>4. ASSUME s \notin Lists PROVE Derive(PlainForms("parameters", sec, Q), t) \subseteq G
  <2> HIDE DEF B
  <2>1. Active("function_body", s, FALSE, Q) = B
    BY <1>1, <1>3, <1>4, PlainActive
  <2>2. Waits("parameters", s, Q) = O
    BY <1>4 DEF Waits, Lists
  <2>3. \A v \in Derive(F, t) : t = ")" /\ v \in B
    BY <1>2, TerminalReads DEF ForEnding, B
  <2> HIDE DEF O, F
  <2>4. PlainForms("parameter_type", FALSE, O) = D
    <3>1. PlainForms("parameter_type", FALSE, O) = TypeOr(FALSE) ## ("id" ## O)
      BY LoopsAre
    <3> QED
      BY <3>1 DEF TypeOr
  <2>5. Active("parameter_type", "parameters", FALSE, O) = D
    BY <1>1, <2>4, PlainActive
  <2>6. \A v \in Derive(P, t) : v \in Derive(F, t) \/ v \in Derive(D, t)
    BY <1>2, ReadParameters DEF O
  <2>7. \A v \in Derive(D, t) : t # ")"
    <3> SUFFICES ASSUME NEW v \in Derive(D, t) PROVE t # ")"
      OBVIOUS
    <3> DEFINE R == "id" ## O
    <3>1. R \in FormSets /\ v \in Derive("Datatype" ## R, t)
      BY <1>2
    <3> HIDE DEF R
    <3>2. t = "type" \/ t = "secret"
      BY <3>1, DatatypeReads, Zenon
    <3> QED
      BY <3>2
  <2> HIDE DEF P, D
  <2>8. \A x : Derive(P \cup D, x) = Derive(P, x) \cup Derive(D, x)
    BY DeriveEither
  <2> QED
    BY <1>3, <2>1, <2>2, <2>3, <2>5, <2>6, <2>7, <2>8
<1> HIDE DEF G
<1>5. Derive(Active("parameters", s, sec, Q), t) \subseteq G
  BY <1>1, <1>4, PlainGoes
<1> QED
  BY <1>5 DEF G

LEMMA BodyGoes ==
  ASSUME NEW Q \in FormSets, NEW s, NEW sec, NEW a \in {"function_body", "for_body"}, NEW r,
         r = IF a = "for_body" THEN "For" ELSE "Function"
  PROVE  Active(a, s, sec, Q) \subseteq Active("block", r, FALSE, Waits(r, s, Q))
<1>1. r \in {"For", "Function"} /\ r \in PlainStages /\ r \notin Lists /\ a \in PlainStages /\ "block" \in PlainStages
  BY DEF PlainStages, Lists
<1>2. PlainForms(a, sec, Q) = "Block" ## Q
  BY DEF PlainForms
<1>3. PlainForms(r, FALSE, Q) = Q
  BY <1>1 DEF PlainForms
<1>4. CASE s \in Lists
  BY <1>1, <1>4, PlainActive
<1>5. CASE s \notin Lists
  <2>1. Waits(r, s, Q) = Q
    BY <1>1, <1>3, <1>5, WaitsPlain
  <2>2. Active("block", r, FALSE, Q) = PlainForms("block", FALSE, Q)
    BY <1>1, PlainActive
  <2>3. PlainForms("block", FALSE, Q) = "Block" ## Q
    BY PlainAre
  <2>4. Active(a, s, sec, Q) = "Block" ## Q
    BY <1>1, <1>2, <1>5, PlainActive
  <2> QED
    BY <2>1, <2>2, <2>3, <2>4
<1> QED
  BY <1>4, <1>5

LEMMA InitializerGoes ==
  ASSUME NEW Q \in FormSets, NEW s, NEW sec, NEW t
  PROVE  Derive(Active("initializer", s, sec, Q), t)
           \subseteq IF t = ";" THEN Active("for_condition", s, FALSE, Q)
                     ELSE Derive(Active("statement", "initializers", FALSE, Waits("initializers", s, Q)), t)
<1> DEFINE F == ForTest(Q)
           E == ";" ## F
           M == "More" ## E
           G == IF t = ";" THEN Active("for_condition", s, FALSE, Q)
                ELSE Derive(Active("statement", "initializers", FALSE, Waits("initializers", s, Q)), t)
<1>1. "initializer" \in PlainStages /\ "initializers" \in PlainStages /\ "for_condition" \in PlainStages
  BY DEF PlainStages
<1>2. F \in FormSets /\ E \in FormSets /\ M \in FormSets /\ ";" \in Symbols
  <2>1. F \in FormSets /\ E \in FormSets
    BY PartForms
  <2> HIDE DEF E
  <2> QED
    BY <2>1, Terms, Nonterms, NonterminalForms
<1>3. /\ PlainForms("initializer", sec, Q) = "Clauses" ## E /\ PlainForms("for_condition", FALSE, Q) = F
      /\ PlainForms("initializers", FALSE, Q) = F
  BY LoopsAre, ZenonT(40)
<1>4. ASSUME s \notin Lists PROVE Derive(PlainForms("initializer", sec, Q), t) \subseteq G
  <2> HIDE DEF F
  <2>1. Active("for_condition", s, FALSE, Q) = F
    BY <1>1, <1>3, <1>4, PlainActive
  <2>2. Waits("initializers", s, Q) = F
    BY <1>1, <1>3, <1>4, WaitsPlain
  <2>3. Active("statement", "initializers", FALSE, F) = "Clause" ## M
    BY CalledClause
  <2>4. \A v \in Derive(E, t) : t = ";" /\ v \in F
    BY <1>2, TerminalReads
  <2> HIDE DEF E
  <2>5. \A v \in Derive("Clauses" ## E, t) : v \in Derive(E, t) \/ v \in Derive("Clause" ## M, t)
    BY <1>2, ReadClauses
  <2> HIDE DEF M
  <2>6. \A v \in Derive("Clause" ## M, t) : t # ";"
    <3> SUFFICES ASSUME NEW v \in Derive("Clause" ## M, t) PROVE t # ";"
      OBVIOUS
    <3>1. t \in {"target", "type", "secret"}
      BY <1>2, ClauseReads, Zenon
    <3> QED
      BY <3>1
  <2> QED
    BY <1>3, <2>1, <2>2, <2>3, <2>4, <2>5, <2>6
<1> HIDE DEF G
<1>5. Derive(Active("initializer", s, sec, Q), t) \subseteq G
  BY <1>1, <1>4, PlainGoes
<1> QED
  BY <1>5 DEF G

LEMMA UpdateGoes ==
  ASSUME NEW Q \in FormSets, NEW s, NEW sec, NEW t
  PROVE  Derive(Active("update", s, sec, Q), t)
           \subseteq IF t = ")" THEN Derive(Active("for_close", s, FALSE, Q), t)
                     ELSE Derive(Active("statement", "updates", FALSE, Waits("updates", s, Q)), t)
<1> DEFINE F == ForEnding(Q)
           M == "More" ## F
           G == IF t = ")" THEN Derive(Active("for_close", s, FALSE, Q), t)
                ELSE Derive(Active("statement", "updates", FALSE, Waits("updates", s, Q)), t)
<1>1. "update" \in PlainStages /\ "updates" \in PlainStages /\ "for_close" \in PlainStages
  BY DEF PlainStages
<1>2. F \in FormSets /\ M \in FormSets /\ ")" \in Symbols /\ ("Block" ## Q) \in FormSets
  BY PartForms, Terms
<1>3. /\ PlainForms("update", sec, Q) = "Clauses" ## F /\ PlainForms("for_close", FALSE, Q) = F
      /\ PlainForms("updates", FALSE, Q) = M
  BY LoopsAre, ZenonT(40) DEF Updates
<1>4. ASSUME s \notin Lists PROVE Derive(PlainForms("update", sec, Q), t) \subseteq G
  <2>1. \A v \in Derive(F, t) : t = ")"
    BY <1>2, TerminalReads DEF ForEnding
  <2> HIDE DEF F
  <2>2. Active("for_close", s, FALSE, Q) = F
    BY <1>1, <1>3, <1>4, PlainActive
  <2>3. \A v \in Derive("Clauses" ## F, t) : v \in Derive(F, t) \/ v \in Derive("Clause" ## M, t)
    BY <1>2, ReadClauses
  <2> HIDE DEF M
  <2>4. Waits("updates", s, Q) = M
    BY <1>1, <1>3, <1>4, WaitsPlain
  <2>5. Active("statement", "updates", FALSE, M) = "Clause" ## M
    BY CalledClause
  <2>6. \A v \in Derive("Clause" ## M, t) : t # ")"
    <3> SUFFICES ASSUME NEW v \in Derive("Clause" ## M, t) PROVE t # ")"
      OBVIOUS
    <3>1. t \in {"target", "type", "secret"}
      BY <1>2, ClauseReads, Zenon
    <3> QED
      BY <3>1
  <2> QED
    BY <1>3, <2>1, <2>2, <2>3, <2>4, <2>5, <2>6
<1> HIDE DEF G
<1>5. Derive(Active("update", s, sec, Q), t) \subseteq G
  BY <1>1, <1>4, PlainGoes
<1> QED
  BY <1>5 DEF G

LEMMA UpdatesGo ==
  ASSUME NEW Q \in FormSets, NEW s, NEW sec, NEW t, t # ","
  PROVE  Derive(Active("updates", s, sec, Q), t) \subseteq Derive(Active("for_close", s, FALSE, Q), t)
<1> DEFINE F == ForEnding(Q)
           M == "More" ## F
           N == "Clause" ## M
           G == Derive(Active("for_close", s, FALSE, Q), t)
<1>1. "updates" \in PlainStages /\ "for_close" \in PlainStages
  BY DEF PlainStages
<1>2. F \in FormSets /\ M \in FormSets /\ "," \in Symbols
  BY PartForms, Terms
<1>3. N \in FormSets
  <2> HIDE DEF M
  <2> QED
    BY <1>2, Nonterms, NonterminalForms
<1>4. PlainForms("for_close", FALSE, Q) = F /\ PlainForms("updates", sec, Q) = M
  BY LoopsAre
<1>5. ASSUME s \notin Lists PROVE Derive(PlainForms("updates", sec, Q), t) \subseteq G
  <2> HIDE DEF F
  <2>1. Active("for_close", s, FALSE, Q) = F
    BY <1>1, <1>4, <1>5, PlainActive
  <2>2. \A v \in Derive(M, t) : v \in Derive(F, t) \/ v \in Derive("," ## N, t)
    BY <1>2, ReadMore
  <2> HIDE DEF N
  <2>3. \A v \in Derive("," ## N, t) : t = ","
    BY <1>2, <1>3, TerminalReads
  <2> QED
    BY <1>4, <2>1, <2>2, <2>3
<1> HIDE DEF G
<1>6. Derive(Active("updates", s, sec, Q), t) \subseteq G
  BY <1>1, <1>5, PlainGoes
<1> QED
  BY <1>6 DEF G

LEMMA WrappedSame ==
  ASSUME NEW Q, NEW s, NEW sec
  PROVE  /\ Active("initializers", s, sec, Q) = Active("for_condition", s, FALSE, Q)
         /\ Active("update_block", s, sec, Q) = Active("for_body", s, FALSE, Q)
<1>1. /\ "initializers" \in PlainStages /\ "for_condition" \in PlainStages
      /\ "update_block" \in PlainStages /\ "for_body" \in PlainStages
  BY DEF PlainStages
<1>2. /\ PlainForms("initializers", sec, Q) = PlainForms("for_condition", FALSE, Q)
      /\ PlainForms("update_block", sec, Q) = PlainForms("for_body", FALSE, Q)
  BY DEF PlainForms
<1>3. Active("initializers", s, sec, Q) = Active("for_condition", s, FALSE, Q)
  BY <1>1, <1>2, PlainActive, ZenonT(40)
<1>4. Active("update_block", s, sec, Q) = Active("for_body", s, FALSE, Q)
  BY <1>1, <1>2, PlainActive, ZenonT(40)
<1> QED
  BY <1>3, <1>4

---------------------------------------------------------------------------
(* An else that may follow belongs to an if that waits, and then to a      *)
(* statement before what may follow anyway.                                *)

ElseWaits(Q) == Derive(Q, "else") \subseteq "Statement" ## Q

LEMMA ElseNot ==
  ASSUME NEW Q, Derive(Q, "else") = {}
  PROVE  ElseWaits(Q)
BY DEF ElseWaits
LEMMA ElseNothing == ElseWaits({}) /\ ElseWaits({<<>>})
BY DeriveNothing, DeriveEmpty DEF ElseWaits

LEMMA ElseStatement ==
  ASSUME NEW Q \in FormSets
  PROVE  Derive("Statement" ## Q, "else") = {} /\ Derive("Clause" ## Q, "else") = {} /\ Derive("Datatype" ## Q, "else") = {}
<1>1. ASSUME NEW v \in Derive("Statement" ## Q, "else") PROVE FALSE
  <2>1. "else" \in {"target", "type", "secret", "return", "{", "if", "for", "public"}
    BY StatementReads, Zenon
  <2> QED
    BY <2>1
<1>2. ASSUME NEW v \in Derive("Clause" ## Q, "else") PROVE FALSE
  <2>1. "else" \in {"target", "type", "secret"}
    BY ClauseReads, Zenon
  <2> QED
    BY <2>1
<1>3. ASSUME NEW v \in Derive("Datatype" ## Q, "else") PROVE FALSE
  <2>1. "else" = "type" \/ "else" = "secret"
    BY DatatypeReads, Zenon
  <2> QED
    BY <2>1
<1> QED
  BY <1>1, <1>2, <1>3

LEMMA ElseProgram ==
  ASSUME NEW Q \in FormSets, Derive(Q, "else") = {}
  PROVE  ElseWaits("Program" ## Q) /\ ElseWaits("Statements" ## Q)
<1>1. ("Program" ## Q) \in FormSets /\ ("Statements" ## Q) \in FormSets
  BY Nonterms, NonterminalForms
<1>2. Derive("Program" ## Q, "else") = {}
  <2> DEFINE R == "Program" ## Q
  <2>1. \A v \in Derive(R, "else") : v \in Derive(Q, "else") \/ v \in Derive("Statement" ## R, "else")
    BY ReadProgram
  <2> HIDE DEF R
  <2>2. Derive("Statement" ## R, "else") = {}
    BY <1>1, ElseStatement DEF R
  <2>3. Derive(R, "else") = {}
    BY <2>1, <2>2
  <2> QED
    BY <2>3 DEF R
<1>3. Derive("Statements" ## Q, "else") = {}
  <2> DEFINE R == "Statements" ## Q
  <2>1. \A v \in Derive(R, "else") : v \in Derive(Q, "else") \/ v \in Derive("Statement" ## R, "else")
    BY ReadStatements
  <2> HIDE DEF R
  <2>2. Derive("Statement" ## R, "else") = {}
    BY <1>1, ElseStatement DEF R
  <2>3. Derive(R, "else") = {}
    BY <2>1, <2>2
  <2> QED
    BY <2>3 DEF R
<1> QED
  BY <1>2, <1>3, ElseNot

\* Behind the brackets of a for there is no else, nor in its lists.
LEMMA ElseLoop ==
  ASSUME NEW Q \in FormSets
  PROVE  ElseWaits(ForTest(Q)) /\ ElseWaits("More" ## ForEnding(Q)) /\ ElseWaits("Others" ## ForEnding(Q))
<1> DEFINE B == "Block" ## Q
           E == ForEnding(Q)
           U == ";" ## Updates(Q)
<1>1. B \in FormSets /\ E \in FormSets /\ U \in FormSets /\ ("More" ## E) \in FormSets /\ ("id" ## ("Others" ## E)) \in FormSets
  BY PartForms
<1>2. ")" \in Symbols /\ "expr" \in Symbols /\ "," \in Symbols
  BY Terms
<1>3. Derive(E, "else") = {}
  <2> HIDE DEF B
  <2>1. E = ")" ## B
    BY DEF B, ForEnding
  <2>2. Derive(")" ## B, "else") = {}
    BY <1>1, <1>2, DeriveTerminal
  <2> QED
    BY <2>1, <2>2
<1>4. Derive(ForTest(Q), "else") = {}
  <2> HIDE DEF U
  <2>1. ForTest(Q) = "expr" ## U
    BY DEF U, ForTest
  <2>2. Derive("expr" ## U, "else") = {}
    BY <1>1, <1>2, DeriveTerminal
  <2> QED
    BY <2>1, <2>2
<1> HIDE DEF B, E
<1>5. Derive("More" ## E, "else") = {}
  <2> DEFINE N == "Clause" ## ("More" ## E)
  <2>1. N \in FormSets
    <3> DEFINE M == "More" ## E
    <3>1. M \in FormSets
      BY <1>1
    <3> HIDE DEF M
    <3>2. ("Clause" ## M) \in FormSets
      BY <3>1, Nonterms, NonterminalForms
    <3> QED
      BY <3>2 DEF M
  <2>2. \A v \in Derive("More" ## E, "else") : v \in Derive(E, "else") \/ v \in Derive("," ## N, "else")
    BY <1>1, ReadMore
  <2> HIDE DEF N
  <2>3. Derive("," ## N, "else") = {}
    BY <1>2, <2>1, DeriveTerminal
  <2> QED
    BY <1>3, <2>2, <2>3
<1>6. Derive("Others" ## E, "else") = {}
  <2> DEFINE N == "Datatype" ## ("id" ## ("Others" ## E))
  <2>1. N \in FormSets
    <3> DEFINE M == "id" ## ("Others" ## E)
    <3>1. M \in FormSets
      BY <1>1
    <3> HIDE DEF M
    <3>2. ("Datatype" ## M) \in FormSets
      BY <3>1, Nonterms, NonterminalForms
    <3> QED
      BY <3>2 DEF M
  <2>2. \A v \in Derive("Others" ## E, "else") : v \in Derive(E, "else") \/ v \in Derive("," ## N, "else")
    BY <1>1, ReadOthers
  <2> HIDE DEF N
  <2>3. Derive("," ## N, "else") = {}
    BY <1>2, <2>1, DeriveTerminal
  <2> QED
    BY <1>3, <2>2, <2>3
<1> QED
  BY <1>4, <1>5, <1>6, ElseNot DEF E

LEMMA ElseKept ==
  ASSUME NEW Q \in FormSets, ElseWaits(Q), NEW s, NEW r \in Suspended,
         r = "statements" => Derive(Q, "else") = {}
  PROVE  Waits(r, s, Q) \in FormSets /\ ElseWaits(Waits(r, s, Q))
<1>1. r \in PlainStages
  BY DEF Suspended, PlainStages
<1>2. Waits(r, s, Q) \in FormSets
  BY <1>1, WaitsType
<1>3. CASE s \in Lists
  <2>1. Active(r, s, FALSE, Q) = {}
    BY <1>1, <1>3, PlainActive
  <2>2. Waits(r, s, Q) = {}
    BY <1>3, <2>1 DEF Waits, Lists
  <2> QED
    BY <1>2, <2>2, ElseNothing
<1>4. CASE s \notin Lists /\ r = "parameters"
  <2>1. Waits(r, s, Q) = "Others" ## ForEnding(Q)
    BY <1>4 DEF Waits, Lists
  <2> QED
    BY <1>2, <2>1, ElseLoop
<1>5. CASE s \notin Lists /\ r # "parameters"
  <2>1. Waits(r, s, Q) = PlainForms(r, FALSE, Q)
    BY <1>1, <1>5, WaitsPlain
  <2>2. CASE r \in {"Block", "If", "For", "Function"}
    <3>1. PlainForms(r, FALSE, Q) = Q
      BY <2>2 DEF PlainForms
    <3> QED
      BY <1>2, <2>1, <3>1
  <2>3. CASE r = "statements"
    <3>1. PlainForms(r, FALSE, Q) = "Program" ## Q
      BY <2>3 DEF PlainForms
    <3> QED
      BY <1>2, <2>1, <2>3, <3>1, ElseProgram
  <2>4. CASE r = "block_body"
    <3> DEFINE R == "}" ## Q
    <3>1. PlainForms(r, FALSE, Q) = "Statements" ## R
      BY <2>4 DEF PlainForms
    <3>2. R \in FormSets /\ Derive(R, "else") = {}
      BY Terms, SymbolForms, DeriveTerminal
    <3> HIDE DEF R
    <3> QED
      BY <1>2, <2>1, <3>1, <3>2, ElseProgram
  <2>5. CASE r = "otherwise"
    <3> DEFINE A == Alternative(Q)
               S == "Statement" ## Q
               E == "else" ## S
    <3>1. PlainForms(r, FALSE, Q) = A /\ A = Q \cup E
      BY <2>5 DEF PlainForms, Alternative
    <3>2. S \in FormSets /\ "else" \in Symbols
      BY PartForms, Terms
    <3>3. S \subseteq "Statement" ## A
      BY <3>1, ThenMore
    <3>4. Derive(Q, "else") \subseteq S
      BY DEF ElseWaits
    <3> HIDE DEF S, A
    <3>5. Derive(E, "else") = S
      BY <3>2, DeriveTerminal
    <3> HIDE DEF E
    <3>6. \A x : Derive(Q \cup E, x) = Derive(Q, x) \cup Derive(E, x)
      BY DeriveEither
    <3>7. Derive(A, "else") \subseteq "Statement" ## A
      BY <3>1, <3>3, <3>4, <3>5, <3>6
    <3> QED
      BY <1>2, <2>1, <3>1, <3>7 DEF ElseWaits
  <2>6. CASE r = "initializers"
    <3>1. PlainForms(r, FALSE, Q) = ForTest(Q)
      BY <2>6 DEF PlainForms
    <3> QED
      BY <1>2, <2>1, <3>1, ElseLoop
  <2>7. CASE r = "updates"
    <3>1. PlainForms(r, FALSE, Q) = "More" ## ForEnding(Q)
      BY <2>7 DEF PlainForms
    <3> QED
      BY <1>2, <2>1, <3>1, ElseLoop
  <2> QED
    BY <1>5, <2>2, <2>3, <2>4, <2>5, <2>6, <2>7 DEF Suspended
<1> QED
  BY <1>3, <1>4, <1>5

---------------------------------------------------------------------------
(* What may follow behind each of the active productions.                  *)

\* qs[i] may follow behind fs[i].
Stacked(qs, fs) ==
  /\ qs \in Seq(FormSets) /\ Len(qs) = Len(fs)
  /\ qs[1] = {<<>>}
  /\ \A i \in 1..Len(fs) : ElseWaits(qs[i])
  /\ \A i \in 1..(Len(fs) - 1) : qs[i + 1] = Waits(fs[i].stage, CalledAt(fs, i), qs[i])

LEMMA StackedTop ==
  ASSUME NEW fs, Len(fs) \in Nat, Len(fs) >= 1, NEW qs, Stacked(qs, fs)
  PROVE  /\ qs[Len(fs)] \in FormSets /\ ElseWaits(qs[Len(fs)])
         /\ Len(fs) = 1 => qs[Len(fs)] = {<<>>} /\ CalledAt(fs, Len(fs)) = "none"
         /\ Len(fs) > 1 => CalledAt(fs, Len(fs)) = fs[Len(fs) - 1].stage
<1>1. Len(fs) \in 1..Len(qs) /\ Len(fs) \in 1..Len(fs) /\ qs \in Seq(FormSets)
  BY DEF Stacked
<1>2. qs[Len(fs)] \in FormSets
  BY <1>1, ElementOfSeq
<1> QED
  BY <1>1, <1>2 DEF Stacked, CalledAt

LEMMA StackedSame ==
  ASSUME NEW fs, Len(fs) \in Nat, Len(fs) >= 1, NEW qs, Stacked(qs, fs), NEW gs, Differ(fs, gs, Len(fs))
  PROVE  Stacked(qs, gs) /\ Len(gs) = Len(fs) /\ CalledAt(gs, Len(fs)) = CalledAt(fs, Len(fs))
<1>1. Len(gs) = Len(fs) /\ \A j \in 1..(Len(fs) - 1) : gs[j] = fs[j]
  BY DEF Differ
<1>2. \A i \in 1..Len(fs) : i > 1 => i - 1 \in 1..(Len(fs) - 1)
  OBVIOUS
<1>3. \A i \in 1..Len(fs) : CalledAt(gs, i) = CalledAt(fs, i)
  BY <1>1, <1>2 DEF CalledAt
<1>4. \A i \in 1..(Len(fs) - 1) : i \in 1..Len(fs)
  OBVIOUS
<1> QED
  BY <1>1, <1>3, <1>4 DEF Stacked

LEMMA StackedCall ==
  ASSUME NEW fs, Len(fs) \in Nat, Len(fs) >= 1, NEW qs, Stacked(qs, fs), NEW gs, Len(gs) = Len(fs) + 1,
         \A j \in 1..(Len(fs) - 1) : gs[j] = fs[j],
         NEW r \in Suspended, gs[Len(fs)].stage = r, r = "statements" => Len(fs) = 1
  PROVE  /\ CalledAt(gs, Len(fs) + 1) = r
         /\ \E ps : Stacked(ps, gs) /\ ps[Len(fs) + 1] = Waits(r, CalledAt(fs, Len(fs)), qs[Len(fs)])
<1> DEFINE n == Len(fs)
           Q == qs[n]
           W == Waits(r, CalledAt(fs, n), Q)
           ps == Append(qs, W)
<1>1. Q \in FormSets /\ ElseWaits(Q) /\ qs \in Seq(FormSets) /\ Len(qs) = n
  BY StackedTop DEF Stacked
<1>2. r = "statements" => Derive(Q, "else") = {}
  BY StackedTop, DeriveEmpty
<1>3. W \in FormSets /\ ElseWaits(W)
  <2> HIDE DEF Q
  <2> QED
    BY <1>1, <1>2, ElseKept
<1>4. /\ ps \in Seq(FormSets) /\ Len(ps) = n + 1 /\ ps[n + 1] = W
      /\ \A i \in 1..n : ps[i] = qs[i]
  <2> HIDE DEF W
  <2> QED
    BY <1>1, <1>3, Pushed
<1>5. \A i \in 1..n : CalledAt(gs, i) = CalledAt(fs, i)
  <2>1. \A i \in 1..n : i > 1 => i - 1 \in 1..(n - 1)
    OBVIOUS
  <2> QED
    BY <2>1 DEF CalledAt
<1>6. CalledAt(gs, n + 1) = r
  BY DEF CalledAt
<1>7. ps[1] = {<<>>}
  BY <1>4 DEF Stacked
<1>8. \A i \in 1..(n + 1) : ElseWaits(ps[i])
  <2> TAKE i \in 1..(n + 1)
  <2>1. CASE i = n + 1
    BY <1>3, <1>4, <2>1
  <2>2. CASE i # n + 1
    <3>1. i \in 1..n
      BY <2>2
    <3> QED
      BY <1>4, <3>1 DEF Stacked
  <2> QED
    BY <2>1, <2>2
<1>9. \A i \in 1..n : ps[i + 1] = Waits(gs[i].stage, CalledAt(gs, i), ps[i])
  <2> TAKE i \in 1..n
  <2>1. CASE i = n
    BY <1>4, <1>5, <2>1
  <2>2. CASE i # n
    <3>1. i \in 1..(n - 1) /\ i + 1 \in 1..n
      BY <2>2
    <3>2. qs[i + 1] = Waits(fs[i].stage, CalledAt(fs, i), qs[i]) /\ gs[i] = fs[i]
      BY <3>1 DEF Stacked
    <3> HIDE DEF ps
    <3>3. ps[i + 1] = qs[i + 1] /\ ps[i] = qs[i]
      BY <1>4, <3>1
    <3> QED
      BY <1>5, <3>2, <3>3
  <2> QED
    BY <2>1, <2>2
<1> HIDE DEF W, ps
<1>10. (n + 1) - 1 = n
  OBVIOUS
<1>11. Stacked(ps, gs)
  BY <1>4, <1>7, <1>8, <1>9, <1>10 DEF Stacked
<1>12. ps[n + 1] = Waits(r, CalledAt(fs, n), qs[n])
  BY <1>4 DEF W
<1> QED
  BY <1>6, <1>11, <1>12

LEMMA StackedReturn ==
  ASSUME NEW fs, Len(fs) \in Nat, Len(fs) > 1, NEW qs, Stacked(qs, fs), NEW gs, Len(gs) = Len(fs) - 1,
         \A j \in 1..(Len(fs) - 2) : gs[j] = fs[j], gs[Len(gs)].stage = fs[Len(fs) - 1].stage
  PROVE  LET ps == Pop(qs)
         IN  /\ Stacked(ps, gs)
             /\ qs[Len(fs)] = Waits(gs[Len(gs)].stage, CalledAt(gs, Len(gs)), ps[Len(gs)])
             /\ CalledAt(fs, Len(fs)) = gs[Len(gs)].stage
<1> DEFINE n == Len(fs)
           ps == Pop(qs)
<1>1. qs \in Seq(FormSets) /\ Len(qs) = n /\ n > 0 /\ n - 1 \in 1..(n - 1) /\ (n - 1) + 1 = n
  BY DEF Stacked
<1>2. ps \in Seq(FormSets) /\ Len(ps) = n - 1 /\ \A i \in 1..(n - 1) : ps[i] = qs[i]
  BY <1>1, Popped
<1>3. \A i \in 1..(n - 1) : CalledAt(gs, i) = CalledAt(fs, i)
  <2>1. \A i \in 1..(n - 1) : i > 1 => i - 1 \in 1..(n - 2)
    OBVIOUS
  <2> QED
    BY <2>1 DEF CalledAt
<1>4. \A i \in 1..(n - 1) : gs[i].stage = fs[i].stage
  <2> TAKE i \in 1..(n - 1)
  <2>1. CASE i = n - 1
    BY <2>1
  <2>2. CASE i # n - 1
    <3>1. i \in 1..(n - 2)
      BY <2>2
    <3> QED
      BY <3>1
  <2> QED
    BY <2>1, <2>2
<1>5. \A i \in 1..(n - 1) : qs[i + 1] = Waits(gs[i].stage, CalledAt(gs, i), qs[i])
  BY <1>3, <1>4 DEF Stacked
<1>6. CalledAt(fs, n) = gs[Len(gs)].stage
  BY DEF CalledAt
<1> HIDE DEF ps
<1>7. \A i \in 1..((n - 1) - 1) : i \in 1..(n - 1) /\ i + 1 \in 1..(n - 1)
  OBVIOUS
<1>8. \A i \in 1..((n - 1) - 1) : ps[i + 1] = Waits(gs[i].stage, CalledAt(gs, i), ps[i])
  BY <1>2, <1>5, <1>7
<1>9. ps[1] = {<<>>} /\ \A i \in 1..(n - 1) : ElseWaits(ps[i])
  <2>1. 1 \in 1..(n - 1) /\ \A i \in 1..(n - 1) : i \in 1..n
    BY <1>1
  <2> QED
    BY <1>2, <2>1 DEF Stacked
<1>10. Stacked(ps, gs)
  BY <1>2, <1>8, <1>9 DEF Stacked
<1>11. qs[n] = Waits(gs[n - 1].stage, CalledAt(gs, n - 1), qs[n - 1])
  BY <1>1, <1>5
<1> QED
  BY <1>1, <1>2, <1>6, <1>10, <1>11 DEF ps

---------------------------------------------------------------------------
(* One symbol.                                                             *)

Secretly(w) == w # <<>> /\ Top(w) = "secret"

LEMMA Reading ==
  ASSUME NEW w \in Seq(Symbols), NEW y \in Symbols, NEW E, Derive(Forms(w), y) \subseteq E
  PROVE  \A t : Derive(Forms(Append(w, y)), t) \subseteq Derive(E, t)
<1>1. Forms(Append(w, y)) = Derive(Forms(w), y)
  BY FormsNext
<1> QED
  BY <1>1, DeriveMore

LEMMA Rejecting ==
  ASSUME NEW w \in Seq(Symbols), NEW t \in Symbols \cup {"eof"}, Derive(Forms(w), t) = {}
  PROVE  ~Viable(Append(w, t))
<1> DEFINE S == Symbols \cup {"eof"}
<1>1. w \in Seq(S) /\ t \in S
  <2>1. Symbols \subseteq S
    OBVIOUS
  <2> QED
    BY <2>1
<1> HIDE DEF S
<1>2. Forms(Append(w, t)) = Derive(Forms(w), t)
  BY <1>1, FormsNext
<1> QED
  BY <1>2 DEF Viable

LEMMA SecretRead ==
  ASSUME NEW w \in Seq(Symbols), NEW y \in Symbols
  PROVE  Append(w, y) \in Seq(Symbols) /\ (Secretly(Append(w, y)) <=> y = "secret")
<1> DEFINE v == Append(w, y)
<1>1. v \in Seq(Symbols) /\ Len(v) = Len(w) + 1 /\ v[Len(w) + 1] = y /\ Len(w) \in Nat
  BY Pushed
<1> HIDE DEF v
<1>2. v # <<>>
  BY <1>1
<1>3. Top(v) = y
  BY <1>1 DEF Top
<1> QED
  BY <1>1, <1>2, <1>3 DEF Secretly, v

---------------------------------------------------------------------------
(* The invariant: whatever the grammar lets follow, the active productions *)
(* let follow, too.                                                        *)

\* The forms the active production goes on with.
Awaited(qs, fs, w) ==
  Active(fs[Len(fs)].stage, CalledAt(fs, Len(fs)), Secretly(w), qs[Len(fs)])
Tracks(qs, fs, w, look) ==
  /\ Stacked(qs, fs)
  /\ \A t \in Begins(look) : Derive(Forms(w), t) \subseteq Derive(Awaited(qs, fs, w), t)
\* A second statement starts at its comma.
Astray(fs, look) ==
  /\ look = "," /\ fs[Len(fs)].stage \in {"statement", "target"}
  /\ \E f \in 1..(Len(fs) - 1) : fs[f].stage \in Lists
Awaits == \E qs : \/ Tracks(qs, frames, consumed, it)
                  \/ Stacked(qs, frames) /\ Astray(frames, it)
Marked == Secretly(consumed) => Here.stage \in TypeStages
Seen == consumed \in Seq(Symbols) /\ it \in AllTokens \cup {"eof"}
Viewed == Sound(frames, heap) /\ Formed(frames, it) /\ Seen /\ Marked /\ Awaits

\* From stage a, the production goes on at r: with the symbol y, and without one.
OnRead(a, sec, y, r) ==
  \A Q \in FormSets : \A s :
    ElseWaits(Q) => Derive(Active(a, s, sec, Q), y) \subseteq Active(r, s, FALSE, Q)
OnStay(a, look, r) ==
  \A Q \in FormSets : \A s : ElseWaits(Q) => \A t \in Begins(look) :
    Derive(Active(a, s, FALSE, Q), t) \subseteq Derive(Active(r, s, FALSE, Q), t)
\* It calls c and is to go on at r.
OnCall(a, look, r, c) ==
  \A Q \in FormSets : \A s : (a = "statements" => Q = {<<>>}) => \A t \in Begins(look) :
    Derive(Active(a, s, FALSE, Q), t) \subseteq Derive(Active(c, r, FALSE, Waits(r, s, Q)), t)

LEMMA ViewedTop ==
  ASSUME Viewed
  PROVE  /\ Sound(frames, heap) /\ Len(frames) \in Nat /\ Len(frames) >= 1 /\ Here = frames[Len(frames)]
         /\ Here.stage \in Stages
         /\ Here.stage \notin TypeStages => Secretly(consumed) = FALSE
         /\ consumed \in Seq(Symbols) /\ it \in AllTokens \cup {"eof"}
         /\ Begins(it) \subseteq Symbols \cup {"eof"}
         /\ Here.stage = "statements" <=> Len(frames) = 1
<1>1. /\ Sound(frames, heap) /\ Len(frames) \in Nat /\ Len(frames) > 0 /\ Here = frames[Len(frames)]
      /\ Here \in FrameType /\ (Here.stage = "statements" <=> Len(frames) = 1)
  BY Now DEF Viewed
<1>2. Here.stage \in Stages
  BY <1>1 DEF FrameType
<1>3. consumed \in Seq(Symbols) /\ it \in AllTokens \cup {"eof"}
  BY DEF Viewed, Seen
<1>4. Begins(it) \subseteq Symbols \cup {"eof"}
  <2>1. \A t \in Begins(it) : t = it \/ t = "expr" \/ t = "target"
    BY BeginsIs
  <2> QED
    BY <1>3, <2>1 DEF Symbols
<1>5. Here.stage \notin TypeStages => Secretly(consumed) = FALSE
  <2>1. Secretly(consumed) \in BOOLEAN
    BY DEF Secretly
  <2> QED
    BY <2>1 DEF Viewed, Marked
<1> QED
  BY <1>1, <1>2, <1>3, <1>4, <1>5

LEMMA ClearNow ==
  ASSUME Secretly(consumed') = FALSE
  PROVE  Marked'
BY DEF Marked
LEMMA StillClear ==
  ASSUME Viewed, Here.stage \notin TypeStages, consumed' = consumed
  PROVE  Marked'
BY ViewedTop, ClearNow
LEMMA NotSecret ==
  ASSUME Viewed, NEW y \in Symbols, y # "secret", consumed' = Append(consumed, y)
  PROVE  Secretly(consumed') = FALSE
<1>1. Secretly(consumed') <=> y = "secret"
  BY ViewedTop, SecretRead
<1>2. Secretly(consumed') \in BOOLEAN
  BY DEF Secretly
<1> QED
  BY <1>1, <1>2

LEMMA TracksNow ==
  ASSUME Viewed, ~Astray(frames, it)
  PROVE  \E qs : /\ Tracks(qs, frames, consumed, it)
                 /\ Stacked(qs, frames)
                 /\ qs[Len(frames)] \in FormSets /\ ElseWaits(qs[Len(frames)])
                 /\ Len(frames) = 1 => qs[Len(frames)] = {<<>>}
<1>1. PICK qs : Tracks(qs, frames, consumed, it)
  BY DEF Viewed, Awaits
<1>2. Stacked(qs, frames)
  BY <1>1 DEF Tracks
<1> QED
  BY <1>1, <1>2, ViewedTop, StackedTop

\* A symbol is read, or none.
LEMMA TracksRead ==
  ASSUME NEW fs, NEW w \in Seq(Symbols), NEW look, NEW qs, Tracks(qs, fs, w, look),
         NEW y \in Symbols, y \in Begins(look), NEW gs, NEW ps, Stacked(ps, gs),
         Derive(Awaited(qs, fs, w), y) \subseteq Awaited(ps, gs, Append(w, y)), NEW look2
  PROVE  Tracks(ps, gs, Append(w, y), look2)
<1>1. Derive(Forms(w), y) \subseteq Awaited(ps, gs, Append(w, y))
  BY DEF Tracks
<1>2. \A t : Derive(Forms(Append(w, y)), t) \subseteq Derive(Awaited(ps, gs, Append(w, y)), t)
  BY <1>1, Reading
<1> QED
  BY <1>2 DEF Tracks
LEMMA TracksStay ==
  ASSUME NEW fs, NEW w, NEW look, NEW qs, Tracks(qs, fs, w, look), NEW gs, NEW ps, Stacked(ps, gs),
         \A t \in Begins(look) : Derive(Awaited(qs, fs, w), t) \subseteq Derive(Awaited(ps, gs, w), t)
  PROVE  Tracks(ps, gs, w, look)
BY DEF Tracks

LEMMA StepRead ==
  ASSUME Viewed, ~Astray(frames, it), NEW r, Differ(frames, frames', Len(frames)),
         frames'[Len(frames)].stage = r,
         NEW y \in Symbols, y \in Begins(it), y # "secret", consumed' = Append(consumed, y),
         OnRead(Here.stage, Secretly(consumed), y, r)
  PROVE  Awaits' /\ Marked'
<1> DEFINE n == Len(frames)
           s == CalledAt(frames, n)
<1>1. PICK qs : Tracks(qs, frames, consumed, it) /\ Stacked(qs, frames) /\ qs[n] \in FormSets /\ ElseWaits(qs[n])
  BY TracksNow
<1>2. Stacked(qs, frames') /\ Len(frames') = n /\ CalledAt(frames', n) = s
  BY <1>1, ViewedTop, StackedSame
<1>3. Secretly(consumed') = FALSE
  BY NotSecret
<1>4. Awaited(qs, frames, consumed) = Active(Here.stage, s, Secretly(consumed), qs[n])
  BY ViewedTop DEF Awaited
<1>5. Awaited(qs, frames', consumed') = Active(r, s, FALSE, qs[n])
  BY <1>2, <1>3 DEF Awaited
<1>6. Derive(Awaited(qs, frames, consumed), y) \subseteq Awaited(qs, frames', consumed')
  BY <1>1, <1>4, <1>5 DEF OnRead
<1>7. Tracks(qs, frames', consumed', it')
  BY <1>1, <1>2, <1>6, ViewedTop, TracksRead
<1>8. Marked'
  BY <1>3, ClearNow
<1> QED
  BY <1>7, <1>8 DEF Awaits

LEMMA StepStay ==
  ASSUME Viewed, ~Astray(frames, it), Here.stage \notin TypeStages, NEW r,
         Differ(frames, frames', Len(frames)), frames'[Len(frames)].stage = r,
         consumed' = consumed, it' = it, OnStay(Here.stage, it, r)
  PROVE  Awaits' /\ Marked'
<1> DEFINE n == Len(frames)
           s == CalledAt(frames, n)
<1>1. PICK qs : Tracks(qs, frames, consumed, it) /\ Stacked(qs, frames) /\ qs[n] \in FormSets /\ ElseWaits(qs[n])
  BY TracksNow
<1>2. Stacked(qs, frames') /\ Len(frames') = n /\ CalledAt(frames', n) = s
  BY <1>1, ViewedTop, StackedSame
<1>3. Awaited(qs, frames, consumed) = Active(Here.stage, s, FALSE, qs[n])
  BY ViewedTop DEF Awaited
<1>4. Awaited(qs, frames', consumed) = Active(r, s, FALSE, qs[n])
  BY <1>2, ViewedTop DEF Awaited
<1>5. \A t \in Begins(it) : Derive(Awaited(qs, frames, consumed), t) \subseteq Derive(Awaited(qs, frames', consumed), t)
  BY <1>1, <1>3, <1>4 DEF OnStay
<1>6. Tracks(qs, frames', consumed, it)
  BY <1>1, <1>2, <1>5, TracksStay
<1>7. Marked'
  BY StillClear
<1> QED
  BY <1>6, <1>7 DEF Awaits

LEMMA StepCall ==
  ASSUME Viewed, ~Astray(frames, it), Here.stage \notin TypeStages, NEW r \in Suspended, NEW c,
         r = "statements" => Len(frames) = 1,
         Len(frames') = Len(frames) + 1, \A j \in 1..(Len(frames) - 1) : frames'[j] = frames[j],
         frames'[Len(frames)].stage = r, frames'[Len(frames) + 1].stage = c,
         consumed' = consumed, it' = it, OnCall(Here.stage, it, r, c)
  PROVE  Awaits' /\ Marked'
<1> DEFINE n == Len(frames)
           s == CalledAt(frames, n)
<1>1. PICK qs : /\ Tracks(qs, frames, consumed, it) /\ Stacked(qs, frames) /\ qs[n] \in FormSets
                /\ Len(frames) = 1 => qs[n] = {<<>>}
  BY TracksNow
<1> DEFINE W == Waits(r, s, qs[n])
<1>a. Len(frames) \in Nat /\ Len(frames) >= 1
  BY ViewedTop
<1>b. CalledAt(frames', n + 1) = r /\ \E ps : Stacked(ps, frames') /\ ps[n + 1] = W
  BY <1>1, <1>a, StackedCall
<1>2. PICK ps : Stacked(ps, frames') /\ ps[n + 1] = W /\ CalledAt(frames', n + 1) = r
  BY <1>b
<1> HIDE DEF W
<1>3. Awaited(qs, frames, consumed) = Active(Here.stage, s, FALSE, qs[n])
  BY ViewedTop DEF Awaited
<1>4. Awaited(ps, frames', consumed) = Active(c, r, FALSE, W)
  <2>1. ~Secretly(consumed) /\ Secretly(consumed) = FALSE
    BY ViewedTop
  <2> QED
    BY <1>2, <2>1 DEF Awaited
<1>5. \A t \in Begins(it) : Derive(Awaited(qs, frames, consumed), t) \subseteq Derive(Awaited(ps, frames', consumed), t)
  <2>1. Here.stage = "statements" => qs[n] = {<<>>}
    BY <1>1, ViewedTop
  <2> QED
    BY <1>1, <1>3, <1>4, <2>1 DEF OnCall, W
<1>6. Tracks(ps, frames', consumed, it)
  BY <1>1, <1>2, <1>5, TracksStay
<1>7. Marked'
  BY StillClear
<1> QED
  BY <1>6, <1>7 DEF Awaits

\* The production returns to p, without a symbol and with one.
LEMMA StepReturn ==
  ASSUME Viewed, ~Astray(frames, it), Here.stage \notin TypeStages, Len(frames) > 1,
         Len(frames') = Len(frames) - 1, \A j \in 1..(Len(frames) - 2) : frames'[j] = frames[j],
         frames'[Len(frames')].stage = frames[Len(frames) - 1].stage,
         \/ /\ consumed' = consumed /\ it' = it
            /\ \A Q, R \in FormSets : \A s, u, t : s = frames[Len(frames) - 1].stage /\ t \in Begins(it) /\ Q = Waits(s, u, R)
                 => Derive(Active(Here.stage, s, FALSE, Q), t) \subseteq Derive(Active(s, u, FALSE, R), t)
         \/ \E y \in Symbols :
            /\ y \in Begins(it) /\ y # "secret" /\ consumed' = Append(consumed, y)
            /\ \A Q, R \in FormSets : \A s, u : s = frames[Len(frames) - 1].stage /\ Q = Waits(s, u, R)
                 => Derive(Active(Here.stage, s, FALSE, Q), y) \subseteq Active(s, u, FALSE, R)
  PROVE  Awaits' /\ Marked'
<1> DEFINE n == Len(frames)
           s == frames[n - 1].stage
           u == CalledAt(frames', n - 1)
<1>1. PICK qs : Tracks(qs, frames, consumed, it) /\ Stacked(qs, frames) /\ qs[n] \in FormSets
  BY TracksNow
<1> DEFINE ps == Pop(qs)
           R == ps[n - 1]
<1>2. Stacked(ps, frames') /\ qs[n] = Waits(s, u, R) /\ CalledAt(frames, n) = s
  BY <1>1, ViewedTop, StackedReturn
<1>3. R \in FormSets
  <2>1. Len(frames') \in Nat /\ Len(frames') >= 1
    BY ViewedTop
  <2> HIDE DEF ps
  <2> QED
    BY <1>2, <2>1, StackedTop
<1> HIDE DEF ps, u
<1>4. Awaited(qs, frames, consumed) = Active(Here.stage, s, FALSE, qs[n])
  BY <1>2, ViewedTop DEF Awaited
<1>5. CASE /\ consumed' = consumed /\ it' = it
           /\ \A Q, P \in FormSets : \A x, v, t : x = s /\ t \in Begins(it) /\ Q = Waits(x, v, P)
                => Derive(Active(Here.stage, x, FALSE, Q), t) \subseteq Derive(Active(x, v, FALSE, P), t)
  <2>1. Awaited(ps, frames', consumed) = Active(s, u, FALSE, R)
    BY ViewedTop DEF Awaited, u
  <2>2. \A t \in Begins(it) : Derive(Active(Here.stage, s, FALSE, qs[n]), t) \subseteq Derive(Active(s, u, FALSE, R), t)
    BY <1>1, <1>2, <1>3, <1>5, ZenonT(40)
  <2>3. Tracks(ps, frames', consumed, it)
    BY <1>1, <1>2, <1>4, <2>1, <2>2, TracksStay
  <2>4. Marked'
    BY <1>5, StillClear
  <2> QED
    BY <1>5, <2>3, <2>4 DEF Awaits
<1>6. ASSUME NEW y \in Symbols, y \in Begins(it), y # "secret", consumed' = Append(consumed, y),
             \A Q, P \in FormSets : \A x, v : x = s /\ Q = Waits(x, v, P)
                => Derive(Active(Here.stage, x, FALSE, Q), y) \subseteq Active(x, v, FALSE, P)
      PROVE  Awaits' /\ Marked'
  <2>1. Secretly(consumed') = FALSE
    BY <1>6, NotSecret
  <2>2. Awaited(ps, frames', consumed') = Active(s, u, FALSE, R)
    BY <2>1, ViewedTop DEF Awaited, u
  <2>3. Derive(Active(Here.stage, s, FALSE, qs[n]), y) \subseteq Active(s, u, FALSE, R)
    BY <1>1, <1>2, <1>3, <1>6
  <2>4. Derive(Awaited(qs, frames, consumed), y) \subseteq Awaited(ps, frames', Append(consumed, y))
    BY <1>4, <1>6, <2>2, <2>3
  <2>5. consumed \in Seq(Symbols)
    BY ViewedTop
  <2>6. Tracks(ps, frames', Append(consumed, y), it')
    BY <1>1, <1>2, <1>6, <2>4, <2>5, TracksRead
  <2>7. Tracks(ps, frames', consumed', it')
    BY <1>6, <2>6
  <2>8. Marked'
    BY <2>1, ClearNow
  <2> QED
    BY <2>7, <2>8 DEF Awaits
<1> QED
  BY <1>5, <1>6

LEMMA StepReject ==
  ASSUME Viewed, ~Astray(frames, it), NEW t \in Begins(it),
         \A Q \in FormSets : Derive(Active(Here.stage, CalledAt(frames, Len(frames)), Secretly(consumed), Q), t) = {}
  PROVE  ~Viable(Append(consumed, t))
<1> DEFINE n == Len(frames)
<1>1. PICK qs : Tracks(qs, frames, consumed, it) /\ qs[n] \in FormSets
  BY TracksNow
<1>2. Derive(Awaited(qs, frames, consumed), t) = {}
  BY <1>1, ViewedTop DEF Awaited
<1>3. Derive(Forms(consumed), t) = {}
  BY <1>1, <1>2 DEF Tracks
<1> QED
  BY <1>3, ViewedTop, Rejecting

---------------------------------------------------------------------------
(* The stages, as the steps need them.                                     *)

LEMMA BeginsHas ==
  ASSUME NEW look
  PROVE  /\ look \in Begins(look)
         /\ look \in Starts => "expr" \in Begins(look)
         /\ look = "id" => "target" \in Begins(look)
         /\ look \notin Starts => Begins(look) = {look}
BY DEF Begins, Starts

LEMMA StepsOn ==
  ASSUME NEW a, NEW sec, NEW y, NEW r,
         \A Q \in FormSets : \A s : Steps(Active(a, s, sec, Q), y, Active(r, s, FALSE, Q))
  PROVE  /\ OnRead(a, sec, y, r)
         /\ \A Q \in FormSets : \A s, t : t # y => Derive(Active(a, s, sec, Q), t) = {}
<1>1. ASSUME NEW Q \in FormSets, NEW s PROVE Derive(Active(a, s, sec, Q), y) \subseteq Active(r, s, FALSE, Q)
  BY DEF Steps
<1>2. ASSUME NEW Q \in FormSets, NEW s, NEW t, t # y PROVE Derive(Active(a, s, sec, Q), t) = {}
  <2>1. Steps(Active(a, s, sec, Q), y, Active(r, s, FALSE, Q))
    OBVIOUS
  <2>2. \A v \in Derive(Active(a, s, sec, Q), t) : t = y
    BY <2>1, Zenon DEF Steps
  <2> QED
    BY <1>2, <2>2
<1> QED
  BY <1>1, <1>2 DEF OnRead

LEMMA ExpectRead ==
  ASSUME NEW a \in DOMAIN Expected, NEW sec \in BOOLEAN
  PROVE  /\ OnRead(a, sec, Expected[a].token, Expected[a].next)
         /\ \A Q \in FormSets : \A s, t :
              t # Expected[a].token /\ (a \in TypeStages /\ t = "secret" => sec)
                => Derive(Active(a, s, sec, Q), t) = {}
<1>1. CASE a \notin TypeStages
  <2>1. \A Q \in FormSets : \A s : Steps(Active(a, s, sec, Q), Expected[a].token, Active(Expected[a].next, s, FALSE, Q))
    BY <1>1, TokenSteps
  <2> QED
    BY <1>1, <2>1, StepsOn
<1>2. CASE a \in TypeStages
  <2>1. Expected[a].token = "type" /\ \A Q \in FormSets : \A s : ReadsType(a, Expected[a].next, s, Q)
    <3>1. Expected[a].token = "type"
      BY <1>2, FormsNone, TypesRead
    <3>2. ASSUME NEW Q \in FormSets, NEW s PROVE ReadsType(a, Expected[a].next, s, Q)
      BY <1>2, TypesRead
    <3> QED
      BY <3>1, <3>2
  <2>2. CASE sec = TRUE
    <3>1. \A Q \in FormSets : \A s : Steps(Active(a, s, TRUE, Q), "type", Active(Expected[a].next, s, FALSE, Q))
      BY <2>1 DEF ReadsType
    <3> QED
      BY <2>1, <2>2, <3>1, StepsOn
  <2>3. CASE sec = FALSE
    <3>1. \A Q \in FormSets : \A s, t : \A v \in Derive(Active(a, s, FALSE, Q), t) :
            (t = "type" /\ v \in Active(Expected[a].next, s, FALSE, Q)) \/ (t = "secret" /\ v \in Active(a, s, TRUE, Q))
      BY <2>1 DEF ReadsType
    <3>2. OnRead(a, sec, Expected[a].token, Expected[a].next)
      BY <2>1, <2>3, <3>1 DEF OnRead
    <3>3. ASSUME NEW Q \in FormSets, NEW s, NEW t, t # "type", t # "secret" PROVE Derive(Active(a, s, FALSE, Q), t) = {}
      BY <3>1, <3>3
    <3> QED
      BY <1>2, <2>1, <2>3, <3>2, <3>3
  <2> QED
    BY <2>2, <2>3
<1> QED
  BY <1>1, <1>2

LEMMA ExpectTokens ==
  ASSUME NEW a \in DOMAIN Expected
  PROVE  /\ Expected[a].token \in Symbols /\ Expected[a].token \notin {"secret", "expr", "target"}
         /\ Expected[a].next \in Stages /\ a \notin {"statement", "target"}
<1>1. a \in {"for_round", "condition_end", "for_close", "if_round", "if_close", "block",
            "return_type", "function_name", "function_round", "parameter_type",
            "parameter_name", "declared_type", "array_close", "assign"}
  BY Looking
<1>2. Expected[a].token \in {"(", ";", ")", "{", "type", "id", "]", "="}
  BY <1>1, TokensAre, ZenonT(40)
<1>3. Expected[a].next \in {"initializer", "update", "update_block", "if_condition", "then", "block_body",
                           "function_name", "function_round", "parameters", "parameter_name",
                           "FunctionParameter", "variable", "initial_value", "assigned_value"}
  BY <1>1, TokensAre, ZenonT(40)
<1>4. Expected[a].next \in Stages
  BY <1>3 DEF Stages
<1>5. Expected[a].token \in Symbols
  BY <1>2, Terms
<1> QED
  BY <1>1, <1>2, <1>4, <1>5

LEMMA ExpressionOn ==
  ASSUME NEW a \in DOMAIN AfterExpression, NEW sec
  PROVE  OnRead(a, sec, "expr", AfterExpression[a])
BY ExpressionSteps DEF OnRead
LEMMA AfterIs ==
  /\ DOMAIN AfterExpression = {"if_condition", "for_condition", "returned_value", "assigned_value", "declared_value"}
  /\ \A a \in DOMAIN AfterExpression : AfterExpression[a] \in Stages /\ a \notin TypeStages
BY DEF AfterExpression, Stages, TypeStages

LEMMA TargetOn ==
  ASSUME NEW sec
  PROVE  OnRead("target", sec, "target", "assign")
<1>1. \A Q \in FormSets : \A s : Steps(Active("target", s, sec, Q), "target", Active("assign", s, FALSE, Q))
  BY TargetSteps
<1> QED
  BY <1>1 DEF Steps, OnRead
LEMMA KeywordOn ==
  ASSUME NEW t \in DOMAIN Opened, NEW sec
  PROVE  OnRead("statement", sec, t, Opened[t]) /\ t \in Symbols /\ t # "secret" /\ t # "," /\ Opened[t] \in Stages
<1>1. OnRead("statement", sec, t, Opened[t])
  BY KeywordReads DEF OnRead
<1> QED
  BY <1>1, OpenedIs, Terms DEF Stages
LEMMA VariableOn ==
  ASSUME NEW sec
  PROVE  OnRead("variable", sec, "id", "array")
<1>1. \A Q \in FormSets : \A s : Steps(Active("variable", s, sec, Q), "id", Active("array", s, FALSE, Q))
  BY VariableSteps
<1> QED
  BY <1>1 DEF Steps, OnRead
LEMMA DeclaredOn ==
  ASSUME NEW sec
  PROVE  /\ OnRead("array", sec, "[", "array_close")
         /\ \A a \in {"array", "initial_value"} : OnRead(a, sec, "=", "declared_value")
         /\ \A a \in {"array", "initial_value"} : OnStay(a, ";", "VariableDeclaration")
<1>1. ASSUME NEW a \in {"array", "initial_value"}, NEW x, NEW Q \in FormSets, NEW s, NEW t,
             NEW v \in Derive(Active(a, s, x, Q), t)
      PROVE  \/ t = "[" /\ a = "array" /\ v \in Active("array_close", s, FALSE, Q)
             \/ t = "=" /\ v \in Active("declared_value", s, FALSE, Q)
             \/ t = ";" /\ v \in Derive(Active("VariableDeclaration", s, FALSE, Q), t)
  BY DeclaredReads
<1>2. OnRead("array", sec, "[", "array_close")
  <2>1. ASSUME NEW Q \in FormSets, NEW s, NEW v \in Derive(Active("array", s, sec, Q), "[")
        PROVE  v \in Active("array_close", s, FALSE, Q)
    <3>1. \/ v \in Active("array_close", s, FALSE, Q)
          \/ "[" = "=" \/ "[" = ";"
      BY <1>1, Zenon
    <3> QED
      BY <3>1
  <2> QED
    BY <2>1 DEF OnRead
<1>3. ASSUME NEW a \in {"array", "initial_value"} PROVE OnRead(a, sec, "=", "declared_value")
  <2>1. ASSUME NEW Q \in FormSets, NEW s, NEW v \in Derive(Active(a, s, sec, Q), "=")
        PROVE  v \in Active("declared_value", s, FALSE, Q)
    <3>1. \/ v \in Active("declared_value", s, FALSE, Q)
          \/ "=" = "[" \/ "=" = ";"
      BY <1>1, Zenon
    <3> QED
      BY <3>1
  <2> QED
    BY <2>1 DEF OnRead
<1>4. ASSUME NEW a \in {"array", "initial_value"} PROVE OnStay(a, ";", "VariableDeclaration")
  <2>1. \A t \in Begins(";") : t = ";"
    BY BeginsHas DEF Starts
  <2>2. ASSUME NEW Q \in FormSets, NEW s, NEW t \in Begins(";")
        PROVE  Derive(Active(a, s, FALSE, Q), t) \subseteq Derive(Active("VariableDeclaration", s, FALSE, Q), t)
    <3>1. t = ";"
      BY <2>1
    <3> QED
      BY <1>1, <3>1
  <2> QED
    BY <2>2 DEF OnStay
<1> QED
  BY <1>2, <1>3, <1>4
LEMMA ReturnOn == OnStay("returned_value", ";", "Return")
<1>1. \A t \in Begins(";") : t = ";"
  BY BeginsHas DEF Starts
<1>2. ASSUME NEW Q \in FormSets, NEW s, NEW t \in Begins(";")
      PROVE  Derive(Active("returned_value", s, FALSE, Q), t) \subseteq Derive(Active("Return", s, FALSE, Q), t)
  <2>1. t = ";"
    BY <1>1
  <2> QED
    BY <2>1, ReturnGoes
<1> QED
  BY <1>2 DEF OnStay
LEMMA StatementOn ==
  ASSUME NEW look, look \notin DOMAIN Opened
  PROVE  OnStay("statement", look, Statement(look))
BY StatementGoes DEF OnStay
LEMMA BlockOn ==
  /\ OnRead("block_body", FALSE, "}", "Block")
  /\ \A look : look # "}" => OnCall("block_body", look, "block_body", "statement")
  /\ \A look : OnCall("statements", look, "statements", "statement")
<1>1. OnRead("block_body", FALSE, "}", "Block")
  <2> SUFFICES ASSUME NEW Q \in FormSets, NEW s
               PROVE  Derive(Active("block_body", s, FALSE, Q), "}") \subseteq Active("Block", s, FALSE, Q)
    BY DEF OnRead
  <2> DEFINE t == "}"
  <2>1. Derive(Active("block_body", s, FALSE, Q), t)
           \subseteq IF t = "}" THEN Active("Block", s, FALSE, Q)
                     ELSE Derive(Active("statement", "block_body", FALSE, Waits("block_body", s, Q)), t)
    BY BlockGoes
  <2> QED
    BY <2>1
<1>2. ASSUME NEW look, look # "}" PROVE OnCall("block_body", look, "block_body", "statement")
  <2> SUFFICES ASSUME NEW Q \in FormSets, NEW s, NEW t \in Begins(look)
               PROVE  Derive(Active("block_body", s, FALSE, Q), t)
                        \subseteq Derive(Active("statement", "block_body", FALSE, Waits("block_body", s, Q)), t)
    BY DEF OnCall
  <2>1. t # "}"
    BY <1>2, BeginsIs
  <2> QED
    BY <2>1, BlockGoes
<1>3. ASSUME NEW look PROVE OnCall("statements", look, "statements", "statement")
  <2> SUFFICES ASSUME NEW Q \in FormSets, NEW s, Q = {<<>>}, NEW t \in Begins(look)
               PROVE  Derive(Active("statements", s, FALSE, Q), t)
                        \subseteq Derive(Active("statement", "statements", FALSE, Waits("statements", s, Q)), t)
    BY DEF OnCall
  <2> QED
    BY ProgramGoes
<1> QED
  BY <1>1, <1>2, <1>3
LEMMA OtherwiseOn ==
  /\ OnRead("otherwise", FALSE, "else", "else")
  /\ \A look : look # "else" => OnStay("otherwise", look, "If")
<1>1. OnRead("otherwise", FALSE, "else", "else")
  <2> SUFFICES ASSUME NEW Q \in FormSets, NEW s, ElseWaits(Q)
               PROVE  Derive(Active("otherwise", s, FALSE, Q), "else") \subseteq Active("else", s, FALSE, Q)
    BY DEF OnRead
  <2> DEFINE t == "else"
  <2>1. Derive(Active("otherwise", s, FALSE, Q), t)
           \subseteq IF t = "else" THEN Active("else", s, FALSE, Q) ELSE Derive(Active("If", s, FALSE, Q), t)
    BY OtherwiseGoes DEF ElseWaits
  <2> QED
    BY <2>1
<1>2. ASSUME NEW look, look # "else" PROVE OnStay("otherwise", look, "If")
  <2> SUFFICES ASSUME NEW Q \in FormSets, NEW s, ElseWaits(Q), NEW t \in Begins(look)
               PROVE  Derive(Active("otherwise", s, FALSE, Q), t) \subseteq Derive(Active("If", s, FALSE, Q), t)
    BY DEF OnStay
  <2>1. t # "else"
    BY <1>2, BeginsIs
  <2>2. Derive(Q, "else") \subseteq "Statement" ## Q
    BY DEF ElseWaits
  <2> QED
    BY <2>1, <2>2, OtherwiseGoes
<1> QED
  BY <1>1, <1>2
LEMMA ParametersOn ==
  /\ OnRead("parameters", FALSE, ")", "function_body")
  /\ \A look : look # ")" => OnCall("parameters", look, "parameters", "parameter_type")
<1>1. OnRead("parameters", FALSE, ")", "function_body")
  <2> SUFFICES ASSUME NEW Q \in FormSets, NEW s
               PROVE  Derive(Active("parameters", s, FALSE, Q), ")") \subseteq Active("function_body", s, FALSE, Q)
    BY DEF OnRead
  <2> DEFINE t == ")"
  <2>1. Derive(Active("parameters", s, FALSE, Q), t)
           \subseteq IF t = ")" THEN Active("function_body", s, FALSE, Q)
                     ELSE Derive(Active("parameter_type", "parameters", FALSE, Waits("parameters", s, Q)), t)
    BY ParametersGo
  <2> QED
    BY <2>1
<1>2. ASSUME NEW look, look # ")" PROVE OnCall("parameters", look, "parameters", "parameter_type")
  <2> SUFFICES ASSUME NEW Q \in FormSets, NEW s, NEW t \in Begins(look)
               PROVE  Derive(Active("parameters", s, FALSE, Q), t)
                        \subseteq Derive(Active("parameter_type", "parameters", FALSE, Waits("parameters", s, Q)), t)
    BY DEF OnCall
  <2>1. t # ")"
    BY <1>2, BeginsIs
  <2> QED
    BY <2>1, ParametersGo
<1> QED
  BY <1>1, <1>2
LEMMA BodyOn ==
  ASSUME NEW look
  PROVE  OnCall("for_body", look, "For", "block") /\ OnCall("function_body", look, "Function", "block")
<1>1. \A Q \in FormSets : \A s : Active("for_body", s, FALSE, Q) \subseteq Active("block", "For", FALSE, Waits("For", s, Q))
  BY BodyGoes
<1>2. \A Q \in FormSets : \A s :
        Active("function_body", s, FALSE, Q) \subseteq Active("block", "Function", FALSE, Waits("Function", s, Q))
  BY BodyGoes
<1>3. OnCall("for_body", look, "For", "block")
  BY <1>1, DeriveMore DEF OnCall
<1>4. OnCall("function_body", look, "Function", "block")
  BY <1>2, DeriveMore DEF OnCall
<1> QED
  BY <1>3, <1>4
LEMMA LoopOn ==
  /\ OnRead("initializer", FALSE, ";", "for_condition")
  /\ \A look : look # ";" => OnCall("initializer", look, "initializers", "statement")
  /\ OnStay("update", ")", "for_close")
  /\ \A look : look # ")" => OnCall("update", look, "updates", "statement")
  /\ \A look : look # "," => OnStay("updates", look, "for_close")
  /\ \A look : OnStay("initializers", look, "for_condition")
  /\ \A look : OnStay("update_block", look, "for_body")
<1>1. OnRead("initializer", FALSE, ";", "for_condition")
  <2> SUFFICES ASSUME NEW Q \in FormSets, NEW s
               PROVE  Derive(Active("initializer", s, FALSE, Q), ";") \subseteq Active("for_condition", s, FALSE, Q)
    BY DEF OnRead
  <2> DEFINE t == ";"
  <2>1. Derive(Active("initializer", s, FALSE, Q), t)
           \subseteq IF t = ";" THEN Active("for_condition", s, FALSE, Q)
                     ELSE Derive(Active("statement", "initializers", FALSE, Waits("initializers", s, Q)), t)
    BY InitializerGoes
  <2> QED
    BY <2>1
<1>2. ASSUME NEW look, look # ";" PROVE OnCall("initializer", look, "initializers", "statement")
  <2> SUFFICES ASSUME NEW Q \in FormSets, NEW s, NEW t \in Begins(look)
               PROVE  Derive(Active("initializer", s, FALSE, Q), t)
                        \subseteq Derive(Active("statement", "initializers", FALSE, Waits("initializers", s, Q)), t)
    BY DEF OnCall
  <2>1. t # ";"
    BY <1>2, BeginsIs
  <2> QED
    BY <2>1, InitializerGoes
<1>3. OnStay("update", ")", "for_close")
  <2> SUFFICES ASSUME NEW Q \in FormSets, NEW s, NEW t \in Begins(")")
               PROVE  Derive(Active("update", s, FALSE, Q), t) \subseteq Derive(Active("for_close", s, FALSE, Q), t)
    BY DEF OnStay
  <2>1. t = ")"
    BY BeginsHas DEF Starts
  <2> QED
    BY <2>1, UpdateGoes
<1>4. ASSUME NEW look, look # ")" PROVE OnCall("update", look, "updates", "statement")
  <2> SUFFICES ASSUME NEW Q \in FormSets, NEW s, NEW t \in Begins(look)
               PROVE  Derive(Active("update", s, FALSE, Q), t)
                        \subseteq Derive(Active("statement", "updates", FALSE, Waits("updates", s, Q)), t)
    BY DEF OnCall
  <2>1. t # ")"
    BY <1>4, BeginsIs
  <2> QED
    BY <2>1, UpdateGoes
<1>5. ASSUME NEW look, look # "," PROVE OnStay("updates", look, "for_close")
  <2>1. \A t \in Begins(look) : t # ","
    BY <1>5, BeginsIs
  <2> QED
    BY <2>1, UpdatesGo DEF OnStay
<1>6. \A look : OnStay("initializers", look, "for_condition") /\ OnStay("update_block", look, "for_body")
  BY WrappedSame DEF OnStay
<1> QED
  BY <1>1, <1>2, <1>3, <1>4, <1>5, <1>6

---------------------------------------------------------------------------
(* The steps keep up with the grammar.                                     *)

LEMMA NotAstray ==
  ASSUME Viewed, Here.stage \notin {"statement", "target"} \/ it # ","
  PROVE  ~Astray(frames, it)
BY ViewedTop DEF Astray

LEMMA Moved ==
  ASSUME Viewed, NEW r \in Stages, Goto(r) \/ Hold(Fresh, r) \/ Wrap(r)
  PROVE  Differ(frames, frames', Len(frames)) /\ frames'[Len(frames)].stage = r
<1>1. Sound(frames, heap)
  BY ViewedTop
<1> QED
  BY <1>1, GotoIs, HoldIs, WrapIs

LEMMA MovesReading ==
  ASSUME Viewed, Here.stage \notin {"statement", "target"} \/ it # ",",
         NEW r \in Stages, Goto(r) \/ Hold(Fresh, r) \/ Wrap(r),
         NEW y \in Symbols, y \in Begins(it), y # "secret", consumed' = Append(consumed, y),
         OnRead(Here.stage, Secretly(consumed), y, r)
  PROVE  Awaits' /\ Marked'
BY NotAstray, Moved, StepRead
LEMMA MovesStaying ==
  ASSUME Viewed, Here.stage \notin {"statement", "target"} \/ it # ",", Here.stage \notin TypeStages,
         NEW r \in Stages, Goto(r) \/ Hold(Fresh, r) \/ Wrap(r),
         consumed' = consumed, it' = it, OnStay(Here.stage, it, r)
  PROVE  Awaits' /\ Marked'
BY NotAstray, Moved, StepStay

LEMMA CallsKeep ==
  ASSUME Viewed, Here.stage \notin {"statement", "target"}, Here.stage \notin TypeStages,
         NEW r \in Suspended, r = "statements" => Here.stage = "statements",
         NEW c \in Stages, NEW g \in BOOLEAN, Call(r, Frame(c, g)),
         consumed' = consumed, it' = it, OnCall(Here.stage, it, r, c)
  PROVE  Awaits' /\ Marked'
<1> DEFINE f == Frame(c, g)
<1>1. f \in FrameType /\ f.stage = c
  BY DEF Frame, FrameType
<1>2. r \in Stages /\ Sound(frames, heap)
  BY ViewedTop DEF Suspended, Stages
<1> HIDE DEF f
<1>3. /\ Len(frames') = Len(frames) + 1
      /\ \A j \in 1..(Len(frames) - 1) : frames'[j] = frames[j]
      /\ frames'[Len(frames)].stage = r /\ frames'[Len(frames) + 1] = f
  BY <1>1, <1>2, CallIs DEF f
<1>4. ~Astray(frames, it)
  BY NotAstray
<1>5. r = "statements" => Len(frames) = 1
  BY ViewedTop
<1> QED
  BY <1>1, <1>3, <1>4, <1>5, StepCall

LEMMA KeepsExpected ==
  ASSUME Viewed, ExpectToken
  PROVE  Awaits' /\ Marked'
<1> DEFINE a == Here.stage
           y == Expected[a].token
           r == Expected[a].next
<1>1. a \in DOMAIN Expected /\ it = y /\ Goto(r) /\ consumed' = Append(consumed, y)
  BY DEF ExpectToken, At, Here, Advance, AdvanceTo
<1>2. y \in Symbols /\ y # "secret" /\ r \in Stages /\ a \notin {"statement", "target"}
  BY <1>1, ExpectTokens
<1>3. OnRead(a, Secretly(consumed), y, r)
  <2>1. Secretly(consumed) \in BOOLEAN
    BY DEF Secretly
  <2> QED
    BY <1>1, <2>1, ExpectRead
<1>4. y \in Begins(it)
  BY <1>1, BeginsHas
<1> HIDE DEF y, r
<1> QED
  BY <1>1, <1>2, <1>3, <1>4, MovesReading

LEMMA KeepsSecret ==
  ASSUME Viewed, ReadSecret
  PROVE  Awaits' /\ Marked'
<1> DEFINE a == Here.stage
           n == Len(frames)
           s == CalledAt(frames, n)
           y == "secret"
<1>1. /\ a \in TypeStages /\ it = y /\ frames' = frames /\ consumed' = Append(consumed, y)
      /\ ~Secretly(consumed)
  BY DEF ReadSecret, SecretNext, At, Here, Advance, AdvanceTo, TypeStages, Secretly
<1>2. PICK qs : Tracks(qs, frames, consumed, it) /\ Stacked(qs, frames) /\ qs[n] \in FormSets
  <2>1. ~Astray(frames, it)
    BY <1>1, NotAstray
  <2> QED
    BY <2>1, TracksNow
<1>3. Secretly(consumed) = FALSE /\ Secretly(consumed') = TRUE
  <2>1. Secretly(consumed')
    BY <1>1, ViewedTop, SecretRead, Terms
  <2>2. Secretly(consumed) \in BOOLEAN /\ Secretly(consumed') \in BOOLEAN
    BY DEF Secretly
  <2> QED
    BY <1>1, <2>1, <2>2
<1>4. Awaited(qs, frames, consumed) = Active(a, s, FALSE, qs[n])
  BY <1>3, ViewedTop DEF Awaited
<1>5. Awaited(qs, frames', consumed') = Active(a, s, TRUE, qs[n])
  BY <1>1, <1>3, ViewedTop DEF Awaited
<1>6. Derive(Active(a, s, FALSE, qs[n]), y) \subseteq Active(a, s, TRUE, qs[n])
  <2> DEFINE t == y
  <2>1. ReadsType(a, Expected[a].next, s, qs[n])
    BY <1>1, <1>2, TypesRead
  <2> SUFFICES ASSUME NEW v \in Derive(Active(a, s, FALSE, qs[n]), y) PROVE v \in Active(a, s, TRUE, qs[n])
    OBVIOUS
  <2>2. v \in Active(a, s, TRUE, qs[n]) \/ "secret" = "type"
    BY <2>1, Zenon DEF ReadsType
  <2> QED
    BY <2>2
<1>7. y \in Symbols /\ y \in Begins(it) /\ consumed \in Seq(Symbols)
  BY <1>1, ViewedTop, BeginsHas, Terms
<1>8. Derive(Awaited(qs, frames, consumed), y) \subseteq Awaited(qs, frames', Append(consumed, y))
  BY <1>1, <1>4, <1>5, <1>6
<1>9. Tracks(qs, frames', Append(consumed, y), it')
  BY <1>1, <1>2, <1>7, <1>8, TracksRead
<1>10. Marked'
  <2>1. Here' = Here
    BY <1>1 DEF Here
  <2> QED
    BY <1>1, <2>1 DEF Marked
<1> QED
  BY <1>1, <1>9, <1>10 DEF Awaits

LEMMA KeepsExpression ==
  ASSUME Viewed, ReadExpression
  PROVE  Awaits' /\ Marked'
<1> DEFINE a == Here.stage
           r == AfterExpression[a]
<1>1. a \in DOMAIN AfterExpression /\ it \in Starts /\ Hold(Fresh, r) /\ consumed' = Append(consumed, "expr")
  BY DEF ReadExpression, At, Here, AdvanceTo
<1>2. r \in Stages /\ OnRead(a, Secretly(consumed), "expr", r)
  BY <1>1, AfterIs, ExpressionOn
<1>3. "expr" \in Symbols /\ "expr" \in Begins(it) /\ it # ","
  BY <1>1, BeginsHas, Terms DEF Starts
<1> HIDE DEF r
<1> QED
  BY <1>1, <1>2, <1>3, MovesReading

LEMMA KeepsTarget ==
  ASSUME Viewed, ReadTarget
  PROVE  Awaits' /\ Marked'
<1>1. Here.stage = "target" /\ it = "id" /\ Hold(Fresh, "assign") /\ consumed' = Append(consumed, "target")
  BY DEF ReadTarget, At, Here, AdvanceTo
<1>2. OnRead(Here.stage, Secretly(consumed), "target", "assign")
  BY <1>1, TargetOn
<1>3. "target" \in Symbols /\ "target" \in Begins(it) /\ "assign" \in Stages
  BY <1>1, BeginsHas, Terms DEF Stages
<1> QED
  BY <1>1, <1>2, <1>3, MovesReading

LEMMA KeepsKeyword ==
  ASSUME Viewed, DispatchKeyword
  PROVE  Awaits' /\ Marked'
<1>1. Here.stage = "statement" /\ it \in DOMAIN Opened /\ Goto(Opened[it]) /\ consumed' = Append(consumed, it)
  BY DEF DispatchKeyword, At, Here, Advance, AdvanceTo
<1>2. /\ OnRead(Here.stage, Secretly(consumed), it, Opened[it])
      /\ it \in Symbols /\ it # "secret" /\ it # "," /\ Opened[it] \in Stages
  BY <1>1, KeywordOn
<1>3. it \in Begins(it)
  BY BeginsHas
<1> QED
  BY <1>1, <1>2, <1>3, MovesReading

LEMMA KeepsDeclaration ==
  ASSUME Viewed, DeclareVariable \/ OpenArray \/ Initialize \/ DeclareOnly \/ ReturnNothing
  PROVE  Awaits' /\ Marked'
<1>1. /\ "array" \in Stages /\ "array_close" \in Stages /\ "declared_value" \in Stages
      /\ "VariableDeclaration" \in Stages /\ "Return" \in Stages
  BY DEF Stages
<1>2. it \in Begins(it) /\ "id" \in Symbols /\ "[" \in Symbols /\ "=" \in Symbols
  BY BeginsHas, Terms
<1>3. CASE DeclareVariable
  <2>1. Here.stage = "variable" /\ it = "id" /\ Hold(Fresh, "array") /\ consumed' = Append(consumed, it)
    BY <1>3 DEF DeclareVariable, At, Here, Advance, AdvanceTo
  <2>2. OnRead(Here.stage, Secretly(consumed), it, "array")
    BY <2>1, VariableOn
  <2> QED
    BY <1>1, <1>2, <2>1, <2>2, MovesReading
<1>4. CASE OpenArray
  <2>1. Here.stage = "array" /\ it = "[" /\ Goto("array_close") /\ consumed' = Append(consumed, it)
    BY <1>4 DEF OpenArray, At, Here, Advance, AdvanceTo
  <2>2. OnRead(Here.stage, Secretly(consumed), it, "array_close")
    BY <2>1, DeclaredOn
  <2> QED
    BY <1>1, <1>2, <2>1, <2>2, MovesReading
<1>5. CASE Initialize
  <2>1. Here.stage \in {"array", "initial_value"} /\ it = "=" /\ Goto("declared_value") /\ consumed' = Append(consumed, it)
    BY <1>5 DEF Initialize, At, Here, Advance, AdvanceTo
  <2>2. OnRead(Here.stage, Secretly(consumed), it, "declared_value")
    BY <2>1, DeclaredOn
  <2> QED
    BY <1>1, <1>2, <2>1, <2>2, MovesReading
<1>6. CASE DeclareOnly
  <2>1. /\ Here.stage \in {"array", "initial_value"} /\ it = ";" /\ Goto("VariableDeclaration")
        /\ consumed' = consumed /\ it' = it
    BY <1>6 DEF DeclareOnly, At, Here, Stay
  <2>2. OnStay(Here.stage, it, "VariableDeclaration") /\ Here.stage \notin TypeStages
    BY <2>1, DeclaredOn DEF TypeStages
  <2> QED
    BY <1>1, <2>1, <2>2, MovesStaying
<1>7. CASE ReturnNothing
  <2>1. /\ Here.stage = "returned_value" /\ it = ";" /\ Goto("Return")
        /\ consumed' = consumed /\ it' = it
    BY <1>7 DEF ReturnNothing, At, Here, Stay
  <2>2. OnStay(Here.stage, it, "Return") /\ Here.stage \notin TypeStages
    BY <2>1, ReturnOn DEF TypeStages
  <2> QED
    BY <1>1, <2>1, <2>2, MovesStaying
<1> QED
  BY <1>3, <1>4, <1>5, <1>6, <1>7

LEMMA KeepsDispatch ==
  ASSUME Viewed, Dispatch
  PROVE  Awaits' /\ Marked'
<1> DEFINE r == Statement(it)
<1>1. /\ Here.stage = "statement" /\ it \notin DOMAIN Opened /\ Goto(r)
      /\ consumed' = consumed /\ it' = it
  BY DEF Dispatch, At, Here, Stay, Statement
<1>2. r \in Stages /\ (it = "," => r = "target")
  BY DEF Statement, Stages
<1>3. Here.stage \notin TypeStages
  BY <1>1 DEF TypeStages
<1>4. OnStay(Here.stage, it, r)
  BY <1>1, StatementOn
<1> HIDE DEF r
<1>5. CASE ~Astray(frames, it)
  <2>1. Differ(frames, frames', Len(frames)) /\ frames'[Len(frames)].stage = r
    BY <1>1, <1>2, Moved
  <2> QED
    BY <1>1, <1>3, <1>4, <1>5, <2>1, StepStay
<1>6. CASE Astray(frames, it)
  <2>1. Differ(frames, frames', Len(frames)) /\ frames'[Len(frames)].stage = r
    BY <1>1, <1>2, Moved
  <2>2. PICK qs : Stacked(qs, frames)
    BY DEF Viewed, Awaits, Tracks
  <2>3. Stacked(qs, frames') /\ Len(frames') = Len(frames)
    BY <2>1, <2>2, ViewedTop, StackedSame
  <2>4. \A f \in 1..(Len(frames) - 1) : frames'[f] = frames[f]
    BY <2>1, ViewedTop DEF Differ
  <2>5. Astray(frames', it')
    BY <1>1, <1>2, <1>6, <2>1, <2>3, <2>4 DEF Astray
  <2>6. Marked'
    BY <1>1, <1>3, StillClear
  <2> QED
    BY <2>3, <2>5, <2>6 DEF Awaits
<1> QED
  BY <1>5, <1>6

---------------------------------------------------------------------------
(* Lists, blocks and loops.                                                *)

LEMMA KeepsNext ==
  ASSUME Viewed, NextStatement \/ NextParameter
  PROVE  Awaits' /\ Marked'
<1>1. "statement" \in Stages /\ "parameter_type" \in Stages /\ TRUE \in BOOLEAN
  BY DEF Stages
<1>2. CASE NextStatement
  <2>1. /\ Here.stage \in {"statements", "block_body"} /\ (Here.stage = "block_body" => it # "}")
        /\ Call(Here.stage, Frame("statement", TRUE)) /\ consumed' = consumed /\ it' = it
    BY <1>2 DEF NextStatement, At, Here, Stay
  <2>2. Here.stage \in Suspended /\ Here.stage \notin TypeStages /\ Here.stage \notin {"statement", "target"}
    BY <2>1 DEF Suspended, TypeStages
  <2>3. OnCall(Here.stage, it, Here.stage, "statement")
    <3>1. CASE Here.stage = "statements"
      BY <3>1, BlockOn
    <3>2. CASE Here.stage = "block_body"
      BY <2>1, <3>2, BlockOn
    <3> QED
      BY <2>1, <3>1, <3>2
  <2> QED
    BY <1>1, <2>1, <2>2, <2>3, CallsKeep
<1>3. CASE NextParameter
  <2>1. /\ Here.stage = "parameters" /\ it # ")"
        /\ Call("parameters", Frame("parameter_type", TRUE)) /\ consumed' = consumed /\ it' = it
    BY <1>3 DEF NextParameter, At, Here, Stay
  <2>2. "parameters" \in Suspended /\ Here.stage \notin TypeStages /\ Here.stage \notin {"statement", "target"}
    BY <2>1 DEF Suspended, TypeStages
  <2>3. OnCall(Here.stage, it, "parameters", "parameter_type")
    BY <2>1, ParametersOn
  <2> QED
    BY <1>1, <2>1, <2>2, <2>3, CallsKeep
<1> QED
  BY <1>2, <1>3

LEMMA KeepsBody ==
  ASSUME Viewed, Body
  PROVE  Awaits' /\ Marked'
<1> DEFINE r == IF Here.stage = "for_body" THEN "For" ELSE "Function"
<1>1. /\ Here.stage \in {"function_body", "for_body"}
      /\ Call(r, Frame("block", TRUE)) /\ consumed' = consumed /\ it' = it
  BY DEF Body, At, Here, Stay
<1>2. /\ r \in Suspended /\ r # "statements" /\ Here.stage \notin TypeStages
      /\ Here.stage \notin {"statement", "target"} /\ "block" \in Stages /\ TRUE \in BOOLEAN
  BY <1>1 DEF Suspended, TypeStages, Stages
<1>3. OnCall(Here.stage, it, r, "block")
  BY <1>1, BodyOn
<1> HIDE DEF r
<1> QED
  BY <1>1, <1>2, <1>3, CallsKeep

LEMMA KeepsFirst ==
  ASSUME Viewed, FirstListed
  PROVE  Awaits' /\ Marked'
<1> DEFINE r == IF Here.stage = "update" THEN "updates" ELSE "initializers"
           b == r = "initializers"
<1>1. /\ Here.stage \in {"initializer", "update"}
      /\ Here.stage = "initializer" => it # ";"
      /\ Here.stage = "update" => it # ")"
      /\ Call(r, Frame("statement", b)) /\ consumed' = consumed /\ it' = it
  BY DEF FirstListed, ListedStatement, At, Here, Stay
<1>2. /\ r \in Suspended /\ r # "statements" /\ Here.stage \notin TypeStages
      /\ Here.stage \notin {"statement", "target"} /\ "statement" \in Stages /\ b \in BOOLEAN
  BY <1>1 DEF Suspended, TypeStages, Stages
<1>3. OnCall(Here.stage, it, r, "statement")
  BY <1>1, LoopOn
<1> HIDE DEF r, b
<1> QED
  BY <1>1, <1>2, <1>3, CallsKeep

LEMMA KeepsClosing ==
  ASSUME Viewed, CloseBlock \/ CloseParameters
  PROVE  Awaits' /\ Marked'
<1>1. "Block" \in Stages /\ "function_body" \in Stages /\ "}" \in Symbols /\ ")" \in Symbols /\ it \in Begins(it)
  BY BeginsHas, Terms DEF Stages
<1>2. CASE CloseBlock
  <2>1. Here.stage = "block_body" /\ it = "}" /\ Goto("Block") /\ consumed' = Append(consumed, it)
    BY <1>2 DEF CloseBlock, At, Here, Advance, AdvanceTo
  <2>2. Secretly(consumed) = FALSE
    BY <2>1, ViewedTop DEF TypeStages
  <2>3. OnRead(Here.stage, Secretly(consumed), it, "Block")
    BY <2>1, <2>2, BlockOn
  <2> QED
    BY <1>1, <2>1, <2>3, MovesReading
<1>3. CASE CloseParameters
  <2>1. Here.stage = "parameters" /\ it = ")" /\ Goto("function_body") /\ consumed' = Append(consumed, it)
    BY <1>3 DEF CloseParameters, At, Here, Advance, AdvanceTo
  <2>2. Secretly(consumed) = FALSE
    BY <2>1, ViewedTop DEF TypeStages
  <2>3. OnRead(Here.stage, Secretly(consumed), it, "function_body")
    BY <2>1, <2>2, ParametersOn
  <2> QED
    BY <1>1, <2>1, <2>3, MovesReading
<1> QED
  BY <1>2, <1>3

LEMMA KeepsOtherwise ==
  ASSUME Viewed, Otherwise
  PROVE  Awaits' /\ Marked'
<1>1. Here.stage = "otherwise" /\ "If" \in Stages /\ "else" \in Stages /\ it \in Begins(it) /\ "else" \in Symbols
  BY BeginsHas, Terms DEF Otherwise, At, Here, Stages
<1>2. Here.stage \notin TypeStages /\ Here.stage \notin {"statement", "target"} /\ Secretly(consumed) = FALSE
  BY <1>1, ViewedTop DEF TypeStages
<1>3. CASE it = "else"
  <2>1. Goto("else") /\ consumed' = Append(consumed, it)
    BY <1>3 DEF Otherwise, Advance, AdvanceTo
  <2>2. OnRead(Here.stage, Secretly(consumed), it, "else")
    BY <1>1, <1>2, <1>3, OtherwiseOn
  <2> QED
    BY <1>1, <1>2, <1>3, <2>1, <2>2, MovesReading
<1>4. CASE it # "else"
  <2>1. Goto("If") /\ consumed' = consumed /\ it' = it
    BY <1>4 DEF Otherwise, Stay
  <2>2. OnStay(Here.stage, it, "If")
    BY <1>1, <1>4, OtherwiseOn
  <2> QED
    BY <1>1, <1>2, <2>1, <2>2, MovesStaying
<1> QED
  BY <1>3, <1>4

LEMMA KeepsHeader ==
  ASSUME Viewed, NoInitializer \/ EndInitializers \/ EndUpdates \/ WrapUpdates
  PROVE  Awaits' /\ Marked'
<1>1. /\ "for_condition" \in Stages /\ "for_close" \in Stages /\ "for_body" \in Stages
      /\ it \in Begins(it) /\ ";" \in Symbols
  BY BeginsHas, Terms DEF Stages
<1>2. CASE NoInitializer
  <2>1. Here.stage = "initializer" /\ it = ";" /\ Wrap("for_condition") /\ consumed' = Append(consumed, it)
    BY <1>2 DEF NoInitializer, At, Here, Advance, AdvanceTo
  <2>2. Secretly(consumed) = FALSE
    BY <2>1, ViewedTop DEF TypeStages
  <2>3. OnRead(Here.stage, Secretly(consumed), it, "for_condition")
    BY <2>1, <2>2, LoopOn
  <2> QED
    BY <1>1, <2>1, <2>3, MovesReading
<1>3. CASE EndInitializers
  <2>1. Here.stage = "initializers" /\ Wrap("for_condition") /\ consumed' = consumed /\ it' = it
    BY <1>3 DEF EndInitializers, At, Here, Stay
  <2>2. OnStay(Here.stage, it, "for_condition") /\ Here.stage \notin TypeStages
    BY <2>1, LoopOn DEF TypeStages
  <2> QED
    BY <1>1, <2>1, <2>2, MovesStaying
<1>4. CASE EndUpdates
  <2>1. /\ (Here.stage = "update" /\ it = ")") \/ (Here.stage = "updates" /\ it # ",")
        /\ Goto("for_close") /\ consumed' = consumed /\ it' = it
    BY <1>4 DEF EndUpdates, At, Here, Stay
  <2>2. Here.stage \notin TypeStages /\ Here.stage \notin {"statement", "target"}
    BY <2>1 DEF TypeStages
  <2>3. OnStay(Here.stage, it, "for_close")
    BY <2>1, LoopOn
  <2> QED
    BY <1>1, <2>1, <2>2, <2>3, MovesStaying
<1>5. CASE WrapUpdates
  <2>1. Here.stage = "update_block" /\ Wrap("for_body") /\ consumed' = consumed /\ it' = it
    BY <1>5 DEF WrapUpdates, At, Here, Stay
  <2>2. OnStay(Here.stage, it, "for_body") /\ Here.stage \notin TypeStages
    BY <2>1, LoopOn DEF TypeStages
  <2> QED
    BY <1>1, <2>1, <2>2, MovesStaying
<1> QED
  BY <1>2, <1>3, <1>4, <1>5

\* The comma of a list is left, and a statement is called at it.
LEMMA KeepsListed ==
  ASSUME Viewed, NextListed
  PROVE  Awaits' /\ Marked'
<1> DEFINE n == Len(frames)
           r == Here.stage
           c == "statement"
           b == r = "initializers"
<1>1. Here.stage \in Lists /\ it = "," /\ Call(r, Frame(c, b))
  BY DEF NextListed, ListedStatement, At, Here, Lists
<1>2. Len(Here.list) = 1
  <2>1. WorksWell(Here)
    <3>1. Formed(frames, it)
      BY DEF Viewed
    <3> QED
      BY <3>1, ViewedTop DEF Formed
  <2> QED
    BY <1>1, <2>1 DEF WorksWell
<1>3. consumed' = consumed /\ it' = it
  <2>1. ~(Len(Here.list) > 1)
    BY <1>2
  <2>2. Stay
    BY <2>1 DEF NextListed
  <2> QED
    BY <2>2 DEF Stay
<1>4. Frame(c, b) \in FrameType /\ Frame(c, b).stage = "statement"
  <2>1. b \in BOOLEAN /\ c \in Stages
    BY DEF Stages
  <2> HIDE DEF b
  <2> QED
    BY <2>1 DEF Frame, FrameType
<1>5. /\ Len(frames') = n + 1
      /\ \A j \in 1..(n - 1) : frames'[j] = frames[j]
      /\ frames'[n].stage = r /\ frames'[n + 1].stage = "statement"
  <2> DEFINE f == Frame(c, b)
  <2>1. Sound(frames, heap) /\ r \in Stages /\ f \in FrameType
    BY <1>4, ViewedTop
  <2> HIDE DEF r, f
  <2>2. /\ Len(frames') = n + 1
        /\ \A j \in 1..(n - 1) : frames'[j] = frames[j]
        /\ frames'[n].stage = r /\ frames'[n + 1] = f
    BY <1>1, <2>1, CallIs DEF f, r
  <2> QED
    BY <1>4, <2>2 DEF f
<1>6. PICK qs : Stacked(qs, frames)
  BY DEF Viewed, Awaits, Tracks
<1>7. r \in Suspended /\ r # "statements" /\ r \notin TypeStages /\ n \in Nat /\ n >= 1
  BY <1>1, ViewedTop DEF Suspended, Lists, TypeStages
<1> HIDE DEF r, c, b
<1>8. \E ps : Stacked(ps, frames')
  BY <1>5, <1>6, <1>7, StackedCall
<1>9. Astray(frames', it')
  <2>1. n \in 1..(Len(frames') - 1) /\ Len(frames') = n + 1
    BY <1>5, <1>7
  <2>2. frames'[n].stage \in Lists
    BY <1>1, <1>5 DEF r
  <2>3. frames'[Len(frames')].stage = "statement"
    BY <1>5
  <2> QED
    BY <1>1, <1>3, <2>1, <2>2, <2>3 DEF Astray
<1>10. Marked'
  BY <1>3, <1>7, StillClear DEF r
<1> QED
  BY <1>8, <1>9, <1>10 DEF Awaits

---------------------------------------------------------------------------
(* Branches.                                                               *)

\* A block, and a single statement in a Block that is made for it.
Branched == IF Here.stage = "then" THEN "otherwise" ELSE "If"

LEMMA BranchCalls ==
  ASSUME Viewed, Branch
  PROVE  /\ Here.stage \in {"then", "else"} /\ consumed' = consumed /\ it' = it
         /\ it = "{" => Call(Branched, Frame("block", TRUE))
         /\ it # "{" => \E fs : /\ Len(fs) = Len(frames) + 1 /\ Len(frames') = Len(fs) + 1
                                /\ \A j \in 1..(Len(frames) - 1) : fs[j] = frames[j]
                                /\ \A j \in 1..(Len(fs) - 1) : frames'[j] = fs[j]
                                /\ fs[Len(frames)].stage = Branched
                                /\ frames'[Len(fs)].stage = "Block"
                                /\ frames'[Len(frames')].stage = "statement"
<1> DEFINE L == Len(frames)
           r == Branched
           called == [frames EXCEPT ![L].stage = r]
           g == Frame("block", TRUE)
           b == Frame("Block", TRUE)
           h == Frame("statement", TRUE)
<1>1. /\ Here.stage \in {"then", "else"} /\ consumed' = consumed /\ it' = it
      /\ frames' = called \o (IF it = "{" THEN <<g>> ELSE <<b, h>>)
  BY DEF Branch, At, Here, Stay, Branched
<1>2. /\ frames \in Seq(FrameType) /\ Here \in FrameType /\ L \in Nat /\ L >= 1
      /\ L \in 1..L /\ Here = frames[L]
  BY ViewedTop, Now, SoundTop DEF Shaped
<1>3. g \in FrameType /\ b \in FrameType /\ h \in FrameType /\ b.stage = "Block" /\ h.stage = "statement"
  BY DEF Frame, FrameType, Stages
<1>4. r \in Stages
  BY DEF Branched, Stages
<1> DEFINE c == [Here EXCEPT !.stage = r]
<1>5. c \in FrameType /\ c.stage = r
  BY <1>2, <1>4 DEF FrameType
<1>6. called = [frames EXCEPT ![L] = c]
  BY <1>2
<1> HIDE DEF r, c, g, b, h
<1>7. /\ called \in Seq(FrameType) /\ Len(called) = L
      /\ \A j \in 1..L : called[j] = IF j = L THEN c ELSE frames[j]
  <2> HIDE DEF called
  <2> QED
    BY <1>2, <1>5, <1>6, ExceptSeq
<1>8. ASSUME it = "{" PROVE Call(Branched, g)
  <2>1. frames' = called \o <<g>>
    BY <1>1, <1>8
  <2> HIDE DEF called
  <2>2. called \o <<g>> = Append(called, g)
    BY <1>3, <1>7, TwoMore
  <2> QED
    BY <2>1, <2>2 DEF Call, called, r
<1> HIDE DEF called
<1>9. ASSUME it # "{"
      PROVE  \E fs : /\ Len(fs) = L + 1 /\ Len(frames') = Len(fs) + 1
                     /\ \A j \in 1..(L - 1) : fs[j] = frames[j]
                     /\ \A j \in 1..(Len(fs) - 1) : frames'[j] = fs[j]
                     /\ fs[L].stage = Branched
                     /\ frames'[Len(fs)].stage = "Block"
                     /\ frames'[Len(frames')].stage = "statement"
  <2> DEFINE s == Append(called, b)
  <2>1. frames' = called \o <<b, h>>
    BY <1>1, <1>9
  <2>2. frames' = Append(s, h)
    BY <1>3, <1>7, <2>1, TwoMore
  <2>3. s \in Seq(FrameType) /\ Len(s) = L + 1 /\ s[L + 1] = b /\ \A j \in 1..L : s[j] = called[j]
    BY <1>3, <1>7, Pushed
  <2> HIDE DEF s
  <2>4. Len(frames') = Len(s) + 1 /\ frames'[Len(s) + 1] = h /\ \A j \in 1..Len(s) : frames'[j] = s[j]
    BY <1>3, <2>2, <2>3, Pushed
  <2>5. /\ 1..(L - 1) \subseteq 1..L /\ L \notin 1..(L - 1) /\ 1..(Len(s) - 1) \subseteq 1..Len(s)
        /\ Len(s) \in 1..Len(s)
    BY <1>2, <2>3
  <2>6. s[L].stage = r /\ \A j \in 1..(L - 1) : s[j] = frames[j]
    BY <1>2, <1>5, <1>7, <2>3, <2>5
  <2>7. frames'[Len(s)].stage = "Block" /\ frames'[Len(frames')].stage = "statement"
    BY <1>3, <2>3, <2>4, <2>5
  <2>8. \A j \in 1..(Len(s) - 1) : frames'[j] = s[j]
    BY <2>4, <2>5
  <2> QED
    BY <2>3, <2>4, <2>6, <2>7, <2>8 DEF r
<1> QED
  BY <1>1, <1>8, <1>9 DEF g

LEMMA BlockBranch ==
  ASSUME NEW a \in {"then", "else"}, NEW r, r = IF a = "then" THEN "otherwise" ELSE "If"
  PROVE  OnCall(a, "{", r, "block")
<1>1. \A t \in Begins("{") : t \in {"{", "expr"}
  BY BeginsIs
<1>2. ASSUME NEW Q \in FormSets, NEW s, NEW t \in Begins("{")
      PROVE  Derive(Active(a, s, FALSE, Q), t) \subseteq Derive(Active("block", r, FALSE, Waits(r, s, Q)), t)
  BY <1>1, BranchGoes
<1> QED
  BY <1>2 DEF OnCall
LEMMA SingleBranch ==
  ASSUME NEW Q \in FormSets, NEW s, NEW a \in {"then", "else"}, NEW r,
         r = IF a = "then" THEN "otherwise" ELSE "If", NEW W, W = Waits(r, s, Q), NEW t
  PROVE  Derive(Active(a, s, FALSE, Q), t)
           \subseteq Derive(Active("statement", "Block", FALSE, Waits("Block", r, W)), t)
BY BranchGoes

LEMMA KeepsBranch ==
  ASSUME Viewed, Branch
  PROVE  Awaits' /\ Marked'
<1> DEFINE n == Len(frames)
           r == Branched
           s == CalledAt(frames, n)
<1>1. Here.stage \in {"then", "else"} /\ consumed' = consumed /\ it' = it
  BY BranchCalls
<1>2. /\ Here.stage \notin {"statement", "target"} /\ Here.stage \notin TypeStages
      /\ r \in Suspended /\ r # "statements" /\ n \in Nat /\ n >= 1
  BY <1>1, ViewedTop DEF TypeStages, Branched, Suspended
<1>3. r = IF Here.stage = "then" THEN "otherwise" ELSE "If"
  BY DEF Branched
<1>4. CASE it = "{"
  <2>1. Call(r, Frame("block", TRUE)) /\ "block" \in Stages /\ TRUE \in BOOLEAN
    BY <1>4, BranchCalls DEF Stages
  <2> HIDE DEF r
  <2>2. OnCall(Here.stage, it, r, "block")
    BY <1>1, <1>3, <1>4, BlockBranch
  <2> QED
    BY <1>1, <1>2, <2>1, <2>2, CallsKeep
<1>5. CASE it # "{"
  <2>1. PICK fs : /\ Len(fs) = n + 1 /\ Len(frames') = Len(fs) + 1
                  /\ \A j \in 1..(n - 1) : fs[j] = frames[j]
                  /\ \A j \in 1..(Len(fs) - 1) : frames'[j] = fs[j]
                  /\ fs[n].stage = r
                  /\ frames'[Len(fs)].stage = "Block"
                  /\ frames'[Len(frames')].stage = "statement"
    BY <1>5, BranchCalls
  <2> HIDE DEF r
  <2>2. PICK qs : Tracks(qs, frames, consumed, it) /\ Stacked(qs, frames) /\ qs[n] \in FormSets
    <3>1. ~Astray(frames, it)
      BY <1>2, NotAstray
    <3> QED
      BY <3>1, TracksNow
  <2>3. CalledAt(fs, n + 1) = r /\ \E ps : Stacked(ps, fs) /\ ps[n + 1] = Waits(r, s, qs[n])
    BY <1>2, <2>1, <2>2, StackedCall
  <2>4. PICK ps : Stacked(ps, fs) /\ ps[n + 1] = Waits(r, s, qs[n])
    BY <2>3
  <2>5. Len(fs) \in Nat /\ Len(fs) >= 1 /\ Len(fs) = n + 1
    BY <1>2, <2>1
  <2>6. "Block" \in Suspended /\ "Block" # "statements"
    BY DEF Suspended
  <2>7. /\ CalledAt(frames', Len(fs) + 1) = "Block"
        /\ \E os : Stacked(os, frames') /\ os[Len(fs) + 1] = Waits("Block", CalledAt(fs, Len(fs)), ps[Len(fs)])
    BY <2>1, <2>4, <2>5, <2>6, StackedCall
  <2>8. PICK os : Stacked(os, frames') /\ os[Len(frames')] = Waits("Block", r, Waits(r, s, qs[n]))
    BY <2>1, <2>3, <2>4, <2>5, <2>7
  <2>9. Secretly(consumed) = FALSE
    BY <1>2, ViewedTop
  <2>10. Awaited(qs, frames, consumed) = Active(Here.stage, s, FALSE, qs[n])
    BY <2>9, ViewedTop DEF Awaited
  <2>11. Awaited(os, frames', consumed) = Active("statement", "Block", FALSE, Waits("Block", r, Waits(r, s, qs[n])))
    BY <2>1, <2>7, <2>8, <2>9 DEF Awaited
  <2>12. \A t : Derive(Awaited(qs, frames, consumed), t) \subseteq Derive(Awaited(os, frames', consumed), t)
    <3> DEFINE a == Here.stage
               Q == qs[n]
               W == Waits(r, s, Q)
    <3>1. a \in {"then", "else"} /\ Q \in FormSets /\ W = Waits(r, s, Q) /\ r = IF a = "then" THEN "otherwise" ELSE "If"
      BY <1>1, <1>3, <2>2
    <3>2. /\ Awaited(qs, frames, consumed) = Active(a, s, FALSE, Q)
          /\ Awaited(os, frames', consumed) = Active("statement", "Block", FALSE, Waits("Block", r, W))
      BY <2>10, <2>11
    <3> HIDE DEF a, Q, W, s
    <3>3. \A t : Derive(Active(a, s, FALSE, Q), t)
                   \subseteq Derive(Active("statement", "Block", FALSE, Waits("Block", r, W)), t)
      BY <3>1, SingleBranch
    <3> QED
      BY <3>2, <3>3
  <2>13. Tracks(os, frames', consumed, it)
    BY <2>2, <2>8, <2>12, TracksStay
  <2>14. Marked'
    BY <1>1, <1>2, StillClear
  <2> QED
    BY <1>1, <2>13, <2>14 DEF Awaits
<1> QED
  BY <1>4, <1>5

---------------------------------------------------------------------------
(* Productions that return.                                                *)

\* The caller, and what it has to do with the production that is active.
LEMMA CallerFits ==
  ASSUME Viewed, Here.stage # "statements"
  PROVE  /\ Len(frames) > 1 /\ frames[Len(frames) - 1].stage \in Suspended
         /\ Fits(frames[Len(frames) - 1], Here) /\ WorksWell(Here)
<1> DEFINE i == Len(frames) - 1
<1>1. /\ Sound(frames, heap) /\ Formed(frames, it) /\ Len(frames) \in Nat /\ Len(frames) > 1
      /\ Here = frames[Len(frames)]
  <2>1. Len(frames) \in Nat /\ Len(frames) >= 1 /\ Len(frames) # 1
    BY ViewedTop
  <2>2. Sound(frames, heap) /\ Here = frames[Len(frames)]
    BY ViewedTop
  <2>3. Formed(frames, it)
    BY DEF Viewed
  <2>4. \A l \in Nat : l >= 1 /\ l # 1 => l > 1
    OBVIOUS
  <2>5. Len(frames) > 1
    BY <2>1, <2>4
  <2> QED
    BY <2>1, <2>2, <2>3, <2>5
<1>2. i \in 1..(Len(frames) - 1) /\ i + 1 = Len(frames)
  BY <1>1
<1>3. frames[i].stage \in Suspended
  BY <1>1, <1>2, SoundTop DEF Shaped
<1>4. WaitsWell(frames, it, i)
  BY <1>1, <1>2 DEF Formed
<1>5. frames[i + 1] = Here
  BY <1>1, <1>2
<1> HIDE DEF i
<1>6. Fits(frames[i], Here)
  BY <1>4, <1>5 DEF WaitsWell
<1>7. WorksWell(Here)
  BY <1>1 DEF Formed
<1> QED
  BY <1>1, <1>3, <1>6, <1>7 DEF i

LEMMA ReturnShape ==
  ASSUME Viewed, Here.stage # "statements", NEW n \in Nat, Return(n)
  PROVE  /\ Len(frames) > 1 /\ Len(frames') = Len(frames) - 1
         /\ \A j \in 1..(Len(frames) - 2) : frames'[j] = frames[j]
         /\ frames'[Len(frames')].stage = frames[Len(frames) - 1].stage
<1>1. Sound(frames, heap)
  BY ViewedTop
<1> QED
  BY <1>1, ReturnIs

LEMMA ReturnsStaying ==
  ASSUME Viewed, Here.stage \notin {"statements", "statement", "target"}, Here.stage \notin TypeStages,
         NEW n \in Nat, Return(n), consumed' = consumed, it' = it,
         NEW s, s = frames[Len(frames) - 1].stage,
         \A Q, R \in FormSets : \A u, t : t \in Begins(it) /\ Q = Waits(s, u, R)
           => Derive(Active(Here.stage, s, FALSE, Q), t) \subseteq Derive(Active(s, u, FALSE, R), t)
  PROVE  Awaits' /\ Marked'
<1>1. ~Astray(frames, it)
  BY NotAstray
<1>2. /\ Len(frames) > 1 /\ Len(frames') = Len(frames) - 1
      /\ \A j \in 1..(Len(frames) - 2) : frames'[j] = frames[j]
      /\ frames'[Len(frames')].stage = frames[Len(frames) - 1].stage
  BY ReturnShape
<1>3. \A Q, R \in FormSets : \A x, u, t : x = frames[Len(frames) - 1].stage /\ t \in Begins(it) /\ Q = Waits(x, u, R)
        => Derive(Active(Here.stage, x, FALSE, Q), t) \subseteq Derive(Active(x, u, FALSE, R), t)
  OBVIOUS
<1> QED
  BY <1>1, <1>2, <1>3, StepReturn

LEMMA ReturnsReading ==
  ASSUME Viewed, Here.stage \notin {"statements", "statement", "target"}, Here.stage \notin TypeStages,
         NEW n \in Nat, Return(n),
         NEW y \in Symbols, y \in Begins(it), y # "secret", consumed' = Append(consumed, y),
         NEW s, s = frames[Len(frames) - 1].stage,
         \A Q, R \in FormSets : \A u : Q = Waits(s, u, R)
           => Derive(Active(Here.stage, s, FALSE, Q), y) \subseteq Active(s, u, FALSE, R)
  PROVE  Awaits' /\ Marked'
<1>1. ~Astray(frames, it)
  BY NotAstray
<1>2. /\ Len(frames) > 1 /\ Len(frames') = Len(frames) - 1
      /\ \A j \in 1..(Len(frames) - 2) : frames'[j] = frames[j]
      /\ frames'[Len(frames')].stage = frames[Len(frames) - 1].stage
  BY ReturnShape
<1>3. \E z \in Symbols :
        /\ z \in Begins(it) /\ z # "secret" /\ consumed' = Append(consumed, z)
        /\ \A Q, R \in FormSets : \A x, u : x = frames[Len(frames) - 1].stage /\ Q = Waits(x, u, R)
             => Derive(Active(Here.stage, x, FALSE, Q), z) \subseteq Active(x, u, FALSE, R)
  OBVIOUS
<1> QED
  BY <1>1, <1>2, <1>3, StepReturn

\* A node is made: a simple statement waits for its semicolon or is returned to the
\* updates, and the others are returned to a caller that asks for nothing more.
LEMMA KeepsBuild ==
  ASSUME Viewed, Build
  PROVE  Awaits' /\ Marked'
<1> DEFINE a == Here.stage
           L == Len(frames)
           p == frames[L - 1].stage
<1>1. a \in Simple \cup Compound /\ consumed' = consumed /\ it' = it
  BY DEF Build, At, Here, Stay
<1>2. /\ a \notin {"statements", "statement", "target"} /\ a \notin TypeStages /\ a \notin Bare
      /\ a \notin {"block", "block_body"} /\ (a \in Simple => a # "Block")
  BY <1>1 DEF Simple, Compound, TypeStages, Bare
<1>3. Fresh \in Nat
  BY ViewedTop, FreshNumber
<1>4. p \in Suspended /\ Fits(frames[L - 1], Here)
  BY <1>2, CallerFits
<1>5. CASE a \in Simple /\ Here.gobble
  <2>1. frames' = [frames EXCEPT ![L] = [@ EXCEPT !.stage = "semicolon", !.parts = <<Fresh>>]]
    BY <1>5 DEF Build
  <2>2. frames \in Seq(FrameType) /\ L \in 1..Len(frames) /\ Here = frames[L] /\ Here \in FrameType
    BY ViewedTop, Now, SoundTop DEF Shaped
  <2> DEFINE h == [Here EXCEPT !.stage = "semicolon", !.parts = <<Fresh>>]
  <2>3. frames' = [frames EXCEPT ![L] = h] /\ h.stage = "semicolon"
    BY <2>1, <2>2 DEF FrameType
  <2> HIDE DEF h
  <2>4. Differ(frames, frames', L) /\ frames'[L].stage = "semicolon"
    BY <2>2, <2>3 DEF Differ
  <2>5. OnStay(a, it, "semicolon")
    BY <1>5, SimpleWithin, DeriveMore DEF OnStay
  <2>6. ~Astray(frames, it)
    BY <1>2, NotAstray
  <2> QED
    BY <1>1, <1>2, <2>4, <2>5, <2>6, StepStay
<1>6. CASE ~(a \in Simple /\ Here.gobble)
  <2>1. Return(Fresh)
    BY <1>6 DEF Build
  <2>2. p # "parameters" /\ (a \in Simple => p = "updates")
    <3>1. frames[L - 1].stage = "parameters" <=> a \in Bare
      BY <1>4 DEF Fits
    <3>2. a \in Simple => p \notin {"otherwise", "If", "For", "Function"}
      BY <1>2, <1>4 DEF Fits, Branching
    <3>3. a \in Simple => p \notin {"statements", "block_body", "Block", "initializers"}
      BY <1>4, <1>6 DEF Fits, Gobbling
    <3> QED
      BY <1>2, <1>4, <3>1, <3>2, <3>3 DEF Suspended
  <2> HIDE DEF p
  <2>3. ASSUME NEW Q \in FormSets, NEW R \in FormSets, NEW u, NEW t, Q = Waits(p, u, R)
        PROVE  Derive(Active(a, p, FALSE, Q), t) \subseteq Derive(Active(p, u, FALSE, R), t)
    <3>1. Q = Active(p, u, FALSE, R)
      BY <2>2, <2>3, WaitsActive
    <3>2. Active(a, p, FALSE, Q) \subseteq Q
      BY <1>1, <2>2, SimpleWithin, CompoundWithin
    <3> QED
      BY <3>1, <3>2, DeriveMore
  <2>4. \A Q, R \in FormSets : \A u, t : t \in Begins(it) /\ Q = Waits(p, u, R)
          => Derive(Active(Here.stage, p, FALSE, Q), t) \subseteq Derive(Active(p, u, FALSE, R), t)
    BY <2>3
  <2>5. p = frames[Len(frames) - 1].stage
    BY DEF p
  <2> QED
    BY <1>1, <1>2, <1>3, <2>1, <2>4, <2>5, ReturnsStaying
<1> QED
  BY <1>5, <1>6

LEMMA KeepsGobble ==
  ASSUME Viewed, GobbleSemicolon
  PROVE  Awaits' /\ Marked'
<1> DEFINE L == Len(frames)
           p == frames[L - 1].stage
           n == Here.parts[1]
<1>1. Here.stage = "semicolon" /\ it = ";" /\ Return(n) /\ consumed' = Append(consumed, it)
  BY DEF GobbleSemicolon, At, Here, Advance, AdvanceTo
<1>2. Here.stage \notin {"statements", "statement", "target"} /\ Here.stage \notin TypeStages /\ Here.stage \notin Bare
  BY <1>1 DEF TypeStages, Bare
<1>3. n \in Nat
  <2>1. FrameOK(Here, heap) /\ Sound(frames, heap)
    BY ViewedTop, Now
  <2>2. Len(heap) \in Nat
    BY <2>1, SoundTop
  <2>3. n \in 1..Len(heap)
    BY <1>1, <2>1 DEF FrameOK
  <2> QED
    BY <2>2, <2>3
<1>4. p # "updates" /\ p # "parameters"
  <2>1. Here.gobble
    BY <1>1, CallerFits DEF WorksWell
  <2>2. Fits(frames[L - 1], Here)
    BY <1>1, CallerFits
  <2> QED
    BY <1>2, <2>1, <2>2 DEF Fits
<1> HIDE DEF p, n
<1>5. ASSUME NEW Q \in FormSets, NEW R \in FormSets, NEW u, Q = Waits(p, u, R)
      PROVE  Derive(Active("semicolon", p, FALSE, Q), ";") \subseteq Active(p, u, FALSE, R)
  <2>1. Q = Active(p, u, FALSE, R)
    BY <1>4, <1>5, WaitsActive
  <2>2. Active("semicolon", p, FALSE, Q) = Ending(p, Q)
    BY ClauseAt
  <2>3. ASSUME NEW v \in Derive(Ending(p, Q), ";") PROVE v \in Q
    <3>1. (";" = ";" /\ v \in Q) \/ (";" = "," /\ p = "initializers")
      BY <1>4, EndingReads
    <3> QED
      BY <3>1
  <2> QED
    BY <2>1, <2>2, <2>3
<1>6. \A Q, R \in FormSets : \A u : Q = Waits(p, u, R)
        => Derive(Active(Here.stage, p, FALSE, Q), it) \subseteq Active(p, u, FALSE, R)
  BY <1>1, <1>5
<1>7. it \in Symbols /\ it \in Begins(it) /\ it # "secret" /\ p = frames[Len(frames) - 1].stage
  BY <1>1, BeginsHas, Terms DEF p
<1> QED
  BY <1>1, <1>2, <1>3, <1>6, <1>7, ReturnsReading

LEMMA KeepsParameter ==
  ASSUME Viewed, BuildParameter
  PROVE  Awaits' /\ Marked'
<1> DEFINE L == Len(frames)
           p == "parameters"
<1>1. Here.stage = "FunctionParameter" /\ Return(Fresh) /\ Fresh \in Nat
  BY ViewedTop, FreshNumber DEF BuildParameter, At, Here
<1>2. Here.stage \notin {"statements", "statement", "target"} /\ Here.stage \notin TypeStages /\ Here.stage \in Bare
  BY <1>1 DEF TypeStages, Bare
<1>3. p = frames[Len(frames) - 1].stage
  <2>1. Fits(frames[L - 1], Here)
    BY <1>1, CallerFits
  <2> QED
    BY <1>2, <2>1 DEF Fits
<1>4. \A Q : Active("FunctionParameter", p, FALSE, Q) \subseteq Q
  BY CompoundWithin
<1>5. CASE it = ","
  <2>1. consumed' = Append(consumed, it)
    BY <1>5 DEF BuildParameter, Advance, AdvanceTo
  <2>2. \A Q, R \in FormSets : \A u : Q = Waits(p, u, R)
          => Derive(Active(Here.stage, p, FALSE, Q), it) \subseteq Active(p, u, FALSE, R)
    <3> SUFFICES ASSUME NEW Q \in FormSets, NEW R \in FormSets, NEW u, Q = Waits(p, u, R)
                 PROVE  Derive(Active("FunctionParameter", p, FALSE, Q), ",") \subseteq Active(p, u, FALSE, R)
      BY <1>1, <1>5
    <3>1. Derive(Active("FunctionParameter", p, FALSE, Q), ",") \subseteq Derive(Q, ",")
      BY <1>4, DeriveMore
    <3>2. Derive(Q, ",") \subseteq Active(p, u, FALSE, R)
      BY CommaReads
    <3> QED
      BY <3>1, <3>2
  <2>3. it \in Symbols /\ it \in Begins(it) /\ it # "secret"
    BY <1>5, BeginsHas, Terms
  <2> HIDE DEF p
  <2> QED
    BY <1>1, <1>2, <1>3, <2>1, <2>2, <2>3, ReturnsReading
<1>6. CASE it # ","
  <2>1. consumed' = consumed /\ it' = it
    BY <1>6 DEF BuildParameter, Stay
  <2>2. \A t \in Begins(it) : t # ","
    BY <1>6, BeginsIs
  <2>3. \A Q, R \in FormSets : \A u, t : t \in Begins(it) /\ Q = Waits(p, u, R)
          => Derive(Active(Here.stage, p, FALSE, Q), t) \subseteq Derive(Active(p, u, FALSE, R), t)
    <3> SUFFICES ASSUME NEW Q \in FormSets, NEW R \in FormSets, NEW u, NEW t, t # ",", Q = Waits(p, u, R)
                 PROVE  Derive(Active("FunctionParameter", p, FALSE, Q), t) \subseteq Derive(Active(p, u, FALSE, R), t)
      BY <1>1, <2>2
    <3>1. Derive(Active("FunctionParameter", p, FALSE, Q), t) \subseteq Derive(Q, t)
      BY <1>4, DeriveMore
    <3>2. Derive(Q, t) \subseteq Derive(Active(p, u, FALSE, R), t)
      BY OthersReads
    <3> QED
      BY <3>1, <3>2
  <2> HIDE DEF p
  <2> QED
    BY <1>1, <1>2, <1>3, <2>1, <2>3, ReturnsStaying
<1> QED
  BY <1>5, <1>6

---------------------------------------------------------------------------
(* Texts that are rejected.                                                *)

NotViable == \A t \in Begins(it) : ~Viable(Append(consumed, t))

\* Nothing is derived where the parser throws.
LEMMA RejectsAt ==
  ASSUME Viewed, ~Astray(frames, it), NEW s, s = CalledAt(frames, Len(frames)),
         \A Q \in FormSets : \A t \in Begins(it) :
           \A v \in Derive(Active(Here.stage, s, Secretly(consumed), Q), t) : FALSE
  PROVE  NotViable
<1> SUFFICES ASSUME NEW t \in Begins(it) PROVE ~Viable(Append(consumed, t))
  BY DEF NotViable
<1>1. \A Q \in FormSets : Derive(Active(Here.stage, s, Secretly(consumed), Q), t) = {}
  OBVIOUS
<1>2. \A Q \in FormSets : Derive(Active(Here.stage, CalledAt(frames, Len(frames)), Secretly(consumed), Q), t) = {}
  BY <1>1
<1> HIDE <1>1
<1> QED
  BY <1>2, StepReject

LEMMA RejectsToken ==
  ASSUME Viewed, RejectToken
  PROVE  NotViable
<1> DEFINE a == Here.stage
           s == CalledAt(frames, Len(frames))
           sec == Secretly(consumed)
<1>1. a \in DOMAIN Expected /\ it # Expected[a].token /\ ~SecretNext
  BY DEF RejectToken, At, Here
<1>2. Expected[a].token \notin {"secret", "expr", "target"} /\ a \notin {"statement", "target"}
  BY <1>1, ExpectTokens
<1>3. sec \in BOOLEAN
  BY DEF Secretly
<1>4. ASSUME NEW t \in Begins(it) PROVE t # Expected[a].token /\ (a \in TypeStages /\ t = "secret" => sec)
  <2>1. \/ t = it
        \/ t = "expr" \/ t = "target"
    BY BeginsIs
  <2>2. t # Expected[a].token
    BY <1>1, <1>2, <2>1
  <2>3. a \in TypeStages /\ it = "secret" => sec
    BY <1>1 DEF SecretNext, TypeStages, Secretly
  <2> QED
    BY <2>1, <2>2, <2>3
<1>5. ~Astray(frames, it)
  BY <1>2, NotAstray
<1>6. \A Q \in FormSets : \A t \in Begins(it) : Derive(Active(a, s, sec, Q), t) = {}
  <2> HIDE DEF a, s, sec
  <2> QED
    BY <1>1, <1>3, <1>4, ExpectRead
<1> QED
  BY <1>5, <1>6, RejectsAt

LEMMA RejectsExpression ==
  ASSUME Viewed, RejectExpression, ~InsideExpression
  PROVE  NotViable
<1> DEFINE a == Here.stage
           s == CalledAt(frames, Len(frames))
           sec == Secretly(consumed)
<1>1. a \in DOMAIN AfterExpression /\ (a = "returned_value" => it # ";")
  BY DEF RejectExpression, At, Here
<1>2. it \notin Starts
  BY <1>1 DEF InsideExpression
<1>3. Begins(it) = {it} /\ it # "expr"
  <2>1. it # "expr"
    BY ViewedTop DEF AllTokens, Keywords, Punctuation
  <2> QED
    BY <1>2, <2>1, BeginsHas
<1>4. ~Astray(frames, it)
  BY <1>1, AfterIs, NotAstray
<1>5. \A Q \in FormSets : \A t \in Begins(it) : Derive(Active(a, s, sec, Q), t) = {}
  <2> HIDE DEF s, sec
  <2> QED
    BY <1>1, <1>3, ExpressionSteps
<1> QED
  BY <1>4, <1>5, RejectsAt

LEMMA RejectsTarget ==
  ASSUME Viewed, RejectTarget, ~InsideExpression
  PROVE  NotViable \/ (it = "," /\ InForHeader)
<1> DEFINE s == CalledAt(frames, Len(frames))
           sec == Secretly(consumed)
<1>1. Here.stage = "target" /\ it # "id"
  BY DEF RejectTarget, At, Here, InsideExpression
<1>2. CASE Astray(frames, it)
  BY <1>2 DEF Astray, InForHeader, Lists
<1>3. CASE ~Astray(frames, it)
  <2>1. \A t \in Begins(it) : t # "target"
    <3>1. it # "target"
      BY ViewedTop DEF AllTokens, Keywords, Punctuation
    <3> QED
      BY <1>1, <3>1, BeginsIs
  <2>2. \A Q \in FormSets : \A t \in Begins(it) : \A v \in Derive(Active(Here.stage, s, sec, Q), t) : FALSE
    <3> SUFFICES ASSUME NEW Q \in FormSets, NEW t \in Begins(it), NEW v \in Derive(Active("target", s, sec, Q), t)
                 PROVE  FALSE
      BY <1>1
    <3> HIDE DEF s, sec
    <3>1. Steps(Active("target", s, sec, Q), "target", Active("assign", s, FALSE, Q))
      BY TargetSteps
    <3>2. t = "target"
      BY <3>1 DEF Steps
    <3> QED
      BY <2>1, <3>2
  <2> QED
    BY <1>3, <2>2, RejectsAt
<1> QED
  BY <1>2, <1>3

LEMMA RejectsSemicolon ==
  ASSUME Viewed, RejectSemicolon
  PROVE  NotViable \/ (it = "," /\ InForHeader)
<1> DEFINE s == CalledAt(frames, Len(frames))
           p == frames[Len(frames) - 1]
           sec == Secretly(consumed)
<1>1. Here.stage = "semicolon" /\ it # ";"
  BY DEF RejectSemicolon, At, Here
<1>2. Len(frames) > 1 /\ Len(frames) \in Nat /\ s = p.stage
  <2>1. Len(frames) > 1 /\ Len(frames) \in Nat
    BY <1>1, CallerFits, ViewedTop
  <2> QED
    BY <2>1 DEF CalledAt
<1>3. s # "updates"
  <2>1. Here.gobble
    BY <1>1, CallerFits DEF WorksWell
  <2>2. Fits(p, Here)
    BY <1>1, CallerFits
  <2> QED
    BY <1>2, <2>1, <2>2 DEF Fits
<1>4. CASE it = "," /\ s = "initializers"
  <2>1. Len(frames) - 1 \in 1..(Len(frames) - 1)
    BY <1>2
  <2> QED
    BY <1>2, <1>4, <2>1 DEF InForHeader
<1>5. CASE ~(it = "," /\ s = "initializers")
  <2>1. \A t \in Begins(it) : t # ";" /\ (t = "," => t = it)
    BY <1>1, BeginsIs
  <2>2. ~Astray(frames, it)
    BY <1>1, NotAstray
  <2>3. \A Q \in FormSets : \A t \in Begins(it) : \A v \in Derive(Active(Here.stage, s, sec, Q), t) : FALSE
    <3> SUFFICES ASSUME NEW Q \in FormSets, NEW t \in Begins(it), NEW v \in Derive(Active("semicolon", s, sec, Q), t)
                 PROVE  FALSE
      BY <1>1
    <3> HIDE DEF s, sec
    <3>1. v \in Derive(Ending(s, Q), t)
      BY ClauseAt
    <3>2. t = ";" \/ (t = "," /\ s = "initializers")
      BY <1>3, <3>1, EndingReads
    <3> QED
      BY <1>5, <2>1, <3>2
  <2> QED
    BY <2>2, <2>3, RejectsAt
<1> QED
  BY <1>4, <1>5

LEMMA RejectsDeclaration ==
  ASSUME Viewed, RejectDeclaration
  PROVE  NotViable
<1> DEFINE s == CalledAt(frames, Len(frames))
           sec == Secretly(consumed)
<1>1. \/ Here.stage = "variable" /\ it # "id"
      \/ Here.stage \in {"array", "initial_value"} /\ it \notin {";", "="} /\ (Here.stage = "array" => it # "[")
  BY DEF RejectDeclaration, At, Here
<1>2. ~Astray(frames, it)
  BY <1>1, NotAstray
<1>3. CASE Here.stage = "variable" /\ it # "id"
  <2>1. \A t \in Begins(it) : t # "id"
    BY <1>3, BeginsIs
  <2>2. \A Q \in FormSets : \A t \in Begins(it) : \A v \in Derive(Active(Here.stage, s, sec, Q), t) : FALSE
    <3> SUFFICES ASSUME NEW Q \in FormSets, NEW t \in Begins(it), NEW v \in Derive(Active("variable", s, sec, Q), t)
                 PROVE  FALSE
      BY <1>3
    <3> HIDE DEF s, sec
    <3>1. Steps(Active("variable", s, sec, Q), "id", Active("array", s, FALSE, Q))
      BY VariableSteps
    <3>2. t = "id"
      BY <3>1 DEF Steps
    <3> QED
      BY <2>1, <3>2
  <2> QED
    BY <1>2, <2>2, RejectsAt
<1>4. CASE Here.stage \in {"array", "initial_value"} /\ it \notin {";", "="} /\ (Here.stage = "array" => it # "[")
  <2>1. \A t \in Begins(it) : t \notin {";", "="} /\ (t = "[" => t = it)
    BY <1>4, BeginsIs
  <2>2. \A Q \in FormSets : \A t \in Begins(it) : \A v \in Derive(Active(Here.stage, s, sec, Q), t) : FALSE
    <3> SUFFICES ASSUME NEW Q \in FormSets, NEW t \in Begins(it), NEW v \in Derive(Active(Here.stage, s, sec, Q), t)
                 PROVE  FALSE
      OBVIOUS
    <3> DEFINE a == Here.stage
    <3>1. a \in {"array", "initial_value"} /\ v \in Derive(Active(a, s, sec, Q), t)
      BY <1>4
    <3> HIDE DEF a, s, sec
    <3>2. (t = "[" /\ a = "array") \/ t = "=" \/ t = ";"
      BY <3>1, DeclaredReads
    <3> QED
      BY <1>4, <2>1, <3>2 DEF a
  <2> QED
    BY <1>2, <2>2, RejectsAt
<1> QED
  BY <1>1, <1>3, <1>4

LEMMA RejectsRight ==
  ASSUME Viewed, Throws
  PROVE  RejectsOnlyNonPrograms'
<1> SUFFICES ASSUME pc' = "threw", ~InsideExpression'
             PROVE  (NotViable \/ (it = "," /\ InForHeader))'
  BY DEF RejectsOnlyNonPrograms, NotViable, Beginning, Begins
<1>0. ~LoseParameter /\ ~RefuseLexeme /\ (UNCHANGED <<heap, frames>> \/ PassesRaw) /\ Stay
  BY ThrowsHow
<1>1. frames' = frames /\ it' = it /\ consumed' = consumed
  <2>1. ~PassesRaw
    <3> SUFFICES ASSUME PassesRaw PROVE FALSE
      OBVIOUS
    <3>1. frames' = Append(frames, RawFrame(Fresh))
      BY DEF PassesRaw, ThrowRaw, RawFrame
    <3>2. frames \in Seq(FrameType \cup {RawFrame(Fresh)})
      BY SoundTop, SeqMonotonic DEF Viewed, Shaped
    <3>3. Here' = RawFrame(Fresh)
      BY <3>1, <3>2, Pushed DEF Here, Top
    <3> QED
      BY <3>3 DEF InsideExpression, RawFrame, Frame
  <2> QED
    BY <1>0, <2>1 DEF Stay
<1>2. ~InsideExpression => NotViable \/ (it = "," /\ InForHeader)
  BY <1>0, RejectsToken, RejectsExpression, RejectsTarget, RejectsSemicolon, RejectsDeclaration DEF Throws
<1>3. (InsideExpression' <=> InsideExpression) /\ (InForHeader' <=> InForHeader) /\ Beginning' = Begins(it)
  BY <1>1 DEF InsideExpression, InForHeader, Beginning, Begins, Here, Top
<1> QED
  BY <1>1, <1>2, <1>3 DEF NotViable

---------------------------------------------------------------------------
(* The theorem about rejection, from its invariant.                        *)

\* The text goes on with tokens.
LEMMA SeenAdvance ==
  ASSUME source \in Sources, Seen, NEW y \in Symbols, NEW S, AdvanceTo(y, S)
  PROVE  source' \in Sources /\ Seen'
<1>1. source' = source /\ consumed' = Append(consumed, y) /\ it' \in NextToken(Len(consumed) + 1)
  BY DEF AdvanceTo
<1>2. source.tokens \subseteq AllTokens
  BY SourcesAssumption
<1>3. it' \in AllTokens \cup {"eof"}
  BY <1>1, <1>2 DEF NextToken
<1>4. consumed' \in Seq(Symbols)
  BY <1>1 DEF Seen
<1> QED
  BY <1>1, <1>3, <1>4 DEF Seen
LEMMA SeenStay ==
  ASSUME source \in Sources, Seen, Stay
  PROVE  source' \in Sources /\ Seen'
BY DEF Stay, Seen
LEMMA SeenStep ==
  ASSUME source \in Sources, Seen, [Next]_vars
  PROVE  source' \in Sources /\ Seen'
<1>1. CASE ExpectToken
  <2>1. Here.stage \in DOMAIN Expected /\ it = Expected[Here.stage].token /\ AdvanceTo(it, {})
    BY <1>1 DEF ExpectToken, At, Here, Advance
  <2>2. it \in Symbols
    BY <2>1, ExpectTokens
  <2> QED
    BY <2>1, <2>2, SeenAdvance
<1>2. CASE ReadSecret \/ DispatchKeyword \/ GobbleSemicolon \/ DeclareVariable \/ OpenArray \/ Initialize
  <2>1. AdvanceTo(it, {})
    BY <1>2 DEF ReadSecret, DispatchKeyword, GobbleSemicolon, DeclareVariable, OpenArray, Initialize, Advance
  <2>2. it \in {"secret", ";", "id", "[", "="} \/ it \in DOMAIN Opened
    BY <1>2 DEF ReadSecret, SecretNext, DispatchKeyword, GobbleSemicolon, DeclareVariable, OpenArray, Initialize
  <2>3. it \in Symbols
    BY <2>2, OpenedIs, Terms
  <2> QED
    BY <2>1, <2>3, SeenAdvance
<1>3. CASE CloseBlock \/ CloseParameters \/ NoInitializer
  <2>1. AdvanceTo(it, {}) /\ it \in {"}", ")", ";"}
    BY <1>3 DEF CloseBlock, CloseParameters, NoInitializer, Advance
  <2>2. it \in Symbols
    BY <2>1, Terms
  <2> QED
    BY <2>1, <2>2, SeenAdvance
<1>4. CASE Otherwise \/ BuildParameter \/ NextListed
  <2>1. (AdvanceTo(it, {}) /\ it \in {"else", ","}) \/ Stay
    <3>1. CASE Otherwise
      BY <3>1 DEF Otherwise, Advance
    <3>2. CASE BuildParameter
      BY <3>2 DEF BuildParameter, Advance
    <3>3. CASE NextListed
      BY <3>3 DEF NextListed, Advance
    <3> QED
      BY <1>4, <3>1, <3>2, <3>3
  <2>2. it \in {"else", ","} => it \in Symbols
    BY Terms
  <2> QED
    BY <2>1, <2>2, SeenAdvance, SeenStay
<1>5. CASE ReadExpression \/ ReadTarget
  <2>1. AdvanceTo("expr", Starts) \/ AdvanceTo("target", {"["})
    BY <1>5 DEF ReadExpression, ReadTarget
  <2> QED
    BY <2>1, Terms, SeenAdvance
<1>6. CASE Dispatch \/ Build \/ ReturnNothing \/ DeclareOnly \/ NextStatement \/ Branch \/ NextParameter \/ Body
  <2>1. Stay
    BY <1>6 DEF Dispatch, Build, ReturnNothing, DeclareOnly, NextStatement, Branch, NextParameter, Body
  <2> QED
    BY <2>1, SeenStay
<1>7. CASE FirstListed \/ EndInitializers \/ EndUpdates \/ WrapUpdates
  <2>1. Stay
    BY <1>7 DEF FirstListed, EndInitializers, EndUpdates, WrapUpdates
  <2> QED
    BY <2>1, SeenStay
<1>8. CASE Throws
  <2>1. Stay
    BY <1>8, ThrowsHow
  <2> QED
    BY <2>1, SeenStay
<1>9. CASE Finish \/ Finished \/ UNCHANGED vars
  <2>1. Stay
    BY <1>9 DEF Finish, Finished, vars, Stay
  <2> QED
    BY <2>1, SeenStay
<1> QED
  BY <1>1, <1>2, <1>3, <1>4, <1>5, <1>6, <1>7, <1>8, <1>9 DEF Next, Step, Throws

\* The grammar is followed for as long as the parser runs.
RejectInv == /\ SpellsInv
             /\ source \in Sources /\ Seen
             /\ pc = "parse" => Marked /\ Awaits
             /\ RejectsOnlyNonPrograms

LEMMA RejectView ==
  ASSUME RejectInv, pc = "parse"
  PROVE  Viewed
<1>1. Sound(frames, heap) /\ Formed(frames, it)
  BY DEF RejectInv, SpellsInv, Unharmed, Spelled, Speaks
<1> QED
  BY <1>1 DEF RejectInv, Viewed

\* A step that goes on, one that throws, and the others.
LEMMA KeepsOn ==
  ASSUME Viewed,
         \/ ExpectToken \/ ReadSecret \/ ReadExpression \/ ReadTarget
         \/ DispatchKeyword \/ Dispatch \/ Build \/ GobbleSemicolon
         \/ ReturnNothing \/ DeclareVariable \/ OpenArray \/ DeclareOnly \/ Initialize
         \/ NextStatement \/ CloseBlock \/ Branch \/ Otherwise
         \/ NextParameter \/ BuildParameter \/ CloseParameters \/ Body
         \/ NoInitializer \/ FirstListed \/ NextListed \/ EndInitializers \/ EndUpdates \/ WrapUpdates
  PROVE  Awaits' /\ Marked' /\ pc' = pc
<1>1. Awaits' /\ Marked'
  BY KeepsExpected, KeepsSecret, KeepsExpression, KeepsTarget, KeepsKeyword, KeepsDispatch, KeepsBuild,
     KeepsGobble, KeepsDeclaration, KeepsNext, KeepsClosing, KeepsBranch, KeepsOtherwise, KeepsParameter,
     KeepsBody, KeepsHeader, KeepsFirst, KeepsListed
<1>2. CASE \/ ExpectToken \/ ReadSecret \/ ReadExpression \/ ReadTarget
           \/ DispatchKeyword \/ Dispatch \/ Build \/ GobbleSemicolon
           \/ ReturnNothing \/ DeclareVariable \/ OpenArray \/ DeclareOnly \/ Initialize
  <2>1. pc' = pc
    BY <1>2 DEF ExpectToken, ReadSecret, ReadExpression, ReadTarget, DispatchKeyword, Dispatch, Build,
                GobbleSemicolon, ReturnNothing, DeclareVariable, OpenArray, DeclareOnly, Initialize
  <2> QED
    BY <1>1, <2>1
<1>3. CASE \/ NextStatement \/ CloseBlock \/ Branch \/ Otherwise
           \/ NextParameter \/ BuildParameter \/ CloseParameters \/ Body
           \/ NoInitializer \/ FirstListed \/ NextListed \/ EndInitializers \/ EndUpdates \/ WrapUpdates
  <2>1. pc' = pc
    BY <1>3 DEF NextStatement, CloseBlock, Branch, Otherwise, NextParameter, BuildParameter, CloseParameters,
                Body, NoInitializer, FirstListed, NextListed, EndInitializers, EndUpdates, WrapUpdates
  <2> QED
    BY <1>1, <2>1
<1> QED
  BY <1>2, <1>3

LEMMA RejectStep == RejectInv /\ [Next]_vars => RejectInv'
<1> SUFFICES ASSUME RejectInv, [Next]_vars PROVE RejectInv'
  OBVIOUS
<1>1. SpellsInv'
  BY SpellsStep DEF RejectInv
<1>2. source' \in Sources /\ Seen'
  BY SeenStep DEF RejectInv
<1>3. ((pc = "parse" => Marked /\ Awaits) /\ RejectsOnlyNonPrograms)'
  <2>1. CASE Step
    <3>1. Viewed /\ pc = "parse"
      BY <2>1, RunningNow, RejectView
    <3>2. CASE Throws
      <4>1. pc' # "parse"
        BY <3>2, ThrowsHow
      <4>2. RejectsOnlyNonPrograms'
        BY <3>1, <3>2, RejectsRight
      <4> QED
        BY <4>1, <4>2
    <3>3. CASE Finish
      <4>1. pc' = "done"
        BY <3>3 DEF Finish
      <4> QED
        BY <4>1 DEF RejectsOnlyNonPrograms
    <3>4. CASE ~(Throws \/ Finish)
      <4>1. \/ ExpectToken \/ ReadSecret \/ ReadExpression \/ ReadTarget
            \/ DispatchKeyword \/ Dispatch \/ Build \/ GobbleSemicolon
            \/ ReturnNothing \/ DeclareVariable \/ OpenArray \/ DeclareOnly \/ Initialize
            \/ NextStatement \/ CloseBlock \/ Branch \/ Otherwise
            \/ NextParameter \/ BuildParameter \/ CloseParameters \/ Body
            \/ NoInitializer \/ FirstListed \/ NextListed \/ EndInitializers \/ EndUpdates \/ WrapUpdates
        BY <2>1, <3>4 DEF Step, Throws
      <4>2. Awaits' /\ Marked' /\ pc' = pc
        BY <3>1, <4>1, KeepsOn
      <4> QED
        BY <3>1, <4>2 DEF RejectsOnlyNonPrograms
    <3> QED
      BY <3>2, <3>3, <3>4
  <2>2. CASE Finished \/ UNCHANGED vars
    <3>1. frames' = frames /\ consumed' = consumed /\ it' = it /\ pc' = pc
      BY <2>2 DEF Finished, vars
    <3>2. Marked' = Marked /\ Awaits' = Awaits /\ RejectsOnlyNonPrograms' = RejectsOnlyNonPrograms
      <4>1. Marked' = Marked
        BY <3>1 DEF Marked, Here, Top
      <4>2. Awaits' = Awaits
        BY <3>1 DEF Awaits
      <4>3. RejectsOnlyNonPrograms' = RejectsOnlyNonPrograms
        BY <3>1 DEF RejectsOnlyNonPrograms, InsideExpression, InForHeader, Beginning, Here, Top
      <4> QED
        BY <4>1, <4>2, <4>3
    <3> QED
      BY <3>1, <3>2 DEF RejectInv
  <2> QED
    BY <2>1, <2>2 DEF Next
<1> QED
  BY <1>1, <1>2, <1>3 DEF RejectInv

LEMMA RejectInit == Init => RejectInv
<1> SUFFICES ASSUME Init PROVE RejectInv
  OBVIOUS
<1> DEFINE a == "statements"
           qs == <<{<<>>}>>
<1>1. /\ source \in Sources /\ consumed = <<>> /\ it \in NextToken(0) /\ pc = "parse"
      /\ frames = <<Frame(a, FALSE)>>
  BY DEF Init
<1>2. Len(frames) = 1 /\ frames[1].stage = a /\ Here.stage = a
  BY <1>1 DEF Frame, Here, Top
<1>3. SpellsInv
  BY SpelledInit
<1>4. Seen
  <2>1. source.tokens \subseteq AllTokens
    BY <1>1, SourcesAssumption
  <2> QED
    BY <1>1, <2>1 DEF Seen, NextToken
<1>5. Secretly(consumed) = FALSE
  BY <1>1 DEF Secretly
<1>6. Stacked(qs, frames)
  <2>1. qs \in Seq(FormSets) /\ Len(qs) = 1 /\ qs[1] = {<<>>}
    BY FormsNone
  <2>2. \A i \in 1..Len(frames) : i = 1
    BY <1>2
  <2>3. \A i \in 1..(Len(frames) - 1) : FALSE
    BY <1>2
  <2> HIDE DEF qs
  <2> QED
    BY <1>2, <2>1, <2>2, <2>3, ElseNothing DEF Stacked
<1>7. Awaited(qs, frames, consumed) = Active(a, "none", FALSE, {<<>>})
  <2>1. CalledAt(frames, Len(frames)) = "none"
    BY <1>2 DEF CalledAt
  <2>2. qs[Len(frames)] = {<<>>}
    BY <1>2
  <2> HIDE DEF qs
  <2> QED
    BY <1>2, <1>5, <2>1, <2>2 DEF Awaited
<1>8. Active(a, "none", FALSE, {<<>>}) = "Program" ## {<<>>}
  <2>1. a \in PlainStages /\ "none" \notin Lists
    BY DEF PlainStages, Stages, ClauseStages, Lists
  <2> DEFINE Q == {<<>>}
  <2>2. PlainForms("statements", FALSE, Q) = "Program" ## Q
    BY DEF PlainForms
  <2> HIDE DEF Q
  <2>3. Active(a, "none", FALSE, Q) = PlainForms(a, FALSE, Q)
    BY <2>1, PlainActive
  <2> QED
    BY <2>2, <2>3 DEF Q
<1>9. "Program" ## {<<>>} = {<<"Program">>}
  <2>1. Led("Program", <<>>) = <<"Program">>
    BY DEF Led
  <2> QED
    BY <2>1 DEF ##
<1>10. Forms(consumed) = {<<"Program">>}
  BY <1>1, FormsNothing
<1>11. Tracks(qs, frames, consumed, it)
  <2> HIDE DEF qs
  <2> QED
    BY <1>6, <1>7, <1>8, <1>9, <1>10 DEF Tracks
<1> QED
  BY <1>1, <1>3, <1>4, <1>5, <1>11 DEF RejectInv, Marked, Awaits, RejectsOnlyNonPrograms

\* A text is rejected only where it is no longer the beginning of a program, but for
\* errors inside expressions and the second statement in the lists of a for.
THEOREM OnlyNonProgramsAreRejected == Spec => []RejectsOnlyNonPrograms
<1>1. Init => RejectInv
  BY RejectInit
<1>2. RejectInv /\ [Next]_vars => RejectInv'
  BY RejectStep
<1>3. RejectInv => RejectsOnlyNonPrograms
  BY DEF RejectInv
<1> QED
  BY <1>1, <1>2, <1>3, PTL DEF Spec
=============================================================================
