------------------------------ MODULE TokenGrammar ------------------------------
(***************************************************************************)
(* What the tokens of a text T are, said of the text alone, and that the   *)
(* tokenizer returns them.  A position is the number of characters before  *)
(* it.                                                                     *)
(***************************************************************************)
EXTENDS Tokenizer

\* The text spells the lexeme from position i on, or up to position j.
Has(T, i, lexeme) == /\ i + Len(lexeme) <= Len(T)
                     /\ \A k \in 1..Len(lexeme) : T[i + k] = lexeme[k]
Spells(T, i, j, lexeme) == Has(T, i, lexeme) /\ j = i + Len(lexeme)

\* The character c is at position i; none between i and j is one of S.
Is(T, i, c) == i < Len(T) /\ T[i + 1] = c
Avoids(T, i, j, S) == j <= Len(T) /\ \A k \in (i + 1)..j : T[k] \notin S

\* From position i to position j there is a blank or a comment; a line comment ends
\* behind its newline or in front of the end of the text.
IsBlank(T, i, j) == j = i + 1 /\ \E c \in Spaces : Is(T, i, c)
IsLineComment(T, i, j) ==
  /\ Has(T, i, <<"/", "/">>)
  /\ \/ j > i + 2 /\ Avoids(T, i + 2, j - 1, Ends \cup {"nl"}) /\ Is(T, j - 1, "nl")
     \/ j >= i + 2 /\ Avoids(T, i + 2, j, Ends \cup {"nl"}) /\ \E c \in Ends : Is(T, j, c)
IsBlockComment(T, i, j) ==
  /\ j >= i + 4 /\ Has(T, i, <<"/", "*">>) /\ Avoids(T, i + 2, j, Ends)
  /\ Has(T, j - 2, <<"*", "/">>)
  /\ \A k \in (i + 2)..(j - 3) : ~Has(T, k, <<"*", "/">>)
IsPiece(T, i, j) == IsBlank(T, i, j) \/ IsLineComment(T, i, j) \/ IsBlockComment(T, i, j)

\* From position i to position j there are only blanks and whole comments: one
\* after the other, cut at these positions.
IsGap(T, i, j) == \E cuts \in SUBSET (i..j) :
                    /\ {i, j} \subseteq cuts
                    /\ \A k \in cuts \ {j} : \E m \in cuts : IsPiece(T, k, m)

\* A string from its quote at i to its quote before j; a quote or a control
\* character in it is behind a backslash.
IsEscaped(T, i, k) == k > i + 1 /\ Is(T, k - 1, "\\")
Unfit == {"quote", "tab", "nl", "cr"}
FitsString(T, i, j) ==
  /\ Is(T, i, "quote") /\ Avoids(T, i + 1, j, Ends)
  /\ \A k \in (i + 1)..(j - 1) : T[k + 1] \in Unfit => IsEscaped(T, i, k)
IsString(T, i, j) == /\ j >= i + 2 /\ FitsString(T, i, j - 1)
                     /\ Is(T, j - 1, "quote") /\ ~IsEscaped(T, i, j - 1)

\* What the characters behind the quote at i, up to position j, denote: themselves
\* but for the backslashes, or what they are when escaped.
Denotes(T, i, j, value) ==
  LET kept == {k \in (i + 1)..(j - 1) : ~Is(T, k, "\\")} IN
  /\ Len(value) = Cardinality(kept)
  /\ \A k \in kept : value[Cardinality({m \in kept : m <= k})] =
                       (IF IsEscaped(T, i, k) THEN Escaped(T[k + 1]) ELSE T[k + 1])

\* From position i to position j there is a word that starts with a digit: letters,
\* digits and dots, never two dots in a row, and all of them that follow each other.
IsNumberWord(T, i, j) ==
  /\ \E c \in Digits : Is(T, i, c)
  /\ \A k \in (i + 2)..j : T[k] \in AlphaNum \/ (T[k] = "." /\ T[k - 1] # ".")
  /\ j < Len(T) /\ T[j + 1] \notin AlphaNum
  /\ T[j + 1] = "." => T[j] # "." /\ Is(T, j + 1, ".")

\* The characters of a token, from position i to t.upto, are a lexeme of its kind.
Words == {"keyword", "identifier", "int", "float", "double"}
IsLexeme(T, i, t) ==
  /\ t.kind = "eof" => t.upto = i + 1 /\ \E c \in Ends : Is(T, i, c)
  /\ t.kind = "string" => IsString(T, i, t.upto) /\ Denotes(T, i, t.upto - 1, t.value)
  /\ t.kind = "operator" => Spells(T, i, t.upto, t.value) /\ t.value \in Operators
  /\ t.kind \in Words => /\ Spells(T, i, t.upto, t.value)
                         /\ t.kind = "keyword" <=> t.value \in Keywords
                         /\ t.kind \in {"int", "float", "double"} <=> t.value[1] \in Digits

\* Where the lexeme of a token starts (a string remembers where its contents start),
\* and where the one before it ended.
FirstOf(t) == IF t.kind = "string" THEN t.index - 1 ELSE t.index
EndBefore(ts, i) == IF i = 1 THEN 0 ELSE ts[i - 1].upto

---------------------------------------------------------------------------
(* Properties *)

Text == stream.given

\* No character is lost and none is read twice: the text before the reader is cut
\* into lexemes with nothing but blanks and whole comments between them, each token
\* denotes its lexeme and carries the line on which it starts.
TokensTileText ==
  \A i \in 1..Len(tokens) :
    LET t == tokens[i] IN
    /\ t.upto <= Len(Text)
    /\ IsGap(Text, EndBefore(tokens, i), FirstOf(t))
    /\ IsLexeme(Text, FirstOf(t), t)
    /\ t.line = LinesBefore(stream, FirstOf(t))

\* An operator is the longest one that the text spells at that place, whatever was
\* read before or after it (getOperator reads past it and goes back); a word or
\* number is not followed by one more of its characters.
LongestMatch ==
  \A i \in 1..Len(tokens) :
    LET t == tokens[i] IN
    /\ t.kind = "operator" =>
         \A o \in Operators : Has(Text, t.index, o) => Len(o) <= Len(t.value)
    /\ t.kind \in Words => \A c \in AlphaNum : ~Is(Text, t.upto, c)

\* The tokenizer throws only on a text that has no tokens behind the last one:
\* there is a string or a comment that is not closed, a character that starts no
\* operator, or a whole word after a digit that neither strtol nor strtod reads to
\* its end.  Left open is a word that ends in f, which may be refused though it is a
\* number.
FailsOnlyOnBadText ==
  LET last == EndBefore(tokens, Len(tokens) + 1)
      Behind == last..(Len(Text) - 1) IN
  /\ pc = "open_string" =>
       \E j \in Behind : /\ Is(Text, j, "quote")
                         /\ \A m \in j..Len(Text) : ~IsString(Text, j, m)
                         /\ IsGap(Text, last, j)
  /\ pc = "open_comment" =>
       \E j \in Behind : /\ Has(Text, j, <<"/", "*">>)
                         /\ \A m \in j..Len(Text) : ~IsBlockComment(Text, j, m)
                         /\ IsGap(Text, last, j)
  /\ pc = "unexpected_text" =>
       \E j \in Behind : /\ \E c \in Puncts : Is(Text, j, c)
                         /\ \A o \in Operators : ~Has(Text, j, o)
                         /\ IsGap(Text, last, j)
  /\ pc = "bad_number" =>
       \E j \in Behind : \E m \in (j + 1)..Len(Text) :
         /\ IsNumberWord(Text, j, m)
         /\ LET w == SubSeq(Text, j + 1, m) IN Top(w) = "f" \/ ~(AllDigits(w) \/ Decimal(w))
         /\ IsGap(Text, last, j)

\* Every text is read to its end or to an exception.
Termination == <>Ended
=============================================================================
