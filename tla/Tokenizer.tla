-------------------------------- MODULE Tokenizer --------------------------------
(***************************************************************************)
(* tokens_iterator over a PushBackStream: tokenize() and the scanners it   *)
(* calls (fetch_word, fetch_operator with getOperator, fetch_string, the   *)
(* two kinds of comments), one action per round of their loops.  The       *)
(* iterator is advanced until the token eof or an exception.               *)
(*                                                                         *)
(* A character is its name; "eof" is what the input function returns at    *)
(* the end of the text, "high" a byte from 0x80 on (char is signed).  The  *)
(* text is chosen a character at a time, when the input function is asked. *)
(***************************************************************************)
EXTENDS Integers, Sequences

CONSTANT Sources   \* bound: records [chars, length] of the texts to be read

Letters == {"i", "f", "n", "_"}
Digits == {"1"}
Spaces == {"sp", "nl", "tab", "cr"}
Ends == {"eof", "high"}
Puncts == {"+", "-", ".", "*", "/", "\\", "%", "~", "&", "|", "^", "<", ">", "=",
           "!", "?", ":", ",", ";", "(", ")", "{", "}", "[", "]", "quote", "@"}
AlphaNum == Letters \cup Digits
Char == Ends \cup Spaces \cup AlphaNum \cup Puncts

INSTANCE PushBackStream

ASSUME SourcesAssumption ==
  \A t \in Sources : t.chars \subseteq Char /\ t.length \in Nat

\* operator_token_map, spelled.
Brackets == {<<c>> : c \in {"(", ")", "{", "}", "[", "]"}}
Assigns == {<<"=">>, <<"+", "=">>, <<"-", "=">>, <<".", ".", "=">>, <<"*", "=">>,
            <<"/", "=">>, <<"\\", "=">>, <<"%", "=">>, <<"&", "=">>, <<"|", "=">>,
            <<"^", "=">>, <<"<", "<", "=">>, <<">", ">", "=">>}
Relations == {<<"=", "=">>, <<"!", "=">>, <<"<">>, <<">">>, <<"<", "=">>, <<">", "=">>,
              <<"!">>, <<"&", "&">>, <<"|", "|">>}
Arithmetics == {<<"+">>, <<"-">>, <<".", ".">>, <<"*">>, <<"/">>, <<"\\">>, <<"%">>,
                <<"+", "+">>, <<"-", "-">>, <<"+", "+", "+">>, <<"-", "-", "-">>,
                <<"*", "*", "*">>, <<"~">>, <<"&">>, <<"|">>, <<"^">>,
                <<"<", "<">>, <<">", ">">>}
Operators == Brackets \cup Assigns \cup Relations \cup Arithmetics
               \cup {<<"?">>, <<":">>, <<",">>, <<";">>}

\* The one keyword that the letters of this model spell.
Keywords == {<<"i", "f">>}

VARIABLES stream,
          pc,       \* where in which scanner
          chars,    \* the characters the scanner has collected
          begin,    \* line_number and char_index of the token
          matched,  \* getOperator: match_size
          flag,     \* fetch_string: escaped, skip_block_comment: closing
          tokens    \* the tokens returned so far

vars == <<stream, pc, chars, begin, matched, flag, tokens>>

---------------------------------------------------------------------------
Top(s) == s[Len(s)]
Pop(s) == SubSeq(s, 1, Len(s) - 1)

\* What the input function may return next: a character of a text that is still
\* open, and "eof" at its end and ever after.
Input(given) ==
  IF "eof" \in {given[i] : i \in 1..Len(given)} THEN {"eof"}
  ELSE {"eof"} \cup UNION {t.chars : t \in
         {u \in Sources : Len(given) < u.length /\ \A i \in 1..Len(given) : given[i] \in u.chars}}

\* What stream() may return.
NextChars == IF FromStack(stream) THEN {Top(stream.stack)} ELSE Input(stream.given)

Mark(s) == [line |-> s.line, index |-> s.index]

\* A token with its value; `upto' is where the reader stands after it.
Emit(kind, value, from) ==
  tokens' = Append(tokens, [kind |-> kind, value |-> value, line |-> from.line,
                            index |-> from.index, upto |-> Position(stream')])

Init == /\ stream = EmptyStream
        /\ pc = "tokenize"
        /\ chars = <<>>
        /\ begin = Mark(EmptyStream)
        /\ matched = 0
        /\ flag = FALSE
        /\ tokens = <<>>

\* A scanner starts with nothing collected, at the position of stream'.
Start(scanner, collected) == /\ pc' = scanner
                             /\ chars' = collected
                             /\ matched' = 0
                             /\ flag' = FALSE
                             /\ UNCHANGED tokens
\* A token has been returned: the iterator is advanced again.
Return == /\ pc' = "tokenize"
          /\ chars' = <<>>
          /\ matched' = 0
          /\ flag' = FALSE
          /\ UNCHANGED begin
Throw(what) == pc' = what /\ UNCHANGED <<chars, begin, matched, flag, tokens>>

---------------------------------------------------------------------------
(* tokenize() *)

Reads(c) == stream' = Read(stream, c)
\* c was only looked at.
Peeks(c) == stream' = PushBack(Read(stream, c), c)

Blank == /\ pc = "tokenize"
         /\ \E c \in NextChars \cap Spaces : Reads(c)
         /\ UNCHANGED <<pc, chars, begin, matched, flag, tokens>>

\* A byte from 0x80 on is negative and taken for the end of the text.
EndOfText == /\ pc = "tokenize"
             /\ \E c \in NextChars \cap Ends : Reads(c)
             /\ Emit("eof", <<>>, Mark(stream))
             /\ pc' = "eof"
             /\ UNCHANGED <<chars, begin, matched, flag>>

StartWord == /\ pc = "tokenize"
             /\ \E c \in NextChars \cap AlphaNum :
                  LET back == PushBack(Read(stream, c), c) IN
                  /\ begin' = Mark(back)
                  /\ stream' = Read(back, c)
                  /\ Start("word", <<c>>)

StartString == /\ pc = "tokenize"
               /\ "quote" \in NextChars
               /\ Reads("quote")
               /\ begin' = Mark(stream')
               /\ Start("string", <<>>)

StartSlash == /\ pc = "tokenize"
              /\ "/" \in NextChars
              /\ Reads("/")
              /\ Start("slash", <<>>)
              /\ UNCHANGED begin

StartOperator == /\ pc = "tokenize"
                 /\ \E c \in NextChars \cap (Puncts \ {"quote", "/"}) : Peeks(c)
                 /\ begin' = Mark(stream')
                 /\ Start("operator", <<>>)

StartComment == /\ pc = "slash"
                /\ \E c \in NextChars \cap {"/", "*"} :
                     /\ Reads(c)
                     /\ Start(IF c = "/" THEN "line_comment" ELSE "block_comment", <<>>)
                /\ UNCHANGED begin

SlashIsOperator == /\ pc = "slash"
                   /\ \E c \in NextChars \ {"/", "*"} :
                        stream' = PushBack(PushBack(Read(stream, c), c), "/")
                   /\ begin' = Mark(stream')
                   /\ Start("operator", <<>>)

---------------------------------------------------------------------------
(* fetch_word() *)

IsNumber(w) == w[1] \in Digits

\* Mutant of GoesOn: there is no look at the dot before.
GoesOnOverDots(w, c) == c \in AlphaNum \/ (IsNumber(w) /\ c = ".")

\* The word goes on with c: a second dot in a row belongs to an operator.
GoesOn(w, c) == c \in AlphaNum \/ (IsNumber(w) /\ c = "." /\ Top(w) # ".")

\* What strtol and strtod read to the end.
AllDigits(w) == \A i \in 1..Len(w) : w[i] \in Digits
Decimal(w) == \E i \in 1..Len(w) : /\ w[i] = "."
                                  /\ \A j \in 1..Len(w) : j # i => w[j] \in Digits

WordGoesOn == /\ pc = "word"
              /\ \E c \in NextChars : /\ GoesOn(chars, c)
                                     /\ Reads(c)
                                     /\ chars' = Append(chars, c)
              /\ UNCHANGED <<pc, begin, matched, flag, tokens>>

\* The verdict on a word: of a float, *endptr is read in a string that is gone.
ReturnWord(w) ==
  \/ w \in Keywords /\ Emit("keyword", w, begin) /\ Return
  \/ w \notin Keywords /\ ~IsNumber(w) /\ Emit("identifier", w, begin) /\ Return
  \/ /\ w \notin Keywords /\ IsNumber(w)
     /\ \/ Top(w) = "f" /\ Emit("float", w, begin) /\ Return
        \/ Top(w) # "f" /\ Decimal(w) /\ Emit("double", w, begin) /\ Return
        \/ Top(w) # "f" /\ AllDigits(w) /\ Emit("int", w, begin) /\ Return
        \/ (Top(w) = "f" \/ ~(Decimal(w) \/ AllDigits(w))) /\ Throw("bad_number")

\* Mutant of WordEnds: of "..", only the character that was read last goes back.
WordEndsOnce ==
  /\ pc = "word"
  /\ \E c \in NextChars :
       /\ ~GoesOn(chars, c)
       /\ Peeks(c)
       /\ ReturnWord(IF c = "." /\ Top(chars) = "." THEN Pop(chars) ELSE chars)

WordEnds ==
  /\ pc = "word"
  /\ \E c \in NextChars :
       /\ ~GoesOn(chars, c)
       /\ IF c = "." /\ Top(chars) = "."
          THEN /\ stream' = PushBack(PushBack(Read(stream, c), Top(chars)), c)
               /\ ReturnWord(Pop(chars))
          ELSE /\ Peeks(c)
               /\ ReturnWord(chars)

---------------------------------------------------------------------------
(* fetch_operator() and getOperator() *)

IsPrefixOf(s, t) == Len(s) <= Len(t) /\ SubSeq(t, 1, Len(s)) = s
Candidates(prefix) == {o \in Operators : IsPrefixOf(prefix, o)}

\* Mutant of Munch: the first operator found ends the search.
MunchFirst ==
  /\ pc = "operator"
  /\ \E c \in NextChars :
       LET read == Append(chars, c) IN
       /\ Reads(c)
       /\ chars' = read
       /\ matched' = IF read \in Operators THEN Len(read) ELSE matched
       /\ pc' = IF Candidates(read) = {} \/ read \in Operators THEN "unread" ELSE pc
  /\ UNCHANGED <<begin, flag, tokens>>

Munch ==
  /\ pc = "operator"
  /\ \E c \in NextChars :
       LET read == Append(chars, c) IN
       /\ Reads(c)
       /\ chars' = read
       /\ matched' = IF read \in Operators THEN Len(read) ELSE matched
       /\ pc' = IF Candidates(read) = {} THEN "unread" ELSE pc
  /\ UNCHANGED <<begin, flag, tokens>>

Unread == /\ pc = "unread" /\ Len(chars) > matched
          /\ stream' = PushBack(stream, Top(chars))
          /\ chars' = Pop(chars)
          /\ UNCHANGED <<pc, begin, matched, flag, tokens>>

OperatorFound == /\ pc = "unread" /\ Len(chars) = matched /\ matched > 0
                 /\ UNCHANGED stream
                 /\ Emit("operator", chars, begin)
                 /\ Return

NoOperator == /\ pc = "unread" /\ Len(chars) = matched /\ matched = 0
              /\ Start("unexpected", <<>>)
              /\ UNCHANGED <<stream, begin>>

\* The characters of the message are read up to one that is not punctuation.
Unexpected == /\ pc = "unexpected"
              /\ \E c \in NextChars :
                   /\ Reads(c)
                   /\ IF c \in Puncts
                      THEN /\ chars' = Append(chars, c)
                           /\ UNCHANGED <<pc, begin, matched, flag, tokens>>
                      ELSE Throw("unexpected_text")

---------------------------------------------------------------------------
(* fetch_string() and the two comments *)

\* A backslash escapes the next character that is not a backslash.
Escape == /\ pc = "string"
          /\ "\\" \in NextChars
          /\ Reads("\\")
          /\ flag' = TRUE
          /\ UNCHANGED <<pc, chars, begin, matched, tokens>>

\* The character that an escaped c stands for: "tab", "nl" and "cr" are those of
\* t, n and r, "nul" that of 0.
Escaped(c) == CASE c = "n" -> "nl" [] OTHER -> c

StringEnds == /\ pc = "string" /\ ~flag
              /\ "quote" \in NextChars
              /\ Reads("quote")
              /\ Emit("string", chars, begin)
              /\ Return

StringGoesOn == /\ pc = "string"
                /\ \E c \in NextChars \ (Ends \cup {"\\"}) :
                     /\ flag \/ c \notin {"quote", "tab", "nl", "cr"}
                     /\ Reads(c)
                     /\ chars' = Append(chars, IF flag THEN Escaped(c) ELSE c)
                /\ flag' = FALSE
                /\ UNCHANGED <<pc, begin, matched, tokens>>

StringIsOpen == /\ pc = "string"
                /\ \E c \in NextChars :
                     /\ c \in Ends \/ (~flag /\ c \in {"tab", "nl", "cr"})
                     /\ Peeks(c)
                /\ Throw("open_string")

\* Mutant of LineComment: the newline after it is pushed back too, and the loop
\* goes on inside the comment.
LineCommentForEver ==
  /\ pc = "line_comment"
  /\ \E c \in NextChars : /\ IF c \in Ends \cup {"nl"} THEN Peeks(c) ELSE Reads(c)
                         /\ pc' = IF c \in Ends THEN "tokenize" ELSE pc
  /\ UNCHANGED <<chars, begin, matched, flag, tokens>>

LineComment ==
  /\ pc = "line_comment"
  /\ \E c \in NextChars : /\ IF c \in Ends THEN Peeks(c) ELSE Reads(c)
                         /\ pc' = IF c \in Ends \cup {"nl"} THEN "tokenize" ELSE pc
  /\ UNCHANGED <<chars, begin, matched, flag, tokens>>

BlockComment ==
  /\ pc = "block_comment"
  /\ \E c \in NextChars \ Ends : /\ Reads(c)
                                 /\ pc' = IF flag /\ c = "/" THEN "tokenize" ELSE pc
                                 /\ flag' = (c = "*")
  /\ UNCHANGED <<chars, begin, matched, tokens>>

CommentIsOpen == /\ pc = "block_comment"
                 /\ \E c \in NextChars \cap Ends : Peeks(c)
                 /\ Throw("open_comment")

---------------------------------------------------------------------------
Thrown == {"bad_number", "unexpected_text", "open_string", "open_comment"}
Ended == pc \in Thrown \cup {"eof"}
Finished == Ended /\ UNCHANGED vars

Step == \/ Blank \/ EndOfText \/ StartWord \/ StartString \/ StartSlash \/ StartOperator
        \/ StartComment \/ SlashIsOperator
        \/ WordGoesOn \/ WordEnds
        \/ Munch \/ Unread \/ OperatorFound \/ NoOperator \/ Unexpected
        \/ Escape \/ StringEnds \/ StringGoesOn \/ StringIsOpen
        \/ LineComment \/ BlockComment \/ CommentIsOpen
Next == Step \/ Finished

Spec == Init /\ [][Next]_vars
FairSpec == Spec /\ WF_vars(Step)

---------------------------------------------------------------------------
\* What is pushed back is what was read, and the line and the character that a
\* message would name are those of the reader, however far the operator scanner or
\* a number like "1..2" had to go back (PushBackStream::pushBack).
StreamIsPosition == Aligned(stream)
=============================================================================
