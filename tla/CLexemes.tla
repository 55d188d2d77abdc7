------------------------------- MODULE CLexemes -------------------------------
(***************************************************************************)
(* What the tokens of a source are, said without reading it: at every      *)
(* place the longest lexeme, and the lexemes by their form, as in C.  The  *)
(* operators are those of op_valid, which has not all of C's.  Where the   *)
(* lexer takes more than C, it is followed: a string and a path may be     *)
(* closed by the end of the source, and a newline or a single quote may    *)
(* stand between quotes.                                                   *)
(***************************************************************************)
EXTENDS Lexer

Fault == "fault"
AllIn(s, S) == \A i \in DOMAIN s : s[i] \in S
Inside(s) == SubSeq(s, 2, Len(s) - 1)

\* Digits of S, and at most one suffix.
IsDigits(s, S) ==
    \/ AllIn(s, S)
    \/ AllIn(SubSeq(s, 1, Len(s) - 1), S) /\ s[Len(s)] \in {"L", "f"}
Prefixed(s, letter) == Upto(s, 2) = <<"0", letter>>
IsNumber(s) == \/ s[1] \in Digit /\ IsDigits(s, Digit)
               \/ Prefixed(s, "x") /\ IsDigits(From(s, 3), HexDigit)
               \/ Prefixed(s, "b") /\ IsDigits(From(s, 3), Digit)
\* A binary number has no other digits.
Malformed(l) == /\ l.type = "NUMBER" /\ Prefixed(l.text, "b")
                /\ ~IsDigits(From(l.text, 3), {"0", "1"})
IsWord(s) == s[1] \in Letter /\ AllIn(s, Letter \cup Digit)

\* The body of a string: backslashes come with the character they escape.
RECURSIVE Bodies(_, _)
Bodies(s, delimiter) ==
    IF s = <<>> THEN TRUE
    ELSE IF s[1] = "\\" THEN Len(s) > 1 /\ Bodies(From(s, 3), delimiter)
    ELSE s[1] # delimiter /\ Bodies(From(s, 2), delimiter)

\* What an escape stands for in C.  What it is in another escape is left open:
\* these are not C, or not known to the lexer.
Any == "any"
CEscape(c) == CASE c = "n" -> "\n" [] c = "t" -> "\t" [] c = "0" -> NUL
                [] c \in {"\\", "'", "\""} -> c
                [] OTHER -> Any

RECURSIVE Unescaped(_)
Unescaped(s) ==
    IF s = <<>> THEN <<>>
    ELSE IF s[1] = "\\" THEN <<CEscape(s[2])>> \o Unescaped(From(s, 3))
    ELSE <<s[1]>> \o Unescaped(From(s, 2))

IsString(s, first, last) ==
    Len(s) > 1 /\ s[1] = first /\ s[Len(s)] = last /\ Bodies(Inside(s), last)

IsQuote(s) == /\ Len(s) \in {3, 4}
              /\ s[1] = "'" /\ s[Len(s)] = "'"
              /\ (Len(s) = 4) = (s[2] = "\\")

\* Its value; left open for an escaped double quote, in which the lexer differs.
Quoted(s) == IF Len(s) = 3 THEN s[2] ELSE IF s[3] = "\"" THEN Any ELSE CEscape(s[3])

IsComment(s) ==
    \/ Upto(s, 2) = <<"/", "/">> /\ "\n" \notin {s[i] : i \in DOMAIN s}
    \/ /\ Len(s) > 3
       /\ Upto(s, 2) = <<"/", "*">> /\ From(s, Len(s) - 1) = <<"*", "/">>
       /\ \A i \in 3 .. Len(s) - 2 : SubSeq(s, i, i + 1) # <<"*", "/">>

IsOperator(s) == Len(s) <= 2 /\ OpValid(s)

Lexeme(type, chars) == [type |-> type, text |-> chars]

\* The lexeme that s is, an opened string being closed by the end of the source.
LexemeOf(s, atEnd, afterInclude) ==
    CASE IsWord(s) -> Lexeme(IF s \in Keywords THEN "KEYWORD" ELSE "IDENTIFIER", s)
      [] IsNumber(s) -> Lexeme("NUMBER", s)
      [] IsQuote(s) -> Lexeme("NUMBER", <<Quoted(s)>>)
      [] IsString(s, "\"", "\"") -> Lexeme("STRING", Unescaped(Inside(s)))
      [] afterInclude /\ IsString(s, "<", ">") -> Lexeme("STRING", Unescaped(Inside(s)))
      [] /\ atEnd
         /\ \/ s[1] = "\"" /\ Bodies(From(s, 2), "\"")
            \/ s[1] = "<" /\ afterInclude /\ Bodies(From(s, 2), ">") ->
            Lexeme("STRING", Unescaped(From(s, 2)))
      [] IsComment(s) -> Lexeme("COMMENT", <<>>)
      [] ~(afterInclude /\ s[1] = "<") /\ IsOperator(s) -> Lexeme("OPERATOR", s)
      [] Len(s) = 1 /\ s[1] \in Symbol -> Lexeme("SYMBOL", s)
      [] s = <<"\n">> -> Lexeme("NEWLINE", <<>>)
      [] OTHER -> Lexeme(Fault, <<>>)

\* The answer for a source that has no lexemes.
Undivided == <<Lexeme(Fault, <<>>)>>

Opens(l) == l = Lexeme("OPERATOR", <<"(">>)
Closes(l) == l = Lexeme("SYMBOL", <<")">>)

\* The lexemes of s behind those of `before`, `open` parentheses being open;
\* Undivided if some place begins none, a parenthesis is closed that is not open,
\* or a comment is not closed.
RECURSIVE LexemesAfter(_, _, _)
LexemesAfter(s, before, open) ==
    IF s = <<>> THEN before
    ELSE IF s[1] \in Blank THEN LexemesAfter(From(s, 2), before, open)
    ELSE LET included == /\ before # <<>>
                         /\ before[Len(before)] = Lexeme("KEYWORD", Include)
             At(n) == LexemeOf(Upto(s, n), n = Len(s), included)
             lengths == {n \in DOMAIN s : At(n).type # Fault}
             longest == CHOOSE n \in lengths : \A k \in lengths : k <= n
         IN  IF \/ lengths = {}
                \/ open = 0 /\ Closes(At(longest))
                \/ Malformed(At(longest))
                \/ Upto(s, 2) = <<"/", "*">> /\ At(longest).type # "COMMENT"
             THEN Undivided
             ELSE LexemesAfter(From(s, longest + 1), Append(before, At(longest)),
                               IF Opens(At(longest)) THEN open + 1
                               ELSE IF Closes(At(longest)) THEN open - 1 ELSE open)

Lexemes(s) == LexemesAfter(s, <<>>, 0)

-----------------------------------------------------------------------------
(* Properties                                                              *)

\* The token is the lexeme, up to characters that are left open.
Agrees(token, lexeme) ==
    /\ token.type = lexeme.type
    /\ Len(token.text) = Len(lexeme.text)
    /\ \A k \in DOMAIN token.text : lexeme.text[k] \in {token.text[k], Any}

\* op_valid knows the operator, and read_op never assembles it.
NeverRead == Lexeme("OPERATOR", <<"*", "=">>)

\* A source that C can divide into lexemes, `*=` not among them, gives exactly
\* these as tokens, and no error; escapes in them have C's meaning, although a
\* comment says that they are not interpreted (src/cpp/lexer.cpp:276-277).  A
\* source that C cannot divide is reported, and not passed on to the parser.
LexesAsC ==
    status # "running" =>
        LET expected == Lexemes(text)
        IN  CASE expected = Undivided -> status = "error"
              [] \E i \in DOMAIN expected : expected[i] = NeverRead -> TRUE
              [] OTHER -> /\ status = "done"
                          /\ Len(tokens) = Len(expected)
                          /\ \A i \in DOMAIN tokens : Agrees(tokens[i], expected[i])
=============================================================================
