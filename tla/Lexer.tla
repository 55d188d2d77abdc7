-------------------------------- MODULE Lexer --------------------------------
(***************************************************************************)
(* The lexer, src/cpp/lexer.cpp, over either of its character sources: the *)
(* file of src/cpp/cprocess.cpp (getc, ungetc) and the string buffer of    *)
(* tokens_build_for_string (src/cpp/helpers/buffer.cpp).                   *)
(*                                                                         *)
(* A step is one call of read_next_token by Lexer::run, blanks taken one   *)
(* by one.  Every reader looks one character ahead; handle_comment and     *)
(* read_op also push characters back.                                      *)
(*                                                                         *)
(* The text of a comment, the value of a number beyond its being zero, and *)
(* token.between_brackets, which nothing reads, are left out.  The letters *)
(* stand for those of C; a word is a sequence of letters.                  *)
(***************************************************************************)
EXTENDS Integers, Sequences, FiniteSets

CONSTANTS Inputs,      \* pairs: a text, and its source, "file" or "string"
          Keywords,    \* the words that are keywords,
          Include      \* and the one that a path may follow

EOF == "EOF"

ASSUME LexerAssumption ==
    /\ Include \in Keywords
    /\ \A i \in Inputs : i[1] \in Seq(STRING \ {EOF}) /\ i[2] \in {"file", "string"}

VARIABLES text,        \* the whole text
          source,      \* where it is read from
          rest,        \* the characters still to be read
          tokens,      \* m_process->token_vec
          depth,       \* current_expression_count
          pos,         \* line and column of m_process->pos
          status       \* "running", "done" or "error" (compiler_error exits)

vars == <<text, source, rest, tokens, depth, pos, status>>

NUL == "NUL"
Digit == {"0", "1", "2"}
HexDigit == Digit \cup {"a", "b", "f"}
Letter == {"a", "b", "f", "i", "n", "x", "X", "L", "_"}
Blank == {" ", "\t"}
Symbol == {"{", "}", ":", ";", "#", "\\", ")", "]"}

\* is_single_operator; "/" is met by handle_comment first.
SingleOperator == {"+", "-", "/", "*", "=", ">", "<", "|", "&", "^", "%", "!",
                   "(", "[", ",", ".", "~", "?"}
TreatedAsOne == {"(", "[", ",", ".", "*", "?"}

\* op_valid, without the three-character "..." it is never asked about.
ValidPair == {<<"+", "=">>, <<"-", "=">>, <<"*", "=">>, <<"/", "=">>, <<">", ">">>,
              <<"<", "<">>, <<">", "=">>, <<"<", "=">>, <<"|", "|">>, <<"&", "&">>,
              <<"+", "+">>, <<"-", "-">>, <<"!", "=">>, <<"=", "=">>, <<"-", ">">>}
OpValid(op) == IF Len(op) = 1 THEN op[1] \in SingleOperator ELSE op \in ValidPair

-----------------------------------------------------------------------------
(* Reading                                                                 *)

\* The i-th character to come; past the end next_char answers EOF.
Char(r, i) == IF i <= Len(r) THEN r[i] ELSE EOF
Peek == Char(rest, 1)
Smallest(S) == CHOOSE i \in S : \A j \in S : i <= j

\* How many characters of r from the i-th on are in S (LEX_GETC_IF).
Span(r, i, S) == Smallest({n \in 0 .. Len(r) : Char(r, i + n) \notin S})

From(r, i) == SubSeq(r, i, Len(r))
Upto(r, i) == SubSeq(r, 1, IF i <= Len(r) THEN i ELSE Len(r))

\* Mutant: the file, too, takes back characters at its end.
PushBackLast(r, s) == r \o s

\* ungetc puts characters in front; buffer_write puts them behind all the others.
PushBack(r, s) == IF source = "file" THEN s \o r ELSE r \o s

\* Mutant: a newline moves to the next line and keeps the column.
MovedOneLine(p, s) ==
    IF \E i \in DOMAIN s : s[i] = "\n" THEN [p EXCEPT !.line = @ + 1]
    ELSE [p EXCEPT !.col = @ + Len(s)]

\* nextc: the position after the characters s, pushed back afterwards or not.
Moved(p, s) ==
    LET newlines == {i \in DOMAIN s : s[i] = "\n"}
        last == CHOOSE i \in newlines : \A j \in newlines : j <= i
    IN  IF newlines = {} THEN [p EXCEPT !.col = @ + Len(s)]
        ELSE [line |-> p.line + Cardinality(newlines), col |-> 1 + Len(s) - last]

\* The first n characters of r are taken.
Take(r, n) == /\ rest' = From(r, n + 1)
              /\ pos' = Moved(pos, Upto(r, n))

Token(type, chars) == [type |-> type, text |-> chars, zero |-> FALSE, blank |-> FALSE]
LastToken == tokens[Len(tokens)]
Emit(t) == tokens' = Append(tokens, t)

Running == status = "running"
Error == status' = "error"
Same == UNCHANGED <<text, source>>

Init == /\ \E input \in Inputs : text = input[1] /\ source = input[2]
        /\ rest = text
        /\ tokens = <<>>
        /\ depth = 0
        /\ pos = [line |-> 1, col |-> 1]
        /\ status = "running"

-----------------------------------------------------------------------------
(* Numbers                                                                 *)

\* token_make_number_for_value: digits, and one suffix character.
Number(prefix, digits, suffix) ==
    [Token("NUMBER", prefix \o digits \o suffix) EXCEPT
        !.zero = \A i \in DOMAIN digits : digits[i] = "0"]

\* The number whose digits are the n characters after the first k.
NumberAfter(prefix, k, n) ==
    LET suffix == Char(rest, k + n + 1) \in {"L", "f"}
        all == IF suffix THEN k + n + 1 ELSE k + n
    IN  [token |-> Number(prefix, SubSeq(rest, k + 1, k + n),
                          SubSeq(rest, k + n + 1, all)),
         length |-> all]

TokenMakeNumber ==
    /\ Running /\ Peek \in Digit
    /\ LET number == NumberAfter(<<>>, 0, Span(rest, 1, Digit))
       IN  /\ Emit(number.token)
           /\ Take(rest, number.length)
    /\ UNCHANGED <<depth, status>> /\ Same

\* A number whose value is 0 comes last: it is taken back, whatever was between.
AfterZero == tokens # <<>> /\ LastToken.type = "NUMBER" /\ LastToken.zero
Retracted == SubSeq(tokens, 1, Len(tokens) - 1)

TokenMakeHexadecimal ==
    /\ Running /\ Peek = "x" /\ AfterZero
    /\ LET number == NumberAfter(<<"0", "x">>, 1, Span(rest, 2, HexDigit))
       IN  /\ tokens' = Append(Retracted, number.token)
           /\ Take(rest, number.length)
    /\ UNCHANGED <<depth, status>> /\ Same

TokenMakeBinary ==
    /\ Running /\ Peek = "b" /\ AfterZero
    /\ LET digits == Span(rest, 2, Digit)
           number == NumberAfter(<<"0", "b">>, 1, digits)
       IN  IF \E i \in 2 .. digits + 1 : rest[i] \notin {"0", "1"}
           THEN /\ Error
                /\ tokens' = Retracted
                /\ Take(rest, digits + 1)
           ELSE /\ tokens' = Append(Retracted, number.token)
                /\ Take(rest, number.length)
                /\ UNCHANGED status
    /\ UNCHANGED depth /\ Same

-----------------------------------------------------------------------------
(* Words, symbols, newlines, blanks                                        *)

TokenMakeIdentifierOrKeyword ==
    /\ Running /\ Peek \in Letter
    /\ Peek \in {"b", "x"} => ~AfterZero
    /\ LET n == Span(rest, 1, Letter \cup Digit)
           word == Upto(rest, n)
       IN  /\ Emit(Token(IF word \in Keywords THEN "KEYWORD" ELSE "IDENTIFIER", word))
           /\ Take(rest, n)
    /\ UNCHANGED <<depth, status>> /\ Same

\* Mutant: a ")" too many is let through.
TokenMakeSymbolUnchecked ==
    /\ Running /\ Peek \in Symbol
    /\ Take(rest, 1)
    /\ Emit(Token("SYMBOL", <<Peek>>))
    /\ depth' = IF Peek = ")" THEN depth - 1 ELSE depth
    /\ UNCHANGED status /\ Same

\* ")" leaves an expression, and none may be left that was not entered.
TokenMakeSymbol ==
    /\ Running /\ Peek \in Symbol
    /\ Take(rest, 1)
    /\ depth' = IF Peek = ")" THEN depth - 1 ELSE depth
    /\ IF depth' < 0 THEN Error /\ UNCHANGED tokens
       ELSE Emit(Token("SYMBOL", <<Peek>>)) /\ UNCHANGED status
    /\ Same

TokenMakeNewline ==
    /\ Running /\ Peek = "\n"
    /\ Take(rest, 1)
    /\ Emit(Token("NEWLINE", <<>>))
    /\ UNCHANGED <<depth, status>> /\ Same

\* Mutant: the blank is peeked at, and not taken.
HandleWhitespaceKept ==
    /\ Running /\ Peek \in Blank
    /\ UNCHANGED vars

\* A blank marks the token before it.
HandleWhitespace ==
    /\ Running /\ Peek \in Blank
    /\ Take(rest, 1)
    /\ tokens' = IF tokens = <<>> THEN tokens
                 ELSE [tokens EXCEPT ![Len(tokens)].blank = TRUE]
    /\ UNCHANGED <<depth, status>> /\ Same

-----------------------------------------------------------------------------
(* Strings and character literals                                          *)

\* The i-th character follows an odd number of backslashes: it is the body of an
\* escape.  The first character is the opening delimiter.
Escaped(r, i) ==
    \E n \in 1 .. i - 2 :
        /\ n % 2 = 1
        /\ \A j \in i - n .. i - 1 : Char(r, j) = "\\"
        /\ i - n = 2 \/ r[i - n - 1] # "\\"
Escapes(r, i) == Char(r, i) = "\\" /\ ~Escaped(r, i)

StringEscape(c) == CASE c = "n" -> "\n" [] c = "t" -> "\t" [] c = "0" -> NUL
                     [] OTHER -> c

\* The string that r begins with: up to the delimiter or the end of the source.
StringOf(r, delimiter) ==
    LET close == Smallest({i \in 2 .. Len(r) + 2 :
                    ~Escaped(r, i) /\ Char(r, i) \in {delimiter, EOF}})
        kept == SelectSeq([i \in 1 .. close - 1 |-> i],
                          LAMBDA i : i > 1 /\ ~Escapes(r, i))
    IN  [token |-> Token("STRING", [k \in DOMAIN kept |->
                        IF Escaped(r, kept[k]) THEN StringEscape(Char(r, kept[k]))
                        ELSE r[kept[k]]]),
         length |-> close]

TokenMakeString ==
    /\ Running /\ Peek = "\""
    /\ LET string == StringOf(rest, "\"")
       IN  Emit(string.token) /\ Take(rest, string.length)
    /\ UNCHANGED <<depth, status>> /\ Same

\* lex_get_escaped_char
CharEscape(c) == CASE c = "n" -> "\n" [] c = "\\" -> "\\" [] c = "t" -> "\t"
                   [] c = "'" -> "'" [] OTHER -> NUL

\* One character or escape between two quotes, a number.
TokenMakeQuote ==
    /\ Running /\ Peek = "'"
    /\ LET escape == Char(rest, 2) = "\\"
           c == IF escape THEN CharEscape(Char(rest, 3)) ELSE Char(rest, 2)
           close == IF escape THEN 4 ELSE 3
       IN  /\ Take(rest, close)
           /\ IF Char(rest, close) # "'" THEN Error /\ UNCHANGED tokens
              ELSE /\ Emit([Token("NUMBER", <<c>>) EXCEPT !.zero = c = NUL])
                   /\ UNCHANGED status
    /\ UNCHANGED depth /\ Same

-----------------------------------------------------------------------------
(* Comments                                                                *)

Begins(s) == Upto(rest, Len(s)) = s

TokenMakeOneLineComment ==
    /\ Running /\ Begins(<<"/", "/">>)
    /\ Emit(Token("COMMENT", <<>>))
    /\ Take(rest, 2 + Span(rest, 3, {rest[i] : i \in DOMAIN rest} \ {"\n"}))
    /\ UNCHANGED <<depth, status>> /\ Same

Closing(first) == {i \in first .. Len(rest) - 1 : rest[i] = "*" /\ rest[i + 1] = "/"}

\* Mutant: the star that opens the comment also closes it.
TokenMakeMultilineCommentShort ==
    /\ Running /\ Begins(<<"/", "*">>)
    /\ IF Closing(2) = {} THEN Error /\ Take(rest, Len(rest)) /\ UNCHANGED tokens
       ELSE /\ Emit(Token("COMMENT", <<>>))
            /\ Take(rest, Smallest(Closing(2)) + 1)
            /\ UNCHANGED status
    /\ UNCHANGED depth /\ Same

TokenMakeMultilineComment ==
    /\ Running /\ Begins(<<"/", "*">>)
    /\ IF Closing(3) = {} THEN Error /\ Take(rest, Len(rest)) /\ UNCHANGED tokens
       ELSE /\ Emit(Token("COMMENT", <<>>))
            /\ Take(rest, Smallest(Closing(3)) + 1)
            /\ UNCHANGED status
    /\ UNCHANGED depth /\ Same

-----------------------------------------------------------------------------
(***************************************************************************)
(* Operators.  A "/" that begins no comment has been read and pushed back: *)
(* `Stream` is what token_make_operator_or_string then reads, and          *)
(* `PosThen` where it believes to be.                                      *)
(***************************************************************************)

InOperator ==
    /\ Running
    /\ Peek \in SingleOperator
    /\ ~Begins(<<"/", "/">>) /\ ~Begins(<<"/", "*">>)

Stream == IF Peek = "/" THEN PushBack(From(rest, 2), <<"/">>) ELSE rest
PosThen == IF Peek = "/" THEN Moved(pos, <<"/">>) ELSE pos

\* n characters of the stream are read and the last k of them pushed back.
TakeOperator(n, k) ==
    /\ rest' = PushBack(From(Stream, n + 1), SubSeq(Stream, n - k + 1, n))
    /\ pos' = Moved(PosThen, Upto(Stream, n))
    /\ Emit(Token("OPERATOR", Upto(Stream, n - k)))
    /\ depth' = IF Stream[1] = "(" THEN depth + 1 ELSE depth
    /\ UNCHANGED status /\ Same

AfterInclude == tokens # <<>> /\ LastToken.type = "KEYWORD" /\ LastToken.text = Include
IncludePath == Stream[1] = "<" /\ AfterInclude
Pair == Stream[1] \notin TreatedAsOne /\ Char(Stream, 2) \in SingleOperator

TokenMakeIncludePath ==
    /\ InOperator /\ IncludePath
    /\ LET path == StringOf(Stream, ">")
       IN  /\ Emit(path.token)
           /\ rest' = From(Stream, path.length + 1)
           /\ pos' = Moved(PosThen, Upto(Stream, path.length))
    /\ UNCHANGED <<depth, status>> /\ Same

ReadSingleOperator ==
    /\ InOperator /\ ~IncludePath /\ ~Pair
    /\ OpValid(Upto(Stream, 1))
    /\ TakeOperator(1, 0)

\* Only the string buffer gets here: what follows the "/" is in front of it.
ReadInvalidOperator ==
    /\ InOperator /\ ~IncludePath /\ ~Pair
    /\ ~OpValid(Upto(Stream, 1))
    /\ Error
    /\ rest' = From(Stream, 2)
    /\ pos' = Moved(PosThen, Upto(Stream, 1))
    /\ UNCHANGED <<tokens, depth>> /\ Same

ReadPairOperator ==
    /\ InOperator /\ ~IncludePath /\ Pair
    /\ OpValid(Upto(Stream, 2))
    /\ TakeOperator(2, 0)

\* read_op_flush_back_keep_first: the first one is an operator unchecked.
ReadSplitOperator ==
    /\ InOperator /\ ~IncludePath /\ Pair
    /\ ~OpValid(Upto(Stream, 2))
    /\ TakeOperator(2, 1)

-----------------------------------------------------------------------------
Unexpected ==
    /\ Running
    /\ Peek \notin Digit \cup Letter \cup Blank \cup Symbol \cup SingleOperator
                   \cup {"\"", "'", "\n", EOF}
    /\ Error
    /\ UNCHANGED <<rest, tokens, depth, pos>> /\ Same

EndOfSource ==
    /\ Running /\ Peek = EOF
    /\ status' = "done"
    /\ UNCHANGED <<rest, tokens, depth, pos>> /\ Same

Next == \/ TokenMakeNumber \/ TokenMakeHexadecimal \/ TokenMakeBinary
        \/ TokenMakeIdentifierOrKeyword \/ TokenMakeSymbol
        \/ TokenMakeNewline \/ HandleWhitespace
        \/ TokenMakeString \/ TokenMakeQuote
        \/ TokenMakeOneLineComment \/ TokenMakeMultilineComment
        \/ TokenMakeIncludePath
        \/ ReadSingleOperator \/ ReadInvalidOperator
        \/ ReadPairOperator \/ ReadSplitOperator
        \/ Unexpected \/ EndOfSource

\* The loop of Lexer::run is not interrupted.
Spec == Init /\ [][Next]_vars /\ WF_vars(Next)

-----------------------------------------------------------------------------
(* Properties                                                              *)

TokenTypes == {"NUMBER", "IDENTIFIER", "KEYWORD", "OPERATOR", "SYMBOL",
               "NEWLINE", "STRING", "COMMENT"}

\* Types; an expression count below zero has been reported.
TypeOK == /\ \A i \in DOMAIN tokens : tokens[i].type \in TokenTypes
          /\ depth \in -1 .. Len(text)
          /\ depth = -1 => status = "error"
          /\ pos.line >= 1 /\ pos.col >= 1
          /\ status \in {"running", "done", "error"}

\* What is still to be read is the end of the source: what a reader pushes back
\* comes next, where it came from.
NothingReordered == rest = From(text, Len(text) - Len(rest) + 1)

\* Read from a file, what a reader pushes back comes next.  (From a string it comes
\* last: buffer_write appends, src/cpp/lexer.cpp:878.)
FileInOrder == source = "file" => NothingReordered

\* The line of a token is the line it ends on, comments, strings and characters
\* pushed back included.
LineKept ==
    LET read == SubSeq(text, 1, Len(text) - Len(rest))
    IN  Running => pos.line = 1 + Cardinality({i \in DOMAIN read : read[i] = "\n"})

\* Every source is read to its end or to an error.
Terminates == <>(status # "running")
=============================================================================
