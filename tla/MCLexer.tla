------------------------------- MODULE MCLexer -------------------------------
(***************************************************************************)
(* Sources for Lexer: all the short sequences over the characters of one   *)
(* reader and of those it may be confused with.  "i" stands for include.   *)
(***************************************************************************)
EXTENDS CLexemes

MCKeywords == {<<"i">>}
MCInclude == <<"i">>

Sequences(S, n) == UNION {[1 .. k -> S] : k \in 0 .. n}

\* An "x" or a "b" behind any number that is zero, and any blanks, is taken for
\* that of "0x" or "0b"; here only where it is.
Unglued(t) ==
    \A i \in 2 .. Len(t) : t[i] \in {"x", "b"} =>
        /\ t[i - 1] \in {"0", "L", "f", "'"} \cup Blank =>
              t[i - 1] = "0" /\ (i = 2 \/ t[i - 2] \notin Digit \cup Letter)
        /\ t[i - 1] \in {"x", "b"} => i = 2 \/ t[i - 2] # "0"

\* A backslash that ends an unclosed string makes the EOF a character of it.
Ended(t) == t = <<>> \/ t[Len(t)] # "\\"

Operators == Sequences({"+", "=", "/", "*", "(", ")", "a", ">"}, 5)
Comments == Sequences({"/", "*", "a", "\n", "="}, 6)
Numbers == {t \in Sequences({"0", "1", "2", "x", "b", "a", "L", " "}, 5) : Unglued(t)}
Literals == {t \in Sequences({"\"", "'", "\\", "n", "a", "\n"}, 5) : Ended(t)}
Paths == {<<"i">> \o t : t \in
             {u \in Sequences({"i", " ", "<", ">", "/", "\\"}, 4) : Ended(u)}}
Mixed == {t \in Sequences({"0", "b", ";", ")", "(", "\"", "/", "@", "\t"}, 4) : Unglued(t)}

Texts == Operators \cup Comments \cup Numbers \cup Literals \cup Paths \cup Mixed

\* No reader of these has to push a character back.
Plain == {t \in Numbers \cup Literals : Len(t) <= 4}

MCInputs == (Texts \X {"file"}) \cup (Plain \X {"string"})
            \cup (Sequences({"+", "/", "*", "a", " ", "(", "i", "<"}, 4) \X {"string"})
DividedInputs == {<<<<"a", "/", "b">>, "string">>}

-----------------------------------------------------------------------------
(* A property on the inputs it is about.                                   *)

\* From a file, and from a string where nothing is pushed back, the tokens are
\* C's lexemes of the text, or its fault is reported (src/cpp/lexer.cpp:760-846).
\* Texts with the operator `*=` are not among them: the lexer lists it, and makes
\* two tokens of it (src/cpp/lexer.cpp:316, :335).
TokensAreLexemes == source = "file" \/ text \in Plain => LexesAsC
=============================================================================
