---------------------------- MODULE MCExprParser ----------------------------
(***************************************************************************)
(* Input sets for ExprParser.  Every input is a token sequence closed by   *)
(* ";"; operands are single letters, so that each is met once and a wrong  *)
(* grouping cannot be mistaken for a right one.                            *)
(***************************************************************************)
EXTENDS ExprParser, ExprReorder

OnFunction == {<<Host>>}     \* inside a function body
AnyStack == {<<>>, <<Host>>} \* also the first global of a file

Close(s) == s \o <<";">>

\* The chains  a o b,  a o b p c,  a o b p c q d  over the operators S.
Chains(S) ==
    {<<"a", o, "b">> : o \in S}
    \cup {<<"a", o[1], "b", o[2], "c">> : o \in S \X S}
    \cup {<<"a", o[1], "b", o[2], "c", o[3], "d">> : o \in S \X S \X S}

\* No operator twice, outside or inside brackets.
Distinct(s) == \A i, j \in DOMAIN s :
                  i # j /\ s[i] = s[j] => s[i] \notin Binary

\* One operator of every priority the code generator knows, two of one.
TableOps == {"*", "+", "-", "<<", "<", "==", "&", "^", "|", "&&", "||"}

\* Operands put in the place of a letter.
Operand == {<<"e">>, <<"(", "e", "+", "f", ")">>, <<"g", "(", ")">>,
            <<"g", "(", "e", "*", "f", ",", "h", ")">>}

Put(s, i, t) == SubSeq(s, 1, i - 1) \o t \o SubSeq(s, i + 1, Len(s))

\* Chains of pairwise distinct left-associative operators, alone, as the
\* right side of an assignment, and as the parts of a conditional; with a
\* parenthesised operand or a call as the last operand.
Regular ==
    LET plain == {s \in Chains(TableOps) : Distinct(s)}
        short == {s \in Chains({"*", "-", "<", "&&"}) : Distinct(s) /\ Len(s) <= 5}
        last == {Put(s, Len(s), t) : s \in short, t \in Operand}
        first == {Put(s, 1, <<"(", "e", "+", "f", ")">>) : s \in short}
        cond == {s \o <<"?">> \o <<"x">> \o <<":">> \o t :
                    s \in short, t \in {<<"y">>, <<"y", "?", "z", ":", "w">>}}
        all == plain \cup last \cup first \cup cond
    IN  {Close(s) : s \in all} \cup {Close(<<"v", "=">> \o s) : s \in last \cup cond}

\* Well-formed expressions the parser may group wrongly: operators repeated,
\* assignments chained, calls in front, casts, commas, subscripts.
Broad ==
    LET plain == Chains({"*", "-", "=", ","})
        short == {s \in plain : Len(s) <= 5}
        calls == {Put(s, 1, <<"g", "(", "e", ")">>) : s \in short}
        nested == {Put(s, 3, <<"(", "h", "(", ")", "*", "e", ")">>) : s \in short}
        cast == {<<"(", "int", ")">> \o s : s \in short}
        index == {<<"v", "[">> \o s \o <<"]">> : s \in short}
                 \cup {<<"v", "[", "e", "]", "[", "f", "]">>,
                       <<"u", "-", "v", "[", "e", "]">>}
        cond == {s \o <<"?">> \o t \o <<":", "y">> :
                    s \in short, t \in {<<"x">>, <<"x", "?", "z", ":", "w">>}}
    IN  {Close(s) : s \in plain \cup calls \cup nested \cup cast \cup index \cup cond}

\* Expressions with one bracket, or one ":", lost or added.
Unmatched ==
    LET whole == {<<"(", "e", "+", "f", ")">>, <<"g", "(", "e", ",", "f", ")">>,
                  <<"g", "(", ")">>, <<"v", "[", "e", "]">>,
                  <<"(", "int", ")", "e">>, <<"e", "?", "f", ":", "h">>,
                  <<"a", "*", "(", "b", "-", "(", "c", ")", ")">>}
        added == {Put(s, i, <<s[i], b>>) :
                    s \in whole, i \in 1 .. 3, b \in {")", "]", ":"}}
        Brackets(s) == {i \in DOMAIN s : s[i] \in {"(", ")", "[", "]", "?", ":"}}
        lost == {Put(p[1], p[2], <<>>) : p \in
                    {q \in whole \X (1 .. 9) : q[2] \in Brackets(q[1])}}
        \* a type name that no "(" precedes starts a declaration
        Expression(s) == \A i \in DOMAIN s :
                            s[i] = "int" => i > 1 /\ s[i - 1] = "("
    IN  {Close(s) : s \in {t \in lost \cup added : Expression(t)}}

WellFormed == Regular \cup Broad
AllInputs == WellFormed \cup Unmatched

-----------------------------------------------------------------------------
(* What ExprParser is compared with: the text and its grouping by the table *)

\* The tokens that a pending call has already taken.
Held(f) ==
    CASE f.at = "NORMAL" -> Yield(f.left) \o <<f.op>>
      [] f.at = "PAREN" -> Yield(f.left) \o <<"(">>
      [] f.at = "BRACKET" -> Yield(f.left) \o <<"[">>
      [] f.at = "COMMA" -> Yield(f.left) \o <<",">>
      [] f.at = "CAST" -> <<"(", "int", ")">>
      [] f.at = "YES" -> Yield(f.cond) \o <<"?">>
      [] f.at = "NO" -> Yield(f.cond) \o <<"?">> \o Yield(f.yes) \o <<":">>
      [] OTHER -> <<>>

\* At every moment the pending calls and the stack hold, between them and in
\* source order, exactly the tokens consumed so far: no reordering of a tree
\* ever loses, repeats or swaps an operand or an operator.
NoTokenLost ==
    SubSeq(toks, 1, pos - 1) =
        FlattenSeq([i \in DOMAIN frames |-> Held(frames[i])])
            \o FlattenSeq([i \in DOMAIN nodes |-> Yield(nodes[i])])

\* The tree left on the stack is the one the precedence table prescribes.
CorrectGrouping ==
    status = "ok" => Top = Grouping(SubSeq(toks, 1, Len(toks) - 1))

\* No input whose brackets and conditionals do not match is accepted.
MatchedOrReported ==
    status = "ok" =>
        /\ \A i \in DOMAIN toks : Depth(toks, i) >= 0
        /\ Depth(toks, Len(toks)) = 0

-----------------------------------------------------------------------------
(* The properties of ExprParser on the inputs they are about.              *)

\* Chains of distinct left-associative operators are grouped as the precedence
\* table prescribes.
RegularGrouped == toks \in Regular => CorrectGrouping

\* A well-formed expression never makes the parser reach below the stack it was
\* given, nor leaves two operands on it.
OperandsInPlace == toks \in WellFormed => StackDiscipline

\* No token of a well-formed expression is lost, repeated or moved, even where
\* the parser groups it wrongly.
TokensKept == toks \in WellFormed => NoTokenLost

-----------------------------------------------------------------------------
(* Inputs on which the code departs from what it says of itself.           *)

Repeated == {Close(<<"a", "-", "b", "-", "c">>)}
ChainedAssignment == {Close(<<"a", "=", "b", "=", "c">>)}
CallFirst == {Close(<<"g", "(", ")", "*", "e", "+", "f">>)}
AssignmentThenComma == {Close(<<"a", "=", "b", ",", "c">>)}
ElementThenOperator == {Close(<<"a", "[", "e", "]", "+", "b">>)}
Negation == {Close(<<"a", "=", "-", "b">>)}
MissingOperand == {Close(<<"a", "+">>)}
=============================================================================
