---------------------------- MODULE MCStmtParser ----------------------------
(***************************************************************************)
(* Whole files for StmtParser, beside the expressions of MCExprParser.  A  *)
(* construct of the language is a pair of the text it is written as and    *)
(* the tree that text stands for, put together by C's grammar, so that the *)
(* parser is compared with something that never looks at its stack.        *)
(***************************************************************************)
EXTENDS StmtParser, MCExprParser

MCNumbers == {"1", "2", "3", "4"}

Pair(text, tree_) == [text |-> text, tree |-> tree_]
TextsOf(ps) == FlattenSeq([i \in DOMAIN ps |-> ps[i].text])
TreesOf(ps) == [i \in DOMAIN ps |-> ps[i].tree]

\* Expressions.
Name(x) == Pair(<<x>>, Leaf(x))
Digit(n) == Pair(<<n>>, Leaf(n))
Infix(x, o, y) == Pair(x.text \o <<o>> \o y.text, Exp(x.tree, o, y.tree))
CallOn(f, x) ==
    Pair(<<f, "(">> \o x.text \o <<")">>, Exp(Leaf(f), "()", Parens(x.tree)))
ChoiceOf(x, y, z) == Pair(x.text \o <<"?">> \o y.text \o <<":">> \o z.text,
                          Exp(x.tree, "?", Ternary(y.tree, z.tree)))
None == Pair(<<>>, Nil)
A == Name("a")
B == Name("b")
Set == Infix(A, "=", Digit("1"))
Call1 == CallOn("g", Infix(A, ",", Digit("2")))
Sum == Infix(A, "+", Infix(Digit("2"), "*", B))
Test == Infix(A, "<", B)
Choice == ChoiceOf(A, Digit("1"), B)

\* Statements.
Stmt(x) == Pair(x.text \o <<";">>, x.tree)
Word(w, node) == Pair(<<w, ";">>, node)
ReturnS(x) == Pair(<<"return">> \o x.text \o <<";">>, Return(x.tree))
GotoS == Pair(<<"goto", "l", ";">>, Goto("l"))
LabelS == Pair(<<"l", ":">>, Label("l"))
CaseS(n) == Pair(<<"case", n, ":">>, Case(Leaf(n)))
DefaultS == Pair(<<"default", ":">>, Default)
Block(ss) == Pair(<<"{">> \o TextsOf(ss) \o <<"}">>, Body(TreesOf(ss)))

\* Bodies: the tree is the sequence of statements.
Braced(ss) == Pair(<<"{">> \o TextsOf(ss) \o <<"}">>, TreesOf(ss))
Bare(s) == Pair(s.text, <<s.tree>>)

Cond(w, x) == <<w, "(">> \o x.text \o <<")">>
IfS(x, b) == Pair(Cond("if", x) \o b.text, If(x.tree, b.tree, Nil))
IfElse(x, b, e) ==
    Pair(Cond("if", x) \o b.text \o <<"else">> \o e.text, If(x.tree, b.tree, Else(e.tree)))
ElseIf(x, b, s) ==
    Pair(Cond("if", x) \o b.text \o <<"else">> \o s.text, If(x.tree, b.tree, s.tree))
WhileS(x, b) == Pair(Cond("while", x) \o b.text, While(x.tree, b.tree))
DoS(b, x) == Pair(<<"do">> \o b.text \o Cond("while", x) \o <<";">>, DoWhile(b.tree, x.tree))
ForS(i, c, l, b) ==
    Pair(<<"for", "(">> \o i.text \o <<";">> \o c.text \o <<";">> \o l.text \o <<")">> \o b.text,
         For(i.tree, c.tree, l.tree, b.tree))
\* cases are the labels of the switch, those of a switch inside left out.
SwitchS(x, ss, cases) ==
    Pair(Cond("switch", x) \o <<"{">> \o TextsOf(ss) \o <<"}">>,
         SwitchWith(x.tree, TreesOf(ss), cases))

\* Declarations.
Var(x, v) == Pair(<<x>> \o IF v = None THEN <<>> ELSE <<"=">> \o v.text,
                  Variable("int", x, v.tree))
\* Only the last of a list has a value: the value of any other takes the comma
\* behind it for its own operator.
Declare(vs) ==
    LET Rest == FlattenSeq([i \in 1 .. Len(vs) - 1 |-> <<",">> \o vs[i + 1].text])
    IN  Pair(<<"int">> \o vs[1].text \o Rest \o <<";">>,
             IF Len(vs) = 1 THEN vs[1].tree ELSE VariableList(TreesOf(vs)))
Header(f, xs) ==
    LET Rest == FlattenSeq([i \in 1 .. Len(xs) - 1 |-> <<",", "int", xs[i + 1]>>])
    IN  <<"int", f, "(">> \o (IF xs = <<>> THEN <<>> ELSE <<"int", xs[1]>> \o Rest) \o <<")">>
Params(xs) == [i \in DOMAIN xs |-> Variable("int", xs[i], Nil)]
Prototype(f, xs) == Pair(Header(f, xs) \o <<";">>, Function("int", f, Params(xs), Nil))
Define(f, xs, ss) ==
    Pair(Header(f, xs) \o <<"{">> \o TextsOf(ss) \o <<"}">>,
         Function("int", f, Params(xs), Body(TreesOf(ss))))

\* A file is the sequence of its declarations.
File(ds) == Pair(TextsOf(ds), TreesOf(ds))

-----------------------------------------------------------------------------
Simple1 == {Stmt(Set), Stmt(Call1), Stmt(Choice), Word("break", Break),
            Word("continue", Continue), ReturnS(None), ReturnS(Sum), GotoS,
            Declare(<<Var("x", None)>>), Declare(<<Var("x", Sum)>>),
            Declare(<<Var("x", None), Var("y", None), Var("z", Test)>>)}
Plain == Stmt(Set)
Small == {Bare(Plain), Braced(<<>>), Braced(<<Plain, Stmt(Call1)>>)}

\* Every compound statement around the body b; e is the body of an else, where
\* there is one.
Around(b, e) ==
    {IfS(Test, b), IfElse(Test, e, b), ElseIf(Test, e, IfS(A, b)),
     ElseIf(Test, e, IfElse(A, e, b)), WhileS(Choice, b), DoS(b, Test),
     ForS(Set, Test, Call1, b), SwitchS(A, <<CaseS("1"), Pair(b.text, Body(b.tree))>>, <<"1">>)}
    \cup {SwitchS(Sum, <<CaseS("1"), CaseS("2"), Plain, DefaultS, Word("break", Break)>>,
                  <<"1", "2">>)}
Compound == UNION {Around(b, e) : b \in {Braced(<<Plain>>), Braced(<<>>)}, e \in Small}

\* One compound statement inside another, followed by a third statement; a bare
\* one too, where an else cannot be taken for another if's.
Pairs ==
    LET inner == Around(Braced(<<Word("break", Break)>>), Bare(Plain))
    IN  UNION {Around(Braced(<<s, LabelS, Plain>>), Bare(Plain)) : s \in inner}
Chained ==
    LET ifs == {IfS(A, Bare(Plain)), IfElse(A, Bare(Plain), Bare(Stmt(Call1)))}
        loops == {WhileS(A, Bare(Plain)), ForS(None, None, None, Bare(Word("break", Break)))}
    IN  {ElseIf(Test, Bare(Plain), s) : s \in ifs}
        \cup {IfElse(Test, Bare(Plain), Bare(s)) : s \in loops}
        \cup UNION {{IfS(Test, Bare(s)), WhileS(Test, Bare(s)), DoS(Bare(s), Test),
                     ForS(None, Test, None, Bare(s))} : s \in ifs \cup loops}
Fors == {ForS(i, c, l, Bare(Plain)) : i \in {None, Set}, c \in {None, Test}, l \in {None, Call1}}

\* Switches in a case, in a block of one, in a loop of one, each followed by a
\* further case of the switch outside.
Switches ==
    LET in == SwitchS(A, <<CaseS("3"), Plain, CaseS("4")>>, <<"3", "4">>)
        twice == SwitchS(A, <<CaseS("3"), in, CaseS("1")>>, <<"3", "1">>)
    IN  {SwitchS(Call1, <<CaseS("1"), s, CaseS("2"), Word("break", Break)>>, <<"1", "2">>) :
             s \in {in, twice, Block(<<Plain, in>>), WhileS(A, Braced(<<in, Plain>>)),
                    IfElse(A, Bare(Plain), Bare(in))}}
        \cup {SwitchS(A, <<Block(<<CaseS("1"), Plain>>), in, IfS(A, Braced(<<CaseS("2"), Plain>>))>>,
                      <<"1", "2">>)}

Bodies_ == {<<s>> : s \in Simple1 \cup Compound \cup Pairs \cup Chained \cup Fors \cup Switches}
          \cup {<<s, t>> : s \in Simple1, t \in {LabelS, Block(<<Plain>>), Block(<<>>), Plain}}
          \cup {<<>>, <<Block(<<Block(<<Plain>>), Declare(<<Var("x", A)>>)>>), ReturnS(A)>>}

Files == {File(<<Define("f", <<"a">>, ss)>>) : ss \in Bodies_}
         \cup {File(<<>>),
               File(<<Declare(<<Var("v", Digit("1"))>>), Prototype("g", <<"a", "b">>),
                      Declare(<<Var("v", None), Var("w", Digit("2"))>>),
                      Define("f", <<>>, <<ReturnS(Call1)>>), Define("h", <<"a", "b">>, <<Plain>>),
                      Prototype("f", <<>>)>>)}

-----------------------------------------------------------------------------
\* Files cut off, with one symbol or keyword lost, given twice or taken for
\* another, and with a declaration where an expression is parsed.
Whole == {(File(<<Define("f", <<"a">>, ss)>>)).text : ss \in
             {<<IfElse(A, Braced(<<Plain>>), Bare(Plain)), LabelS, ReturnS(None)>>,
              <<ForS(Set, None, Call1, Braced(<<Word("break", Break)>>)), GotoS>>,
              <<DoS(Braced(<<Declare(<<Var("x", None), Var("y", A)>>)>>), A)>>,
              <<SwitchS(A, <<CaseS("1"), Plain, DefaultS>>, <<"1">>), ReturnS(A)>>}}
Cut == UNION {{SubSeq(s, 1, n) : n \in 1 .. Len(s) - 1} : s \in Whole}
Fixed(s) == {i \in DOMAIN s : s[i] \in Symbols \cup Keywords}
Lost == UNION {{Put(s, i, <<>>) : i \in Fixed(s)} : s \in Whole}
Doubled == UNION {{Put(s, i, <<s[i], s[i]>>) : i \in Fixed(s)} : s \in Whole}
Mistaken == UNION {{Put(s, i, <<t>>) : i \in Fixed(s), t \in {";", "}", ")", "else"}} : s \in Whole}
\* The parser never takes an operator at the top level, nor gets past it.
NoneOutside(s) == \A i \in 2 .. Len(s) : ~(s[i - 1] = "}" /\ s[i] = "(")
DeclaredInFor == <<"int", "f", "(", ")", "{", "for", "(", "int", "x", "=", "1", ";", "x", ";",
                   ")", "a", ";", "}">>
Spoilt == {s \in Cut \cup Lost \cup Doubled \cup Mistaken : NoneOutside(s)} \cup {DeclaredInFor}

Meaning == [t \in {f.text : f \in Files} |-> (CHOOSE f \in Files : f.text = t).tree]
AllTexts == DOMAIN Meaning \cup Spoilt

\* The tree of a whole file is the one its text was written for: every statement
\* in its place, every else with the nearest if, the parts of every for loop and
\* the case list of every switch their own.
ParsedAsWritten ==
    status = "ok" /\ toks \in DOMAIN Meaning =>
        [i \in DOMAIN tree |-> tree[i].node] = Meaning[toks]

\* The constants of the case labels that belong to a switch with this body:
\* those in nested blocks and statements too, but none of a switch inside.
RECURSIVE Labels(_)
Labels(ss) ==
    LET Of(s) == CASE s.type = "CASE" -> <<s.exp.tok>>
                   [] s.type = "BODY" -> Labels(s.statements)
                   [] s.type = "IF" -> Labels(s.body) \o
                          IF s.next = Nil THEN <<>> ELSE Labels(<<s.next>>)
                   [] s.type \in {"ELSE", "WHILE", "DO_WHILE", "FOR"} -> Labels(s.body)
                   [] OTHER -> <<>>
    IN  FlattenSeq([i \in DOMAIN ss |-> Of(ss[i])])

\* The case list of a switch holds the constants of its own labels, in the order
\* of the text, however switches are nested.
CasesOfOwnSwitch ==
    \A i \in DOMAIN nodes :
        nodes[i].type = "SWITCH" => nodes[i].cases = Labels(nodes[i].body)

\* The parser accepts every well-formed expression and file.
AllAccepted == toks \in WellFormed \cup DOMAIN Meaning => Accepted

\* While a well-formed file is parsed the node stack and the tree stay in step.
StackInStep == toks \in DOMAIN Meaning => VectorsInStep

\* No expression and no file is accepted whose brackets do not match.
UnmatchedReported ==
    IF toks \in AllTexts THEN status = "ok" => Nested(toks) ELSE MatchedOrReported
=============================================================================
