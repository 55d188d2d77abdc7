------------------------------ MODULE MCCodegen ------------------------------
(***************************************************************************)
(* Programs for Codegen.  Control: every statement, every jump out of      *)
(* every kind of loop, loops and switches nested two deep, forward and     *)
(* backward gotos.  Data: every operator on every width, conditions that   *)
(* make blocks of their own in every statement that has one, assignments,  *)
(* calls, shadowed names, globals, pointers.  Modules of several functions.*)
(***************************************************************************)
EXTENDS SourceMeaning, ExprCodegen

\* What gen_stmt makes of an expression.
MCGenExpression(n, builder) == gen_node(n, builder)

\* Eight bits for int keep TLC's integers and every wrap-around in reach.
MCBits == [i1 |-> 1, i8 |-> 4, i16 |-> 6, i32 |-> 8, i64 |-> 12, ptr |-> 12]

\* A call of the void function a, and of a function nobody declared.
Do(k) == Call("a", Number(k))
A == Do(1)
B == Do(2)
Z == Do(3)
Ask(f) == Call(f, Blank)

PrototypeOfA == Function("void", "a", <<>>, Nil)
IntF(ss) == Function("int", "f", <<>>, Body(ss))
Compile(ss) == <<PrototypeOfA, IntF(ss)>>

c == Ask("c")
d == Ask("d")
v == Ask("v")

\* A loop of each kind around the statements ss.
LoopsOver(ss, cond) ==
    {While(cond, ss), DoWhile(ss, cond), For(Ask("i"), cond, Ask("s"), ss),
     For(Nil, cond, Nil, ss)}

\* Ways to leave, or go on with, what is around.
Ways == {<<>>, <<A>>, <<Break>>, <<Continue>>, <<Return(Number(4))>>, <<A, Break, B>>}

\* Straight-line code after a jump is dropped; ifs and else-ifs merge.
Ifs(js) ==
    {<<If(c, j, Nil)>> : j \in js}
    \cup {<<If(c, j, Else(k))>> : j, k \in js}
    \cup {<<If(c, j, If(d, k, Else(<<B>>)))>> : j, k \in js}
    \cup {<<Body(j)>> : j \in js}

NoLoop == {<<>>, <<A>>, <<Return(Number(4))>>, <<A, Return(c), B>>}

Switches(js) ==
    {Switch(v, <<Case(Number(1))>> \o j \o <<Case(Number(2)), A>> \o k) :
        j \in {<<>>, <<B>>, <<B, Break>>, <<Return(v), B>>, <<Body(<<B, Break>>)>>},
        k \in js}

SwitchTails == {<<>>, <<Break>>, <<Break, Default, B>>, <<Default, B, Break, B>>,
                <<Default>>, <<Break, Default, Return(v)>>,
                <<Default, B, Case(Exp(Number(1), "-", Number(1))), Z>>}

SwitchFirst == {Switch(v, <<Default, A, Case(Number(1)), B>>),
                Switch(v, <<Default, A, Break, Case(Number(1)), B, Break>>),
                Switch(v, <<>>), Switch(v, <<Z, Case(Number(1)), A>>)}

Gotos == {
    \* out of two loops at once
    <<While(c, <<While(d, <<If(v, <<Goto("L")>>, Nil), A>>), B>>), Label("L"), Z>>,
    \* backward, as a loop
    <<Label("L"), A, If(c, <<Goto("L")>>, Nil), Z>>,
    \* forward over code, and into the middle of a loop
    <<If(c, <<Goto("L")>>, Nil), A, Label("L"), Z>>,
    <<If(c, <<Goto("L")>>, Nil), While(d, <<A, Label("L"), B>>), Z>>,
    \* two gotos to one label, and a label that starts a block
    <<If(c, <<Goto("L")>>, Else(<<Goto("L")>>)), Body(<<Label("L"), A>>)>>,
    \* out of a switch
    <<Switch(v, <<Case(Number(1)), A, Goto("L"), Case(Number(2)), B, Break>>), B,
      Label("L"), Z>> }

Control ==
    {s \o <<Z>> : s \in Ifs(NoLoop)}
    \cup {<<l, Z>> : l \in UNION {LoopsOver(s \o <<B>>, d) : s \in Ifs(Ways)}}
    \cup {<<l, Z>> : l \in UNION {LoopsOver(<<m, B, Break>>, d) :
                        m \in UNION {LoopsOver(s, v) :
                            s \in {<<If(c, j, Nil)>> : j \in Ways}}}}
    \cup {<<For(Nil, Nil, Ask("s"), <<If(c, <<Break>>, Nil), A>>), Z>>,
          <<For(Nil, Nil, Nil, <<>>), Z>>}
    \cup {<<s, Z>> : s \in Switches(SwitchTails) \cup SwitchFirst}
    \cup {<<l, Z>> : l \in UNION {LoopsOver(<<s, B>>, d) : s \in SwitchFirst}}
    \cup Gotos
    \cup {<<If(c, <<Case(Number(1)), A>>, Nil), Z>>}

-----------------------------------------------------------------------------
(* Expressions over an int p, a char q, a long l and a short h *)

p == Identifier("p")
q == Identifier("q")
l == Identifier("l")
h == Identifier("h")
g == Identifier("g")

\* f(p, q), whose result has type t.
OfTwo(t, ss) ==
    <<PrototypeOfA, Variable("short", "g", Parens(Number(5))),
      Function(t, "f", <<Variable("int", "p", Nil), Variable("char", "q", Nil)>>,
               Body(<<VariableList(<<Variable("long", "l", Exp(p, "+", Number(9))),
                                     Variable("short", "h", q)>>)>> \o ss))>>

\* A number that no int holds.
Long == LongNumber(200)

\* Two chars are left out: the compiler adds them in eight bits.
Operands == {p, q, l, h}
Pairs == (Operands \X (Operands \cup {Number(3)})) \ {<<q, q>>}
Simple ==
    {Exp(x[1], o, x[2]) : x \in Pairs,
                          o \in {"+", "-", "*", "&", "|", "^"} \cup Comparisons}
    \cup {Exp(x, o, Number(3)) : x \in Operands, o \in {"/", "%", "<<", ">>"}}
    \cup {Exp(x, o, Long) : x \in Operands, o \in {"+", "&", "<", "=="}}
    \cup {CastTo(t, x) : t \in {"char", "short", "int", "long"}, x \in Operands}

\* Values with blocks of their own.  What stands to the right of && and ||
\* has no effect.
Tests == {p, q, Exp(p, "<", q), Parens(Exp(p, "==", Number(1)))}
Logicals ==
    {Exp(x, o, y) : x \in Tests \cup {c}, y \in Tests, o \in {"&&", "||"}}
    \cup {Exp(Exp(c, o, p), r, q) : o, r \in {"&&", "||"}}
    \cup {Exp(c, o, Exp(p, r, q)) : o, r \in {"&&", "||"}}
Ternaries ==
    {Exp(x, "?", Ternary(y, Number(7))) : x \in Tests, y \in {p, d}}
    \cup {Exp(c, "?", Ternary(Exp(p, "?", Ternary(d, Number(1))), v)),
          Exp(c, "?", Ternary(p, Exp(q, "?", Ternary(Ask("d"), p)))),
          Exp(Exp(c, "&&", p), "?", Ternary(Exp(p, "||", q), d)),
          Exp(Exp(p, "?", Ternary(c, d)), "?", Ternary(Number(1), v))}
Branching == Logicals \cup Ternaries

\* A condition in each statement that takes one.
Conditions(e) ==
    {<<If(e, <<A>>, Else(<<B>>)), Z>>,
     <<If(c, <<>>, If(e, <<A>>, Nil)), Z>>,
     <<While(e, <<A, Exp(p, "-=", Number(1))>>), Z>>,
     <<DoWhile(<<A, If(c, <<Continue>>, Nil), Exp(q, "-=", Number(1))>>, e), Z>>,
     <<For(Exp(h, "=", e), Exp(p, "<", Number(3)), Exp(p, "+=", Number(1)), <<A>>),
       Return(h)>>,
     <<For(Nil, e, Exp(q, "=", Number(0)), <<A, Exp(p, "=", q)>>), Return(p)>>,
     <<Switch(e, <<Case(Number(1)), A, Default, B>>), Z>>,
     <<Variable("char", "x", e), Call("a", Exp(Identifier("x"), ",", e)), Z>>}

Assigned(x, o, e) == <<Exp(x, o, e), Call("a", Exp(x, ",", g)), Return(Exp(x, o, p))>>
Assignments ==
    UNION {{Assigned(x, o, y) : x \in {p, l, h, g}, y \in {p, q, Number(3)}} :
                o \in {"=", "+=", "-=", "*=", "&=", "|=", "^="}}
    \cup {Assigned(x, o, Long) : x \in {p, l}, o \in {"=", "+="}}
    \cup {Assigned(q, o, y) : o \in {"=", "&=", "|=", "^="}, y \in {p, l}}
    \cup {<<Exp(x, o, Number(2)), Return(x)>> : x \in {p, l, h, g, q},
                                               o \in {"/=", "%=", "<<=", ">>="}}
    \cup {<<Exp(p, "=", Exp(l, "=", Exp(q, "=", y))), Return(Exp(p, "-", l))>> :
              y \in {h, Exp(c, "?", Ternary(Number(1), d))}}
    \cup {<<Exp(Parens(p), "+=", y), Return(p)>> : y \in {c, Exp(q, "&&", p)}}

x == Identifier("x")
\* Declarations of x in blocks inside one another, a parameter and a global
\* shadowed, a name used after its block.
Shadows ==
    {<<Variable("int", "x", Number(1)),
       Body(<<Variable("char", "x", Number(2)), Exp(x, "+=", Number(1)), Call("a", x)>>),
       If(c, <<Variable("long", "x", p), Call("a", x)>>, Else(<<Call("a", x)>>)),
       Return(x)>>,
     <<Body(<<Variable("char", "p", Number(2)), Exp(p, "=", Exp(p, "+", Number(1)))>>),
       Return(p)>>,
     <<DoWhile(<<Variable("short", "g", Number(2)), Exp(g, "-=", p), Call("a", g)>>, c),
       Return(g)>>,
     <<Switch(p, <<Case(Number(0)), Body(<<Variable("int", "x", q), Call("a", x)>>),
                   Default, Exp(g, "=", Number(4))>>), Return(g)>>}

\* A pointer r to characters, and calls with parameters to convert to.
r == Identifier("r")
At(i) == Exp(r, "[]", Bracket(i))
OfPointer(ss) ==
    <<Function("char", "k", <<Variable("char", "u", Nil), Variable("long", "w", Nil)>>,
               Nil),
      Function("long", "f", <<Variable("pointer", "r", Nil), Variable("int", "p", Nil)>>,
               Body(ss))>>
Pointers ==
    {<<Exp(At(p), "=", Number(3)), Return(At(Number(1)))>>,
     <<Exp(At(p), "=", c), Exp(At(Number(1)), "+=", At(p)), Return(At(Number(1)))>>,
     <<If(r, <<Return(Number(1))>>, Nil), Return(CastTo("long", r))>>,
     <<Variable("pointer", "x", r), Exp(r, "=", CastTo("pointer", p)),
       Exp(At(Number(0)), "=", Number(2)), Return(Exp(x, "[]", Bracket(Number(0))))>>,
     <<Return(Call("k", Exp(Number(9), ",", p)))>>,
     <<Return(Call("k", Exp(Long, ",", Long)))>>,
     <<Exp(p, "=", Call("k", Exp(Call("k", Exp(p, ",", p)), ",", c))), Return(p)>>,
     <<Return(Call("k", Exp(Number(3), ",", Exp(p, "?", Ternary(c, p)))))>>}

\* Modules: one label in two functions, a function called before and after its
\* definition, globals in a list, a void function.
Jumping(f) == Function("int", f, <<Variable("int", "p", Nil)>>,
    Body(<<If(p, <<Goto("L")>>, Nil), A, Label("L"), Exp(g, "=", p), Return(g)>>))
Modules ==
    {<<PrototypeOfA,
       VariableList(<<Variable("int", "g", Nil), Variable("char", "y", Number(3))>>),
       Jumping("f1"), Jumping("f2")>>,
     <<Function("char", "k", <<Variable("char", "u", Nil)>>, Nil),
       Function("int", "f", <<>>, Body(<<Return(Call("k", Number(9)))>>)),
       Function("char", "k", <<Variable("char", "u", Nil)>>,
                Body(<<Return(Identifier("u"))>>)),
       Variable("int", "g", Number(2)),
       Function("void", "main", <<>>,
                Body(<<Exp(g, "=", Call("k", Call("f", Blank)))>>))>>}

Working ==
    {Compile(s) : s \in Control}
    \cup {OfTwo("int", <<Return(e)>>) : e \in Simple}
    \cup {OfTwo("char", <<Return(e)>>) : e \in Branching}
    \cup {OfTwo("int", s) : s \in UNION {Conditions(e) : e \in Branching}}
    \cup {OfTwo("long", s) : s \in Assignments \cup Shadows}
    \cup {OfPointer(s) : s \in Pointers}
    \cup Modules

\* The same, and default where no switch sees it.
WorkingAndNestedDefault == Working \cup {Compile(<<A, If(c, <<Default, B>>, Nil)>>)}

-----------------------------------------------------------------------------
(* Programs on which the code departs from what it says of itself.         *)

IfInCase == {Compile(<<Switch(v, <<Case(Number(1)), If(c, <<A>>, Nil), Break,
                                   Case(Number(2)), B, Break>>), Z>>)}
ContinueInSwitch == {Compile(<<While(c, <<Switch(v, <<Case(Number(1)), Continue>>), A>>),
                               Z>>)}
LabelAfterReturn == {Compile(<<If(c, <<Goto("L")>>, Nil), A, Return(Number(4)),
                               Label("L"), Z>>)}
\* && and || run their right operand whatever the left one says.
ShortCircuit == {Compile(<<If(Exp(c, "&&", d), <<A>>, Nil), Z>>)}
\* The conversions of a ternary's operands stand before its phi.
MixedTernary == {OfTwo("int", <<Return(Exp(p, "?", Ternary(p, q)))>>)}
\* Two chars are added in eight bits.
CharArithmetic == {OfTwo("int", <<Exp(q, "=", Number(7)), Return(Exp(q, "+", q))>>)}
\* A variable of a case stays in scope after the switch.
SwitchScope == {OfTwo("int", <<Variable("int", "x", Number(1)),
    Switch(p, <<Case(Number(1)), Variable("int", "x", Number(2))>>), Return(x)>>)}
\* A global initialiser that is not a number gives zero.
ComputedInitialiser == {<<Variable("int", "g", Exp(Number(2), "+", Number(3))),
                          IntF(<<Return(g)>>)>>}
\* A function first seen in a call keeps the type int(...).
CalledBeforeDeclared == {<<IntF(<<Return(Call("k", Number(2)))>>),
    Function("int", "k", <<Variable("int", "u", Nil)>>,
             Body(<<Return(Identifier("u"))>>))>>}

-----------------------------------------------------------------------------
(* Termination *)

\* A bound on the steps it takes to generate the statements ss, each of which
\* costs `each` more in the list it is in.
RECURSIVE Work(_, _)
WorkOf(s) ==
    1 + CASE s.type = "BODY" -> Work(s.statements, 0) + 1
          [] s.type = "IF" -> Work(s.body, 0) + Work(<<s.next>>, 0) + 3
          [] s.type \in {"ELSE", "WHILE", "DO_WHILE", "FOR"} -> Work(s.body, 0) + 2
          [] s.type = "SWITCH" -> Work(s.body, 2) + 1
          [] s.type = "VARIABLE_LIST" -> Work(s.list, 0) + 1
          [] s.type = "FUNCTION" /\ s.body # Nil -> Work(s.body.statements, 0) + 2
          [] OTHER -> 0
Work(ss, each) == FoldLeft(LAMBDA sum, s : sum + WorkOf(s) + each, 0, ss)

WorkLeft(f) == CASE f.at \in {"RUN", "BODY", "ITEM", "LIST", "GLOBALS"} -> Work(f.rest, 0) + 1
                 [] f.at = "SWITCH" -> Work(f.rest, 2) + 1
                 [] f.at = "THEN" -> Work(<<f.next>>, 0) + 2
                 [] OTHER -> 1
AllWork(fs) == FoldLeft(LAMBDA sum, f : sum + WorkLeft(f), 0, fs)

\* Generation ends: every step leaves less to do, however statements are
\* skipped, nested or returned from, and none is generated twice.
WorkShrinks == [][AllWork(frames') < AllWork(frames) \/ status' # "running"]_vars
=============================================================================
