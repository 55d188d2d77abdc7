---------------------------- MODULE SourceMeaning ----------------------------
(***************************************************************************)
(* What a function means, twice: by the rules of C, on its nodes, and by   *)
(* the rules of LLVM IR, on the basic blocks that Codegen produced.        *)
(* src/README.md lists the language the compiler supports.                 *)
(*                                                                         *)
(* Both are runs against an environment that consists of the functions     *)
(* called.  A call is an event; what it returns, and what the arguments of *)
(* the function itself are, comes from an oracle, a sequence of numbers.   *)
(* A run is the sequence of its events up to the return, to the end of the *)
(* oracle, to MaxTrace events, or to MaxIdle jumps or statements without   *)
(* an event (an endless loop); its result is what it leaves in the globals *)
(* and behind the pointers.  Memory never written is zero in both.         *)
(***************************************************************************)
EXTENDS Verifier

CONSTANTS MaxTrace, MaxIdle

-----------------------------------------------------------------------------
(* The state of a run: memory, events, what is left of the oracle *)

NoMemory == [k \in {} |-> 0]
Start(oracle) == [mem |-> NoMemory, out |-> <<>>, oracle |-> oracle, idle |-> MaxIdle,
                  stop |-> FALSE]

Read(st, key) == IF key \in DOMAIN st.mem THEN st.mem[key] ELSE 0
Write(st, key, v) == IF st.stop THEN st ELSE [st EXCEPT !.mem = (key :> v) @@ @]

\* An event, after which the run may be over.
Say(st, e) ==
    IF st.stop THEN st
    ELSE [st EXCEPT !.out = Append(@, e), !.idle = MaxIdle,
                    !.stop = Len(st.out) + 1 >= MaxTrace]
Halt(st, e) == [Say(st, e) EXCEPT !.stop = TRUE]
Idle(st) == IF st.idle = 0 THEN Halt(st, <<"forever">>) ELSE [st EXCEPT !.idle = @ - 1]

\* A call of f, and the number it answers; void functions answer nothing.
Answered(st, f, vs, t) ==
    LET said == Say(st, <<f>> \o vs)
    IN  IF said.stop \/ t = "void" THEN [st |-> said, val |-> 0]
        ELSE IF st.oracle = <<>> THEN [st |-> Halt(said, <<"?">>), val |-> 0]
        ELSE [st |-> [said EXCEPT !.oracle = Tail(@)], val |-> Wrap(Head(st.oracle), t)]

-----------------------------------------------------------------------------
(* LLVM IR *)

CaseTarget(i, v) ==
    IF \E k \in DOMAIN i.cases : i.cases[k][1] = v
    THEN i.cases[CHOOSE k \in DOMAIN i.cases : i.cases[k][1] = v][2]
    ELSE i.default

\* A value, given the registers and the arguments.
ValueIn(v, regs, args) ==
    CASE v.kind = "const" -> v.num
      [] v.kind = "reg" -> regs[v.at]
      [] v.kind = "param" -> args[v.num]
      [] OTHER -> 0

AddressIn(a, regs, args) ==
    CASE a.kind = "slot" -> <<"slot", a.num>>
      [] a.kind = "global" -> <<"global", a.name>>
      [] OTHER -> <<"byte", ValueIn(a, regs, args)>>

\* A configuration: the instruction n of block b comes next; the block was
\* entered from `from`.
AtEntry(args, st) == [b |-> 1, n |-> 1, from |-> NoBlock, regs |-> NoMemory,
                      args |-> args, st |-> st]
Jumped(c, to) == [c EXCEPT !.b = to, !.n = 1, !.from = c.b, !.st = Idle(@)]
Wrote(c, st) == [c EXCEPT !.n = @ + 1, !.st = st]
Got(c, v, st) == [Wrote(c, st) EXCEPT !.regs = (<<c.b, c.n>> :> v) @@ @]
GotAnswer(c, answer) == Got(c, answer.val, answer.st)
Phied(c, in) ==
    Got(c, ValueIn(in[CHOOSE k \in DOMAIN in : in[k][2] = c.from][1], c.regs, c.args), c.st)

\* After instruction i, on the numbers vs.
Executed(c, i, vs) ==
    CASE i.op = "br" -> Jumped(c, i.to)
      [] i.op = "condbr" -> Jumped(c, IF vs[1] = 1 THEN i.yes ELSE i.no)
      [] i.op = "switch" -> Jumped(c, CaseTarget(i, vs[1]))
      [] i.op = "ret" -> Wrote(c, Halt(c.st, <<"return">> \o vs))
      [] i.op = "store" -> Wrote(c, Write(c.st, AddressIn(i.addr, c.regs, c.args), vs[1]))
      [] i.op = "load" -> Got(c, Read(c.st, AddressIn(i.addr, c.regs, c.args)), c.st)
      [] i.op = "call" -> GotAnswer(c, Answered(c.st, i.f, vs, i.ty))
      [] i.op = "phi" -> Phied(c, i.in)
      [] i.op = "gep" -> Got(c, Wrap(vs[1] + vs[2], "ptr"), c.st)
      [] i.op \in {"inttoptr", "ptrtoint"} -> Got(c, Wrap(vs[1], i.ty), c.st)
      [] i.op \in Pure -> Got(c, Result(i, vs), c.st)

StepIR(c) ==
    IF c.n > Len(block[c.b]) THEN Wrote(c, Halt(c.st, <<"no terminator">>))
    ELSE LET i == block[c.b][c.n]
         IN  Executed(c, i, [k \in DOMAIN Args(i) |-> ValueIn(Args(i)[k], c.regs, c.args)])

\* 2^n instructions, or all there are.
RECURSIVE RunIR(_, _)
RunIR(n, c) == CASE c.st.stop -> c
                 [] ~c.st.stop /\ n = 0 -> StepIR(c)
                 [] OTHER -> RunIR(n - 1, RunIR(n - 1, c))

-----------------------------------------------------------------------------
(***************************************************************************)
(* C expressions: value, type and state after.  `env` has, for a name in   *)
(* scope, where it is in memory and its type.  Operands whose order C      *)
(* leaves open are evaluated left to right, as the compiler does.          *)
(***************************************************************************)
Promoted(t) == IF t \in {"i8", "i16"} THEN "i32" ELSE t
Common(t, u) == IF "i64" \in {t, u} THEN "i64" ELSE Promoted(t)

\* The nodes of type t up to and including the function in hand.
Nodes(t) == SelectSeq(SubSeq(program, 1, Len(program) - Len(frames[1].rest)),
                      LAMBDA n : n.type = t)

\* What a call of f calls: the first declaration of f; without one, a function
\* of no known parameters that returns int.
Signature(f) ==
    LET fs == SelectSeq(Nodes("FUNCTION"), LAMBDA n : n.name = f)
    IN  IF fs = <<>> THEN [ret |-> "i32", params |-> <<>>]
        ELSE [ret |-> dtype_to_llvm[fs[1].rtype],
              params |-> [k \in DOMAIN fs[1].args |-> dtype_to_llvm[fs[1].args[k].dtype]]]

RECURSIVE CEval(_, _, _), CArguments(_, _, _, _)

CArguments(e, env, st, vs) ==
    IF IsExpOf(e, ",")
    THEN LET l == CArguments(e.left, env, st, vs) IN CArguments(e.right, env, l.st, l.vs)
    ELSE LET a == CEval(e, env, st) IN [st |-> a.st, vs |-> Append(vs, a.val)]

CCall(f, e, env, st) ==
    LET args == IF e = Blank THEN [st |-> st, vs |-> <<>>]
                ELSE CArguments(e, env, st, <<>>)
        ps == Signature(f).params
        passed == [k \in DOMAIN args.vs |->
                    IF k \in DOMAIN ps THEN Wrap(args.vs[k], ps[k]) ELSE args.vs[k]]
        answer == Answered(args.st, f, passed, Signature(f).ret)
    IN  [st |-> answer.st, val |-> answer.val, ty |-> Signature(f).ret]

\* Where an lvalue is; p[i] is the i-th character behind p.
CPlace(e, env, st) ==
    LET base == CEval(e.left, env, st)
        idx == CEval(e.right.inner, env, base.st)
    IN  CASE e.type = "IDENTIFIER" -> [st |-> st] @@ env[e.name]
          [] e.type = "PARENTHESES" -> [st |-> st] @@ env[e.inner.name]
          [] OTHER -> [st |-> idx.st, key |-> <<"byte", Wrap(base.val + idx.val, "ptr")>>,
                       ty |-> "i8"]

CBinary(o, l, r) ==
    LET t == IF o \in {"<<", ">>"} THEN Promoted(l.ty) ELSE Common(l.ty, r.ty)
    IN  IF o \in Comparisons
        THEN [st |-> r.st, val |-> Compare(o, l.val, r.val), ty |-> "i32"]
        ELSE [st |-> r.st, val |-> Wrap(Arith(o, l.val, r.val), t), ty |-> t]

CAssign(e, env, st) ==
    LET place == CPlace(e.left, env, st)
        r == CEval(e.right, env, place.st)
        old == [st |-> r.st, val |-> Read(r.st, place.key), ty |-> place.ty]
        new == IF e.op = "=" THEN r ELSE CBinary(BaseOp[e.op], old, r)
        v == Wrap(new.val, place.ty)
    IN  [st |-> Write(r.st, place.key, v), val |-> v, ty |-> place.ty]

CEval(e, env, st) ==
    LET l == CEval(e.left, env, st)
        Then(n) == CEval(n, env, l.st)
        chosen == Then(IF l.val # 0 THEN e.right.yes ELSE e.right.no)
        second == [Then(e.right) EXCEPT !.val = Truth(@ # 0), !.ty = "i32"]
        place == CPlace(e, env, st)
        cast == CEval(e.operand, env, st)
        t == IF e.long THEN "i64" ELSE "i32"
    IN  CASE e.type = "NUMBER" -> [st |-> st, val |-> Wrap(e.num, t), ty |-> t]
          [] e.type = "PARENTHESES" -> CEval(e.inner, env, st)
          [] e.type = "CAST" ->
                [cast EXCEPT !.val = Wrap(@, dtype_to_llvm[e.dtype]),
                             !.ty = dtype_to_llvm[e.dtype]]
          [] e.type = "IDENTIFIER" \/ IsExpOf(e, "[]") ->
                [st |-> place.st, val |-> Read(place.st, place.key), ty |-> place.ty]
          [] IsExp(e) /\ e.op \in AssignOps -> CAssign(e, env, st)
          [] IsExpOf(e, "()") -> CCall(e.left.name, e.right.inner, env, st)
          [] IsExpOf(e, ",") -> Then(e.right)
          [] IsExpOf(e, "?") -> chosen
          [] IsExpOf(e, "&&") ->
                IF l.val = 0 THEN [l EXCEPT !.ty = "i32"] ELSE second
          [] IsExpOf(e, "||") ->
                IF l.val # 0 THEN [l EXCEPT !.val = 1, !.ty = "i32"] ELSE second
          [] IsExp(e) /\ e.op \in BinOps \cup Comparisons ->
                CBinary(e.op, l, Then(e.right))

-----------------------------------------------------------------------------
(***************************************************************************)
(* C statements.  A run is a stack of the lists still to execute, the      *)
(* innermost last, each with the names in scope and the statement that     *)
(* owns it (Nil for a block or a branch of an if).                         *)
(***************************************************************************)
List(ss, env, owner) == [rest |-> ss, env |-> env, owner |-> owner]

Loops == {"WHILE", "DO_WHILE", "FOR"}
\* The stack up to the innermost list owned by one of the types in S.
UpTo(k, S) == SubSeq(k, 1, SelectLastInSeq(k, LAMBDA f : f.owner.type \in S))

\* A list as the variables at its head come into scope, d lists deep.
Local(v, d) ==
    v.name :> [key |-> <<"local", d, v.name>>, ty |-> dtype_to_llvm[v.dtype]]

\* The statements of a switch body from the case that value v selects on.
Selected(ss, v) ==
    LET hits == {i \in DOMAIN ss : ss[i].type = "CASE" /\
                                   CEval(ss[i].exp, NoNames, Start(<<>>)).val = v}
        defaults == {i \in DOMAIN ss : ss[i] = Default}
        at == IF hits # {} THEN hits ELSE defaults
    IN  IF at = {} THEN <<>> ELSE SubSeq(ss, Min(at), Len(ss))

ElsePart(next) == CASE next.type = "IF" -> <<next>>
                    [] next.type = "ELSE" -> next.body
                    [] OTHER -> <<>>

\* The lists a statement holds.
Inner(s) == CASE s.type = "BODY" -> <<List(s.statements, NoNames, Nil)>>
              [] s.type = "IF" -> <<List(s.body, NoNames, Nil),
                                    List(ElsePart(s.next), NoNames, Nil)>>
              [] s.type \in Loops \cup {"SWITCH"} -> <<List(s.body, NoNames, s)>>
              [] OTHER -> <<>>

\* The stack at label l in the list f, on stack k; <<>> when it is not there.
RECURSIVE AtLabel(_, _, _)
AtLabel(f, l, k) ==
    IF f.rest = <<>> THEN <<>>
    ELSE LET s == Head(f.rest)
             after == [f EXCEPT !.rest = Tail(@),
                                !.env = IF s.type = "VARIABLE"
                                        THEN Local(s, Len(k) + 1) @@ @ ELSE @]
             inside == {AtLabel([Inner(s)[i] EXCEPT !.env = f.env], l, Append(k, after)) :
                            i \in DOMAIN Inner(s)} \ {<<>>}
         IN  IF s = Label(l) THEN Append(k, after)
             ELSE IF inside # {} THEN CHOOSE j \in inside : TRUE
             ELSE AtLabel(after, l, k)

ReturnType == dtype_to_llvm[fn.rtype]

\* A configuration: the stack of lists and the state.
To(k, st) == [k |-> k, st |-> st]
Enter(k, ss, owner) == Append(k, List(ss, Last(k).env, owner))
EvalOn(e, k, st) == CEval(e, Last(k).env, st)
After(e, k, st) == IF e = Nil THEN st ELSE EvalOn(e, k, st).st

\* Once more around a loop, if its condition, which gave v, says so.
Decided(loop, k, v) ==
    To(IF v.val # 0 THEN Enter(k, loop.body, loop) ELSE k, Idle(v.st))
Again(loop, k, st) ==
    IF loop.cond = Nil THEN To(Enter(k, loop.body, loop), Idle(st))
    ELSE Decided(loop, k, EvalOn(loop.cond, k, st))

\* The list owned by `owner` is done; k is what is below it.
EndOfList(owner, k, st) ==
    CASE k = <<>> -> To(k, Halt(st, IF ReturnType = "void" THEN <<"return">>
                                    ELSE <<"return", 0>>))
      [] k # <<>> /\ owner.type \in {"WHILE", "DO_WHILE"} -> Again(owner, k, st)
      [] k # <<>> /\ owner.type = "FOR" -> Again(owner, k, After(owner.loop, k, st))
      [] OTHER -> To(k, Idle(st))

\* A variable whose declaration is being executed is in scope already.
InScope(s, k) == [k EXCEPT ![Len(k)].env = Local(s, Len(k)) @@ @]
Initialised(s, k, v) ==
    To(k, Write(v.st, Last(k).env[s.name].key, Wrap(v.val, dtype_to_llvm[s.dtype])))
Declares(s, k, st) ==
    IF s.val = Nil THEN To(k, st) ELSE Initialised(s, k, EvalOn(s.val, k, st))

IfOn(s, k, v) ==
    To(Enter(k, IF v.val # 0 THEN s.body ELSE ElsePart(s.next), Nil), Idle(v.st))
SwitchFrom(s, k, v) == To(Enter(k, Selected(s.body, v.val), s), Idle(v.st))
ReturnOf(k, v) == To(k, Halt(v.st, <<"return", Wrap(v.val, ReturnType)>>))
ListEnded(k) == [k EXCEPT ![Len(k)].rest = <<>>]

\* After statement s, taken from the innermost list of k.
Done(s, k, st) ==
    CASE IsExpression(s) -> To(k, EvalOn(s, k, st).st)
      [] s.type = "VARIABLE" -> Declares(s, InScope(s, k), st)
      [] s.type = "VARIABLE_LIST" -> To([k EXCEPT ![Len(k)].rest = s.list \o @], st)
      [] s.type \in {"LABEL", "CASE", "DEFAULT"} -> To(k, Idle(st))
      [] s.type = "BODY" -> To(Enter(k, s.statements, Nil), Idle(st))
      [] s.type = "IF" -> IfOn(s, k, EvalOn(s.cond, k, st))
      [] s.type = "WHILE" -> Again(s, k, st)
      [] s.type = "DO_WHILE" -> To(Enter(k, s.body, s), Idle(st))
      [] s.type = "FOR" -> Again(s, k, After(s.init, k, st))
      [] s.type = "SWITCH" -> SwitchFrom(s, k, EvalOn(s.exp, k, st))
      [] s.type = "BREAK" -> To(Front(UpTo(k, Loops \cup {"SWITCH"})), Idle(st))
      [] s.type = "CONTINUE" -> To(ListEnded(UpTo(k, Loops)), Idle(st))
      [] s.type = "GOTO" ->
            To(AtLabel(List(fn.body.statements, k[1].env, Nil), s.name, <<>>), Idle(st))
      [] s.type = "RETURN" -> IF s.exp = Nil THEN To(k, Halt(st, <<"return">>))
                              ELSE ReturnOf(k, EvalOn(s.exp, k, st))

StepC(k, st) ==
    IF Last(k).rest = <<>> THEN EndOfList(Last(k).owner, Front(k), st)
    ELSE Done(Head(Last(k).rest), [k EXCEPT ![Len(k)].rest = Tail(@)], st)

\* 2^n steps, or all there are.
RECURSIVE RunC(_, _)
RunC(n, c) == CASE c.st.stop -> c
                [] ~c.st.stop /\ n = 0 -> StepC(c.k, c.st)
                [] OTHER -> RunC(n - 1, RunC(n - 1, c))

-----------------------------------------------------------------------------
(* A function, run on the arguments the oracle starts with *)

Arguments(oracle) == [k \in DOMAIN fn.args |->
    Wrap(oracle[k], dtype_to_llvm[fn.args[k].dtype])]
AfterArguments(oracle) == Start(SubSeq(oracle, Len(fn.args) + 1, Len(oracle)))

\* The variables declared outside functions, in order, and their values.
GlobalList == Nodes("VARIABLE") \o
              FlattenSeq([i \in DOMAIN Nodes("VARIABLE_LIST") |->
                            Nodes("VARIABLE_LIST")[i].list])
GlobalNames ==
    FoldLeft(LAMBDA env, v : (v.name :> [key |-> <<"global", v.name>>,
                                         ty |-> dtype_to_llvm[v.dtype]]) @@ env,
             NoNames, GlobalList)
InitialValue(v) ==
    IF v.val = Nil THEN 0
    ELSE Wrap(CEval(v.val, NoNames, Start(<<>>)).val, dtype_to_llvm[v.dtype])
InitialMemory ==
    FoldLeft(LAMBDA mem, v : (<<"global", v.name>> :> InitialValue(v)) @@ mem,
             NoMemory, GlobalList)

\* Parameters are variables around the body; the last of two of a name counts.
ParameterNames == FoldLeft(LAMBDA env, v : Local(v, 0) @@ env, GlobalNames, fn.args)
ParameterMemory(args) ==
    FoldLeftDomain(LAMBDA mem, k : (<<"local", 0, fn.args[k].name>> :> args[k]) @@ mem,
                   InitialMemory, args)

\* More steps than MaxTrace events with MaxIdle jumps between them take.
LogSteps == 12

Meaning(o) ==
    RunC(LogSteps, To(<<List(fn.body.statements, ParameterNames, Nil)>>,
                      [AfterArguments(o) EXCEPT !.mem = ParameterMemory(Arguments(o))])).st
\* A global's first value is the initialiser it was made with.
Compiled(o) ==
    RunIR(LogSteps, AtEntry(Arguments(o), [AfterArguments(o) EXCEPT
        !.mem = [key \in {<<"global", x>> : x \in DOMAIN globals} |->
                    globals[key[2]].init]])).st

\* What others see of a run: its events and, after a return, the memory that
\* is not its own.
Observed(st) ==
    <<st.out, IF Head(Last(st.out)) = "return"
              THEN {<<key, st.mem[key]>> : key \in {m \in DOMAIN st.mem :
                        m[1] \in {"global", "byte"}}}
              ELSE {}>>

Oracles == [1 .. 4 -> 0 .. 2]

-----------------------------------------------------------------------------
\* The blocks produced for a function do what its source says, whatever its
\* arguments are and whatever the functions it calls answer: the same calls
\* with the same arguments in the same order, the same value returned, the
\* same globals and characters left behind.
SameBehaviour ==
    Finished => \A o \in Oracles : Observed(Compiled(o)) = Observed(Meaning(o))
=============================================================================
