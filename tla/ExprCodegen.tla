---------------------------- MODULE ExprCodegen ----------------------------
(***************************************************************************)
(* Expression code generation: LLVMCodegen::gen_node and the gen_* methods *)
(* of src/cpp/codegen_expr.cpp, with the lvalue helpers of                 *)
(* src/cpp/codegen_core.cpp.  The methods append to the insertion block of *)
(* one llvm::IRBuilder, make blocks and move the insertion point.          *)
(*                                                                         *)
(* Left out: floating point, strings, and gen_prefix and gen_postfix: the  *)
(* parser makes no expression node without a left or a right operand.      *)
(***************************************************************************)
EXTENDS Builder

\* Mutant: the oldest declaration of the name in scope, not the innermost.
LookupOutermost(scopes, x) ==
    LET at == SelectInSeq(scopes, LAMBDA s : x \in DOMAIN s)
    IN  IF at = 0 THEN [addr |-> NoValue, elem |-> "none"] ELSE scopes[at][x]

\* Innermost scope first.
lookup_var(scopes, x) ==
    LET at == SelectLastInSeq(scopes, LAMBDA s : x \in DOMAIN s)
    IN  IF at = 0 THEN [addr |-> NoValue, elem |-> "none"] ELSE scopes[at][x]

\* getOrInsertFunction of a name nobody declared.
Declared(g, f) ==
    IF f \in DOMAIN g.functions THEN g
    ELSE [g EXCEPT !.functions =
            (f :> [ret |-> "i32", params |-> <<>>, variadic |-> TRUE]) @@ @]

-----------------------------------------------------------------------------
RECURSIVE gen_node(_, _), lvalue_of(_, _), Collect(_, _, _)

NoPlace(g) == [g |-> g, addr |-> NoValue, elem |-> "none"]

\* The variable x, v when it is in scope, else a global one.
VariablePlace(x, v, g) ==
    CASE v.addr # NoValue -> [g |-> g, addr |-> v.addr, elem |-> v.elem]
      [] v.addr = NoValue /\ x \in DOMAIN g.globals ->
            [g |-> g, addr |-> Global(x), elem |-> g.globals[x].ty]
      [] OTHER -> NoPlace(g)

\* The byte that idx.val counts from base.
Element(base, idx) ==
    LET at == Emit(idx, Gep(base, idx.val))
    IN  IF base = NoValue THEN NoPlace(idx)
        ELSE [g |-> at, addr |-> at.val, elem |-> "i8"]

Subscript(index, base) == Element(base.val, coerce(gen_node(index, base), "i64"))

\* A builder with the address and the type of what n denotes.
lvalue_of(n, g) ==
    CASE n.type = "IDENTIFIER" -> VariablePlace(n.name, lookup_var(g.scopes, n.name), g)
      [] n.type = "PARENTHESES" -> lvalue_of(n.inner, g)
      [] IsExpOf(n, "[]") -> Subscript(n.right.inner, gen_node(n.left, g))
      [] OTHER -> NoPlace(g)

\* A name that is no variable is that of a function.
gen_ident(x, g) == Give(Declared(g, x), FunctionValue(x))

\* Loads what n denotes, an identifier or a subscript, from its place ta.
Loaded(n, ta) ==
    CASE ta.addr # NoValue -> Emit(ta.g, Load(ta.addr, ta.elem))
      [] ta.addr = NoValue /\ n.type = "IDENTIFIER" -> gen_ident(n.name, ta.g)
      [] OTHER -> Give(ta.g, NoValue)
Rvalue(n, g) == Loaded(n, lvalue_of(n, g))

\* The old value is read, then the right operand r converted.
Compound(o, r, operand) == Emit(operand, Bin(o, r.val, operand.val))
Updated(o, right, read, t) == Compound(o, read, coerce(Give(read, right), t))

\* What an assignment stores; a compound one reads the variable, at ta, after
\* the right operand is generated.
NewValue(o, r, ta) ==
    CASE o = "=" -> coerce(r, ta.elem)
      [] o # "=" /\ r.val = NoValue -> Give(Emit(r, Load(ta.addr, ta.elem)), NoValue)
      [] OTHER -> Updated(BaseOp[o], r.val, Emit(r, Load(ta.addr, ta.elem)), ta.elem)

\* Where the left operand has no address, through its value.
Through(left, value) ==
    Give(IF NoValue \in {left.val, value} THEN left
         ELSE Put(left, Store(left.val, value)), value)

\* The address is taken before the right operand is generated.
AssignTo(n, ta, r) ==
    IF ta.addr = NoValue THEN Through(gen_node(n.left, r), r.val)
    ELSE Stored(ta.addr, NewValue(n.op, r, ta))
AssignAt(n, ta) == AssignTo(n, ta, gen_node(n.right, ta.g))
gen_assign(n, g) == AssignAt(n, lvalue_of(n.left, g))

\* The arguments vs, and those of n, commas flattened.
Collect(n, g, vs) ==
    IF IsExpOf(n, ",")
    THEN LET l == Collect(n.left, g, vs) IN Collect(n.right, l.g, l.vs)
    ELSE LET a == gen_node(n, g)
         IN  [g |-> a, vs |-> IF a.val = NoValue THEN vs ELSE Append(vs, a.val)]

\* Each argument with a parameter is converted to its type, in order.
Converted(g, vs, params) ==
    FoldLeftDomain(LAMBDA acc, k :
            LET c == IF k <= Len(params) THEN coerce(Give(acc.g, vs[k]), params[k])
                     ELSE Give(acc.g, vs[k])
            IN  [g |-> c, vs |-> Append(acc.vs, c.val)],
        [g |-> g, vs |-> <<>>], vs)

CallWith(f, type, ready) == Emit(ready.g, CallOf(f, ready.vs, type))
CallKnown(f, g, vs) ==
    CallWith(f, g.functions[f].ret, Converted(g, vs, g.functions[f].params))

CalledName(n) == IF n.type = "IDENTIFIER" THEN n.name ELSE "__indirect"
CalledOn(f, args) == CallKnown(f, Declared(args.g, f), args.vs)
ArgumentsIn(n, g) ==
    IF n.type \in {"BLANK", "NULL"} THEN [g |-> g, vs |-> <<>>] ELSE Collect(n, g, <<>>)

gen_call(n, g) ==
    CalledOn(CalledName(n.left),
             ArgumentsIn(IF n.right.type = "PARENTHESES" THEN n.right.inner ELSE n.right, g))

\* Mutant: the phi names the blocks the operands began in, not those they
\* ended in.
JoinWhereBegan(b, t, f, g) ==
    Emit(g, Phi(<<<<t.val, b + 1>>, <<f.val, b + 2>>>>, t.val.ty))

\* The phi of the values tv and fv, in the blocks t and f ended in.
PhiOf(tv, t, fv, f) == Emit(fv, Phi(<<<<tv, t>>, <<fv.val, f>>>>, tv.ty))
PhiOfConverted(tv, t, f) ==
    PhiOf(tv.val, t.cur, coerce(Give(tv, f.val), "i32"), f.cur)

\* The end of a conditional whose branches were generated to t and f; operands
\* of two types are converted here, after the branches joined.
Join(b, t, f, g) ==
    CASE NoValue \in {t.val, f.val} -> Give(g, NoValue)
      [] NoValue \notin {t.val, f.val} /\ t.val.ty = f.val.ty ->
            PhiOf(t.val, t.cur, Give(g, f.val), f.cur)
      [] OTHER -> PhiOfConverted(coerce(Give(g, t.val), "i32"), t, f)

\* New blocks, after the b there are: true, false, end.
OtherBranch(b, t, f) == Join(b, t, f, MoveTo(Put(f, Br(b + 3)), b + 3))

\* Mutant: the first operand's block is left without its branch to the end.
OneBranchOpen(n, b, t) == OtherBranch(b, t, gen_node(n.no, MoveTo(t, b + 2)))

OneBranch(n, b, t) ==
    OtherBranch(b, t, gen_node(n.no, MoveTo(Put(t, Br(b + 3)), b + 2)))
Branches(n, b, c) ==
    OneBranch(n, b, gen_node(n.yes,
        MoveTo(Put(NewBlocks(c, 3), CondBr(c.val, b + 1, b + 2)), b + 1)))
BranchesOn(n, c) == Branches(n, Len(c.block), c)

gen_ternary(n, g) == BranchesOn(n.right, to_bool(gen_node(n.left, g)))

\* && and || of the values l and r, both generated; new blocks: right, end.
AsInt(g) == Emit(g, Convert("zext", g.val, "i32"))
LogicalEnd(o, b, left, right) ==
    AsInt(Emit(MoveTo(Put(right, Br(b + 2)), b + 2),
               Phi(<<<<Const(Truth(o = "||"), "i1"), left>>,
                     <<right.val, right.cur>>>>, "i1")))
LogicalOn(o, r, left, b, test) ==
    LogicalEnd(o, b, left, to_bool(Give(MoveTo(Put(NewBlocks(test, 2),
        IF o = "&&" THEN CondBr(test.val, b + 1, b + 2)
        ELSE CondBr(test.val, b + 2, b + 1)), b + 1), r)))
Logical(o, l, r, g) == LogicalOn(o, r, g.cur, Len(g.block), to_bool(Give(g, l)))

\* An integer narrower than the other one, of type t, is extended to it.
Widened(v, t, g) ==
    IF IsIntegerType(v.ty) /\ IsIntegerType(t) /\ Bits[v.ty] < Bits[t]
    THEN coerce(Give(g, v), t) ELSE Give(g, v)

Operate(o, l, g) ==
    IF o \in BinOps THEN Emit(g, Bin(o, l, g.val)) ELSE AsInt(Emit(g, ICmp(o, l, g.val)))
Binary3(o, l, r, g) == Operate(o, g.val, Widened(r, l.ty, g))
Binary2(o, l, r, g) == Binary3(o, l, r, Widened(l, r.ty, g))

OnBoth(o, l, r) ==
    CASE l.val = NoValue -> r
      [] l.val # NoValue /\ r.val = NoValue -> Give(r, l.val)
      [] OTHER -> IF o \in {"&&", "||"} THEN Logical(o, l.val, r.val, r)
                  ELSE Binary2(o, l.val, r.val, r)

\* Both operands are generated before anything looks at the operator.
RightOperand(n, l) == OnBoth(n.op, l, gen_node(n.right, l))
GenOperands(n, g) == RightOperand(n, gen_node(n.left, g))

gen_binary(n, g) ==
    CASE n.op \in AssignOps -> gen_assign(n, g)
      [] n.op = "()" -> gen_call(n, g)
      [] n.op = "?" -> gen_ternary(n, g)
      [] n.op = "," -> gen_node(n.right, gen_node(n.left, g))
      [] n.op \in {".", "->"} -> Give(g, NoValue)
      [] n.op = "[]" -> Rvalue(n, g)
      [] OTHER -> GenOperands(n, g)

gen_number(n, g) == Give(g, Const(n.num, IF n.long THEN "i64" ELSE "i32"))

gen_node(n, g) ==
    CASE n.type = "NUMBER" -> gen_number(n, g)
      [] n.type = "IDENTIFIER" -> Rvalue(n, g)
      [] n.type = "EXPRESSION" -> gen_binary(n, g)
      [] n.type = "PARENTHESES" -> gen_node(n.inner, g)
      [] n.type = "CAST" -> coerce(gen_node(n.operand, g), dtype_to_llvm[n.dtype])
      [] n.type \in {"BLANK", "NULL", "TENARY"} -> Give(g, NoValue)

\* A constant initialiser is a number, perhaps in parentheses; anything else,
\* and any for a pointer, gives zero.
RECURSIVE global_init(_, _)
global_init(val, t) ==
    CASE val.type = "NUMBER" /\ t # "ptr" -> Wrap(val.num, t)
      [] val.type = "PARENTHESES" -> global_init(val.inner, t)
      [] OTHER -> 0
=============================================================================
