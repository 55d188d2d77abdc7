------------------------------ MODULE Builder -------------------------------
(***************************************************************************)
(* What statement and expression generation share: values, types and       *)
(* instructions of the IR, the llvm::IRBuilder both append to, and the     *)
(* truth and conversion helpers of src/cpp/codegen_core.cpp.               *)
(*                                                                         *)
(* A method that generates code takes a builder g and gives the builder    *)
(* after it, whose `val` is what the method returned, a value or null.     *)
(***************************************************************************)
EXTENDS StmtTree, SequencesExt

CONSTANTS Bits       \* the width of i1, i8, i16, i32, i64 and ptr, scaled down for TLC

-----------------------------------------------------------------------------
(* Nodes: leaves and casts with what the generator reads of them *)

Number(k) == [type |-> "NUMBER", num |-> k, long |-> FALSE]
LongNumber(k) == [type |-> "NUMBER", num |-> k, long |-> TRUE]   \* its suffix is L
Identifier(x) == [type |-> "IDENTIFIER", name |-> x]
CastTo(t, e) == [type |-> "CAST", dtype |-> t, operand |-> e]
Call(f, args) == Exp(Identifier(f), "()", Parens(args))

\* prim_llvm and dtype_to_llvm; a pointer of any depth is an opaque pointer.
dtype_to_llvm == [void |-> "void", char |-> "i8", short |-> "i16", int |-> "i32",
                  long |-> "i64", pointer |-> "ptr"]

IsIntegerType(t) == t \in {"i1", "i8", "i16", "i32", "i64"}

\* The representative of k in a signed type; i1 holds 0 and 1.
Wrap(k, t) ==
    LET m == 2 ^ Bits[t]
        r == k % m
    IN  IF t # "i1" /\ 2 * r >= m THEN r - m ELSE r

-----------------------------------------------------------------------------
(* Arithmetic *)

Magnitude(k) == IF k < 0 THEN -k ELSE k
\* Division in C and in LLVM's sdiv drops the fraction.
Quotient(a, b) ==
    LET q == Magnitude(a) \div Magnitude(b) IN IF (a < 0) = (b < 0) THEN q ELSE -q

\* A bitwise operator, from its table P on one bit, on more bits than any type
\* has, so that wrapping the result is exact.
Bit(k, i) == (k \div 2 ^ i) % 2
Bitwise2(P(_, _), a, b) ==
    MapThenSumSet(LAMBDA i : IF P(Bit(a, i) = 1, Bit(b, i) = 1) THEN 2 ^ i ELSE 0,
                  0 .. Bits.i64)

BinOps == {"+", "-", "*", "/", "%", "&", "|", "^", "<<", ">>"}
Comparisons == {"<", ">", "<=", ">=", "==", "!="}

Arith(o, a, b) ==
    CASE o = "+" -> a + b
      [] o = "-" -> a - b
      [] o = "*" -> a * b
      [] o = "/" -> Quotient(a, b)
      [] o = "%" -> a - b * Quotient(a, b)
      [] o = "&" -> Bitwise2(LAMBDA x, y : x /\ y, a, b)
      [] o = "|" -> Bitwise2(LAMBDA x, y : x \/ y, a, b)
      [] o = "^" -> Bitwise2(LAMBDA x, y : x # y, a, b)
      [] o = "<<" -> a * 2 ^ b
      [] o = ">>" -> a \div 2 ^ b

Truth(p) == IF p THEN 1 ELSE 0

Compare(o, a, b) ==
    Truth(CASE o = "<" -> a < b
            [] o = ">" -> a > b
            [] o = "<=" -> a <= b
            [] o = ">=" -> a >= b
            [] o = "==" -> a = b
            [] o = "!=" -> a # b)

BaseOp == ("+=" :> "+") @@ ("-=" :> "-") @@ ("*=" :> "*") @@ ("/=" :> "/")
          @@ ("%=" :> "%") @@ ("&=" :> "&") @@ ("|=" :> "|") @@ ("^=" :> "^")
          @@ ("<<=" :> "<<") @@ (">>=" :> ">>")
AssignOps == {"="} \cup DOMAIN BaseOp

-----------------------------------------------------------------------------
(* Values, addresses and instructions *)

NoValue == [kind |-> "null", ty |-> "none"]              \* nullptr
Const(k, t) == [kind |-> "const", num |-> Wrap(k, t), ty |-> t]
Reg(b, i, t) == [kind |-> "reg", at |-> <<b, i>>, ty |-> t]
Param(k, t) == [kind |-> "param", num |-> k, ty |-> t]
FunctionValue(f) == [kind |-> "function", name |-> f, ty |-> "ptr"]
Slot(k) == [kind |-> "slot", num |-> k, ty |-> "ptr"]    \* an alloca
Global(x) == [kind |-> "global", name |-> x, ty |-> "ptr"]

Load(a, t) == [op |-> "load", addr |-> a, ty |-> t]
Store(a, v) == [op |-> "store", addr |-> a, args |-> <<v>>, ty |-> "void"]
Bin(o, l, r) == [op |-> "bin", o |-> o, args |-> <<l, r>>, ty |-> l.ty]
ICmp(o, l, r) == [op |-> "icmp", o |-> o, args |-> <<l, r>>, ty |-> "i1"]
Convert(how, v, t) == [op |-> how, args |-> <<v>>, ty |-> t]
Gep(base, idx) == [op |-> "gep", args |-> <<base, idx>>, ty |-> "ptr"]
Phi(ins, t) == [op |-> "phi", in |-> ins, ty |-> t]
CallOf(f, vs, t) == [op |-> "call", f |-> f, args |-> vs, ty |-> t]
Br(b) == [op |-> "br", to |-> b]
CondBr(v, t, f) == [op |-> "condbr", args |-> <<v>>, yes |-> t, no |-> f]

Pure == {"bin", "icmp", "sext", "zext", "trunc"}

\* What a pure instruction computes from the numbers ks.
Result(i, ks) ==
    Wrap(CASE i.op = "bin" -> Arith(i.o, ks[1], ks[2])
           [] i.op = "icmp" -> Compare(i.o, ks[1], ks[2])
           [] OTHER -> ks[1], i.ty)

-----------------------------------------------------------------------------
(* The builder *)

\* Append an instruction without a result.
Put(g, i) == [g EXCEPT !.block[g.cur] = Append(@, i)]

\* Append one and return it; IRBuilder folds pure ones on constants.
Emit(g, i) ==
    IF i.op \in Pure /\ \A k \in DOMAIN i.args : i.args[k].kind = "const"
    THEN [g EXCEPT !.val =
            Const(Result(i, [k \in DOMAIN i.args |-> i.args[k].num]), i.ty)]
    ELSE [Put(g, i) EXCEPT !.val = Reg(g.cur, Len(g.block[g.cur]) + 1, i.ty)]

Give(g, v) == [g EXCEPT !.val = v]
MoveTo(g, b) == [g EXCEPT !.cur = b]
NewBlocks(g, n) == [g EXCEPT !.block = @ \o [i \in 1 .. n |-> <<>>]]

to_bool(g) ==
    CASE g.val.ty = "i1" -> g
      [] g.val.ty # "i1" /\ (IsIntegerType(g.val.ty) \/ g.val.ty = "ptr") ->
            Emit(g, ICmp("!=", g.val, Const(0, g.val.ty)))
      [] OTHER -> Give(g, Const(0, "i1"))

\* The instruction that converts a value of type s to type t, if there is one.
Conversion(s, t) ==
    CASE s = t -> "none"
      [] s # t /\ IsIntegerType(s) /\ IsIntegerType(t) ->
            IF Bits[s] < Bits[t] THEN "sext" ELSE "trunc"
      [] IsIntegerType(s) /\ t = "ptr" -> "inttoptr"
      [] s = "ptr" /\ IsIntegerType(t) -> "ptrtoint"
      [] OTHER -> "none"

coerce(g, t) ==
    IF g.val = NoValue \/ Conversion(g.val.ty, t) = "none" THEN g
    ELSE Emit(g, Convert(Conversion(g.val.ty, t), g.val, t))

Stored(addr, g) == IF g.val = NoValue THEN g ELSE Put(g, Store(addr, g.val))
=============================================================================
