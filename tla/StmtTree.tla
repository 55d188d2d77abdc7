------------------------------ MODULE StmtTree ------------------------------
(***************************************************************************)
(* Statement and top-level nodes, as the make_*_node factories of          *)
(* src/cpp/node.cpp build them: what the statement parser hands to the     *)
(* code generator.  A member that is a BODY node is here the sequence of   *)
(* its statements; a missing member is Nil.                                *)
(***************************************************************************)
EXTENDS ExprNode

Break == [type |-> "BREAK"]
Continue == [type |-> "CONTINUE"]
Return(e) == [type |-> "RETURN", exp |-> e]
Label(l) == [type |-> "LABEL", name |-> l]
Goto(l) == [type |-> "GOTO", name |-> l]
Body(ss) == [type |-> "BODY", statements |-> ss]
\* next is the statement after else: none, another IF, or an ELSE.
If(c, ss, next) == [type |-> "IF", cond |-> c, body |-> ss, next |-> next]
Else(ss) == [type |-> "ELSE", body |-> ss]
While(c, ss) == [type |-> "WHILE", cond |-> c, body |-> ss]
DoWhile(ss, c) == [type |-> "DO_WHILE", cond |-> c, body |-> ss]
For(init, c, loop, ss) ==
    [type |-> "FOR", init |-> init, cond |-> c, loop |-> loop, body |-> ss]
\* cases is the case list of the parser, which no later pass reads.
SwitchWith(e, ss, cases) == [type |-> "SWITCH", exp |-> e, body |-> ss, cases |-> cases]
Switch(e, ss) == SwitchWith(e, ss, <<>>)
Case(e) == [type |-> "CASE", exp |-> e]
Default == [type |-> "DEFAULT"]
Variable(t, x, val) == [type |-> "VARIABLE", dtype |-> t, name |-> x, val |-> val]
VariableList(vs) == [type |-> "VARIABLE_LIST", list |-> vs]
\* args are VARIABLE nodes; body is a BODY node, Nil for a prototype.
Function(t, f, args, body) ==
    [type |-> "FUNCTION", rtype |-> t, name |-> f, args |-> args, body |-> body]

IsExpression(s) == s.type \in {"NUMBER", "IDENTIFIER", "EXPRESSION", "PARENTHESES",
                               "CAST"}
=============================================================================
