------------------------------ MODULE ExprNode ------------------------------
(***************************************************************************)
(* Expression nodes as the make_*_node factories of src/cpp/node.cpp build *)
(* them: what the parser and the code generator share.                     *)
(***************************************************************************)
EXTENDS Integers, Sequences, FiniteSets

\* A vector, whatever it holds.
IsSequence(s) == Len(s) \in Nat /\ s = [i \in 1 .. Len(s) |-> s[i]]

Nil == [type |-> "NULL"]
Blank == [type |-> "BLANK"]                    \* m_blank_node
Exp(l, o, r) == [type |-> "EXPRESSION", left |-> l, op |-> o, right |-> r]
Parens(e) == [type |-> "PARENTHESES", inner |-> e]
Bracket(e) == [type |-> "BRACKET", inner |-> e]
Ternary(t, f) == [type |-> "TENARY", yes |-> t, no |-> f]

IsExp(n) == n.type = "EXPRESSION"
IsExpOf(n, o) == IsExp(n) /\ n.op = o
=============================================================================
