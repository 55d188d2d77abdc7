------------------------------ MODULE ExprTree ------------------------------
(***************************************************************************)
(* The nodes of the expression parser, what it asks of them, and the       *)
(* precedence table of src/cpp/expressionable.cpp.                         *)
(***************************************************************************)
EXTENDS ExprNode

Host == [type |-> "FUNCTION"]                  \* what the stack held before
Leaf(t) == [type |-> "LEAF", tok |-> t]        \* number, identifier or string
Cast(e) == [type |-> "CAST", operand |-> e]

\* The result of a step in which an assert of the parser fails.
AssertFailed == [type |-> "ASSERT"]

\* Mutant: node_is_expressionable forgets the leaves.
IsExpressionableNoLeaf(n) == n.type \in {"EXPRESSION", "PARENTHESES"}

IsExpressionable(n) == n.type \in {"EXPRESSION", "PARENTHESES", "LEAF"}
IsValueType(n) == n.type \in {"EXPRESSION", "PARENTHESES", "LEAF", "TENARY"}
IsArrayNode(n) == IsExpOf(n, "[]")
IsNodeAssignment(n) == IsExp(n) /\ n.op \in {"=", "+=", "-=", "/=", "*="}

-----------------------------------------------------------------------------
(***************************************************************************)
(* Precedence                                                              *)
(***************************************************************************)

op_precedence == <<
    {"++", "--", "()", "[]", "(", "[", ".", "->"},
    {"*", "/", "%"},
    {"+", "-"},
    {"<<", ">>"},
    {"<", "<=", ">", ">="},
    {"==", "!="},
    {"&"},
    {"^"},
    {"|"},
    {"&&"},
    {"||"},
    {"?", ":"},
    {"=", "+=", "-=", "*=", "/=", "%=", "<<=", ">>=", "&=", "^=", "|="},
    {","} >>

\* The groups whose associtivity is ASSOCIATIVITY_RIGHT_TO_LEFT.
RightToLeft == {12, 13}

OpPrecedenceIndex(o) ==
    IF \E i \in DOMAIN op_precedence : o \in op_precedence[i]
    THEN CHOOSE i \in DOMAIN op_precedence : o \in op_precedence[i]
    ELSE 0

\* Mutant: `<` for `<=`, operators of one group are not shifted.
LeftHasPriorityStrict(l, r) ==
    /\ l # r
    /\ OpPrecedenceIndex(l) \notin RightToLeft
    /\ OpPrecedenceIndex(l) < OpPrecedenceIndex(r)

LeftHasPriority(l, r) ==
    /\ l # r
    /\ OpPrecedenceIndex(l) \notin RightToLeft
    /\ OpPrecedenceIndex(l) <= OpPrecedenceIndex(r)
=============================================================================
