---------------------------- MODULE ExprReorder -----------------------------
(***************************************************************************)
(* The tree reordering of src/cpp/parser_operators.cpp, which repairs the  *)
(* purely right-recursive trees parse_exp_normal builds, and what the      *)
(* properties compare its trees with.                                      *)
(*                                                                         *)
(* The C++ code rewrites nodes in place; no node has two parents, so trees *)
(* as values lose nothing.                                                 *)
(***************************************************************************)
EXTENDS ExprTree

\* node->exp.left of a node of any type: the members of struct node's union
\* overlay each other, and a leaf's are zero.
LeftField(n) == CASE IsExp(n) -> n.left
                  [] n.type \in {"PARENTHESES", "BRACKET"} -> n.inner
                  [] OTHER -> Nil

\* Mutant: the right node keeps its left operand instead of its right one.
MoveKeepsLeft(n) ==
    IF LeftField(n.right) = Nil THEN AssertFailed
    ELSE LET completed == Exp(n.left, n.op, LeftField(n.right))
         IN  IF IsExp(n.right) THEN Exp(completed, n.right.op, n.right.left)
             ELSE Exp(completed, "", Nil)

\* move_right_left_to_left: (l o (rl p rr)) becomes ((l o rl) p rr), whatever
\* the type of the right node; make_exp_node asserts that rl is there.
MoveRightLeftToLeft(n) ==
    IF LeftField(n.right) = Nil THEN AssertFailed
    ELSE LET completed == Exp(n.left, n.op, LeftField(n.right))
         IN  IF IsExp(n.right) THEN Exp(completed, n.right.op, n.right.right)
             ELSE Exp(completed, "", Nil)

RECURSIVE Reorder(_)

\* shift_children_left, then the reordering of both new children.
ShiftChildrenLeft(n) ==
    LET l == Reorder(Exp(n.left, n.op, n.right.left))
        r == Reorder(n.right.right)
    IN  IF AssertFailed \in {l, r} THEN AssertFailed ELSE Exp(l, n.right.op, r)

\* Mutant: a call on the left is moved whatever is on the right.
NeedsMoveAnyCall(n) == \/ IsArrayNode(n.left)
                       \/ IsNodeAssignment(n.right)
                       \/ IsExpOf(n.left, "()")

NeedsMove(n) == \/ IsArrayNode(n.left)
                \/ IsNodeAssignment(n.right)
                \/ IsExpOf(n.left, "()") /\ IsExpOf(n.right, ",")

\* reorder_expression.
Reorder(n) ==
    IF ~IsExp(n) \/ ~(IsExp(n.left) \/ IsExp(n.right)) THEN n
    ELSE LET shifted == IF /\ ~IsExp(n.left)
                           /\ IsExp(n.right)
                           /\ LeftHasPriority(n.op, n.right.op)
                        THEN ShiftChildrenLeft(n) ELSE n
         IN  IF shifted # AssertFailed /\ NeedsMove(shifted)
             THEN MoveRightLeftToLeft(shifted) ELSE shifted

-----------------------------------------------------------------------------
(***************************************************************************)
(* Reference definitions the properties compare with                       *)
(***************************************************************************)

\* The tokens a tree stands for, in source order.
RECURSIVE Yield(_)
Yield(n) ==
    CASE n.type = "LEAF" -> <<n.tok>>
      [] n.type = "PARENTHESES" -> <<"(">> \o Yield(n.inner) \o <<")">>
      [] n.type = "BRACKET" -> <<"[">> \o Yield(n.inner) \o <<"]">>
      [] n.type = "TENARY" -> Yield(n.yes) \o <<":">> \o Yield(n.no)
      [] n.type = "CAST" -> <<"(", "int", ")">> \o Yield(n.operand)
      [] n.type = "EXPRESSION" ->
            Yield(n.left) \o (IF n.op \in {"()", "[]", ""} THEN <<>> ELSE <<n.op>>)
                          \o Yield(n.right)
      [] OTHER -> <<>>

\* Nesting depth of the position i of s: brackets opened before it and not
\* closed.  A ternary's "?" and ":" nest what is between them.
Depth(s, i) ==
    LET opened == {j \in 1 .. i - 1 : s[j] \in {"(", "[", "?"}}
        closed == {j \in 1 .. i : s[j] \in {")", "]", ":"}}
    IN  Cardinality(opened) - Cardinality(closed)

Binary == (UNION {op_precedence[i] : i \in 2 .. 14}) \ {":"}

\* The operator positions of s outside every bracket and every "? :".
TopOperators(s) == {i \in 2 .. Len(s) - 1 : s[i] \in Binary /\ Depth(s, i) = 0}

\* The ":" that belongs to the "?" at position q.
Colon(s, q) == CHOOSE c \in q + 1 .. Len(s) :
                    /\ s[c] = ":" /\ Depth(s, c) = Depth(s, q)
                    /\ \A d \in q + 1 .. c - 1 :
                          ~(s[d] = ":" /\ Depth(s, d) = Depth(s, q))

(***************************************************************************)
(* The tree of s by the table alone: split at an operator of the lowest    *)
(* priority, the last one if its group associates left to right and the    *)
(* first one if it associates right to left.                               *)
(***************************************************************************)
RECURSIVE Grouping(_)
Grouping(s) ==
    LET ops == TopOperators(s)
        lowest == {i \in ops : \A j \in ops :
                      OpPrecedenceIndex(s[j]) <= OpPrecedenceIndex(s[i])}
        rtl == \E i \in lowest : OpPrecedenceIndex(s[i]) \in RightToLeft
        at == CHOOSE i \in lowest : \A j \in lowest : IF rtl THEN i <= j ELSE j <= i
        Part(i, j) == Grouping(SubSeq(s, i, j))
        n == Len(s)
        open == CHOOSE i \in 1 .. n :
                    s[i] \in {"(", "["} /\ Depth(s, i) = 0
                    /\ \A j \in i + 1 .. n - 1 : Depth(s, j) > 0
    IN  CASE s = <<>> -> Blank
          [] ops # {} /\ s[at] = "?" ->
                Exp(Part(1, at - 1), "?",
                    Ternary(Part(at + 1, Colon(s, at) - 1), Part(Colon(s, at) + 1, n)))
          [] ops # {} /\ s[at] # "?" -> Exp(Part(1, at - 1), s[at], Part(at + 1, n))
          [] ops = {} /\ n = 1 -> Leaf(s[1])
          [] ops = {} /\ n > 1 /\ s[n] = ")" ->
                IF open = 1 THEN Parens(Part(2, n - 1))
                ELSE Exp(Part(1, open - 1), "()", Parens(Part(open + 1, n - 1)))
          [] ops = {} /\ n > 1 /\ s[n] = "]" ->
                Exp(Part(1, open - 1), "[]", Bracket(Part(open + 1, n - 1)))
=============================================================================
