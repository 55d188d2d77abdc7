----------------------------- MODULE ExprParser -----------------------------
(***************************************************************************)
(* The expression parser of src/cpp/parser_expr.cpp: mutually recursive    *)
(* C++ methods that read the token vector through its cursor and leave     *)
(* their results on a global node stack.  One step is one token consumed,  *)
(* or one return of a method to its caller; `frames` is the C++ call       *)
(* stack, each frame with the local nodes the method still holds.          *)
(*                                                                         *)
(* The parse starts, as parse_statement, parse_return and the conditions   *)
(* do, in parse_expressionable_root; StmtParser puts the methods that call *)
(* it below.  History flags are left out: nothing in this file branches on *)
(* them.  A keyword is met here only after "(", as the type of a cast.     *)
(***************************************************************************)
EXTENDS ExprTree, SequencesExt

CONSTANTS Inputs,   \* the token sequences to parse, each ending in ";"
          Stacks,   \* what the node stack may hold when the parse starts
          ReorderExpression(_)  \* reorder_expression: a node, or AssertFailed

\* Both are vectors.
ASSUME InputsAssumption == \A s \in Inputs \cup Stacks : IsSequence(s)

VARIABLES toks,     \* token_vec
          pos,      \* its peek pointer, one-based
          nodes,    \* node_vector, the top last
          base,     \* length of nodes when the parse started
          frames,   \* pending calls, the running one last
          status    \* "running", "ok", "error" (compiler_error), "abort"
                    \* (assert) or "crash" (null dereference)

vars == <<toks, pos, nodes, base, frames, status>>
input == <<toks, base>>

DataTypes == {"int"}
Keywords == DataTypes \cup {"if", "else", "while", "do", "for", "switch", "case",
                           "default", "break", "continue", "return", "goto"}
Symbols == {")", "]", ":", ";", "{", "}"}
End == "end of the tokens"
Operators == ((UNION {op_precedence[i] : i \in DOMAIN op_precedence})
                  \ {":", "()", "[]"}) \cup {"!", "~"}
IsOperand(t) == t \notin Keywords \cup Symbols \cup Operators \cup {End}

Init == /\ toks \in Inputs
        /\ pos = 1
        /\ nodes \in Stacks
        /\ base = Len(nodes)
        /\ frames = <<[at |-> "ROOT"], [at |-> "LOOP"]>>
        /\ status = "running"

\* peek_token answers null past the last token.
At(i) == IF i \in DOMAIN toks THEN toks[i] ELSE End
Tok == At(pos)
Top == nodes[Len(nodes)]
Below(s) == SubSeq(s, 1, Len(s) - 1)
Frame == frames[Len(frames)]

Looping == status = "running" /\ Frame.at = "LOOP"
Returned(name) == status = "running" /\ Frame.at = name

\* A call of parse_expressionable under a method waiting for its result.
Call(frame) == frames' = Append(frames, frame) \o <<[at |-> "LOOP"]>>

Stop(how) == status' = how /\ UNCHANGED <<toks, pos, nodes, base, frames>>

\* node_pop on an empty stack fails the assertion of vector_back.
Popping == nodes # <<>>

-----------------------------------------------------------------------------
(***************************************************************************)
(* The loop of parse_expressionable                                        *)
(***************************************************************************)

\* parse_single_token_to_node, parse_identifier.
ParseSingleToken ==
    /\ Looping
    /\ IsOperand(Tok)
    /\ nodes' = Append(nodes, Leaf(Tok))
    /\ pos' = pos + 1
    /\ UNCHANGED <<input, frames, status>>

\* Any symbol ends the loop, and so does the end of the tokens.
LeaveLoop ==
    /\ Looping
    /\ Tok \in Symbols \cup {End}
    /\ frames' = Below(frames)
    /\ UNCHANGED <<input, pos, nodes, status>>

(***************************************************************************)
(* parse_exp_normal, up to the parse of the right operand.  With nothing   *)
(* on the stack node_peek_expressionable_or_null dereferences null; with   *)
(* something that is no operand there the method returns without consuming *)
(* the operator, and the loop meets it again.                              *)
(***************************************************************************)
ParseExpNormal ==
    /\ Looping
    /\ Tok \in Operators \ {"(", "[", "?", ","}
    /\ IF nodes = <<>> THEN Stop("crash")
       ELSE IF ~IsExpressionable(Top) THEN UNCHANGED vars
       ELSE /\ pos' = pos + 1
            /\ nodes' = Below(nodes)
            /\ Call([at |-> "NORMAL", left |-> Top, op |-> Tok])
            /\ UNCHANGED <<input, status>>

\* The right operand is whatever the stack holds now.
FinishExpNormal ==
    /\ Returned("NORMAL")
    /\ LET exp == ReorderExpression(Exp(Frame.left, Frame.op, Top))
       IN  IF ~Popping \/ exp = AssertFailed THEN Stop("abort")
           ELSE /\ nodes' = Append(Below(nodes), exp)
                /\ frames' = Below(frames)
                /\ UNCHANGED <<input, pos, status>>

-----------------------------------------------------------------------------
(***************************************************************************)
(* Parentheses: a call, a cast, or grouping                                *)
(***************************************************************************)

\* parse_additional_exp, in the frame of the parenthesised expression; it looks
\* at the next token whether there is one or not.
AdditionalExp(next, callers) ==
    /\ frames' = IF At(next) \in Operators
                 THEN Append(callers, [at |-> "LOOP"]) ELSE callers
    /\ status' = IF At(next) = End THEN "crash" ELSE status

WithCallee(left, parens) ==
    IF left = Nil THEN parens ELSE Exp(left, "()", parens)

\* A value on top of the stack is the callee, whoever left it there.
ParseParenthesized ==
    /\ Looping
    /\ Tok = "("
    /\ At(pos + 1) \notin Keywords \cup {End}
    /\ LET called == nodes # <<>> /\ IsValueType(Top)
           left == IF called THEN Top ELSE Nil
           rest == IF called THEN Below(nodes) ELSE nodes
       IN  IF At(pos + 1) = ")"
           THEN /\ pos' = pos + 2
                /\ nodes' = Append(rest, WithCallee(left, Parens(Blank)))
                /\ AdditionalExp(pos + 2, frames)
           ELSE /\ pos' = pos + 1
                /\ nodes' = rest
                /\ Call([at |-> "PAREN", left |-> left])
                /\ UNCHANGED status
    /\ UNCHANGED input

\* The token after "(" is looked at whether there is one or not.
ParseParenthesisAtEnd ==
    /\ Looping
    /\ Tok = "(" /\ At(pos + 1) = End
    /\ Stop("crash")

\* Mutant: the closing parenthesis is taken if there is one.
FinishParenthesizedAnyway ==
    /\ Returned("PAREN")
    /\ IF ~Popping THEN Stop("abort")
       ELSE LET next == IF Tok = ")" THEN pos + 1 ELSE pos
            IN  /\ pos' = next
                /\ nodes' = Append(Below(nodes), WithCallee(Frame.left, Parens(Top)))
                /\ AdditionalExp(next, Below(frames))
                /\ UNCHANGED input

FinishParenthesized ==
    /\ Returned("PAREN")
    /\ IF ~Popping THEN Stop("abort")
       ELSE IF Tok # ")" THEN Stop("error")
       ELSE /\ pos' = pos + 1
            /\ nodes' = Append(Below(nodes), WithCallee(Frame.left, Parens(Top)))
            /\ AdditionalExp(pos + 1, Below(frames))
            /\ UNCHANGED input

\* parse_datatype is abstracted to the one keyword.
ParseCast ==
    /\ Looping
    /\ Tok = "("
    /\ At(pos + 1) \in Keywords
    /\ IF At(pos + 1) \notin DataTypes \/ At(pos + 2) # ")" THEN Stop("error")
       ELSE /\ pos' = pos + 3
            /\ Call([at |-> "CAST"])
            /\ UNCHANGED <<input, nodes, status>>

FinishCast ==
    /\ Returned("CAST")
    /\ IF ~Popping THEN Stop("abort")
       ELSE /\ nodes' = Append(Below(nodes), Cast(Top))
            /\ frames' = Below(frames)
            /\ UNCHANGED <<input, pos, status>>

-----------------------------------------------------------------------------
(***************************************************************************)
(* Subscripts, commas and the conditional operator                         *)
(***************************************************************************)

\* Any node on top of the stack is taken for the array.
ParseArrayAccess ==
    /\ Looping
    /\ Tok = "["
    /\ pos' = pos + 1
    /\ nodes' = IF nodes = <<>> THEN nodes ELSE Below(nodes)
    /\ Call([at |-> "BRACKET", left |-> IF nodes = <<>> THEN Nil ELSE Top])
    /\ UNCHANGED <<input, status>>

FinishArrayAccess ==
    /\ Returned("BRACKET")
    /\ IF ~Popping THEN Stop("abort")
       ELSE IF Tok # "]" THEN Stop("error")
       ELSE /\ pos' = pos + 1
            /\ nodes' = Append(Below(nodes),
                               IF Frame.left = Nil THEN Bracket(Top)
                               ELSE Exp(Frame.left, "[]", Bracket(Top)))
            /\ frames' = Below(frames)
            /\ UNCHANGED <<input, status>>

ParseComma ==
    /\ Looping
    /\ Tok = ","
    /\ IF ~Popping THEN Stop("abort")
       ELSE /\ pos' = pos + 1
            /\ nodes' = Below(nodes)
            /\ Call([at |-> "COMMA", left |-> Top])
            /\ UNCHANGED <<input, status>>

\* Mutant: the right operand is peeked at, not popped.
FinishCommaPeeks ==
    /\ Returned("COMMA")
    /\ IF ~Popping THEN Stop("abort")
       ELSE /\ nodes' = Append(nodes, Exp(Frame.left, ",", Top))
            /\ frames' = Below(frames)
            /\ UNCHANGED <<input, pos, status>>

\* No reordering here.
FinishComma ==
    /\ Returned("COMMA")
    /\ IF ~Popping THEN Stop("abort")
       ELSE /\ nodes' = Append(Below(nodes), Exp(Frame.left, ",", Top))
            /\ frames' = Below(frames)
            /\ UNCHANGED <<input, pos, status>>

ParseTernary ==
    /\ Looping
    /\ Tok = "?"
    /\ IF ~Popping THEN Stop("abort")
       ELSE /\ pos' = pos + 1
            /\ nodes' = Below(nodes)
            /\ Call([at |-> "YES", cond |-> Top])
            /\ UNCHANGED <<input, status>>

FinishTernaryTrue ==
    /\ Returned("YES")
    /\ IF ~Popping THEN Stop("abort")
       ELSE IF Tok # ":" THEN Stop("error")
       ELSE /\ pos' = pos + 1
            /\ nodes' = Below(nodes)
            /\ frames' = Below(frames) \o
                         <<[at |-> "NO", cond |-> Frame.cond, yes |-> Top],
                           [at |-> "LOOP"]>>
            /\ UNCHANGED <<input, status>>

FinishTernaryFalse ==
    /\ Returned("NO")
    /\ IF ~Popping THEN Stop("abort")
       ELSE /\ nodes' = Append(Below(nodes),
                               Exp(Frame.cond, "?", Ternary(Frame.yes, Top)))
            /\ frames' = Below(frames)
            /\ UNCHANGED <<input, pos, status>>

\* parse_expressionable_root pops the result and pushes it back; the caller
\* then expects the ";".
Finish ==
    /\ Returned("ROOT")
    /\ Len(frames) = 1
    /\ Stop(IF ~Popping THEN "abort" ELSE IF Tok = ";" THEN "ok" ELSE "error")

Next == \/ ParseSingleToken
        \/ LeaveLoop
        \/ ParseExpNormal
        \/ FinishExpNormal
        \/ ParseParenthesized
        \/ ParseParenthesisAtEnd
        \/ FinishParenthesized
        \/ ParseCast
        \/ FinishCast
        \/ ParseArrayAccess
        \/ FinishArrayAccess
        \/ ParseComma
        \/ FinishComma
        \/ ParseTernary
        \/ FinishTernaryTrue
        \/ FinishTernaryFalse
        \/ Finish

Spec == Init /\ [][Next]_vars /\ WF_vars(Next)

-----------------------------------------------------------------------------
(***************************************************************************)
(* Properties                                                              *)
(***************************************************************************)

\* A well-formed expression never makes the parser reach below the stack it
\* was given: what the enclosing construct left there stays, and above it at
\* most one operand waits, every other one being held by a pending call.
StackDiscipline ==
    /\ Len(nodes) \in base .. base + 1
    /\ base = 1 => nodes[1] = Host

\* A well-formed expression is accepted.
Accepted == status \in {"running", "ok"}

\* Every parse ends: in a tree or with an error reported.
Terminates == <>(status # "running")
=============================================================================
