----------------------------- MODULE StmtParser -----------------------------
(***************************************************************************)
(* The rest of the recursive descent, on top of ExprParser: bodies         *)
(* (src/cpp/parser_body.cpp), statements and the top-level dispatch        *)
(* (src/cpp/parser_stmt.cpp), declarations of variables and functions      *)
(* (src/cpp/parser_decl.cpp) and Parser::run (src/cpp/parser_core.cpp).    *)
(*                                                                         *)
(* All of them share the node stack and the token cursor with the          *)
(* expression parser, and so its variables; a frame here is named for what *)
(* its method waits for.  A method that waits for parse_expressionable_root*)
(* or parse_body finds a node on the stack (ResultFound), the one that     *)
(* waits for parse_statement perhaps not.                                  *)
(*                                                                         *)
(* Scopes, sizes, offsets, structs and arrays are those of Declarations;   *)
(* pointers, default values of parameters, "..." and a function inside     *)
(* another are left out.                                                   *)
(***************************************************************************)
EXTENDS ExprParser, StmtTree

CONSTANTS Texts,    \* the token sequences of whole files
          Numbers   \* the operands that are numbers

\* A text is a vector of tokens.
ASSUME TextsAssumption == \A s \in Texts : IsSequence(s)

VARIABLES tree,     \* node_tree_vec: each node, and how high the node stack was
          switch    \* m_switch_cases_ptr: the frame whose list it points to, or 0

parserVars == <<vars, tree, switch>>

\* A whole file, or, as in ExprParser, an expression alone.
ParserInit ==
    /\ tree = <<>> /\ switch = 0
    /\ \/ Init
       \/ /\ toks \in Texts
          /\ pos = 1 /\ nodes = <<>> /\ base = 0
          /\ frames = <<[at |-> "RUN"]>>
          /\ status = "running"

IsIdentifier(t) == IsOperand(t) /\ t \notin Numbers

-----------------------------------------------------------------------------
(***************************************************************************)
(* Calls and returns                                                       *)
(***************************************************************************)

\* The running method goes on at token p with the frames fs.
Go(p, fs) == pos' = p /\ frames' = fs /\ UNCHANGED status
Halt(how) == status' = how /\ UNCHANGED <<pos, frames>>

\* The method returns, leaving ns on the node stack.
Leave(p, ns) == Go(p, Below(frames)) /\ nodes' = ns
Replaced(node) == Append(Below(nodes), node)

Root == <<[at |-> "ROOT"], [at |-> "LOOP"]>>

\* parse_statement, called at token p by the last of callers.
EnterStatement(p, callers) ==
    IF At(p) = End THEN Halt("crash")
    ELSE Go(p, callers \o IF At(p) \in Keywords THEN <<[at |-> "KEYWORD"]>>
                          ELSE <<[at |-> "STATEMENT"]>> \o Root)

\* parse_body: with braces, or parse_body_single_statement.
EnterBody(p, callers) ==
    IF At(p) = "{" THEN Go(p + 1, Append(callers, [at |-> "BODY", statements |-> <<>>]))
    ELSE EnterStatement(p, Append(callers, [at |-> "SINGLE"]))

\* parse_expressionable_root pops its result and pushes it back, whatever it is;
\* node_pop takes the last node of the tree off the tree, too.
ReturnRoot ==
    /\ Returned("ROOT")
    /\ Len(frames) > 1
    /\ IF ~Popping THEN Halt("abort") ELSE Go(pos, Below(frames))
    /\ tree' = IF tree # <<>> /\ Last(tree).height = Len(nodes) THEN Front(tree) ELSE tree
    /\ UNCHANGED <<nodes, switch>>

\* The tree once the stack is ns: node_pop keeps the two in step.
Mirrored(ns) ==
    IF tree = <<>> THEN tree
    ELSE LET h == Last(tree).height
         IN  IF Len(ns) < h \/ ns[h] # nodes[h] THEN Front(tree) ELSE tree

-----------------------------------------------------------------------------
(***************************************************************************)
(* Statements and bodies                                                   *)
(***************************************************************************)

\* parse_label, at the ":" behind what it takes for the name.
ParseLabel(callers) ==
    IF nodes = <<>> THEN Halt("abort") /\ UNCHANGED nodes
    ELSE IF Top.type # "LEAF" \/ ~IsIdentifier(Top.tok) THEN Halt("error") /\ UNCHANGED nodes
    ELSE Go(pos + 1, callers) /\ nodes' = Replaced(Label(Top.tok))

\* parse_symbol_token
ParseSymbolToken(callers) ==
    CASE Tok = "{" -> EnterBody(pos, callers) /\ UNCHANGED nodes
      [] Tok = ":" -> ParseLabel(callers)
      [] OTHER -> Halt("error") /\ UNCHANGED nodes

\* parse_statement, after the expression: a nested block has none, and what
\* parse_expressionable_root answered stays where it was.
EndStatement ==
    /\ Returned("STATEMENT")
    /\ IF Tok \in Symbols \ {";"} THEN ParseSymbolToken(Below(frames))
       ELSE IF Tok = ";" THEN Leave(pos + 1, nodes)
       ELSE Halt(IF Tok = End THEN "crash" ELSE "error") /\ UNCHANGED nodes

\* parse_body_multiple_statements
NextStatement ==
    /\ Returned("BODY")
    /\ Tok # "}"
    /\ EnterStatement(pos, Append(Below(frames), [Frame EXCEPT !.at = "ITEM"]))
    /\ UNCHANGED nodes

AddStatement ==
    /\ Returned("ITEM")
    /\ IF ~Popping THEN Halt("abort") /\ UNCHANGED nodes
       ELSE /\ Go(pos, Append(Below(frames),
                              [at |-> "BODY", statements |-> Append(Frame.statements, Top)]))
            /\ nodes' = Below(nodes)

EndBody ==
    /\ Returned("BODY")
    /\ Tok = "}"
    /\ Leave(pos + 1, Append(nodes, Body(Frame.statements)))

\* Mutant: the statement is not popped.
EndSingleStatementPeeks ==
    /\ Returned("SINGLE")
    /\ IF ~Popping THEN Halt("abort") /\ UNCHANGED nodes
       ELSE Leave(pos, Append(nodes, Body(<<Top>>)))

EndSingleStatement ==
    /\ Returned("SINGLE")
    /\ IF ~Popping THEN Halt("abort") /\ UNCHANGED nodes
       ELSE Leave(pos, Replaced(Body(<<Top>>)))

-----------------------------------------------------------------------------
(***************************************************************************)
(* Keywords: parse_keyword and the method it dispatches to                 *)
(***************************************************************************)

AtKeyword(name) == Returned("KEYWORD") /\ Tok = name

\* break, continue and default: the keyword, a symbol, and the node.
Simple(name, symbol, node) ==
    /\ AtKeyword(name)
    /\ IF At(pos + 1) = symbol THEN Leave(pos + 2, Append(nodes, node))
       ELSE Halt("error") /\ UNCHANGED nodes

ParseBreak == Simple("break", ";", Break)
ParseContinue == Simple("continue", ";", Continue)
ParseDefault == Simple("default", ":", Default)

\* parse_keyword finds no method for it.
ParseUnknown == AtKeyword("else") /\ Halt("error") /\ UNCHANGED nodes

ParseGoto ==
    /\ AtKeyword("goto")
    /\ CASE At(pos + 1) = End -> Halt("crash") /\ UNCHANGED nodes
         [] At(pos + 1) # End /\ ~IsIdentifier(At(pos + 1)) -> Halt("abort") /\ UNCHANGED nodes
         [] IsIdentifier(At(pos + 1)) ->
                IF At(pos + 2) = ";" THEN Leave(pos + 3, Append(nodes, Goto(At(pos + 1))))
                ELSE Halt("error") /\ UNCHANGED nodes

\* The frame of a keyword whose method goes on with an expression at token p.
Await(p, frame) == Go(p, Append(Below(frames), frame) \o Root)

ParseReturn ==
    /\ AtKeyword("return")
    /\ IF At(pos + 1) = ";" THEN Leave(pos + 2, Append(nodes, Return(Nil)))
       ELSE Await(pos + 1, [at |-> "RETURN"]) /\ UNCHANGED nodes

EndReturn ==
    /\ Returned("RETURN")
    /\ IF Tok = ";" THEN Leave(pos + 1, Replaced(Return(Top)))
       ELSE Halt("error") /\ UNCHANGED nodes

\* if, while and switch: the keyword, "(" and the condition.
Condition(frame) ==
    IF At(pos + 1) = "(" THEN Await(pos + 2, frame) ELSE Halt("error")

\* The ")" behind the condition, and the body.
EndCondition(name, frame) ==
    /\ Returned(name)
    /\ IF Tok # ")" THEN Halt("error") /\ UNCHANGED nodes
       ELSE EnterBody(pos + 1, Append(Below(frames), frame)) /\ nodes' = Below(nodes)

ParseIf == AtKeyword("if") /\ Condition([at |-> "IF"]) /\ UNCHANGED nodes
EndIfCondition == EndCondition("IF", [at |-> "THEN", cond |-> Top])

\* Mutant: the else is left for whoever comes next.
EndThenWithoutElse ==
    /\ Returned("THEN")
    /\ LET node == [cond |-> Frame.cond, body |-> Top.statements]
       IN  IF Tok # "else"
           THEN Leave(pos, Replaced(If(node.cond, node.body, Nil)))
           ELSE /\ EnterBody(pos + 1, Append(Below(frames), [at |-> "ELSE", if |-> node]))
                /\ nodes' = Below(nodes)

\* parse_else_or_else_if: parse_if_stmt is called for "else if", parse_body for
\* any other "else".
EndThen ==
    /\ Returned("THEN")
    /\ LET node == [cond |-> Frame.cond, body |-> Top.statements]
           Waiting(name) == Append(Below(frames), [at |-> name, if |-> node])
       IN  IF Tok # "else"
           THEN Leave(pos, Replaced(If(node.cond, node.body, Nil)))
           ELSE /\ IF At(pos + 1) = "if"
                   THEN Go(pos + 1, Append(Waiting("ELSE_IF"), [at |-> "KEYWORD"]))
                   ELSE EnterBody(pos + 1, Waiting("ELSE"))
                /\ nodes' = Below(nodes)

WithElse(next) == Replaced(If(Frame.if.cond, Frame.if.body, next))
EndElseIf == Returned("ELSE_IF") /\ Leave(pos, WithElse(Top))
EndElse == Returned("ELSE") /\ Leave(pos, WithElse(Else(Top.statements)))

ParseWhile == AtKeyword("while") /\ Condition([at |-> "WHILE"]) /\ UNCHANGED nodes
EndWhileCondition == EndCondition("WHILE", [at |-> "WHILE_BODY", cond |-> Top])
EndWhile ==
    /\ Returned("WHILE_BODY")
    /\ Leave(pos, Replaced(While(Frame.cond, Top.statements)))

ParseDo ==
    /\ AtKeyword("do")
    /\ EnterBody(pos + 1, Append(Below(frames), [at |-> "DO"]))
    /\ UNCHANGED nodes

EndDoBody ==
    /\ Returned("DO")
    /\ IF Tok = "while" /\ At(pos + 1) = "("
       THEN Await(pos + 2, [at |-> "DO_WHILE", body |-> Top.statements]) /\ nodes' = Below(nodes)
       ELSE Halt("error") /\ UNCHANGED nodes

EndDoWhile ==
    /\ Returned("DO_WHILE")
    /\ IF Tok = ")" /\ At(pos + 1) = ";"
       THEN Leave(pos + 2, Replaced(DoWhile(Frame.body, Top)))
       ELSE Halt("error") /\ UNCHANGED nodes

\* parts holds what is known of the header: its initialisation, its condition
\* and its loop expression, in this order.
ParseFor ==
    /\ AtKeyword("for")
    /\ IF At(pos + 1) = "(" THEN Go(pos + 2, Append(Below(frames), [at |-> "FOR", parts |-> <<>>]))
       ELSE Halt("error")
    /\ UNCHANGED nodes

\* parse_for_loop_part and parse_for_loop_part_loop: the ";" behind a part is
\* taken, the ")" behind the last is not.
Closing(parts) == IF Len(parts) < 2 THEN ";" ELSE ")"
Taken(parts) == IF Len(parts) < 2 THEN 1 ELSE 0
ForPart(at, parts) == [at |-> at, parts |-> parts]

ParseForPart ==
    /\ Returned("FOR") /\ Len(Frame.parts) < 3
    /\ IF Tok = Closing(Frame.parts)
       THEN Go(pos + Taken(Frame.parts),
               Append(Below(frames), ForPart("FOR", Append(Frame.parts, Nil))))
       ELSE Await(pos, ForPart("FOR_PART", Frame.parts))
    /\ UNCHANGED nodes

EndForPart ==
    /\ Returned("FOR_PART")
    /\ IF Len(Frame.parts) < 2 /\ Tok # ";" THEN Halt("error") /\ UNCHANGED nodes
       ELSE /\ Go(pos + Taken(Frame.parts),
                  Append(Below(frames), ForPart("FOR", Append(Frame.parts, Top))))
            /\ nodes' = Below(nodes)

EndForHeader ==
    /\ Returned("FOR") /\ Len(Frame.parts) = 3
    /\ IF Tok # ")" THEN Halt("error")
       ELSE EnterBody(pos + 1, Append(Below(frames), ForPart("FOR_BODY", Frame.parts)))
    /\ UNCHANGED nodes

EndFor ==
    /\ Returned("FOR_BODY")
    /\ LET p == Frame.parts IN Leave(pos, Replaced(For(p[1], p[2], p[3], Top.statements)))

-----------------------------------------------------------------------------
(***************************************************************************)
(* switch and case                                                         *)
(***************************************************************************)

\* Mutant: what the pointer pointed to is not kept.
ParseSwitchForgets ==
    /\ AtKeyword("switch")
    /\ Condition([at |-> "SWITCH", cases |-> <<>>, saved |-> 0])
    /\ switch' = Len(frames)
    /\ UNCHANGED <<nodes, tree>>

\* parse_switch points m_switch_cases_ptr to its own list before it parses
\* anything, and keeps what it pointed to.
ParseSwitch ==
    /\ AtKeyword("switch")
    /\ Condition([at |-> "SWITCH", cases |-> <<>>, saved |-> switch])
    /\ switch' = Len(frames)
    /\ UNCHANGED <<nodes, tree>>

EndSwitchCondition ==
    EndCondition("SWITCH", [at |-> "SWITCH_BODY", exp |-> Top,
                            cases |-> Frame.cases, saved |-> Frame.saved])

\* Mutant: the pointer to the list of the switch outside is not restored.
EndSwitchStays ==
    /\ Returned("SWITCH_BODY")
    /\ Leave(pos, Replaced(SwitchWith(Frame.exp, Top.statements, Frame.cases)))
    /\ UNCHANGED <<tree, switch>>

EndSwitch ==
    /\ Returned("SWITCH_BODY")
    /\ Leave(pos, Replaced(SwitchWith(Frame.exp, Top.statements, Frame.cases)))
    /\ switch' = Frame.saved
    /\ UNCHANGED tree

ParseCase == AtKeyword("case") /\ Await(pos + 1, [at |-> "CASE"]) /\ UNCHANGED nodes

\* Only a number makes a case; it goes to the list of the switch, if there is one.
EndCase ==
    /\ Returned("CASE")
    /\ IF Tok # ":" \/ Top.type # "LEAF" \/ Top.tok \notin Numbers
       THEN Halt("error") /\ UNCHANGED nodes
       ELSE LET rest == Below(frames)
            IN  /\ Go(pos + 1, IF switch = 0 THEN rest
                               ELSE [rest EXCEPT ![switch].cases = Append(@, Top.tok)])
                /\ nodes' = Replaced(Case(Top))

-----------------------------------------------------------------------------
(***************************************************************************)
(* Declarations                                                            *)
(***************************************************************************)

\* parse_variable for the declarator whose name is the token before p: list holds
\* the variables declared before it.
EnterVariable(p, name, list) ==
    IF At(p) = "=" THEN Await(p + 1, [at |-> "VALUE", name |-> name, list |-> list])
    ELSE Go(p, Append(Below(frames),
               [at |-> "DECLARED", list |-> Append(list, Variable("int", name, Nil))]))

\* parse_variable_function_or_struct_union
ParseDeclaration ==
    /\ Returned("KEYWORD") /\ Tok \in DataTypes
    /\ LET name == At(pos + 1)
       IN  CASE name = ";" -> Leave(pos + 2, Append(nodes, [type |-> "STRUCT"]))
             [] name = End -> Halt("crash") /\ UNCHANGED nodes
             [] name \notin {";", End} /\ ~IsIdentifier(name) -> Halt("error") /\ UNCHANGED nodes
             [] IsIdentifier(name) /\ At(pos + 2) # "(" ->
                    EnterVariable(pos + 2, name, <<>>) /\ UNCHANGED nodes
             [] IsIdentifier(name) /\ At(pos + 2) = "(" ->
                    \* parse_function, up to the parameters
                    /\ Go(pos + 3, Append(Below(frames),
                              [at |-> "PARAMETERS", node |-> Len(nodes) + 1, args |-> <<>>]))
                    /\ nodes' = Append(nodes, Function("int", name, <<>>, Nil))

EndValue ==
    /\ Returned("VALUE")
    /\ Go(pos, Append(Below(frames),
                      [at |-> "DECLARED",
                       list |-> Append(Frame.list, Variable("int", Frame.name, Top))]))
    /\ nodes' = Below(nodes)

\* The name of a further declarator is not looked at.
NextDeclarator ==
    /\ Returned("DECLARED") /\ Tok = ","
    /\ EnterVariable(pos + (IF At(pos + 1) = End THEN 1 ELSE 2), At(pos + 1), Frame.list)
    /\ UNCHANGED nodes

EndDeclaration ==
    /\ Returned("DECLARED") /\ Tok # ","
    /\ IF Tok # ";" THEN Halt("error") /\ UNCHANGED nodes
       ELSE Leave(pos + 1, Append(nodes, IF Len(Frame.list) = 1 THEN Frame.list[1]
                                         ELSE VariableList(Frame.list)))

\* Tokens whose text parse_datatype_type reads though they have none.
Untyped == Symbols \cup Numbers \cup {End}

\* parse_function_arguments, one parameter: its type, its name if it has one, and
\* the comma behind it.
ParseParameter ==
    /\ Returned("PARAMETERS") /\ Tok # ")"
    /\ LET named == IsIdentifier(At(pos + 1))
           next == pos + (IF named THEN 2 ELSE 1)
           arg == Variable("int", IF named THEN At(pos + 1) ELSE "", Nil)
       IN  IF Tok \in Untyped \/ (Tok \in DataTypes /\ At(pos + 1) = End) THEN Halt("crash")
           ELSE IF Tok \notin DataTypes \/ At(next) \notin {",", ")"} THEN Halt("error")
           ELSE Go(IF At(next) = "," THEN next + 1 ELSE next,
                   Append(Below(frames), [Frame EXCEPT !.args = Append(@, arg)]))
    /\ UNCHANGED nodes

\* The function's node stays on the stack while its body is parsed, and is
\* completed there; a statement without an expression may have taken it off.
Completed(args, body) ==
    IF nodes[Frame.node].type # "FUNCTION" THEN nodes
    ELSE [nodes EXCEPT ![Frame.node] = [@ EXCEPT !.args = args, !.body = body]]

EndParameters ==
    /\ Returned("PARAMETERS") /\ Tok = ")"
    /\ IF At(pos + 1) = "{"
       THEN /\ EnterBody(pos + 1, Append(Below(frames), [Frame EXCEPT !.at = "FUNCTION"]))
            /\ UNCHANGED nodes
       ELSE IF At(pos + 1) = ";" THEN Leave(pos + 2, Completed(Frame.args, Nil))
       ELSE Halt("error") /\ UNCHANGED nodes

\* The body is popped.
EndFunction ==
    /\ Returned("FUNCTION")
    /\ Leave(pos, Below(IF Len(nodes) > Frame.node THEN Completed(Frame.args, Top) ELSE nodes))

-----------------------------------------------------------------------------
(***************************************************************************)
(* The top level                                                           *)
(***************************************************************************)

\* A keyword in the middle of an expression starts a statement of its own.
KeywordInExpression ==
    /\ Looping /\ Tok \in Keywords
    /\ Go(pos, Append(frames, [at |-> "KEYWORD"]))
    /\ UNCHANGED nodes

\* What run adds to the tree after each parse_next: node_peek.
Grown(ts) == Append(ts, [node |-> Top, height |-> Len(nodes)])

\* parse_next: an operator is neither parsed nor taken, so that what is on the
\* stack goes to the tree again and again; MaxTree bounds it.
MaxTree == 6
ParseNext ==
    /\ Returned("RUN")
    /\ CASE Tok = End -> Halt("ok") /\ UNCHANGED <<nodes, tree>>
         [] Tok \in Keywords -> /\ Go(pos, frames \o <<[at |-> "GLOBAL"], [at |-> "KEYWORD"]>>)
                                /\ UNCHANGED <<nodes, tree>>
         [] Tok \in Symbols -> /\ ParseSymbolToken(Append(frames, [at |-> "TOP"]))
                               /\ tree' = Mirrored(nodes')
         [] IsOperand(Tok) -> /\ Go(pos, frames \o <<[at |-> "TOP"], [at |-> "LOOP"]>>)
                              /\ UNCHANGED <<nodes, tree>>
         [] Tok \in Operators ->
                IF nodes = <<>> THEN Halt("abort") /\ UNCHANGED <<nodes, tree>>
                ELSE /\ tree' = IF Len(tree) < MaxTree THEN Grown(tree) ELSE tree
                     /\ UNCHANGED <<pos, nodes, frames, status>>
    /\ UNCHANGED switch

EndTop ==
    /\ Returned("TOP")
    /\ IF nodes = <<>> THEN Halt("abort") /\ UNCHANGED tree
       ELSE Go(pos, Below(frames)) /\ tree' = Grown(tree)
    /\ UNCHANGED <<nodes, switch>>

\* parse_keyword_for_global pops the node and pushes it back.
EndGlobal ==
    /\ Returned("GLOBAL")
    /\ IF nodes = <<>> THEN Halt("abort") /\ UNCHANGED tree
       ELSE /\ Go(pos, Below(frames))
            /\ tree' = Grown(IF tree # <<>> /\ Last(tree).height = Len(nodes)
                             THEN Front(tree) ELSE tree)
    /\ UNCHANGED <<nodes, switch>>

StatementNext ==
    \/ EndStatement \/ NextStatement \/ AddStatement \/ EndBody \/ EndSingleStatement
    \/ ParseBreak \/ ParseContinue \/ ParseDefault \/ ParseUnknown \/ ParseGoto
    \/ ParseReturn \/ EndReturn
    \/ ParseIf \/ EndIfCondition \/ EndThen \/ EndElseIf \/ EndElse
    \/ ParseWhile \/ EndWhileCondition \/ EndWhile
    \/ ParseDo \/ EndDoBody \/ EndDoWhile
    \/ ParseFor \/ ParseForPart \/ EndForPart \/ EndForHeader \/ EndFor
    \/ EndSwitchCondition \/ ParseCase \/ EndCase
    \/ ParseDeclaration \/ EndValue \/ NextDeclarator \/ EndDeclaration
    \/ ParseParameter \/ EndParameters \/ EndFunction
    \/ KeywordInExpression

ParserNext ==
    /\ \/ (Next \/ StatementNext) /\ tree' = Mirrored(nodes') /\ UNCHANGED switch
       \/ ReturnRoot
       \/ ParseSwitch
       \/ EndSwitch
       \/ ParseNext
       \/ EndTop
       \/ EndGlobal
    /\ UNCHANGED input

ParserSpec == ParserInit /\ [][ParserNext]_parserVars /\ WF_parserVars(ParserNext)
-----------------------------------------------------------------------------
(***************************************************************************)
(* Properties                                                              *)
(***************************************************************************)

StatementFrames ==
    {"RUN", "TOP", "GLOBAL", "KEYWORD", "STATEMENT", "BODY", "ITEM", "SINGLE", "RETURN",
     "IF", "THEN", "ELSE", "ELSE_IF", "WHILE", "WHILE_BODY", "DO", "DO_WHILE", "FOR",
     "FOR_PART", "FOR_BODY", "SWITCH", "SWITCH_BODY", "CASE", "VALUE", "DECLARED",
     "PARAMETERS", "FUNCTION"}

\* The pending calls of parse_switch among fs, and that p points to the list of
\* the last one below n, if there is one.
SwitchFrames == {"SWITCH", "SWITCH_BODY"}
PendingSwitches(fs) == {i \in DOMAIN fs : fs[i].at \in SwitchFrames}
Innermost(fs, p, n) == /\ p \in PendingSwitches(fs) \cup {0}
                       /\ p < n
                       /\ \A i \in PendingSwitches(fs) : i < n => i <= p
OwnList(fs, p) == /\ Innermost(fs, p, Len(fs) + 1)
                  /\ \A i \in PendingSwitches(fs) : Innermost(fs, fs[i].saved, i)

\* m_switch_cases_ptr never dangles: it points to the list of the innermost
\* parse_switch that has not returned, and what each of them puts back when it
\* does is the list of the one around it.
CaseListOpen == status = "running" => OwnList(frames, switch)

\* The methods that wait for parse_expressionable_root, and for parse_body.
AfterExpression == {"STATEMENT", "RETURN", "IF", "WHILE", "DO_WHILE", "FOR_PART",
                    "SWITCH", "CASE", "VALUE"}
AfterBody == {"THEN", "ELSE", "WHILE_BODY", "DO", "FOR_BODY", "SWITCH_BODY", "FUNCTION"}

\* What frame f finds on top of ns is what its method waits for: parse_body has
\* left its body there, parse_if_stmt for an "else if" its IF, and while the
\* parameters of a function are parsed, its node is still the last.
Found(ns, f) ==
    LET top == ns[Len(ns)] IN
    /\ f.at \in AfterExpression \cup AfterBody \cup {"ELSE_IF", "PARAMETERS"} => ns # <<>>
    /\ f.at \in AfterBody => top.type = "BODY" /\ top = Body(top.statements)
    /\ f.at = "ELSE_IF" => top.type = "IF"
    /\ f.at = "PARAMETERS" => f.node = Len(ns) /\ top.type = "FUNCTION"

\* In whatever text, a method that takes its result from the stack without
\* looking at it finds one of the kind it takes it for: the stack is shared by
\* all of them.  Where an expression is missing it finds a node of another method.
ResultFound == status = "running" => Found(nodes, Frame)

\* The constant of a case that is accepted goes to the list of the innermost
\* switch being parsed, whose frame parse_case does not know; no other step
\* changes the list of a switch before it is complete.
InnermostSwitch(i) == \A j \in PendingSwitches(frames) : j <= i
CaseTaken == Returned("CASE") /\ status' = status
CaseRecorded ==
    \A i \in PendingSwitches(frames) \cap PendingSwitches(frames') :
        frames'[i].cases = IF CaseTaken /\ InnermostSwitch(i)
                           THEN Append(frames[i].cases, Top.tok) ELSE frames[i].cases

\* The type of every variable, and what the methods assume of what they share:
\* the node stack and the pointer to the case list.
ParserTypeOK ==
    /\ pos \in 1 .. Len(toks) + 1
    /\ \A i \in DOMAIN frames : frames[i].at \in StatementFrames \cup
            {"ROOT", "LOOP", "NORMAL", "PAREN", "CAST", "BRACKET", "COMMA", "YES", "NO"}
    /\ frames[1].at \in {"RUN", "ROOT"}
    /\ \A i \in DOMAIN tree : tree[i].height \in Nat
    /\ status \in {"running", "ok", "error", "abort", "crash"}
    /\ CaseListOpen
    /\ ResultFound

\* The node stack and the tree stay in step, as the comment of node_pop has it:
\* the stack holds the nodes of the tree, and above them at most the function
\* being parsed and one node on its way to its parent.
VectorsInStep ==
    /\ Len(nodes) \in Len(tree) .. Len(tree) + 2
    /\ \A i \in DOMAIN tree : tree[i] = [node |-> nodes[i], height |-> i]

\* Brackets and braces of s, taken as they come, close in the reverse order.
Matching == [o \in {"(", "[", "{"} |-> CASE o = "(" -> ")" [] o = "[" -> "]" [] o = "{" -> "}"]
Nested(s) ==
    LET Read(open, t) ==
            CASE open = <<"unmatched">> -> open
              [] open # <<"unmatched">> /\ t \in DOMAIN Matching -> Append(open, t)
              [] open # <<"unmatched">> /\ t \in {")", "]", "}"} ->
                    IF open # <<>> /\ Matching[Last(open)] = t THEN Front(open) ELSE <<"unmatched">>
              [] OTHER -> open
    IN  FoldLeft(Read, <<>>, s) = <<>>
=============================================================================
