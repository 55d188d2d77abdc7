------------------------------- MODULE Codegen -------------------------------
(***************************************************************************)
(* Module and statement code generation: LLVMCodegen::run and gen_top of   *)
(* src/cpp/codegen_toplevel.cpp, gen_body, gen_stmt and the gen_* methods  *)
(* of src/cpp/codegen_stmt.cpp, over the expressions of ExprCodegen.       *)
(*                                                                         *)
(* The methods recurse over the tree and drive one llvm::IRBuilder whose   *)
(* insertion point is shared state; they also keep a stack of loop         *)
(* contexts, a stack of scopes, the labels met and the forward gotos not   *)
(* yet resolved.  `frames` is the C++ call stack with the locals of each   *)
(* pending method; a step runs a method up to the next call of gen_stmt or *)
(* gen_body, expressions included.                                         *)
(***************************************************************************)
EXTENDS Builder

CONSTANTS Programs,    \* the programs to compile, sequences of top-level nodes
          GenExpression(_, _),  \* gen_node on an expression, and a builder
          InitialOf(_, _)       \* global_init: the number a global of a type starts with

\* What the parser makes: std::vector for parameters and lists, and a type
\* dtype_to_llvm knows for every global variable.
Typed(v) == v.dtype \in DOMAIN dtype_to_llvm
TypedList(vs) == IsSequence(vs) /\ \A i \in DOMAIN vs : Typed(vs[i])
TopLevel(n) == /\ n.type = "FUNCTION" => IsSequence(n.args)
               /\ n.type = "VARIABLE" => Typed(n)
               /\ n.type = "VARIABLE_LIST" => TypedList(n.list)
TopLevels(ns) == IsSequence(ns) /\ \A i \in DOMAIN ns : TopLevel(ns[i])
ASSUME ProgramsAssumption == \A p \in Programs : TopLevels(p)
ASSUME BitsAssumption == {"i1", "i8", "i16", "i32", "i64", "ptr"} \subseteq DOMAIN Bits

VARIABLES program,     \* the program being compiled
          globals,     \* the module's global variables: type and initial value
          functions,   \* its functions: return type, parameter types
          fn,          \* the FUNCTION node generated last
          block,       \* that function's basic blocks, sequences of instructions
          cur,         \* m_builder's insertion block
          slots,       \* the types of its allocas
          loops,       \* m_loops: break and continue targets, innermost last
          scopes,      \* m_scopes: the variables of each scope, innermost last
          labels,      \* m_labels
          pending,     \* m_pending_gotos
          frames,      \* pending calls, the running one last
          status       \* "running", "done" or "overflow" (of the C++ stack)

built == <<block, cur, functions>>
tables == <<slots, scopes>>
jumps == <<labels, pending>>
vars == <<program, globals, fn, built, tables, loops, jumps, frames, status>>
\* What a method that only emits code leaves alone.
context == <<program, globals, fn, tables, loops, jumps, status>>

NoBlock == 0           \* nullptr

-----------------------------------------------------------------------------
(* The builder between two calls *)

SwitchOn(v, d) == [op |-> "switch", args |-> <<v>>, default |-> d, cases |-> <<>>]
Ret(v) == [op |-> "ret", args |-> <<v>>]
RetVoid == [op |-> "ret", args |-> <<>>]

IsTerminator(i) == i.op \in {"br", "condbr", "switch", "ret"}

\* getTerminator: the last instruction, if it is a terminator.
Terminated(is) == is # <<>> /\ IsTerminator(Last(is))
is_terminated == Terminated(block[cur])

Here == [block |-> block, cur |-> cur, val |-> NoValue, scopes |-> scopes,
         globals |-> globals, functions |-> functions]
Built(g) == block' = g.block /\ cur' = g.cur /\ functions' = g.functions

\* `if (!is_terminated()) CreateBr(b)`
Fallthrough(g, b) == IF Terminated(g.block[g.cur]) THEN g ELSE Put(g, Br(b))

\* The last loop context, if any.
break_bb == IF loops = <<>> THEN NoBlock ELSE Last(loops).brk
continue_bb == IF loops = <<>> THEN NoBlock ELSE Last(loops).cont

Frame == Last(frames)
Callers == Front(frames)
Running(name) == status = "running" /\ Frame.at = name

\* A table that maps x to v, and all else as before.
With(table, x, v) ==
    [y \in DOMAIN table \cup {x} |-> IF y = x THEN v ELSE table[y]]

\* gen_body pushes a scope and generates its statements in turn.
NoNames == [x \in {} |-> x]
BodyFrame(ss) == [at |-> "BODY", rest |-> ss]
PushScope == scopes' = Append(scopes, NoNames)

-----------------------------------------------------------------------------
(* run, gen_top and gen_func *)

Init == /\ globals = NoNames
        /\ functions = NoNames
        /\ fn = Nil
        /\ block = <<>>
        /\ cur = NoBlock
        /\ slots = <<>>
        /\ loops = <<>>
        /\ scopes = <<>>
        /\ labels = NoNames
        /\ pending = <<>>
        /\ program \in Programs
        /\ frames = <<[at |-> "RUN", rest |-> program]>>
        /\ status = "running"

\* The statement or node to generate next, and the stack when that is done.
Statement == Head(Frame.rest)
Advanced == [frames EXCEPT ![Len(frames)].rest = Tail(@)]

AtTop(t) == Running("RUN") /\ Frame.rest # <<>> /\ Statement.type = t

\* A name that is there already keeps its first variable.
WithGlobal(v, t) ==
    IF t = "void" \/ v.name \in DOMAIN globals THEN globals
    ELSE With(globals, v.name, [ty |-> t, init |-> InitialOf(v.val, t)])
gen_global(v) ==
    /\ globals' = WithGlobal(v, dtype_to_llvm[v.dtype])
    /\ frames' = Advanced
    /\ UNCHANGED <<program, fn, built, tables, loops, jumps, status>>

GenGlobal == AtTop("VARIABLE") /\ gen_global(Statement)

GenGlobalList ==
    /\ AtTop("VARIABLE_LIST")
    /\ frames' = Append(Advanced, [at |-> "GLOBALS", rest |-> Statement.list])
    /\ UNCHANGED <<context, built>>

GenListedGlobal == Running("GLOBALS") /\ Frame.rest # <<>> /\ gen_global(Statement)

EndGlobalList ==
    /\ Running("GLOBALS")
    /\ Frame.rest = <<>>
    /\ frames' = Callers
    /\ UNCHANGED <<context, built>>

\* The module's function of that name, if one was declared or called before,
\* whatever its type; else a new one.
FunctionOf(n) ==
    IF n.name \in DOMAIN functions THEN functions[n.name]
    ELSE [ret |-> dtype_to_llvm[n.rtype],
          params |-> [k \in DOMAIN n.args |-> dtype_to_llvm[n.args[k].dtype]],
          variadic |-> n.body = Nil]

GenPrototype ==
    /\ AtTop("FUNCTION")
    /\ Statement.body = Nil
    /\ functions' = With(functions, Statement.name, FunctionOf(Statement))
    /\ frames' = Advanced
    /\ UNCHANGED <<program, globals, fn, block, cur, tables, loops, jumps, status>>

\* Mutant: the labels of the function before are kept.
GenFuncKeepsLabels ==
    /\ AtTop("FUNCTION")
    /\ Statement.body # Nil
    /\ LET f == FunctionOf(Statement)
           bound == 1 .. Min({Len(f.params), Len(Statement.args)})
       IN  /\ functions' = With(functions, Statement.name, f)
           /\ block' = <<[k \in bound |-> Store(Slot(k), Param(k, f.params[k]))]>>
           /\ slots' = [k \in bound |-> f.params[k]]
           /\ scopes' = <<[x \in {Statement.args[k].name : k \in bound} |->
                LET k == Max({i \in bound : Statement.args[i].name = x})
                IN  [addr |-> Slot(k), elem |-> f.params[k]]], NoNames>>
           /\ frames' = Advanced \o <<[at |-> "FUNC"], BodyFrame(Statement.body.statements)>>
    /\ fn' = Statement
    /\ cur' = 1
    /\ UNCHANGED <<program, globals, loops, jumps, status>>

\* Each parameter the function has is stored to an alloca of its own.
GenFunc ==
    /\ AtTop("FUNCTION")
    /\ Statement.body # Nil
    /\ LET f == FunctionOf(Statement)
           bound == 1 .. Min({Len(f.params), Len(Statement.args)})
       IN  /\ functions' = With(functions, Statement.name, f)
           /\ block' = <<[k \in bound |-> Store(Slot(k), Param(k, f.params[k]))]>>
           /\ slots' = [k \in bound |-> f.params[k]]
           /\ scopes' = <<[x \in {Statement.args[k].name : k \in bound} |->
                LET k == Max({i \in bound : Statement.args[i].name = x})
                IN  [addr |-> Slot(k), elem |-> f.params[k]]], NoNames>>
           /\ frames' = Advanced \o <<[at |-> "FUNC"], BodyFrame(Statement.body.statements)>>
    /\ fn' = Statement
    /\ cur' = 1
    /\ labels' = NoNames
    /\ pending' = <<>>
    /\ UNCHANGED <<program, globals, loops, status>>

\* A placeholder branch whose label was never met keeps its target, the block
\* after the goto: resolve_gotos prints a message and goes on.
Resolved ==
    [b \in DOMAIN block |-> [i \in DOMAIN block[b] |->
        IF \E g \in DOMAIN pending : /\ pending[g].from = b /\ pending[g].at = i
                                     /\ pending[g].name \in DOMAIN labels
        THEN Br(labels[(CHOOSE p \in {pending[g] : g \in DOMAIN pending} :
                            p.from = b /\ p.at = i).name])
        ELSE block[b][i]]]

\* The return added at the end is of the type this definition has, not of the
\* one the module's function may have got before.
EndFunc ==
    /\ Running("FUNC")
    /\ LET t == dtype_to_llvm[fn.rtype]
           ret == IF t = "void" THEN RetVoid ELSE Ret(Const(0, t))
       IN  block' = IF is_terminated THEN Resolved
                    ELSE [Resolved EXCEPT ![cur] = Append(@, ret)]
    /\ pending' = <<>>
    /\ scopes' = Front(scopes)
    /\ frames' = Callers
    /\ UNCHANGED <<program, globals, functions, fn, cur, slots, loops, labels, status>>

EndRun ==
    /\ Running("RUN")
    /\ Frame.rest = <<>>
    /\ status' = "done"
    /\ UNCHANGED <<program, globals, fn, built, tables, loops, jumps, frames>>

-----------------------------------------------------------------------------
(* gen_body and gen_stmt *)

\* gen_stmt is called by gen_body and, for one statement, by gen_switch.
InList == status = "running" /\ Frame.at \in {"BODY", "ITEM"}

AtStatement(t) ==
    /\ InList
    /\ Frame.rest # <<>>
    /\ ~is_terminated
    /\ Statement.type = t

\* gen_stmt returns at once when the insertion block is terminated, whatever
\* the statement is.
SkipStatement ==
    /\ InList
    /\ Frame.rest # <<>>
    /\ is_terminated
    /\ frames' = Advanced
    /\ UNCHANGED <<context, built>>

GenNode ==
    /\ InList
    /\ Frame.rest # <<>>
    /\ ~is_terminated
    /\ IsExpression(Statement)
    /\ Built(GenExpression(Statement, Here))
    /\ frames' = Advanced
    /\ UNCHANGED context

\* A variable is in scope before its initialiser is generated.
Named(v, t) == [scopes EXCEPT ![Len(scopes)] =
                    With(@, v.name, [addr |-> Slot(Len(slots) + 1), elem |-> t])]
WithVariable(v, t) == [Here EXCEPT !.scopes = Named(v, t)]

gen_var_decl(v, t) ==
    /\ IF t = "void" THEN UNCHANGED <<built, tables>>
       ELSE /\ Built(Stored(Slot(Len(slots) + 1),
                            coerce(GenExpression(v.val, WithVariable(v, t)), t)))
            /\ slots' = Append(slots, t)
            /\ scopes' = Named(v, t)
    /\ frames' = Advanced
    /\ UNCHANGED <<program, globals, fn, loops, jumps, status>>

GenVarDecl ==
    AtStatement("VARIABLE") /\ gen_var_decl(Statement, dtype_to_llvm[Statement.dtype])

\* The variables of a list in turn, whatever the insertion block is.
GenVarList ==
    /\ AtStatement("VARIABLE_LIST")
    /\ frames' = Append(Advanced, [at |-> "LIST", rest |-> Statement.list])
    /\ UNCHANGED <<context, built>>

GenListed ==
    /\ Running("LIST")
    /\ Frame.rest # <<>>
    /\ gen_var_decl(Statement, dtype_to_llvm[Statement.dtype])

EndVarList ==
    /\ Running("LIST")
    /\ Frame.rest = <<>>
    /\ frames' = Callers
    /\ UNCHANGED <<context, built>>

\* A case label outside the statement list of a switch generates nothing.
GenNestedCase ==
    /\ AtStatement("CASE")
    /\ frames' = Advanced
    /\ UNCHANGED <<context, built>>

\* A default label there: gen_stmt and gen_node call each other for ever.
GenNestedDefault ==
    /\ AtStatement("DEFAULT")
    /\ status' = "overflow"
    /\ UNCHANGED <<program, globals, fn, built, tables, loops, jumps, frames>>

\* Mutant: the cursor of the list is not moved past the block.
GenBlockAgain ==
    /\ AtStatement("BODY")
    /\ frames' = Append(frames, BodyFrame(Statement.statements))
    /\ PushScope
    /\ UNCHANGED <<program, globals, fn, built, slots, loops, jumps, status>>

GenBlock ==
    /\ AtStatement("BODY")
    /\ frames' = Append(Advanced, BodyFrame(Statement.statements))
    /\ PushScope
    /\ UNCHANGED <<program, globals, fn, built, slots, loops, jumps, status>>

\* Mutant: pop_scope is forgotten.
EndBodyKeepsScope ==
    /\ Running("BODY")
    /\ Frame.rest = <<>>
    /\ frames' = Callers
    /\ UNCHANGED <<context, built>>

EndBody ==
    /\ Running("BODY")
    /\ Frame.rest = <<>>
    /\ frames' = Callers
    /\ scopes' = Front(scopes)
    /\ UNCHANGED <<program, globals, fn, built, slots, loops, jumps, status>>

-----------------------------------------------------------------------------
(* Jumps *)

\* A void function drops the expression; without one, or with one that has
\* no value, `ret void` is made in any function.
Returned(g) == Put(g, IF g.val = NoValue THEN RetVoid ELSE Ret(g.val))
GenReturn ==
    /\ AtStatement("RETURN")
    /\ LET t == functions[fn.name].ret
       IN  Built(Returned(IF Statement.exp = Nil \/ t = "void" THEN Here
                          ELSE coerce(GenExpression(Statement.exp, Here), t)))
    /\ frames' = Advanced
    /\ UNCHANGED context

\* Without a target the statement is dropped.
Jump(b) ==
    /\ Built(IF b = NoBlock THEN Here ELSE Put(Here, Br(b)))
    /\ frames' = Advanced
    /\ UNCHANGED context

GenBreak == AtStatement("BREAK") /\ Jump(break_bb)
GenContinue == AtStatement("CONTINUE") /\ Jump(continue_bb)

\* A new block, entered from the insertion block.
Label1 == Len(block) + 1
InNewBlock == MoveTo(Put(NewBlocks(Here, 1), Br(Label1)), Label1)

GenLabel ==
    /\ AtStatement("LABEL")
    /\ Built(InNewBlock)
    /\ labels' = With(labels, Statement.name, Label1)
    /\ frames' = Advanced
    /\ UNCHANGED <<program, globals, fn, tables, loops, pending, status>>

\* Backward: a branch to the label's block.
GenGotoBack ==
    /\ AtStatement("GOTO")
    /\ Statement.name \in DOMAIN labels
    /\ Jump(labels[Statement.name])

\* Forward: a placeholder branch to a new block, which takes what follows.
GenGotoForward ==
    /\ AtStatement("GOTO")
    /\ Statement.name \notin DOMAIN labels
    /\ Built(InNewBlock)
    /\ pending' = Append(pending, [name |-> Statement.name, from |-> cur,
                                   at |-> Len(block[cur]) + 1])
    /\ frames' = Advanced
    /\ UNCHANGED <<program, globals, fn, tables, loops, labels, status>>

-----------------------------------------------------------------------------
(* gen_if *)

\* Called by gen_stmt, and by itself for an else-if, with builder g on the
\* stack fs.  New blocks, made after the condition: then, else, merge.
EnterThen(s, c, n, fs) ==
    /\ Built(MoveTo(Put(NewBlocks(c, 3), CondBr(c.val, n + 1, n + 2)), n + 1))
    /\ PushScope
    /\ frames' = fs \o <<[at |-> "THEN", next |-> s.next, els |-> n + 2,
                          merge |-> n + 3], BodyFrame(s.body)>>
    /\ UNCHANGED <<program, globals, fn, slots, loops, jumps, status>>
EnterOn(s, c, fs) == EnterThen(s, c, Len(c.block), fs)
EnterIf(s, g, fs) == EnterOn(s, to_bool(GenExpression(s.cond, g)), fs)

GenIf == AtStatement("IF") /\ EnterIf(Statement, Here, Advanced)

AfterThen == Append(Callers, [at |-> "ELSE", merge |-> Frame.merge])
InElse == MoveTo(Fallthrough(Here, Frame.merge), Frame.els)

GenElseIf ==
    /\ Running("THEN")
    /\ Frame.next.type = "IF"
    /\ EnterIf(Frame.next, InElse, AfterThen)

GenElse ==
    /\ Running("THEN")
    /\ Frame.next.type = "ELSE"
    /\ Built(InElse)
    /\ PushScope
    /\ frames' = Append(AfterThen, BodyFrame(Frame.next.body))
    /\ UNCHANGED <<program, globals, fn, slots, loops, jumps, status>>

GenNoElse ==
    /\ Running("THEN")
    /\ Frame.next = Nil
    /\ Built(InElse)
    /\ frames' = AfterThen
    /\ UNCHANGED context

EndIf ==
    /\ Running("ELSE")
    /\ Built(MoveTo(Fallthrough(Here, Frame.merge), Frame.merge))
    /\ frames' = Callers
    /\ UNCHANGED context

-----------------------------------------------------------------------------
(* Loops *)

\* The body of a loop: a loop context, a scope and the frame that ends it.
EnterLoop(brk, cont, frame, ss) ==
    /\ loops' = Append(loops, [brk |-> brk, cont |-> cont])
    /\ PushScope
    /\ frames' = Advanced \o <<frame, BodyFrame(ss)>>
    /\ UNCHANGED <<program, globals, fn, slots, jumps, status>>

LeaveLoop ==
    /\ loops' = Front(loops)
    /\ frames' = Callers
    /\ UNCHANGED <<program, globals, fn, tables, jumps, status>>

\* A builder in block b, entered from the insertion block of g.
Into(g, b) == MoveTo(Put(g, Br(b)), b)

\* GenExpression(cond), then the branch on its truth.
BranchOn(cond, g, t, f) ==
    LET Branch(c) == Put(c, CondBr(c.val, t, f)) IN Branch(to_bool(GenExpression(cond, g)))

\* New blocks: condition, body, after.
InWhileTest == Into(NewBlocks(Here, 3), Len(block) + 1)
GenWhile ==
    /\ AtStatement("WHILE")
    /\ LET head == Len(block) + 1
           test == BranchOn(Statement.cond, InWhileTest, head + 1, head + 2)
       IN  /\ Built(MoveTo(test, head + 1))
           /\ EnterLoop(head + 2, head, [at |-> "WHILE", head |-> head,
                                         after |-> head + 2], Statement.body)

EndWhile ==
    /\ Running("WHILE")
    /\ Built(MoveTo(Fallthrough(Here, Frame.head), Frame.after))
    /\ LeaveLoop

\* New blocks: body, condition, after.
GenDoWhile ==
    /\ AtStatement("DO_WHILE")
    /\ LET first == Len(block) + 1
       IN  /\ Built(Into(NewBlocks(Here, 3), first))
           /\ EnterLoop(first + 2, first + 1,
                        [at |-> "DO_WHILE", cond |-> Statement.cond, first |-> first,
                         head |-> first + 1, after |-> first + 2], Statement.body)

InDoWhileTest == MoveTo(Fallthrough(Here, Frame.head), Frame.head)
EndDoWhile ==
    /\ Running("DO_WHILE")
    /\ Built(MoveTo(BranchOn(Frame.cond, InDoWhileTest, Frame.first, Frame.after),
                    Frame.after))
    /\ LeaveLoop

\* New blocks: condition, body, increment, after.
InForTest(init) == Into(NewBlocks(init, 4), Len(init.block) + 1)

\* The condition of a for loop, in its block head.
ForTest(cond, g, head) ==
    IF cond = Nil THEN Put(g, Br(head + 1)) ELSE BranchOn(cond, g, head + 1, head + 3)

\* Mutant: continue jumps to the condition and skips the increment.
EnterForToCondition(s, init, head) ==
    /\ Built(MoveTo(ForTest(s.cond, InForTest(init), head), head + 1))
    /\ EnterLoop(head + 3, head,
                 [at |-> "FOR", loop |-> s.loop, head |-> head,
                  incr |-> head + 2, after |-> head + 3], s.body)

EnterFor(s, init, head) ==
    /\ Built(MoveTo(ForTest(s.cond, InForTest(init), head), head + 1))
    /\ EnterLoop(head + 3, head + 2,
                 [at |-> "FOR", loop |-> s.loop, head |-> head,
                  incr |-> head + 2, after |-> head + 3], s.body)

ForAfter(s, init) == EnterFor(s, init, Len(init.block) + 1)

\* The parser makes every part an expression.
GenFor == AtStatement("FOR") /\ ForAfter(Statement, GenExpression(Statement.init, Here))

InIncrement == MoveTo(Fallthrough(Here, Frame.incr), Frame.incr)
EndFor ==
    /\ Running("FOR")
    /\ Built(MoveTo(Fallthrough(GenExpression(Frame.loop, InIncrement), Frame.head),
                    Frame.after))
    /\ LeaveLoop

-----------------------------------------------------------------------------
(* gen_switch: the statement list is walked without gen_body's scope *)

\* New blocks, made after the value: after, default, and the one before the
\* first case.
EnterSwitch(v, after) ==
    /\ Built([MoveTo(Put(NewBlocks(v, 3), SwitchOn(v.val, after + 1)), after + 2)
                EXCEPT !.block[after + 1] = <<Br(after)>>,
                       !.block[after + 2] = <<Br(after)>>])
    /\ loops' = Append(loops, [brk |-> after, cont |-> NoBlock])
    /\ frames' = Append(Advanced, [at |-> "SWITCH", rest |-> Statement.body,
                                   open |-> NoBlock, sw |-> v.cur,
                                   default |-> after + 1, after |-> after])
    /\ UNCHANGED <<program, globals, fn, tables, jumps, status>>
SwitchAfter(v) == EnterSwitch(v, Len(v.block) + 1)
GenSwitch ==
    AtStatement("SWITCH") /\ SwitchAfter(coerce(GenExpression(Statement.exp, Here), "i32"))

AtSwitchItem == Running("SWITCH") /\ Frame.rest # <<>>
Switched(open) == [frames EXCEPT ![Len(frames)].rest = Tail(@),
                                 ![Len(frames)].open = open]

\* `if (open_bb) CreateBr(b)`, at the insertion point.
OpenTo(g, b) == IF Frame.open = NoBlock THEN g ELSE Put(g, Br(b))

\* A label that is no constant is not added to the switch.
AddCase(g, sw, target) ==
    IF g.val.kind # "const" THEN g
    ELSE [g EXCEPT !.block[sw][Len(g.block[sw])].cases =
                Append(@, <<g.val.num, target>>)]

CaseBlock == Len(block) + 1
InCase == MoveTo(OpenTo(NewBlocks(Here, 1), CaseBlock), CaseBlock)
GenCase ==
    /\ AtSwitchItem
    /\ Statement.type = "CASE"
    /\ Built(AddCase(GenExpression(Statement.exp, InCase), Frame.sw, CaseBlock))
    /\ frames' = Switched(CaseBlock)
    /\ UNCHANGED context

\* The default block loses the branch it was given when it was created.
GenDefault ==
    /\ AtSwitchItem
    /\ Statement.type = "DEFAULT"
    /\ LET g == MoveTo(OpenTo(Here, Frame.default), Frame.default)
       IN  Built([g EXCEPT !.block[Frame.default] =
                    IF Terminated(@) THEN Front(@) ELSE @])
    /\ frames' = Switched(Frame.default)
    /\ UNCHANGED context

\* Statements with no open block, those before the first case included.
SkipSwitchStatement ==
    /\ AtSwitchItem
    /\ Statement.type \notin {"CASE", "DEFAULT"}
    /\ Frame.open = NoBlock
    /\ frames' = Switched(NoBlock)
    /\ UNCHANGED <<context, built>>

(***************************************************************************)
(* A statement of a case: the insertion point is first set back to the     *)
(* open block, then gen_stmt runs, in a frame of its own and without a new *)
(* scope; afterwards the open block is forgotten if the insertion block is *)
(* terminated.                                                             *)
(***************************************************************************)
GenSwitchStatement ==
    /\ AtSwitchItem
    /\ Statement.type \notin {"CASE", "DEFAULT"}
    /\ Frame.open # NoBlock
    /\ cur' = Frame.open
    /\ frames' = Append(Switched(Frame.open),
                        [at |-> "ITEM", rest |-> <<Statement>>])
    /\ UNCHANGED <<context, block, functions>>

EndSwitchStatement ==
    /\ Running("ITEM")
    /\ Frame.rest = <<>>
    /\ frames' = IF is_terminated
                 THEN [Callers EXCEPT ![Len(Callers)].open = NoBlock] ELSE Callers
    /\ UNCHANGED <<context, built>>

\* Mutant: the last case does not fall out of the switch.
EndSwitchStaysOpen ==
    /\ Running("SWITCH")
    /\ Frame.rest = <<>>
    /\ Built(MoveTo(Here, Frame.after))
    /\ LeaveLoop

EndSwitch ==
    /\ Running("SWITCH")
    /\ Frame.rest = <<>>
    /\ Built(MoveTo(IF Frame.open = NoBlock THEN Here
                    ELSE Fallthrough(Here, Frame.after), Frame.after))
    /\ LeaveLoop

-----------------------------------------------------------------------------
\* Nothing is left to do; a program still running always has a next step.
Stopped == status # "running" /\ UNCHANGED vars

Next == \/ GenGlobal \/ GenGlobalList \/ GenListedGlobal \/ EndGlobalList
        \/ GenPrototype \/ GenFunc \/ EndFunc \/ EndRun
        \/ SkipStatement \/ GenNode \/ GenVarDecl \/ GenVarList \/ GenListed \/ EndVarList
        \/ GenNestedCase \/ GenNestedDefault \/ GenBlock \/ EndBody
        \/ GenReturn \/ GenBreak \/ GenContinue
        \/ GenLabel \/ GenGotoBack \/ GenGotoForward
        \/ GenIf \/ GenElseIf \/ GenElse \/ GenNoElse \/ EndIf
        \/ GenWhile \/ EndWhile
        \/ GenDoWhile \/ EndDoWhile
        \/ GenFor \/ EndFor
        \/ GenSwitch \/ GenCase \/ GenDefault
        \/ SkipSwitchStatement \/ GenSwitchStatement \/ EndSwitchStatement
        \/ EndSwitch \/ Stopped

Spec == Init /\ [][Next]_vars
-----------------------------------------------------------------------------
(***************************************************************************)
(* Properties                                                              *)
(***************************************************************************)

LoopFrames == {"WHILE", "DO_WHILE", "FOR", "SWITCH"}
Blocks == DOMAIN block

\* Every jump target kept, and every block with a goto to resolve, is a block
\* there is.
JumpTargets ==
    /\ \A i \in DOMAIN loops : /\ loops[i].brk \in Blocks
                               /\ loops[i].cont \in Blocks \cup {NoBlock}
    /\ \A l \in DOMAIN labels : labels[l] \in Blocks
    /\ \A i \in DOMAIN pending : pending[i].from \in Blocks

\* Every address in scope is that of a slot there is, of the slot's type.
SlotsInScope ==
    \A i \in DOMAIN scopes : \A x \in DOMAIN scopes[i] :
        /\ scopes[i][x].addr.num \in DOMAIN slots
        /\ scopes[i][x].elem = slots[scopes[i][x].addr.num]

\* The type of every variable; what m_loops, m_labels, m_pending_gotos and
\* m_scopes hold was made for the function in hand.
TypeOK == /\ \A x \in DOMAIN globals : globals[x].ty \in DOMAIN Bits
          /\ cur \in Blocks \cup {NoBlock}
          /\ status \in {"running", "done", "overflow"}
          /\ JumpTargets
          /\ SlotsInScope

\* m_loops and m_scopes follow the nesting of the source although every
\* method pushes and pops them by hand around statements that return early:
\* one loop context per pending loop or switch, one scope per pending body;
\* nothing of a function is left when the next one begins.
ContextMatchesNesting ==
    /\ Len(loops) = Cardinality({i \in DOMAIN frames : frames[i].at \in LoopFrames})
    /\ Len(scopes) =
          Cardinality({i \in DOMAIN frames : frames[i].at \in {"FUNC", "BODY"}})
    /\ Frame.at = "RUN" => pending = <<>>

\* The blocks a pending method will still make the insertion point.
Owned(f) == CASE f.at = "THEN" -> {f.els, f.merge}
              [] f.at = "ELSE" -> {f.merge}
              [] f.at = "DO_WHILE" -> {f.head, f.after}
              [] f.at = "FOR" -> {f.incr, f.after}
              [] f.at \in {"WHILE", "SWITCH"} -> {f.after}
              [] OTHER -> {}

\* A block without a terminator is the insertion block or one that a pending
\* method still holds: none is abandoned open by an early return of gen_stmt.
NoOpenBlockAbandoned ==
    \A b \in Blocks :
        \/ Terminated(block[b])
        \/ b = cur /\ Frame.at # "RUN"
        \/ \E i \in DOMAIN frames : b \in Owned(frames[i])

-----------------------------------------------------------------------------
(* What the statements rely on *)

\* Blocks of instructions, and a builder in one of its blocks.
IsBlock(is) == IsSequence(is) /\ \A i \in DOMAIN is : "op" \in DOMAIN is[i]
IsCode(bs) == IsSequence(bs) /\ \A b \in DOMAIN bs : IsBlock(bs[b])
IsBuilder(g) ==
    /\ g = [block |-> g.block, cur |-> g.cur, val |-> g.val, scopes |-> g.scopes,
            globals |-> g.globals, functions |-> g.functions]
    /\ IsCode(g.block)
    /\ g.cur \in DOMAIN g.block
    /\ \A f \in DOMAIN g.functions : IsSequence(g.functions[f].params)

Open(g) == {b \in DOMAIN g.block : ~Terminated(g.block[b])}

\* An expression n on builder g adds instructions and blocks, and leaves open
\* none but the one it ends in and those open before, less the one it began in.
Settles(g, h) ==
    /\ IsBuilder(h)
    /\ Len(g.block) <= Len(h.block)
    /\ Open(h) \ {h.cur} \subseteq Open(g) \ {g.cur}
Settled(n, g) == Settles(g, GenExpression(n, g))

\* The variable, if the next call of a pending method declares one.
Declaring == AtStatement("VARIABLE") \/ (Running("LIST") /\ Frame.rest # <<>>)
TypeDeclared == dtype_to_llvm[Statement.dtype]

\* Every call of gen_node that the running method makes next settles.
ExpressionsSettle ==
    /\ InList /\ Frame.rest # <<>> /\ ~is_terminated /\ IsExpression(Statement) =>
          Settled(Statement, Here)
    /\ Declaring /\ TypeDeclared # "void" =>
          Settled(Statement.val, WithVariable(Statement, TypeDeclared))
    /\ AtStatement("RETURN") /\ Statement.exp # Nil => Settled(Statement.exp, Here)
    /\ AtStatement("IF") => Settled(Statement.cond, Here)
    /\ Running("THEN") /\ Frame.next.type = "IF" => Settled(Frame.next.cond, InElse)
    /\ AtStatement("WHILE") => Settled(Statement.cond, InWhileTest)
    /\ Running("DO_WHILE") => Settled(Frame.cond, InDoWhileTest)
    /\ AtStatement("FOR") =>
          /\ Settled(Statement.init, Here)
          /\ Statement.cond # Nil =>
                Settled(Statement.cond, InForTest(GenExpression(Statement.init, Here)))
    /\ Running("FOR") => Settled(Frame.loop, InIncrement)
    /\ AtStatement("SWITCH") => Settled(Statement.exp, Here)
    /\ AtSwitchItem /\ Statement.type = "CASE" => Settled(Statement.exp, InCase)

\* gen_switch goes on in the block where the statement before ended, so that
\* setting the insertion point back to the open block moves it nowhere.
CasesGoOn ==
    AtSwitchItem /\ Statement.type \notin {"CASE", "DEFAULT"} /\ Frame.open # NoBlock
        => cur = Frame.open

\* What the generators of statements need of the code behind their calls.
GoesOn == ExpressionsSettle /\ CasesGoOn
=============================================================================
