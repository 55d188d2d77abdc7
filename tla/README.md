# Verification of the 1337cc C compiler

1337cc compiles one C file: a lexer makes tokens of it, a recursive-descent
parser a tree, a code generator LLVM IR; `llc` and `gcc` make the program. This
directory holds TLA+ models of its parts, TLC configurations that check them on
small instances, and TLAPS proofs of what holds on all instances. Line numbers
refer to `src/`. `PROJECT.json` maps every definition that models code to the
lines it stands for, lists the hazards found in the code with the property that
covers each, and gives for every checked property a mutant of the code that
breaks it.

## The system

The stages run one after the other in one process and one thread:

    main -> compile_file -> lex -> parse -> codegen -> (llc, gcc)

They share `struct compile_process` (source file, token vector, tree, scopes,
symbols). Everything that is a list is a `struct vector`. An error ends the
process at once (`compiler_error` calls `exit(-1)`); a failed `assert` aborts it.
The only concurrency is between runs of the command that share a file system.

| Component | State it keeps | What is hard about it |
| --- | --- | --- |
| driver (`main.cpp`, `compiler.cpp`, `cprocess.cpp`) | temporary files named after the process id, the output, exit code | runs at once, runs killed between steps, process ids used again, a stage that fails after others made files |
| vector (`helpers/vector.cpp`) | block, write head, count, capacity, one peek cursor, direction | capacity and block size kept apart; one cursor for all iterations |
| buffer (`helpers/buffer.cpp`) | bytes, read index | push-back of a character |
| lexer (`lexer.cpp`, `lex_process.cpp`, `token.cpp`) | characters left, tokens, position, bracket count | one character of look-ahead, push-backs, a token taken back from the vector |
| expression parser (`parser_expr.cpp`, `parser_operators.cpp`, `expressionable.cpp`) | cursor, global node stack, C++ call stack | operands pass over one global stack; the tree is built right-recursive and rotated afterwards |
| declarations (`parser_decl.cpp`, `parser_body.cpp`, `parser_types.cpp`, `datatype.cpp`, `array.cpp`, `helper.cpp`) | offsets, paddings, sizes, the function being parsed | sizes need types that may not be known yet; flags handed down through nested calls |
| scopes, symbols, fixups (`scope.cpp`, `symresolver.cpp`, `fixup.cpp`) | scope chain, one symbol table, list of fixups | scopes opened and closed on many paths; forward references resolved at the end |
| statement parser (`parser_stmt.cpp`, `parser_body.cpp`, `parser_core.cpp`) | case list of the innermost switch, the tree | the node stack is shared with the expression parser; the case list is saved and restored by hand; tokens nobody takes |
| statement code generation (`codegen_stmt.cpp`) | insertion block, loop contexts, labels, pending gotos | every statement moves one shared insertion point; a block must end with exactly one terminator |
| expression code generation (`codegen_expr.cpp`) | (the same builder) | blocks inside an expression move the insertion point under the statement around it; order of evaluation; widths |
| module code generation (`codegen_core.cpp`, `codegen_toplevel.cpp`) | function and global tables, scopes | names looked up at the moment of use; functions called before they are declared |
| node factories (`node.cpp`) | the node stack | empty pops |

What makes each correct:

- *driver*: whatever happens to other runs, a run builds the program of the text
  it read, or reports failure; it never destroys its source; it removes its
  temporary files.
- *vector*: no write outside the block; it is a sequence, and an iteration
  returns each element once.
- *lexer*: the tokens are the lexemes C divides the text into; nothing is lost,
  reordered or invented; the position is right; an unclosed comment is reported.
- *expression parser*: the tree groups operands by C's table and keeps every
  token; the node stack of the enclosing construct is untouched; every expression
  is accepted or reported, in finitely many steps.
- *declarations and scopes*: a name means one type; fields do not overlap and fit
  their struct; a function's stack holds its locals; scopes close with what
  opened them; every forward reference is resolved or reported.
- *statement parser*: the tree is the one the text was written for; the node stack
  keeps step with it; every case is in the list of its own switch; unmatched brackets
  and braces are never accepted.
- *code generation*: every module passes LLVM's verifier (one terminator a block, phis
  that name the real predecessors, values computed before their use, operand types);
  the blocks do what C says of the source.

## Modules

| Module | Models | Role |
| --- | --- | --- |
| `VectorContract` | what the vector promises: a sequence with a cursor | abstract specification |
| `Vector` | `vector.cpp`: block, indices and capacity | one action per function |
| `MCVectorPass` | an iteration under way, recorded as history | instance |
| `VectorProofs` | | proofs, of the vector and of iterating over it |
| `Lexer` | `lexer.cpp` over a file or a string | one action per reader |
| `CLexemes` | how C divides a text into lexemes, without the code's readers | reference |
| `MCLexer` | sets of texts | instance |
| `LexerProofs` | | proofs |
| `ExprNode` | expression nodes (`node.cpp`), which the parser makes and the generator reads | operators |
| `ExprTree` | nodes and predicates, precedence table | operators |
| `ExprReorder` | `reorder_expression`, recursive over trees | operators |
| `ExprParser` | `parser_expr.cpp` as a stack of pending calls; `reorder_expression` is a constant, `ReorderExpression` | one action per method, or part of one between two calls |
| `MCExprParser` | sets of expressions; gives `ExprParser` the `Reorder` of `ExprReorder` | instance |
| `StmtTree` | statement and top-level nodes | operators |
| `StmtParser` | `parser_stmt.cpp`, `parser_body.cpp`, `run` and the trees of `parser_decl.cpp`, over the variables of `ExprParser` | one action per method, or part of one between two calls |
| `MCStmtParser` | whole files with the trees C's grammar gives them, spoilt files, and the expressions of `MCExprParser` | instance |
| `ParserProofs` | | proofs |
| `Declarations` | scopes, symbols, fixups, layout | one action per handler |
| `MCDeclarations` | types, names, lists | instance |
| `DeclarationsProofs`, `LayoutProofs` | | proofs |
| `Builder` | values, instructions, `llvm::IRBuilder`, truth and conversion helpers of `codegen_core.cpp` | operators |
| `ExprCodegen` | `codegen_expr.cpp`, `gen_node` and the lvalue helpers, as operators on a builder | operators |
| `Codegen` | `codegen_stmt.cpp`, `codegen_toplevel.cpp` and the tables of `codegen_core.cpp`, as a stack of pending calls over basic blocks; `gen_node` is a constant, `GenExpression` | one action per `gen_` method, or part of one |
| `CodegenProofs`, `BlockProofs` | | proofs |
| `Verifier` | what `verifyModule` asks of a finished function | reference |
| `SourceMeaning` | meaning of C functions and of LLVM blocks | reference |
| `MCCodegen` | sets of programs; gives `Codegen` the `gen_node` and `global_init` of `ExprCodegen` | instance |
| `CompilerContract` | what the command promises, without stages or temporary files | abstract specification |
| `Driver` | `main`, `compile_file`, `compile_process_create`, kills | one action per system call or stage |
| `MCDriver` | texts, commands, disks | instance |
| `DriverProofs` | | proofs |

How state and actions correspond:

- **Vector.** `data` is the allocated block (a function from slot numbers), `alloc`
  its size in elements, `mindex` what the code *believes* the capacity is
  (`vector.hpp:20`); the two are computed in different places
  (`vector.cpp:126-155`), which is why they are two variables. Slots never written
  hold `Junk`, so a read of one is seen. `Push`, `Pop`, `Clear`, `Back`,
  `BackOrNull`, `Peek`, `PeekNoIncrement`, `SetPeekPointer`, `SetPeekPointerEnd`
  and `SetFlag` are the functions of those names. The refinement to
  `VectorContract` maps `items` to the live slots and the cursor to itself.
- **Lexer.** A character is a model character of its class, a token its type and
  what identifies it. `rest` is what the character source will still give;
  `PushBack` is `ungetc` on a file and `buffer_write` on a string, which differ.
  A step is one round of `Lexer::run`.
- **ExprTree, ExprReorder, ExprParser.** Trees are values: the code rewrites nodes in place, but
  no node has two parents. `frames` is the call stack with the nodes each method
  holds in locals; `nodes` is the global `node_vector`. "crash" is a null
  dereference, "abort" a failed `assert`, "error" `compiler_error`. Operators are
  their own tokens; number, identifier and string are one class. The methods need of
  `reorder_expression` only that it answers a node or fails an assertion, so it is a constant
  operator that every configuration sets to `Reorder`.
- **StmtParser** extends `ExprParser`: same cursor, node stack, call stack and status, with
  actions for the statement methods, so that every expression of a statement is parsed by
  the very actions that the expression runs check. `tree` is `node_tree_vec`, each node with
  the height of the node stack when it was added; `switch` is `m_switch_cases_ptr`, as the
  frame whose local vector it points to, so that a dangling pointer would be a frame that
  is gone. `MCStmtParser` writes each construct as a pair of a text and a tree.
- **Declarations.** The text is read construct by construct, and which comes next is free,
  so TLC tries every well-nested text up to the bound. `scopes` is the chain from the root;
  a scope is the sequence of its entities. `bodies` are the calls of `parse_body` under way
  with their accumulated size and the two "largest" variables. `declared` and `defined` are
  the nodes made. A block is the body of an if, a loop or a switch, that of an else, or a
  plain one among the statements (`Blocks`): the first keeps the flags of its `History`, the
  second is given none, the third those of the globals. `within` (which function), `holds`
  (everything declared in a body) and `detached` (whether a function has had an else or a
  plain block) are the only history. What the code adds up in loops, sizes and offsets of a
  list of declarators, is a recursive function over the list. A pointer is like what it
  points to, because `DATATYPE_FLAG_IS_POINTER` is set nowhere.
- **Builder, ExprCodegen, Codegen.** `block` holds the basic blocks of the function under
  construction, `cur` the insertion block. An expression method is an operator from a
  builder (blocks, insertion block, tables) to the builder after it and the value
  returned; no call of a statement method can come in between, so a whole expression is
  part of one action of `Codegen`. That operator is the constant `GenExpression`, which
  every configuration sets to `gen_node` (as `InitialOf` to `global_init`): the statement
  methods know nothing else of expressions, and what they rely on, `GoesOn`, can then be
  stated, checked of `gen_node` and assumed in proofs about `Codegen` alone. A list of
  variables or of globals has a frame like the other nodes with a loop. Instructions
  carry LLVM types; a register is the place of the instruction that computes it. `loops`,
  `scopes`, `labels` and `pending` are the members of those names. `CONSTANT Bits` gives
  the widths.
- **SourceMeaning** runs a function twice, by C's rules on its nodes and by LLVM's on its
  blocks, against the same oracle, which answers the calls, and compares calls, arguments,
  result, globals and memory.
- **Driver.** Each process has a program counter in `main`/`compile_file`. What a
  stage does with a text is a constant verdict on it. The temporary files are
  indexed by process id; each remembers the run that wrote it, which lets
  `OwnIntermediates` say *whose* file is read. `Kill` may come between any two
  steps; then the process id may be used again, up to `MaxRuns` times.

## Runs

| Run | Question | Result |
| --- | --- | --- |
| `MCVectorPass` | does the growing array behave as a sequence with a cursor, and do both iteration idioms return the right elements? | holds |
| `LexerTexts` | are the tokens the lexemes of the text, in order, each line right, and does lexing end? | holds on the texts below |
| `Parsing` | are well-formed expressions and files accepted and parsed as written, no token lost, does every method find on the shared stack what it waits for, is the node stack in step with the tree, every case in its own switch's list, unmatched brackets reported, and does parsing end? | holds on the texts below |
| `ExprRepeated` | is `a - b - c` grouped to the left? | no |
| `ExprNegation` | does parsing `a = -b` end? | no |
| `CodegenBlocks` | do loop contexts and scopes follow the nesting, does every function pass the verifier and do what its source says, does the code of every expression settle, and does generation end? | holds on the programs below |
| `CodegenIfInCase` | may an `if` stand in a `case`? | no: its merge block is left open |
| `CodegenContinue` | does `continue` in a `switch` reach the loop? | no: it is dropped |
| `DeclarationsTexts` | scopes, names, fixups, layout (seven invariants) | holds |
| `DeclarationsForward` | does a forward reference in a body wait for its fixup? | no: it is dereferenced at once |
| `DriverRuns` | do concurrent, killed and repeated runs keep the contract, and do they end? | holds |
| `DriverLeftovers` | are the temporary files always deleted? | no: not after a syntax error |

Bounds, and why they suffice:

- *MCVectorPass*: increment 2 and up to 4 elements: the block grows twice, and the
  write head passes every position relative to the capacity, including the two
  places where the code treats the last slot specially. Two values tell a swapped
  or repeated element apart. The proofs hold for every increment and bound.
- *LexerTexts*: all sequences of up to 4 to 6 characters, in families: operators,
  comments, numbers, quotes, include paths, and a mixture. No reader looks ahead or
  pushes back over more than two characters, so a text of six holds each of them with
  something before and after. Texts on which the code is known to differ from C
  are left out by name: `Unglued` (a zero and the `x` or `b` behind it), `Ended` (a
  backslash at the end of an unclosed string) and `NeverRead` (the operator `*=`).
  `CLexemes` says what an escape is in C; in the escapes that C does not have, and in
  those the lexer does not know, it leaves the character open (`Any`).
- *Parsing*, expressions: all chains of up to three operators over one operator of each row
  of the table, and combinations with parentheses, calls, casts, subscripts and
  conditionals. `reorder_expression` looks at two levels of the tree at a time, and
  three operators give it every pair of neighbours on both levels. Each operand
  is another letter, so any wrong grouping or lost token shows.
- *Parsing*, files: each statement alone, each compound statement with and without braces
  and an else, each inside each other, else-if chains, switches in the cases, blocks,
  loops and else branches of other switches, and files of several declarations. One
  construct in another and one after it show a node left on, or missing from, the shared
  stack, and a list restored too early. The spoilt texts are four functions cut off
  anywhere, and with every one of their symbols and keywords lost, doubled or mistaken for
  another. `AllAccepted` and `ParsedAsWritten` are about the well-formed texts,
  `UnmatchedReported` about all.
- *CodegenBlocks*: every statement, every jump out of every loop, loops and switches two
  deep, forward and backward gotos; every operator over every pair of widths, and numbers
  with the suffix `L`; conditionals, && and ||, nested in each other and in every place of a
  statement that takes a condition; every assignment operator on locals, parameters and
  globals; shadowed names; pointers; several functions that share labels and globals. The
  contexts are a stack: two levels show a wrong pop. `MCBits` scales the widths to 1, 4, 6,
  8 and 12 bits (TLC's integers have 32): any width at least two bits above the next
  narrower one takes part in every widening, truncation and wrap-around of the code, and the
  constants of the programs lie on both sides of each boundary. Behaviour is compared over
  all 81 oracles of four answers out of 0, 1 and 2, which decide every branch of the
  programs both ways, up to `MaxTrace` = 9 events, which passes every loop twice; `MaxIdle`
  = 40 ends loops without events. A run of a function takes at most 2^`LogSteps` = 4096
  small steps, which none of them reaches.
- *DeclarationsTexts*: four constructs, nested three deep, over a one-byte and a
  four-byte type, names `S` and `T`; 4.2 million states. A definition after and
  between its uses, two definitions of one name, a struct in a struct, a global
  before a struct, a misuse of a union's name as a struct's, a variable combined with a
  union, and an else or a plain block in an if all fit into four.
- *DriverRuns*: two process ids, two runs each, so that a leftover of a killed run
  meets a later run of the same id while another run is under way; texts that each
  stage refuses; commands with a shared output, an output equal to the source, and
  none. 651,000 states. The proofs hold for any processes, texts, commands, disks and number of
  runs.

`CHECK_DEADLOCK FALSE` is said where a program ends: after the last token, or when every
allowed run is over. `MCVectorPass` stops when a failed assertion ends the process.
`CodegenBlocks` checks deadlock: a generator that has finished is the only state that
may stay as it is.

**Fairness.** The lexer and the parser are sequential programs that nothing but their own
steps can delay: `WF_vars(Next)` says that they go on. `Codegen` needs no fairness to
show that generation ends: `WorkShrinks` is a variant, a number that every step lowers,
and the deadlock check shows that there is always a next step.
In `Driver` each process is scheduled by the operating system: weak fairness per
process of its own steps, `Step(p)`, and none of `Start` or `Kill`, which nobody
owes. `llc` and `gcc` are assumed to return. `Vector` and `Declarations` state no
fairness: their properties are safety.

## Where the code departs from what it says

Six runs show a disagreement between the code and its comments or `README.md`; the
findings of `PROJECT.json` quote both. Others were met while modelling. The
properties named can be checked by giving the instance the input named:

- Expressions (`MCExprParser`; `CorrectGrouping`, `Accepted`): `a = b = c`
  (`ChainedAssignment`), `g() * e + f` (`CallFirst`) and `a = b, c`
  (`AssignmentThenComma`) are grouped wrongly; `a[e] + b` (`ElementThenOperator`) and
  `a +` (`MissingOperand`) make the parser take nodes that are not there. The two runs
  `ExprRepeated` and `ExprNegation` stand for the rest of their kind: any operator written
  twice in a row, and any prefix operator.
- Statements, as parsed (`StmtParser`; add the text to `Texts` of `MCStmtParser` and check
  `AllAccepted`, `UnmatchedReported` or `Terminates`): the value in `int y = 1, z = 2;`
  takes the comma, and with it the rest of the list, for its own operator
  (`parser_decl.cpp:157-190`); the name of a further declarator may be anything, so that
  `int a, ( ;` is accepted (`parser_decl.cpp:443`); an empty statement `;` makes
  `parse_expressionable_root` pop the node of the enclosing function, which then is its own
  statement and lost (`int f() { ; }` aborts); `x { }` at the top level is accepted and
  dropped; an operator at the top level is never taken, and the tree grows for ever
  (`parser_stmt.cpp:317`); a text cut off in a statement is a null dereference more often
  than an error; a declaration in a `for` header is an error; an `if` on the far side of an
  `else` is an else-if chain whether meant or not, which C does not tell apart. A function
  inside a function leaves `parser_current_function` null for the rest of the outer one; no
  text of the runs has one.
- Declarations (`LocalStructsStayLocal`): a struct defined in one function is found
  in the next, whose own definition of the name is dropped, since there is one symbol
  table (`cprocess.cpp:50`); `symresolver.cpp:27` says otherwise. Modelled, and outside
  the antecedents of the layout properties: a struct's first field starts after the
  last global before it (`parser_decl.cpp:112-115`); a struct in a body counts twice
  (`parser_body.cpp:20` adds an aligned size instead of assigning it); a field behind
  an array starts in it (`parser_decl.cpp:116` takes the size of one element); fields
  of a list leave their padding out of the size; a variable combined with a nested
  struct is put into the struct's scope, not the enclosing one; the declarators of
  `int a[3], b;` share their type, so `b` is an array. The variables of an else block
  (`parser_stmt.cpp:93`) and of a plain block (`parser_stmt.cpp:24`) are not in the
  function's stack size, as `parse_body` adds it under a flag that these two replace
  (`parser_body.cpp:181`), and those of a plain block are placed as globals, without
  padding; the code generator reads neither. A variable combined with a union gets no
  `union_node` (`parser_decl.cpp:350-362`; the struct sets its own at 304): its size in a
  body is that of an older definition of the name, or the parser crashes
  (`helper.cpp:50-51`). Blocks and ifs at the top level or in an aggregate, which the parser
  takes and C does not, are not modelled.
- Code generation (`MCCodegen`; give `Programs` the definition named, and check
  `SameBehaviour` or `Verified`): a label after a `return` is skipped with the other
  statements there (`codegen_stmt.cpp:26`), `LabelAfterReturn`; `&&` and `||` always
  evaluate their right operand (`codegen_expr.cpp:383`), `ShortCircuit`; a conditional
  whose operands differ in type converts them in the merge block, before the phi, which
  LLVM rejects (`codegen_expr.cpp:317-322`), `MixedTernary`; two chars are added in eight
  bits, `CharArithmetic`; a variable declared in a switch stays in scope behind it
  (`codegen_stmt.cpp:217`), `SwitchScope`; the initialiser of a global that is not a
  single number gives zero (`codegen_core.cpp:194`), `ComputedInitialiser`; a function
  met first in a call keeps the type `i32 (...)`, and its later definition binds no
  parameter (`codegen_toplevel.cpp:71`), `CalledBeforeDeclared`. Also: `ch /= 300`, `%=`
  and `>>=` convert the right operand to the type of the left one first; `return;` in a
  function with a result is `ret void`; an array in a function is a pointer that is never
  set, and every subscript counts bytes; a function defined twice gets a second
  entry block. `SourceMeaning` takes from the code what C leaves open: arguments from
  left to right, 0 where a function with a result ends without one.
- Lexer (`NothingReordered` on `DividedInputs`): from a string, a pushed-back character goes
  behind all others (`lexer.cpp:878`). `*=` is never one token although `op_valid` lists it
  (`lexer.cpp:335`): `op_treated_as_one` stops at the `*`, and the property says nothing of
  texts with that operator. Of C's assignment operators only `=`, `+=`, `-=` and `/=` leave
  the lexer; `expressionable.cpp:71` and the code generator know the others, which is why
  the models of the parser and the generator have them. A comment says that the body of an
  escape in a string is written without interpretation (`lexer.cpp:276-277`); the code
  interprets it (`lexer.cpp:289-300`), as C does, and it is C that the property compares
  with. In a character, `\"`, `\0` and `\r` give 0 (`lexer.cpp:606-616`), which is right of
  one of them only. A newline or a quote is accepted between quotes. `0 x` is glued to one
  number; the column is one off after a push-back; an unclosed string is accepted, and a
  backslash at its end adds the EOF.
- Driver: `compiler_error` exits with 255 where `main.cpp:16-18` names 0 and 1; a dot
  in a directory's name is taken for that of the extension (`main.cpp:45`).

## Proofs

Checked by TLAPS for every value of the constants.

**`VectorProofs`**, from `VectorAssumption`: the increment is positive, and the null pointer
and the content of an unwritten slot are not among the values stored. The containment
of writes (`NoOverrun`) is not inductive: a push does not look at the block's size but
at `mindex`. `Headroom` relates the two: the block has `mindex` slots, or one increment
more. `IInv == TypeOK /\ NoOverrun /\ Headroom` is inductive (`Headroom` is a definition
of the proofs, proved as `HeadroomKept`). `ResizeLemma` isolates
what a reallocation does; the cases of `Next` follow. `Refinement` maps the array to
`VectorContract`: the contents of the live slots are a sequence, a push appends to it
(also when it reallocates), a pop shortens it, and every read returns what the contract
says; each step of the array is one step of the contract, or none.

Its second part is about `MCVectorPass`, a caller that iterates, with pushes, reads and
failed reads between its peeks. What a pass has returned so far (`ForwardPass`,
`BackwardPass`) depends on where the one cursor stands, so the invariant adds `InPass`:
during a pass the direction has not been turned, the cursor is inside the vector, and a
backward pass has not met what was pushed after it began. `PassIsVector` shows that the
iterating caller takes only steps of the vector, which brings in everything above. Theorems:
`ForwardSeesAll`, `BackwardSeesAll`, for vectors of any length.

**`DriverProofs`**, from `DriverAssumption`: each stage's verdict is about texts the
stage before let through, and texts, programs, a missing and an empty file are told apart.
That a run reads its own temporary files is not inductive alone: it depends on how far
the run is and on what earlier runs of the same process id left. `Known(p)` says, for each
place of `main`: which of the two files the run has written (`Own`), that no file is of a
later run (`Age`), what was read when (`Stage`), which files are gone (`Clean`), and what
the exit code tells (`Told`). `Inv == TypeOK /\ \A p : Known(p)`. `OthersStill` shows that a
step of one process leaves the variables of the others alone; `StepKnown` does the
process that steps. Theorems: `TypeCorrect`, `IntermediatesPrivate`, `MainCleansUp`,
`KeepsContract`, the refinement of `CompilerContract` by any number of concurrent,
killed and repeated runs, and `SourceSurvives`: the name made by `replace_extension`
differs from the one given (`LastDot`, `DerivedDiffers`). The last assumes that names
are sequences of characters (`NameAssumption`).

**`LexerProofs`**, from `LexerAssumption`: no character of a text is the end of it. For
texts of any length over any characters. The readers look ahead by different numbers of
characters, and comments and operators push some back; `StepTakes` reduces each reader of
a file to one fact: a number of characters leaves the front, and the newlines among them
are counted. For that, every look ahead must end (`SpanIsNat`, `StringEnds`).
`Following`, that the rest is the end of the text and the line one more than the
newlines in front of it, follows by `TakesFollows`. Theorems: `ReadsInOrder`,
`LineCorrect`. They are about files only: on a string the push-back goes behind the rest,
so the text is read out of order, and `LineKept` is only model-checked there. What holds
of a string too is about lengths: `Counted` says that open expressions and characters left
together are no more than the text, which is what bounds the count of brackets, that each
token has a type, and that lines and columns start at one. `TypesKept` follows, and
`EveryStepReads`: a step takes at least one character or is the last, whatever it pushes
back. That is the safety half of `Terminates`; that the steps are taken is fairness.

**`ParserProofs`**, from `InputsAssumption` and `TextsAssumption`: texts and node stacks are
sequences. For every text, well formed or not, of any length and over any tokens, and for
whatever `reorder_expression` answers. The methods share one node stack and one pointer to a
case list, and each relies on what others leave there. Neither that a method finds what it
waits for (`ResultFound`) nor that the pointer is that of the innermost switch
(`CaseListOpen`) is inductive: what is found depends on which method returns, and what the
pointer is restored to on what was put aside, perhaps long ago. `ParserInv` therefore says
of the whole call stack:

- `Calls`: which method may be pending right above which. One that waits for a body has
  called `parse_body`, one that waits for an expression `parse_expressionable_root`, so that
  what returns to it has left what it takes.
- `IfAfterElse`: `parse_keyword`, called for an `else if`, is at the `if`. Without it any
  other keyword statement could return to `parse_else_or_else_if`, which takes it for an IF.
- `OwnList`: the pointer is to the list of the innermost pending switch, and what each
  pending switch has put aside is that of the one around it.
- the fields of the frames that a later step updates (`Shaped`), and the types; the cursor
  in particular never passes the end, although every method looks ahead.

Theorems: `Invariance`, `CaseListStaysOpen`, `ResultsAreFound`, `ParserTypes` (which is
`ParserTypeOK`) and, as an action property, `CasesRecorded`: an accepted case goes to the
list of the innermost switch, and nothing else touches the list of a pending one
(`CaseRecorded`; `OnTop` and the lemmas after it show that no other method changes a
frame of its callers). `ResultFound` is weaker where an expression is expected: a node is
there, but where the operand is missing, or the whole expression, it is another method's
(see above). That it is the right one holds of well-formed texts only and is model-checked
(`OperandsInPlace`, `StackInStep`).

**`DeclarationsProofs`**, from `DeclarationsAssumption`: primitive types have a positive
size and are not names of structs, and a list of declarators is not empty. For texts of
any length. `BaseInv` has three parts. `Typed` is the types. `Refers` says that what one
table says of another is there: the entities of a scope, what a body holds and what a
fixup waits for are variables declared before, a type's node and the symbols are structs
that were read. `ScopesNest` is the checked property: which scope belongs to which open
body. Each needs the others: a closing body takes the entities of its scope, which is its
own only if scopes nest. `Waiting` is what makes the fixups sufficient: a variable whose
struct is unknown has a fixup that is not resolved, and every other variable of a struct's
name has the node that the symbol table has under it. Fixups run after the last construct,
when the table no longer changes, so `done` leaves none waiting. Theorems: `Base`,
`TypesCorrect`, `ScopesPaired`, `Waits`, `ForwardReferencesFixed`, `NamesMeanOneType`.
Sums over lists are recursive functions, reasoned about by the smallest place where a
claim would fail (`WFMin`), as the library's induction theorems cannot be used.

**`LayoutProofs`** extends it with what the sizes are for. A fixup changes a variable's type
after it was laid out, so the first fact is `Settled`: nothing that a body, a struct or a
function holds has a fixup (`StepSteady` then says that a step leaves it as it is). `Roomy`
says that the size of an open body and of a function's stack covers what is held in it;
`Flagged`, that a body in a function with no else and no plain block in it adds to that
function and not to a struct. `Housed`, their conjunction, gives `StackHoldsLocals`.
`Fielded` says of an open struct what the properties say of a closed one, and what the code
keeps to get there (`Laid`): the entities of its scope rise, each begins where the one
before ended or behind it, after its padding; whatever else the struct holds is combined
with a nested one; sizes and paddings together reach the end of the last field. Theorems:
`AllHoused`, `LocalsOnStack`, `AllLaid`, `FieldsKeptApart`, `FieldsFit`.

**`CodegenProofs`**, from `ProgramsAssumption`: lists of parameters are sequences, and a
global has a type the generator knows. Statement methods push and pop the loop contexts
and scopes by hand around calls that may return early. `Balanced` says which calls can be
pending below which, and that there are as many contexts as pending loops and switches and
as many scopes as pending bodies. `NestInv` adds that no goto waits outside a function.
Theorem `Nesting`: for any programs, and whatever is generated for expressions.

**`BlockProofs`**, from the same and `BitsAssumption` (the types of the IR have widths),
is about basic blocks, and there the statements depend on the expressions among them.
What they need is `GoesOn`, in two parts:

- `ExpressionsSettle`: the code of an expression that the running method is about to
  generate only adds blocks, ends in a block of the function, and leaves no block open
  but that one and those open before.
- `CasesGoOn`: a statement of a case begins in the block where the one before it ended.

`BlockInv` says that insertion block, contexts, labels, pending gotos and the locals of
pending calls are blocks of the function; `OpenInv`, that every block without a terminator
is the insertion block or held by a pending call that will yet move there, and that what
pending calls hold so is open. `BlocksClosed` proves `NoOpenBlockAbandoned` for every
program in whose generation `GoesOn` holds throughout, `Types` proves `TypeOK` where
`ExpressionsSettle` does. Both hypotheses are statements about the code, and
`CodegenBlocks` checks them of `gen_node` on all its programs. `CasesGoOn` fails where a
statement of a case follows one that made blocks of its own, an `if` or a conditional:
that is the finding of `CodegenIfInCase`. That every expression settles is not proved:
`gen_node` is recursive over trees.

**Model-checked only.**

- Liveness (`Terminates`, `EveryRunEnds`), which needs fairness and ENABLED.
- What is defined by recursion over trees or texts, for which TLAPS has neither a backend nor
  induction: `TokensAreLexemes` (`CLexemes`); `RegularGrouped` and `TokensKept`, which are
  about what `reorder_expression` computes (`ExprReorder`); `CasesOfOwnSwitch`, which compares
  a list with the labels in a body; `Verified` and `SameBehaviour` (`Verifier`,
  `SourceMeaning`), and that `gen_node` settles, `GoesOn` (`ExprCodegen`).
- What is said of well-formed texts only, sets of texts that `MCStmtParser` and `MCExprParser`
  put together: `AllAccepted`, `ParsedAsWritten`, `OperandsInPlace`, `StackInStep`; and
  `UnmatchedReported`, which does not hold of every text (`int a, ( ;` is accepted).
- `WorkShrinks`: the work left is the size of the trees still to be generated, a recursion
  over them.
- `LineKept` on strings.

## Not modelled

- *Vector*: `vector_insert`, `push_at`, `pop_at`, `peek_ptr_at`, save and restore, clone,
  reading from a file. No stage of the compiler calls them, so no state of the program
  contains their effects. From reading only, no run being about them: `vector_peek_ptr_at`
  with `count` answers a slot behind the last element, where `vector.cpp:272` promises
  null; `vector_restore` puts back a data pointer that a push since `vector_save` may have
  freed; and `vector_shift_right_in_bounds_no_increment` makes room up to index and
  amount where what it moves ends at count and amount (`vector.cpp:405`).
- *Buffer*: growth and `buffer_printf`, which the lexer's string source does not use.
- *Types*: the keywords a type is written with, floating point, anonymous aggregates, more
  than one array dimension, variadic arguments, `sizeof`, member access. In `StmtParser`
  pointers, arrays and structs, which are in `Declarations`.
- *Code generation*: floats (and the suffix `f`), strings and structs as values; the suffix
  `L` is modelled (`LongNumber`), but not as a `case`, where an `i64` label would be
  added to an `i32` switch (`codegen_stmt.cpp:232-234`); `gen_prefix` and `gen_postfix`
  (no tree of the parser reaches them), the text of the module.
- Printing, `compiler_warning`, freeing; `llc`, `gcc`, LLVM and the file system beyond
  what the driver uses of them. `parser.cpp` and `parser.hpp` both declare the class
  whose methods the other files define; their entry point is part of `Driver`.

The parser and the code generator are checked apart. The trees that `MCCodegen` generates
from are those `MCStmtParser` shows the parser to build, node for node (`StmtTree` is
shared), save that a declaration carries its type; their composition, one text from
characters to blocks, would multiply the bounds and is not checked.

## Plan

What is left, in this order:

1. *Proofs*: that well-formed texts keep the node stack in step with the tree
   (`StackInStep`), on the ground of `ParserInv`; it needs the grammar as a condition on
   tokens and call stacks, where `MCStmtParser` has sets of texts.
2. *Types*: `parse_datatype` on the keywords, with the flags it sets and never sets.
3. *Composition*: lexer and parser on one text, over the tokens' positions.
