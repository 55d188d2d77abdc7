-------------------------------- MODULE Driver --------------------------------
(***************************************************************************)
(* The command 1337cc: main of src/cpp/main.cpp and compile_file of        *)
(* src/cpp/compiler.cpp, run by any number of processes that share a file  *)
(* system, may be killed between any two steps, and may get the process    *)
(* id, so the names of the temporary files, of an earlier process.         *)
(*                                                                         *)
(* What a stage does with a text is its verdict: the lexer and the parser  *)
(* end the process on a text they refuse, the code generator never refuses *)
(* one.  llc, gcc and the file system are external.                        *)
(***************************************************************************)
EXTENDS Integers, Sequences

CONSTANTS Proc,         \* process ids
          Commands,     \* argument vectors after argv[0], sequences of paths
          Text,         \* source texts
          Lexable,      \* the texts the lexer gets through,
          Parsable,     \* the parser builds a tree of,
          Valid,        \* codegen emits IR for that llc accepts,
          Linkable,     \* gcc links into a program
          Disks,        \* contents the users' files may have at first
          Absent,       \* a file that does not exist
          Empty,        \* a file created and not written
          MaxRuns       \* model bound: runs of one process id

VARIABLES files,        \* the users' files
          ll, asm,      \* /tmp/1337cc_<pid>.ll and .s
          pc,           \* where main is
          argv,         \* the arguments
          taken,        \* the source as read
          link_res,     \* "none", "ok" or "failed"
          code,         \* exit code
          runs          \* how many runs had this process id, this one included

vars == <<files, ll, asm, pc, argv, taken, link_res, code, runs>>

-----------------------------------------------------------------------------
(* A path is the sequence of its name parts, dots and slashes.             *)

Dots(path) == {i \in DOMAIN path : path[i] = "."}
LastOf(S) == CHOOSE i \in S : \A j \in S : j <= i
FirstOf(S) == CHOOSE i \in S : \A j \in S : i <= j

\* Mutant: the dot is looked for, and the name not cut.
DerivedUncut(path) == path

\* strrchr(derived_out, '.') cuts at the last dot of the path.
Derived(path) ==
    IF Dots(path) = {} THEN path ELSE SubSeq(path, 1, LastOf(Dots(path)) - 1)

\* -o counts only where an argument follows it, and the first one wins.
Options(args) == {i \in 2 .. Len(args) - 1 : args[i] = <<"-o">>}

InputOf(args) == args[1]
OutputOf(args) ==
    IF Options(args) = {} THEN Derived(args[1]) ELSE args[FirstOf(Options(args)) + 1]

Path == UNION {{InputOf(c), OutputOf(c)} : c \in Commands \ {<<>>}}

\* gcc cannot create "", "." or a directory.
Creatable(path) == path # <<>> /\ path[Len(path)] \notin {".", "/"}

Program(t) == [program |-> t]
Content == Text \cup {Program(t) : t \in Text} \cup {Absent}

\* A name is a sequence of characters.
ASSUME NameAssumption == \A c \in Commands \ {<<>>} : InputOf(c) \in Seq(STRING)

ASSUME DriverAssumption ==
    /\ MaxRuns \in Nat
    /\ Disks \subseteq [Path -> Content]
    /\ Linkable \subseteq Valid
    /\ Valid \subseteq Parsable
    /\ Parsable \subseteq Lexable
    /\ Lexable \subseteq Text
    /\ \A t \in Text : Program(t) \notin Text \cup {Absent}
    /\ Absent \notin Text
    /\ Empty \notin Content

\* A temporary file of process id p: who wrote it, and of what.
Intermediate == [run : 1 .. MaxRuns, of : Content \cup {Empty}] \cup {Absent}
Temp(p, c) == [run |-> runs[p], of |-> c]

\* The temporary file name is made of the process id.
TempOwner(p) == p

-----------------------------------------------------------------------------
Alive(p) == pc[p] \notin {"idle", "exited"}

Init == /\ files \in Disks
        /\ ll = [p \in Proc |-> Absent]
        /\ asm = [p \in Proc |-> Absent]
        /\ pc = [p \in Proc |-> "idle"]
        /\ argv = [p \in Proc |-> <<>>]
        /\ taken = [p \in Proc |-> Absent]
        /\ link_res = [p \in Proc |-> "none"]
        /\ code = [p \in Proc |-> 0]
        /\ runs = [p \in Proc |-> 0]

At(p, where) == pc[p] = where
Goto(p, where) == pc' = [pc EXCEPT ![p] = where]

\* The process ends; its temporary files stay as they are.
Exit(p, n) ==
    /\ Goto(p, "exited")
    /\ code' = [code EXCEPT ![p] = n]

Start(p) ==
    /\ ~Alive(p)
    /\ runs[p] < MaxRuns
    /\ \E c \in Commands : argv' = [argv EXCEPT ![p] = c]
    /\ runs' = [runs EXCEPT ![p] = @ + 1]
    /\ taken' = [taken EXCEPT ![p] = Absent]
    /\ link_res' = [link_res EXCEPT ![p] = "none"]
    /\ Goto(p, "main")
    /\ UNCHANGED <<files, ll, asm, code>>

\* Mutant: the usage message is printed and main goes on.
UsageGoesOn(p) ==
    /\ At(p, "main")
    /\ argv[p] = <<>>
    /\ Goto(p, "lex")
    /\ UNCHANGED <<files, ll, asm, argv, taken, link_res, code, runs>>

Usage(p) ==
    /\ At(p, "main")
    /\ argv[p] = <<>>
    /\ Exit(p, 1)
    /\ UNCHANGED <<files, ll, asm, argv, taken, link_res, runs>>

\* compile_process_create opens the source, then creates tmp_ll.
Create(p) ==
    /\ At(p, "main")
    /\ argv[p] # <<>>
    /\ files[InputOf(argv[p])] # Absent
    /\ ll' = [ll EXCEPT ![TempOwner(p)] = Temp(p, Empty)]
    /\ Goto(p, "lex")
    /\ UNCHANGED <<files, asm, argv, taken, link_res, code, runs>>

\* Either of the two cannot be opened.
CreateFails(p) ==
    /\ At(p, "main")
    /\ argv[p] # <<>>
    /\ Goto(p, "failed")
    /\ UNCHANGED <<files, ll, asm, argv, taken, link_res, code, runs>>

\* The whole source is read before the parser starts.
Lex(p) ==
    /\ At(p, "lex")
    /\ files[InputOf(argv[p])] \in Lexable
    /\ taken' = [taken EXCEPT ![p] = files[InputOf(argv[p])]]
    /\ Goto(p, "parse")
    /\ UNCHANGED <<files, ll, asm, argv, link_res, code, runs>>

\* compiler_error is exit(-1), a failed assertion a signal.
LexError(p) ==
    /\ At(p, "lex")
    /\ files[InputOf(argv[p])] \notin Lexable
    /\ \E n \in {255, 134} : Exit(p, n)
    /\ UNCHANGED <<files, ll, asm, argv, taken, link_res, runs>>

Parse(p) ==
    /\ At(p, "parse")
    /\ taken[p] \in Parsable
    /\ Goto(p, "codegen")
    /\ UNCHANGED <<files, ll, asm, argv, taken, link_res, code, runs>>

ParseError(p) ==
    /\ At(p, "parse")
    /\ taken[p] \notin Parsable
    /\ \E n \in {255, 134} : Exit(p, n)
    /\ UNCHANGED <<files, ll, asm, argv, taken, link_res, runs>>

\* A module that does not verify is printed like any other.
Generate(p) ==
    /\ At(p, "codegen")
    /\ ll' = [ll EXCEPT ![TempOwner(p)] = Temp(p, taken[p])]
    /\ Goto(p, "llc")
    /\ UNCHANGED <<files, asm, argv, taken, link_res, code, runs>>

\* llc ... && gcc ...: gcc runs only if llc wrote the assembly.
Assemble(p) ==
    /\ At(p, "llc")
    /\ ll[TempOwner(p)].of \in Valid
    /\ asm' = [asm EXCEPT ![TempOwner(p)] = Temp(p, ll[TempOwner(p)].of)]
    /\ Goto(p, "gcc")
    /\ UNCHANGED <<files, ll, argv, taken, link_res, code, runs>>

\* Mutant: `;` for `&&` in the command.
AssembleFailsAndLinks(p) ==
    /\ At(p, "llc")
    /\ ll[TempOwner(p)].of \notin Valid
    /\ Goto(p, "gcc")
    /\ UNCHANGED <<files, ll, asm, argv, taken, link_res, code, runs>>

AssembleFails(p) ==
    /\ At(p, "llc")
    /\ ll[TempOwner(p)].of \notin Valid
    /\ link_res' = [link_res EXCEPT ![p] = "failed"]
    /\ Goto(p, "unlink_ll")
    /\ UNCHANGED <<files, ll, asm, argv, taken, code, runs>>

Link(p) ==
    /\ At(p, "gcc")
    /\ asm[TempOwner(p)].of \in Linkable
    /\ Creatable(OutputOf(argv[p]))
    /\ files' = [files EXCEPT ![OutputOf(argv[p])] = Program(asm[TempOwner(p)].of)]
    /\ link_res' = [link_res EXCEPT ![p] = "ok"]
    /\ Goto(p, "unlink_ll")
    /\ UNCHANGED <<ll, asm, argv, taken, code, runs>>

\* Mutant: the answer of system() is not looked at.
LinkFailsUnnoticed(p) ==
    /\ At(p, "gcc")
    /\ link_res' = [link_res EXCEPT ![p] = "ok"]
    /\ Goto(p, "unlink_ll")
    /\ UNCHANGED <<files, ll, asm, argv, taken, code, runs>>

\* Mutant: a failed link is tried again.
LinkFailsRetried(p) ==
    /\ At(p, "gcc")
    /\ Goto(p, "llc")
    /\ UNCHANGED <<files, ll, asm, argv, taken, link_res, code, runs>>

\* gcc may fail on any input: a symbol is undefined, the disk is full.
LinkFails(p) ==
    /\ At(p, "gcc")
    /\ link_res' = [link_res EXCEPT ![p] = "failed"]
    /\ Goto(p, "unlink_ll")
    /\ UNCHANGED <<files, ll, asm, argv, taken, code, runs>>

\* Mutant: unlink(tmp_ll) is forgotten after linking.
UnlinkIRForgotten(p) ==
    /\ At(p, "unlink_ll")
    /\ Goto(p, "unlink_s")
    /\ UNCHANGED <<files, ll, asm, argv, taken, link_res, code, runs>>

UnlinkIR(p) ==
    /\ At(p, "unlink_ll")
    /\ ll' = [ll EXCEPT ![TempOwner(p)] = Absent]
    /\ Goto(p, "unlink_s")
    /\ UNCHANGED <<files, asm, argv, taken, link_res, code, runs>>

UnlinkAssembly(p) ==
    /\ At(p, "unlink_s")
    /\ asm' = [asm EXCEPT ![TempOwner(p)] = Absent]
    /\ Exit(p, IF link_res[p] = "ok" THEN 0 ELSE 1)
    /\ UNCHANGED <<files, ll, argv, taken, link_res, runs>>

\* compile_file failed: main removes tmp_ll and returns 1.
ReportFailure(p) ==
    /\ At(p, "failed")
    /\ ll' = [ll EXCEPT ![TempOwner(p)] = Absent]
    /\ Exit(p, 1)
    /\ UNCHANGED <<files, asm, argv, taken, link_res, runs>>

\* The process and its children are killed.
Kill(p) ==
    /\ Alive(p)
    /\ Exit(p, 137)
    /\ UNCHANGED <<files, ll, asm, argv, taken, link_res, runs>>

Step(p) == \/ Usage(p) \/ Create(p) \/ CreateFails(p)
           \/ Lex(p) \/ LexError(p) \/ Parse(p) \/ ParseError(p)
           \/ Generate(p) \/ Assemble(p) \/ AssembleFails(p)
           \/ Link(p) \/ LinkFails(p) \/ UnlinkIR(p) \/ UnlinkAssembly(p)
           \/ ReportFailure(p)

Next == \E p \in Proc : Start(p) \/ Step(p) \/ Kill(p)

\* The operating system runs every process.
Spec == Init /\ [][Next]_vars /\ \A p \in Proc : WF_vars(Step(p))

-----------------------------------------------------------------------------
(* Properties                                                              *)

Stages == {"idle", "main", "failed", "lex", "parse", "codegen", "llc", "gcc",
           "unlink_ll", "unlink_s", "exited"}

\* A process that runs is counted, and past its arguments it has some.
Equipped(p) == /\ Alive(p) => runs[p] # 0
               /\ pc[p] \notin {"idle", "main", "exited"} => argv[p] # <<>>

\* Types of the variables.
TypeOK ==
    /\ files \in [Path -> Content]
    /\ ll \in [Proc -> Intermediate]
    /\ asm \in [Proc -> Intermediate]
    /\ pc \in [Proc -> Stages]
    /\ argv \in [Proc -> Commands \cup {<<>>}]
    /\ taken \in [Proc -> Content]
    /\ link_res \in [Proc -> {"none", "ok", "failed"}]
    /\ code \in [Proc -> {0, 1, 134, 137, 255}]
    /\ runs \in [Proc -> 0 .. MaxRuns]
    /\ \A p \in Proc : Equipped(p)

\* llc reads the IR, and gcc the assembly, that this very run made of the text
\* it read: not that of another process, nor what a killed run with the same
\* process id left in /tmp.
OwnIntermediates == \A p \in Proc :
    /\ At(p, "llc") => ll[p] = Temp(p, taken[p])
    /\ At(p, "gcc") => asm[p] = Temp(p, taken[p])

\* A run that returns from main has removed every temporary file it created.
NothingLeftByMain == \A p \in Proc :
    At(p, "exited") /\ code[p] \in {0, 1} =>
        \A f \in {ll[p], asm[p]} : f # Absent => f.run # runs[p]

\* The output name main derives is never that of the source it is derived from:
\* a source that has an extension survives its own linking.
OwnSourceKept == [][\A p \in Proc :
    /\ Link(p)
    /\ Options(argv[p]) = {}
    /\ Dots(InputOf(argv[p])) # {}
    => files'[InputOf(argv[p])] = files[InputOf(argv[p])]]_vars

\* Every run on a text comes to an end, given that each stage does (that the
\* parser does not on some texts is shown in ExprParser).
EveryRunEnds == \A p \in Proc : At(p, "main") ~> At(p, "exited")

RequestOf(args) ==
    IF args = <<>> THEN [given |-> FALSE, source |-> <<>>, target |-> <<>>]
    ELSE [given |-> TRUE, source |-> InputOf(args), target |-> OutputOf(args)]

JobOf(p) ==
    CASE At(p, "idle") -> "idle"
      [] Alive(p) -> IF link_res[p] = "ok" THEN "built" ELSE "working"
      [] At(p, "exited") /\ code[p] = 0 -> "succeeded"
      [] At(p, "exited") /\ code[p] = 137 -> "killed"
      [] OTHER -> "failed"

Contract == INSTANCE CompilerContract WITH
    Request <- {RequestOf(c) : c \in Commands \cup {<<>>}},
    NoRequest <- RequestOf(<<>>),
    Compilable <- Linkable,
    request <- [p \in Proc |-> RequestOf(argv[p])],
    job <- [p \in Proc |-> JobOf(p)]

\* The command keeps its contract: an output changes once, to the program of the
\* text that was read, and exit code 0 says that it did.
ImplementsContract == Contract!CInit(Disks) /\ Contract!CSteps

-----------------------------------------------------------------------------
(* What main.cpp and README.md say, and the code does not keep.            *)

\* README.md: the intermediate files are deleted automatically after each run.
TempFilesDeleted == \A p \in Proc :
    At(p, "exited") /\ code[p] # 137 =>
        \A f \in {ll[p], asm[p]} : f # Absent => f.run # runs[p]
=============================================================================
