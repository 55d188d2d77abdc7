----------------------------- MODULE DriverProofs -----------------------------
(***************************************************************************)
(* Proofs about Driver, for any set of process ids, commands and texts:    *)
(* its temporary files are private to a run in spite of reused process     *)
(* ids, a run that returns from main leaves none, and the command keeps    *)
(* CompilerContract.                                                       *)
(*                                                                         *)
(* The invariant Inv adds to the properties what a run knows about its     *)
(* variables at each stage.  One lemma per group of facts about one        *)
(* process shows that a step of another process does not matter.           *)
(***************************************************************************)
EXTENDS Driver, WellFoundedInduction, TLAPS

\* What a process knows at each stage.
Stage(p) ==
    /\ pc[p] \in {"main", "failed", "lex", "parse", "codegen", "llc", "gcc"} =>
            link_res[p] = "none"
    /\ pc[p] \in {"main", "failed", "lex"} => taken[p] = Absent
    /\ pc[p] \in {"parse", "codegen", "llc", "gcc"} => taken[p] \in Text

\* Of which run the temporary files of a process id can be.
Age(p) ==
    /\ ll[p] # Absent => ll[p].run <= runs[p]
    /\ asm[p] # Absent => asm[p].run <= runs[p]
    /\ pc[p] \in {"main", "failed"} => (ll[p] # Absent => ll[p].run < runs[p])
    /\ pc[p] \in {"main", "failed", "lex", "parse", "codegen", "llc"} =>
            (asm[p] # Absent => asm[p].run < runs[p])
    /\ pc[p] = "unlink_s" => ll[p] = Absent

Own(p) == /\ At(p, "llc") => ll[p] = Temp(p, taken[p])
          /\ At(p, "gcc") => asm[p] = Temp(p, taken[p])

Clean(p) == At(p, "exited") /\ code[p] \in {0, 1} =>
                \A f \in {ll[p], asm[p]} : f # Absent => f.run # runs[p]

\* The exit code tells whether the program was linked.
Told(p) == /\ At(p, "exited") /\ code[p] = 0 => link_res[p] = "ok"
           /\ At(p, "exited") /\ link_res[p] = "ok" => code[p] \in {0, 137}

Known(p) == Stage(p) /\ Age(p) /\ Own(p) /\ Clean(p) /\ Told(p)

Inv == TypeOK /\ \A p \in Proc : Known(p)

-----------------------------------------------------------------------------
\* What the contents of files can be.
LEMMA ContentFacts ==
    /\ Absent \in Content
    /\ \A t \in Text : t \in Content /\ Program(t) \in Content
    /\ \A r \in 1 .. MaxRuns, c \in Content \cup {Empty} :
            [run |-> r, of |-> c] \in Intermediate
    /\ Absent \in Intermediate
    /\ \A f \in Intermediate :
            f # Absent => /\ f.run \in 1 .. MaxRuns
                          /\ f.of \in Content \cup {Empty}
  BY DEF Content, Intermediate

\* The names on a command line are paths.
LEMMA PathFacts ==
    \A c \in Commands \ {<<>>} : InputOf(c) \in Path /\ OutputOf(c) \in Path
  BY DEF Path

\* Initially nobody has run and there is no temporary file.
LEMMA InitInv == Init => Inv
<1> SUFFICES ASSUME Init PROVE Inv
  OBVIOUS
<1> USE DEF Init
<1>1. TypeOK
  <2>1. \A p \in Proc : Equipped(p)
    BY DEF Equipped, Alive
  <2>2. files \in [Path -> Content] /\ runs \in [Proc -> 0 .. MaxRuns]
    BY DriverAssumption
  <2>3. ll \in [Proc -> Intermediate] /\ asm \in [Proc -> Intermediate]
    BY ContentFacts
  <2>4. taken \in [Proc -> Content]
    BY ContentFacts
  <2> QED
    BY <2>1, <2>2, <2>3, <2>4 DEF TypeOK, Stages
<1>2. \A p \in Proc : Known(p)
  BY DriverAssumption, ContentFacts DEF Known, Stage, Age, Own, Clean, Told, At
<1> QED
  BY <1>1, <1>2 DEF Inv

-----------------------------------------------------------------------------
\* What a run in progress writes to a temporary file is one.
LEMMA TempFacts ==
    TypeOK => \A p \in Proc : Alive(p) =>
                \A c \in Content \cup {Empty} : Temp(p, c) \in Intermediate
  BY DriverAssumption, ContentFacts, SMTT(40) DEF TypeOK, Equipped, Temp

\* Every step preserves the types.
LEMMA TypeInv == TypeOK /\ [Next]_vars => TypeOK'
<1> SUFFICES ASSUME TypeOK, [Next]_vars PROVE TypeOK'
  OBVIOUS
<1>1. CASE UNCHANGED vars
  BY <1>1 DEF vars, TypeOK, Equipped, Alive
<1>2. ASSUME NEW p \in Proc, Start(p) \/ Step(p) \/ Kill(p)
      PROVE  TypeOK'
  <2>1. CASE Start(p)
    <3>1. \A q \in Proc : Equipped(q)'
      BY <2>1 DEF TypeOK, Equipped, Alive, At, Start, Goto
    <3>2. taken' \in [Proc -> Content]
      BY <2>1, ContentFacts DEF TypeOK, Start
    <3>3. runs' \in [Proc -> 0 .. MaxRuns]
      BY <2>1, DriverAssumption DEF TypeOK, Start
    <3> QED
      BY <2>1, <3>1, <3>2, <3>3 DEF TypeOK, Stages, Start, Goto
  <2>2. CASE Usage(p)
    <3>1. \A q \in Proc : Equipped(q)'
      BY <2>2 DEF TypeOK, Equipped, Alive, At, Usage, Goto, Exit
    <3> QED
      BY <2>2, <3>1 DEF TypeOK, Stages, Usage, Goto, Exit
  <2>3. CASE Create(p)
    <3>1. \A q \in Proc : Equipped(q)'
      BY <2>3 DEF TypeOK, Equipped, Alive, At, Create, Goto
    <3>2. Temp(p, Empty) \in Intermediate
      BY <2>3, TempFacts DEF Create, Alive, At
    <3> QED
      BY <2>3, <3>1, <3>2 DEF TypeOK, Stages, Create, Goto, TempOwner
  <2>4. CASE CreateFails(p)
    <3>1. \A q \in Proc : Equipped(q)'
      BY <2>4 DEF TypeOK, Equipped, Alive, At, CreateFails, Goto
    <3> QED
      BY <2>4, <3>1 DEF TypeOK, Stages, CreateFails, Goto
  <2>5. CASE Lex(p)
    <3>1. \A q \in Proc : Equipped(q)'
      BY <2>5 DEF TypeOK, Equipped, Alive, At, Lex, Goto
    <3>2. files[InputOf(argv[p])] \in Content
      BY <2>5, DriverAssumption, ContentFacts DEF Lex
    <3>3. taken' \in [Proc -> Content]
      BY <2>5, <3>2 DEF TypeOK, Lex
    <3> QED
      BY <2>5, <3>1, <3>2, <3>3 DEF TypeOK, Stages, Lex, Goto
  <2>6. CASE LexError(p)
    <3>1. \A q \in Proc : Equipped(q)'
      BY <2>6 DEF TypeOK, Equipped, Alive, At, LexError, Goto, Exit
    <3> QED
      BY <2>6, <3>1 DEF TypeOK, Stages, LexError, Goto, Exit
  <2>7. CASE Parse(p)
    <3>1. \A q \in Proc : Equipped(q)'
      BY <2>7 DEF TypeOK, Equipped, Alive, At, Parse, Goto
    <3> QED
      BY <2>7, <3>1 DEF TypeOK, Stages, Parse, Goto
  <2>8. CASE ParseError(p)
    <3>1. \A q \in Proc : Equipped(q)'
      BY <2>8 DEF TypeOK, Equipped, Alive, At, ParseError, Goto, Exit
    <3> QED
      BY <2>8, <3>1 DEF TypeOK, Stages, ParseError, Goto, Exit
  <2>9. CASE Generate(p)
    <3>1. \A q \in Proc : Equipped(q)'
      BY <2>9 DEF TypeOK, Equipped, Alive, At, Generate, Goto
    <3>2. taken[p] \in Content
      BY DEF TypeOK
    <3>3. Temp(p, taken[p]) \in Intermediate
      BY <2>9, <3>2, TempFacts DEF Generate, Alive, At
    <3> QED
      BY <2>9, <3>1, <3>2, <3>3 DEF TypeOK, Stages, Generate, Goto, TempOwner
  <2>10. CASE Assemble(p)
    <3>1. \A q \in Proc : Equipped(q)'
      BY <2>10 DEF TypeOK, Equipped, Alive, At, Assemble, Goto
    <3>2. ll[p].of \in Content
      BY <2>10, DriverAssumption, ContentFacts DEF Assemble, TempOwner
    <3>3. Temp(p, ll[p].of) \in Intermediate
      BY <2>10, <3>2, TempFacts DEF Assemble, Alive, At
    <3>4. asm' \in [Proc -> Intermediate]
      BY <2>10, <3>3 DEF TypeOK, Assemble, TempOwner
    <3> QED
      BY <2>10, <3>1, <3>2, <3>3, <3>4 DEF TypeOK, Stages, Assemble, Goto, TempOwner
  <2>11. CASE AssembleFails(p)
    <3>1. \A q \in Proc : Equipped(q)'
      BY <2>11 DEF TypeOK, Equipped, Alive, At, AssembleFails, Goto
    <3> QED
      BY <2>11, <3>1 DEF TypeOK, Stages, AssembleFails, Goto, TempOwner
  <2>12. CASE Link(p)
    <3>1. \A q \in Proc : Equipped(q)'
      BY <2>12 DEF TypeOK, Equipped, Alive, At, Link, Goto
    <3>2. Program(asm[p].of) \in Content
      BY <2>12, DriverAssumption, ContentFacts DEF Link, TempOwner
    <3>3. files' \in [Path -> Content]
      BY <2>12, <3>2 DEF TypeOK, Link, TempOwner
    <3> QED
      BY <2>12, <3>1, <3>2, <3>3 DEF TypeOK, Stages, Link, Goto, TempOwner
  <2>13. CASE LinkFails(p)
    <3>1. \A q \in Proc : Equipped(q)'
      BY <2>13 DEF TypeOK, Equipped, Alive, At, LinkFails, Goto
    <3> QED
      BY <2>13, <3>1 DEF TypeOK, Stages, LinkFails, Goto
  <2>14. CASE UnlinkIR(p)
    <3>1. \A q \in Proc : Equipped(q)'
      BY <2>14 DEF TypeOK, Equipped, Alive, At, UnlinkIR, Goto
    <3>2. Absent \in Intermediate
      BY ContentFacts
    <3> QED
      BY <2>14, <3>1, <3>2 DEF TypeOK, Stages, UnlinkIR, Goto, TempOwner
  <2>15. CASE UnlinkAssembly(p)
    <3>1. \A q \in Proc : Equipped(q)'
      BY <2>15 DEF TypeOK, Equipped, Alive, At, UnlinkAssembly, Goto, Exit
    <3>2. Absent \in Intermediate
      BY ContentFacts
    <3> QED
      BY <2>15, <3>1, <3>2 DEF TypeOK, Stages, UnlinkAssembly, Goto, Exit, TempOwner
  <2>16. CASE ReportFailure(p)
    <3>1. \A q \in Proc : Equipped(q)'
      BY <2>16 DEF TypeOK, Equipped, Alive, At, ReportFailure, Goto, Exit
    <3>2. Absent \in Intermediate
      BY ContentFacts
    <3> QED
      BY <2>16, <3>1, <3>2 DEF TypeOK, Stages, ReportFailure, Goto, Exit, TempOwner
  <2>17. CASE Kill(p)
    <3>1. \A q \in Proc : Equipped(q)'
      BY <2>17 DEF TypeOK, Equipped, Alive, At, Kill, Goto, Exit
    <3> QED
      BY <2>17, <3>1 DEF TypeOK, Stages, Kill, Goto, Exit
  <2> QED
    BY <1>2, <2>1, <2>2, <2>3, <2>4, <2>5, <2>6, <2>7, <2>8, <2>9, <2>10, <2>11, <2>12, <2>13, <2>14, <2>15, <2>16, <2>17 DEF Step
<1> QED
  BY <1>1, <1>2 DEF Next

-----------------------------------------------------------------------------
\* The variables of one process do not change.
Still(p) ==
    /\ pc'[p] = pc[p] /\ taken'[p] = taken[p] /\ link_res'[p] = link_res[p]
    /\ code'[p] = code[p] /\ runs'[p] = runs[p]
    /\ ll'[p] = ll[p] /\ asm'[p] = asm[p]

\* A process that does not step knows what it knew.
LEMMA StillKnown == \A p \in Proc : Known(p) /\ Still(p) => Known(p)'
  BY DEF Known, Stage, Age, Own, Clean, Told, Still, At, Temp

\* A step of one process leaves the variables of the others alone.
LEMMA OthersStill ==
    TypeOK => \A p \in Proc : Start(p) \/ Step(p) \/ Kill(p) =>
                \A q \in Proc \ {p} : Still(q)
<1> SUFFICES ASSUME TypeOK, NEW p \in Proc, Start(p) \/ Step(p) \/ Kill(p),
                    NEW q \in Proc, q # p
             PROVE  Still(q)
  OBVIOUS
<1> USE DEF TypeOK, Still, Goto, Exit, TempOwner
<1>1. CASE Start(p)
  BY <1>1 DEF Start
<1>2. CASE Usage(p)
  BY <1>2 DEF Usage
<1>3. CASE Create(p)
  BY <1>3 DEF Create
<1>4. CASE CreateFails(p)
  BY <1>4 DEF CreateFails
<1>5. CASE Lex(p)
  BY <1>5 DEF Lex
<1>6. CASE LexError(p)
  BY <1>6 DEF LexError
<1>7. CASE Parse(p)
  BY <1>7 DEF Parse
<1>8. CASE ParseError(p)
  BY <1>8 DEF ParseError
<1>9. CASE Generate(p)
  BY <1>9 DEF Generate
<1>10. CASE Assemble(p)
  BY <1>10 DEF Assemble
<1>11. CASE AssembleFails(p)
  BY <1>11 DEF AssembleFails
<1>12. CASE Link(p)
  BY <1>12 DEF Link
<1>13. CASE LinkFails(p)
  BY <1>13 DEF LinkFails
<1>14. CASE UnlinkIR(p)
  BY <1>14 DEF UnlinkIR
<1>15. CASE UnlinkAssembly(p)
  BY <1>15 DEF UnlinkAssembly
<1>16. CASE ReportFailure(p)
  BY <1>16 DEF ReportFailure
<1>17. CASE Kill(p)
  BY <1>17 DEF Kill
<1> QED
  BY <1>1, <1>2, <1>3, <1>4, <1>5, <1>6, <1>7, <1>8, <1>9, <1>10, <1>11,
     <1>12, <1>13, <1>14, <1>15, <1>16, <1>17 DEF Step

\* What the stepping process knows after its step.
LEMMA StepKnown ==
    TypeOK => \A p \in Proc :
                Known(p) /\ (Start(p) \/ Step(p) \/ Kill(p)) => Known(p)'
<1> SUFFICES ASSUME TypeOK, NEW p \in Proc, Known(p), Start(p) \/ Step(p) \/ Kill(p)
             PROVE  Known(p)'
  OBVIOUS
<1>a. /\ ll[p] # Absent => ll[p].run \in Nat
      /\ asm[p] # Absent => asm[p].run \in Nat
      /\ runs[p] \in Nat
  BY DriverAssumption, ContentFacts DEF TypeOK
<1>1. CASE Start(p)
  BY <1>a, <1>1
     DEF TypeOK, Known, Stage, Age, Own, Clean, Told, Start, At, Goto, Temp, Alive
<1>2. CASE Usage(p)
  BY <1>a, <1>2
     DEF TypeOK, Known, Stage, Age, Own, Clean, Told, Usage, At, Goto, Exit, Temp
<1>3. CASE Create(p)
  BY <1>a, <1>3
     DEF TypeOK, Known, Stage, Age, Own, Clean, Told, Create, At, Goto, TempOwner, Temp
<1>4. CASE CreateFails(p)
  BY <1>a, <1>4
     DEF TypeOK, Known, Stage, Age, Own, Clean, Told, CreateFails, At, Goto, Temp
<1>5. CASE Lex(p)
  BY <1>a, <1>5, DriverAssumption
     DEF TypeOK, Known, Stage, Age, Own, Clean, Told, Lex, At, Goto, Temp
<1>6. CASE LexError(p)
  BY <1>a, <1>6
     DEF TypeOK, Known, Stage, Age, Own, Clean, Told, LexError, At, Goto, Exit, Temp
<1>7. CASE Parse(p)
  BY <1>a, <1>7, DriverAssumption
     DEF TypeOK, Known, Stage, Age, Own, Clean, Told, Parse, At, Goto, Temp
<1>8. CASE ParseError(p)
  BY <1>a, <1>8
     DEF TypeOK, Known, Stage, Age, Own, Clean, Told, ParseError, At, Goto, Exit, Temp
<1>9. CASE Generate(p)
  BY <1>a, <1>9, DriverAssumption
     DEF TypeOK, Known, Stage, Age, Own, Clean, Told, Generate, At, Goto, TempOwner, Temp
<1>10. CASE Assemble(p)
  BY <1>a, <1>10, DriverAssumption
     DEF TypeOK, Known, Stage, Age, Own, Clean, Told, Assemble, At, Goto, TempOwner, Temp
<1>11. CASE AssembleFails(p)
  BY <1>a, <1>11
     DEF TypeOK, Known, Stage, Age, Own, Clean, Told, AssembleFails, At, Goto, TempOwner, Temp
<1>12. CASE Link(p)
  BY <1>a, <1>12
     DEF TypeOK, Known, Stage, Age, Own, Clean, Told, Link, At, Goto, TempOwner, Temp
<1>13. CASE LinkFails(p)
  BY <1>a, <1>13
     DEF TypeOK, Known, Stage, Age, Own, Clean, Told, LinkFails, At, Goto, Temp
<1>14. CASE UnlinkIR(p)
  BY <1>a, <1>14
     DEF TypeOK, Known, Stage, Age, Own, Clean, Told, UnlinkIR, At, Goto, TempOwner, Temp
<1>15. CASE UnlinkAssembly(p)
  BY <1>a, <1>15
     DEF TypeOK, Known, Stage, Age, Own, Clean, Told, UnlinkAssembly, At, Goto, Exit, TempOwner, Temp
<1>16. CASE ReportFailure(p)
  BY <1>a, <1>16
     DEF TypeOK, Known, Stage, Age, Own, Clean, Told, ReportFailure, At, Goto, Exit, TempOwner, Temp
<1>17. CASE Kill(p)
  BY <1>a, <1>17
     DEF TypeOK, Known, Stage, Age, Own, Clean, Told, Kill, At, Goto, Exit, Temp, Alive
<1> QED
  BY <1>1, <1>2, <1>3, <1>4, <1>5, <1>6, <1>7, <1>8, <1>9, <1>10, <1>11,
     <1>12, <1>13, <1>14, <1>15, <1>16, <1>17 DEF Step

\* Every step preserves the invariant: of the stepping process by StepKnown, of
\* the others because their variables do not change.
LEMMA NextInv == Inv /\ [Next]_vars => Inv'
<1> SUFFICES ASSUME Inv, [Next]_vars PROVE Inv'
  OBVIOUS
<1>1. TypeOK'
  BY TypeInv DEF Inv
<1>2. CASE UNCHANGED vars
  <2>1. \A q \in Proc : Still(q)
    BY <1>2 DEF vars, Still
  <2> QED
    BY <1>1, <2>1, StillKnown DEF Inv
<1>3. ASSUME NEW p \in Proc, Start(p) \/ Step(p) \/ Kill(p)
      PROVE  \A q \in Proc : Known(q)'
  <2>1. Known(p)'
    BY <1>3, StepKnown DEF Inv
  <2>2. \A q \in Proc \ {p} : Known(q)'
    BY <1>3, OthersStill, StillKnown DEF Inv
  <2> QED
    BY <2>1, <2>2
<1> QED
  BY <1>1, <1>2, <1>3 DEF Next, Inv

\* The types, and what each process knows of its temporary files, hold in every
\* reachable state.
THEOREM Invariance == Spec => []Inv
  BY InitInv, NextInv, PTL DEF Spec

\* The variables have their types in every reachable state.
THEOREM TypeCorrect == Spec => []TypeOK
<1>1. Inv => TypeOK
  BY DEF Inv
<1> QED
  BY <1>1, Invariance, PTL

\* llc and gcc work on what this run wrote, whatever ran under the same process
\* id before and was killed where.
THEOREM IntermediatesPrivate == Spec => []OwnIntermediates
<1>1. Inv => OwnIntermediates
  BY DEF Inv, Known, Own, OwnIntermediates
<1> QED
  BY <1>1, Invariance, PTL

\* Whoever returns from main leaves no temporary file of its own.
THEOREM MainCleansUp == Spec => []NothingLeftByMain
<1>1. Inv => NothingLeftByMain
  BY DEF Inv, Known, Clean, NothingLeftByMain
<1> QED
  BY <1>1, Invariance, PTL

-----------------------------------------------------------------------------
(* The command keeps CompilerContract.                                     *)

\* Before the first run nothing was asked and nothing read.
LEMMA ContractInit == Init => Contract!CInit(Disks)
<1> SUFFICES ASSUME Init PROVE Contract!CInit(Disks)
  OBVIOUS
<1>1. [p \in Proc |-> JobOf(p)] = [p \in Proc |-> "idle"]
  BY DEF Init, JobOf, At, Alive
<1>2. [p \in Proc |-> RequestOf(argv[p])] = [p \in Proc |-> RequestOf(<<>>)]
  BY DEF Init
<1> QED
  BY <1>1, <1>2 DEF Init, Contract!CInit

\* How a process appears to the contract is a matter of its own variables.
LEMMA StillJob ==
    \A q \in Proc : Still(q) => JobOf(q)' = JobOf(q)
  BY DEF Still, JobOf, At, Alive

\* The contract's job variable changes at the stepping process only.
LEMMA JobChange ==
    TypeOK => \A p \in Proc : Start(p) \/ Step(p) \/ Kill(p) =>
        [q \in Proc |-> JobOf(q)]' =
            [[q \in Proc |-> JobOf(q)] EXCEPT ![p] = JobOf(p)']
  BY OthersStill, StillJob

\* A step that the contract does not see.
LEMMA Hidden ==
    ASSUME TypeOK, NEW p \in Proc, Start(p) \/ Step(p) \/ Kill(p),
           JobOf(p)' = JobOf(p), UNCHANGED <<files, argv, taken>>
    PROVE  UNCHANGED Contract!cvars
<1>1. [q \in Proc |-> JobOf(q)]' = [q \in Proc |-> JobOf(q)]
  BY JobChange
<1> QED
  BY <1>1 DEF Contract!cvars

\* A step that reports.
LEMMA Reported ==
    ASSUME TypeOK, NEW p \in Proc, Start(p) \/ Step(p) \/ Kill(p),
           NEW v \in {"succeeded", "failed", "killed"},
           \/ v = "succeeded" /\ JobOf(p) = "built"
           \/ v = "failed" /\ JobOf(p) = "working"
           \/ v = "killed" /\ JobOf(p) \in {"working", "built"},
           JobOf(p)' = v, UNCHANGED <<files, argv, taken>>
    PROVE  Contract!CNext
<1>1. Contract!Report(p, v)
  BY JobChange DEF Contract!Report, Contract!Pending
<1> QED
  BY <1>1 DEF Contract!CNext

\* Every step is a step of the contract, or hidden from it.
LEMMA ContractStep == Inv /\ [Next]_vars => [Contract!CNext]_Contract!cvars
<1> SUFFICES ASSUME Inv, [Next]_vars PROVE [Contract!CNext]_Contract!cvars
  OBVIOUS
<1>t. TypeOK
  BY DEF Inv
<1>1. CASE UNCHANGED vars
  <2>1. \A q \in Proc : JobOf(q)' = JobOf(q)
    BY <1>1 DEF vars, JobOf, At, Alive
  <2> QED
    BY <1>1, <2>1 DEF vars, Contract!cvars
<1>2. ASSUME NEW p \in Proc, Start(p) \/ Step(p) \/ Kill(p)
      PROVE  [Contract!CNext]_Contract!cvars
  <2>a. Known(p) /\ Equipped(p)
    BY DEF Inv, TypeOK
  <2>b. /\ pc \in [Proc -> Stages]
        /\ link_res \in [Proc -> {"none", "ok", "failed"}]
        /\ code \in [Proc -> {0, 1, 134, 137, 255}]
    BY <1>t DEF TypeOK
  <2>1. CASE Start(p)
    <3>1. JobOf(p) \notin {"working", "built"} /\ JobOf(p)' = "working"
      BY <2>a, <2>b, <2>1, <1>t DEF TypeOK, Start, Goto, JobOf, At, Alive
    <3>2. PICK c \in Commands : argv' = [argv EXCEPT ![p] = c]
      BY <2>1 DEF Start
    <3>3. [q \in Proc |-> RequestOf(argv[q])]' =
             [[q \in Proc |-> RequestOf(argv[q])] EXCEPT ![p] = RequestOf(c)]
      BY <1>t, <3>2 DEF TypeOK
    <3>4. taken' = [taken EXCEPT ![p] = Absent] /\ UNCHANGED files
      BY <2>1 DEF Start
    <3>5. Contract!Submit(p, RequestOf(c))
      BY <1>t, <1>2, <3>1, <3>3, <3>4, JobChange DEF Contract!Submit, Contract!Pending
    <3> QED
      BY <3>5 DEF Contract!CNext
  <2>2. CASE Usage(p)
    <3>1. JobOf(p) = "working" /\ JobOf(p)' = "failed"
      BY <2>a, <2>b, <2>2 DEF Usage, Goto, Exit, JobOf, At, Alive, Known, Stage
    <3>2. UNCHANGED <<files, argv, taken>>
      BY <2>2 DEF Usage
    <3> QED
      BY <1>t, <1>2, <3>1, <3>2, Reported
  <2>3. CASE Create(p)
    <3>1. JobOf(p)' = JobOf(p)
      BY <2>a, <2>b, <2>3 DEF Create, Goto, JobOf, At, Alive, Known, Stage
    <3>2. UNCHANGED <<files, argv, taken>>
      BY <2>3 DEF Create
    <3> QED
      BY <1>t, <1>2, <3>1, <3>2, Hidden
  <2>4. CASE CreateFails(p)
    <3>1. JobOf(p)' = JobOf(p)
      BY <2>a, <2>b, <2>4 DEF CreateFails, Goto, JobOf, At, Alive, Known, Stage
    <3>2. UNCHANGED <<files, argv, taken>>
      BY <2>4 DEF CreateFails
    <3> QED
      BY <1>t, <1>2, <3>1, <3>2, Hidden
  <2>5. CASE Lex(p)
    <3>1. JobOf(p) = "working" /\ JobOf(p)' = JobOf(p)
      BY <2>a, <2>b, <2>5 DEF Lex, Goto, JobOf, At, Alive, Known, Stage
    <3>2. [q \in Proc |-> JobOf(q)]' = [q \in Proc |-> JobOf(q)]
      BY <1>t, <1>2, <3>1, JobChange
    <3>3. /\ RequestOf(argv[p]).given
          /\ RequestOf(argv[p]).source = InputOf(argv[p])
          /\ taken[p] = Absent
      BY <2>a, <2>5 DEF Lex, At, Equipped, Known, Stage, RequestOf
    <3>4. Contract!Take(p)
      BY <2>5, <3>1, <3>2, <3>3 DEF Lex, Contract!Take
    <3> QED
      BY <3>4 DEF Contract!CNext
  <2>6. CASE LexError(p)
    <3>1. JobOf(p) = "working" /\ JobOf(p)' = "failed"
      BY <2>a, <2>b, <2>6 DEF LexError, Goto, Exit, JobOf, At, Alive, Known, Stage
    <3>2. UNCHANGED <<files, argv, taken>>
      BY <2>6 DEF LexError
    <3> QED
      BY <1>t, <1>2, <3>1, <3>2, Reported
  <2>7. CASE Parse(p)
    <3>1. JobOf(p)' = JobOf(p)
      BY <2>a, <2>b, <2>7 DEF Parse, Goto, JobOf, At, Alive, Known, Stage
    <3>2. UNCHANGED <<files, argv, taken>>
      BY <2>7 DEF Parse
    <3> QED
      BY <1>t, <1>2, <3>1, <3>2, Hidden
  <2>8. CASE ParseError(p)
    <3>1. JobOf(p) = "working" /\ JobOf(p)' = "failed"
      BY <2>a, <2>b, <2>8 DEF ParseError, Goto, Exit, JobOf, At, Alive, Known, Stage
    <3>2. UNCHANGED <<files, argv, taken>>
      BY <2>8 DEF ParseError
    <3> QED
      BY <1>t, <1>2, <3>1, <3>2, Reported
  <2>9. CASE Generate(p)
    <3>1. JobOf(p)' = JobOf(p)
      BY <2>a, <2>b, <2>9 DEF Generate, Goto, JobOf, At, Alive, Known, Stage
    <3>2. UNCHANGED <<files, argv, taken>>
      BY <2>9 DEF Generate
    <3> QED
      BY <1>t, <1>2, <3>1, <3>2, Hidden
  <2>10. CASE Assemble(p)
    <3>1. JobOf(p)' = JobOf(p)
      BY <2>a, <2>b, <2>10 DEF Assemble, Goto, JobOf, At, Alive, Known, Stage
    <3>2. UNCHANGED <<files, argv, taken>>
      BY <2>10 DEF Assemble
    <3> QED
      BY <1>t, <1>2, <3>1, <3>2, Hidden
  <2>11. CASE AssembleFails(p)
    <3>1. JobOf(p)' = JobOf(p)
      BY <2>a, <2>b, <2>11 DEF AssembleFails, Goto, JobOf, At, Alive, Known, Stage
    <3>2. UNCHANGED <<files, argv, taken>>
      BY <2>11 DEF AssembleFails
    <3> QED
      BY <1>t, <1>2, <3>1, <3>2, Hidden
  <2>12. CASE Link(p)
    <3>1. JobOf(p) = "working" /\ JobOf(p)' = "built"
      BY <2>a, <2>b, <2>12 DEF Link, Goto, JobOf, At, Alive, Known, Stage
    <3>2. asm[p].of = taken[p]
      BY <2>a, <2>12 DEF Link, At, Known, Own, Temp
    <3>3. RequestOf(argv[p]).target = OutputOf(argv[p])
      BY <2>a, <2>12 DEF Link, At, Equipped, RequestOf
    <3>4. /\ taken[p] \in Linkable
          /\ files' = [files EXCEPT ![OutputOf(argv[p])] = Program(taken[p])]
          /\ UNCHANGED <<argv, taken>>
      BY <2>12, <3>2 DEF Link, TempOwner
    <3>5. Contract!Build(p)
      BY <1>t, <1>2, <3>1, <3>3, <3>4, JobChange DEF Contract!Build, Contract!Program, Program
    <3> QED
      BY <3>5 DEF Contract!CNext
  <2>13. CASE LinkFails(p)
    <3>1. JobOf(p)' = JobOf(p)
      BY <2>a, <2>b, <2>13 DEF LinkFails, Goto, JobOf, At, Alive, Known, Stage
    <3>2. UNCHANGED <<files, argv, taken>>
      BY <2>13 DEF LinkFails
    <3> QED
      BY <1>t, <1>2, <3>1, <3>2, Hidden
  <2>14. CASE UnlinkIR(p)
    <3>1. JobOf(p)' = JobOf(p)
      BY <2>a, <2>b, <2>14 DEF UnlinkIR, Goto, JobOf, At, Alive, Known, Stage
    <3>2. UNCHANGED <<files, argv, taken>>
      BY <2>14 DEF UnlinkIR
    <3> QED
      BY <1>t, <1>2, <3>1, <3>2, Hidden
  <2>15. CASE UnlinkAssembly(p)
    <3>1. UNCHANGED <<files, argv, taken>>
      BY <2>15 DEF UnlinkAssembly
    <3>2. CASE link_res[p] = "ok"
      <4>1. JobOf(p) = "built" /\ JobOf(p)' = "succeeded"
        BY <2>a, <2>b, <2>15, <3>2 DEF UnlinkAssembly, Goto, Exit, JobOf, At, Alive
      <4> QED
        BY <1>t, <1>2, <3>1, <4>1, Reported
    <3>3. CASE link_res[p] # "ok"
      <4>1. JobOf(p) = "working" /\ JobOf(p)' = "failed"
        BY <2>a, <2>b, <2>15, <3>3 DEF UnlinkAssembly, Goto, Exit, JobOf, At, Alive
      <4> QED
        BY <1>t, <1>2, <3>1, <4>1, Reported
    <3> QED
      BY <3>2, <3>3
  <2>16. CASE ReportFailure(p)
    <3>1. JobOf(p) = "working" /\ JobOf(p)' = "failed"
      BY <2>a, <2>b, <2>16 DEF ReportFailure, Goto, Exit, JobOf, At, Alive, Known, Stage
    <3>2. UNCHANGED <<files, argv, taken>>
      BY <2>16 DEF ReportFailure
    <3> QED
      BY <1>t, <1>2, <3>1, <3>2, Reported
  <2>17. CASE Kill(p)
    <3>1. JobOf(p) \in {"working", "built"} /\ JobOf(p)' = "killed"
      BY <2>a, <2>b, <2>17 DEF Kill, Goto, Exit, JobOf, At, Alive
    <3>2. UNCHANGED <<files, argv, taken>>
      BY <2>17 DEF Kill
    <3> QED
      BY <1>t, <1>2, <3>1, <3>2, Reported
  <2> QED
    BY <1>2, <2>1, <2>2, <2>3, <2>4, <2>5, <2>6, <2>7, <2>8, <2>9, <2>10, <2>11, <2>12, <2>13, <2>14, <2>15, <2>16, <2>17 DEF Step
<1> QED
  BY <1>1, <1>2 DEF Next

\* The command changes no file but the output it was asked for, in one step, to
\* the program of the text it read, and exits with 0 exactly if it did so.
THEOREM KeepsContract == Spec => ImplementsContract
  BY ContractInit, ContractStep, Invariance, PTL
     DEF Spec, ImplementsContract, Contract!CSteps

-----------------------------------------------------------------------------
\* A path with a dot has a last one.
LEMMA LastDot ==
    ASSUME NEW path \in Seq(STRING), Dots(path) # {}
    PROVE  LastOf(Dots(path)) \in 1 .. Len(path)
<1> DEFINE Less == OpToRel(<, Nat)
           FromEnd == {Len(path) - i : i \in Dots(path)}
<1>1. Dots(path) \subseteq 1 .. Len(path) /\ Len(path) \in Nat
  BY DEF Dots
<1>2. FromEnd \subseteq Nat /\ FromEnd # {}
  BY <1>1
<1>3. PICK n \in FromEnd : \A k \in FromEnd : <<k, n>> \notin Less
  <2> HIDE DEF FromEnd
  <2> QED
    BY <1>2, NatLessThanWellFounded, WFMin
<1>4. \A k \in FromEnd : ~(k < n)
  BY <1>2, <1>3 DEF OpToRel
<1>5. PICK i \in Dots(path) : n = Len(path) - i
  BY <1>3
<1>6. ASSUME NEW j \in Dots(path) PROVE j <= i
  <2>1. Len(path) - j \in FromEnd
    OBVIOUS
  <2>2. ~(Len(path) - j < Len(path) - i)
    BY <1>4, <1>5, <2>1
  <2>3. i \in Int /\ j \in Int
    BY <1>1
  <2> QED
    BY <1>1, <2>2, <2>3
<1>7. LastOf(Dots(path)) \in Dots(path)
  BY <1>5, <1>6 DEF LastOf
<1> QED
  BY <1>1, <1>7

\* Cutting a name at a dot gives another name.
LEMMA DerivedDiffers ==
    ASSUME NEW path \in Seq(STRING), Dots(path) # {}
    PROVE  Derived(path) # path
<1> DEFINE n == LastOf(Dots(path))
<1>1. n \in 1 .. Len(path) /\ Len(path) \in Nat
  BY LastDot
<1>2. Derived(path) = SubSeq(path, 1, n - 1)
  BY DEF Derived
<1>3. Len(SubSeq(path, 1, n - 1)) = n - 1
  <2> HIDE DEF n
  <2> QED
  BY <1>1
<1> QED
  BY <1>1, <1>2, <1>3

\* A source with an extension survives the linking of the output named after it.
THEOREM SourceSurvives == Spec => OwnSourceKept
<1> DEFINE Keeps == \A p \in Proc :
               /\ Link(p)
               /\ Options(argv[p]) = {}
               /\ Dots(InputOf(argv[p])) # {}
               => files'[InputOf(argv[p])] = files[InputOf(argv[p])]
<1>1. TypeOK => Keeps
  <2> SUFFICES ASSUME TypeOK, NEW p \in Proc,
                      Link(p), Options(argv[p]) = {}, Dots(InputOf(argv[p])) # {}
               PROVE  files'[InputOf(argv[p])] = files[InputOf(argv[p])]
    OBVIOUS
  <2>1. argv[p] \in Commands \ {<<>>}
    BY DEF TypeOK, Equipped, Alive, Link, At
  <2>2. InputOf(argv[p]) \in Path /\ InputOf(argv[p]) \in Seq(STRING)
    BY <2>1, PathFacts, NameAssumption
  <2>3. OutputOf(argv[p]) # InputOf(argv[p])
    BY <2>2, DerivedDiffers DEF OutputOf, InputOf
  <2> QED
    BY <2>2, <2>3 DEF TypeOK, Link
<1> QED
  BY <1>1, TypeCorrect, PTL DEF OwnSourceKept
=============================================================================
