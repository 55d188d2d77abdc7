--------------------------- MODULE CompilerContract ---------------------------
(***************************************************************************)
(* What the command 1337cc promises, whatever its stages do: it reads its  *)
(* source once, the only file it changes is the output it was asked for,   *)
(* that file changes in one step to the program of the source read, and    *)
(* the exit code is 0 exactly when it did.  src/cpp/main.cpp implements    *)
(* this by way of temporary files and two external tools (Driver).         *)
(***************************************************************************)
CONSTANTS Proc,        \* processes
          Request,     \* records [given, source, target]
          NoRequest,   \* the request of a command line without a source
          Compilable,  \* texts that have a program
          Absent       \* content of a file that does not exist

VARIABLES files,       \* content of every path
          request,     \* what each process was asked
          taken,       \* what it read, Absent before
          job          \* "idle", "working", "built", "succeeded", "failed", "killed"

cvars == <<files, request, taken, job>>

Program(t) == [program |-> t]

Pending(p) == job[p] \in {"working", "built"}

CInit(disks) == /\ files \in disks
                /\ request = [p \in Proc |-> NoRequest]
                /\ taken = [p \in Proc |-> Absent]
                /\ job = [p \in Proc |-> "idle"]

Submit(p, r) ==
    /\ ~Pending(p)
    /\ request' = [request EXCEPT ![p] = r]
    /\ taken' = [taken EXCEPT ![p] = Absent]
    /\ job' = [job EXCEPT ![p] = "working"]
    /\ UNCHANGED files

Take(p) ==
    /\ job[p] = "working"
    /\ taken[p] = Absent
    /\ request[p].given
    /\ taken' = [taken EXCEPT ![p] = files[request[p].source]]
    /\ UNCHANGED <<files, request, job>>

Build(p) ==
    /\ job[p] = "working"
    /\ taken[p] \in Compilable
    /\ files' = [files EXCEPT ![request[p].target] = Program(taken[p])]
    /\ job' = [job EXCEPT ![p] = "built"]
    /\ UNCHANGED <<request, taken>>

\* Success is reported of a job that was built, failure of one that was not;
\* a process may be killed at any time.
Report(p, verdict) ==
    /\ \/ verdict = "succeeded" /\ job[p] = "built"
       \/ verdict = "failed" /\ job[p] = "working"
       \/ verdict = "killed" /\ Pending(p)
    /\ job' = [job EXCEPT ![p] = verdict]
    /\ UNCHANGED <<files, request, taken>>

CNext == \E p \in Proc :
            \/ \E r \in Request : Submit(p, r)
            \/ Take(p)
            \/ Build(p)
            \/ \E v \in {"succeeded", "failed", "killed"} : Report(p, v)

CSteps == [][CNext]_cvars
=============================================================================
