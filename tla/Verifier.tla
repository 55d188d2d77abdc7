------------------------------ MODULE Verifier -------------------------------
(***************************************************************************)
(* What llvm::verifyModule asks of a function that Codegen has finished.   *)
(* LLVMCodegen::run calls it and prints its verdict.                       *)
(***************************************************************************)
EXTENDS Codegen

Finished == Frame.at = "RUN" /\ fn # Nil

Instructions == UNION {{b} \X DOMAIN block[b] : b \in Blocks}
Instr(p) == block[p[1]][p[2]]

Targets(i) == CASE i.op = "br" -> {i.to}
                [] i.op = "condbr" -> {i.yes, i.no}
                [] i.op = "switch" ->
                      {i.default} \cup {i.cases[k][2] : k \in DOMAIN i.cases}
                [] OTHER -> {}
Successors(b) == Targets(Last(block[b]))
Predecessors(b) == {a \in Blocks : b \in Successors(a)}

\* The blocks reached from those of S without passing through block b.
RECURSIVE ReachedWithout(_, _)
ReachedWithout(b, S) ==
    LET more == ((UNION {Successors(a) : a \in S}) \ S) \ {b}
    IN  IF more = {} THEN S ELSE ReachedWithout(b, S \cup more)
Reached == ReachedWithout(NoBlock, {1})
Dominates(a, b) == a = b \/ a = 1 \/ b \notin ReachedWithout(a, {1})

\* The definition at p reaches a use at instruction n of block b.
Reaches(p, b, n) == IF p[1] = b THEN p[2] < n ELSE Dominates(p[1], b)

Args(i) == IF "args" \in DOMAIN i THEN i.args ELSE <<>>

ArgTypes(i) == [k \in DOMAIN Args(i) |-> Args(i)[k].ty]
AddressType(a) == CASE a.kind = "slot" -> slots[a.num]
                    [] a.kind = "global" -> globals[a.name].ty
                    [] OTHER -> "i8"

WellTyped(i) ==
    LET ts == ArgTypes(i) IN
    CASE i.op = "load" -> i.addr.ty = "ptr" /\ i.ty = AddressType(i.addr)
      [] i.op = "store" -> i.addr.ty = "ptr" /\ ts[1] = AddressType(i.addr)
      [] i.op = "bin" -> ts[1] = ts[2] /\ IsIntegerType(ts[1])
      [] i.op = "icmp" -> ts[1] = ts[2] /\ ts[1] # "void"
      [] i.op \in {"sext", "zext"} -> Bits[ts[1]] < Bits[i.ty]
      [] i.op = "trunc" -> Bits[ts[1]] > Bits[i.ty]
      [] i.op = "gep" -> ts[1] = "ptr" /\ IsIntegerType(ts[2])
      [] i.op = "call" -> \A k \in DOMAIN functions[i.f].params :
                                k \in DOMAIN ts /\ ts[k] = functions[i.f].params[k]
      [] i.op = "condbr" -> ts = <<"i1">>
      [] i.op = "switch" -> ts = <<"i32">>
      [] i.op = "ret" -> ts = IF functions[fn.name].ret = "void" THEN <<>>
                              ELSE <<functions[fn.name].ret>>
      [] OTHER -> TRUE

PhiMatchesEdges(b, i) ==
    /\ {i.in[k][2] : k \in DOMAIN i.in} = Predecessors(b)
    /\ \A k \in DOMAIN i.in :
          /\ i.in[k][1].ty = i.ty
          /\ i.in[k][1].kind = "reg" /\ i.in[k][2] \in Reached =>
                Reaches(i.in[k][1].at, i.in[k][2], Len(block[i.in[k][2]]) + 1)

\* Every finished function passes the verifier that run calls and whose
\* verdict it only prints: a block ends in its one terminator, a phi names
\* the predecessors its block really has, a value is computed on every path
\* to its use, and operands have the types their instruction wants.
Verified ==
    Finished =>
        /\ \A b \in Blocks : Terminated(block[b]) /\ 1 \notin Successors(b)
        /\ \A p \in Instructions :
              LET b == p[1]
                  i == Instr(p)
              IN  /\ IsTerminator(i) => p[2] = Len(block[b])
                  /\ WellTyped(i)
                  /\ i.op = "phi" => /\ p[2] = 1 \/ block[b][p[2] - 1].op = "phi"
                                     /\ PhiMatchesEdges(b, i)
                  /\ b \in Reached =>
                        \A k \in DOMAIN Args(i) :
                            Args(i)[k].kind = "reg" => Reaches(Args(i)[k].at, b, p[2])
=============================================================================
