---------------------------- MODULE Declarations ----------------------------
(***************************************************************************)
(* What the parser keeps about declarations: the scopes of                 *)
(* src/cpp/scope.cpp, the symbol table of src/cpp/symresolver.cpp, the     *)
(* fixups of src/cpp/fixup.cpp, and the offsets, paddings and sizes that   *)
(* src/cpp/parser_decl.cpp and src/cpp/parser_body.cpp work out.           *)
(*                                                                         *)
(* The text is read one construct at a time; which one comes next is the   *)
(* text's choice, and MaxConstructs bounds it.  A step is the handler that *)
(* meets the construct, or the part of it before or after a nested body.   *)
(*                                                                         *)
(* DATATYPE_FLAG_IS_POINTER is never set, so a pointer is sized and laid   *)
(* out as what it points to: a declarator here may be either.  Anonymous   *)
(* aggregates, bodies without braces and initialisers are left out, and so *)
(* are statements that C has only in functions where the parser takes them *)
(* elsewhere too, and a forward declaration, which changes nothing here.   *)
(***************************************************************************)
EXTENDS Integers, Sequences, SequencesExt, FiniteSetsExt

CONSTANTS Primitives,     \* the primitive types, each with its size in bytes
          Names,          \* the names of structs and unions
          Lists,          \* the declarators of a declaration: the array length
                          \* of each, 0 for no array
          Parameters,     \* the parameters of a function: kind and name of each
          MaxConstructs,  \* bounds on the text: constructs that open or declare,
          MaxNesting      \* and bodies open at a time

Aggregates == {"struct", "union"}
Types == ({"primitive"} \X DOMAIN Primitives) \cup (Aggregates \X Names)

ASSUME DeclarationsAssumption ==
    /\ \A t \in DOMAIN Primitives : Primitives[t] \in Nat \ {0}
    /\ DOMAIN Primitives \cap Names = {}
    /\ \A l \in Lists : Len(l) > 0 /\ l \in Seq(Nat)
    /\ Parameters \subseteq Seq(Types)
    /\ {MaxConstructs, MaxNesting} \subseteq Nat

VARIABLES scopes,      \* the chain from root to current: the entities of each
          bodies,      \* the bodies being parsed, outermost first
          declared,    \* every variable node made so far
          defined,     \* every struct or union node that has a body
          symbols,     \* the one symbol table: nodes of defined, in order
          fixups,      \* m_fixups, in order
          functions,   \* every function with a body; the last may be open
          cursor,      \* the fixup that fixups_resolve looks at
          constructs,  \* constructs read
          status       \* "parsing", "fixing", "done", "aborted" or "crashed"

vars == <<scopes, bodies, declared, defined, symbols, fixups, functions,
          cursor, constructs, status>>

Parsing == status = "parsing"
NOBODY == [kind |-> "file", flag |-> "none"]
Body == IF bodies = <<>> THEN NOBODY ELSE Last(bodies)

\* The function being parsed, 0 outside; what it declares or defines is noted
\* as its own.
Current == IF bodies = <<>> \/ bodies[1].kind # "function" THEN 0 ELSE Len(functions)

-----------------------------------------------------------------------------
(* Sizes and alignment, as C computes them                                 *)

\* C's %, which takes the sign of its left operand.
Rem(a, b) == IF a >= 0 THEN a % b ELSE -((-a) % b)

\* Mutant: the excess is taken for what is missing.
PaddingExcess(val, to) == Rem(val, to)

padding(val, to) == IF Rem(val, to) = 0 THEN 0 ELSE to - Rem(val, to)
align_value(val, to) == val + padding(val, to)

\* base and the numbers added up.
Total(base, numbers) ==
    LET upto[i \in 0 .. Len(numbers)] ==
            IF i = 0 THEN base ELSE upto[i - 1] + numbers[i]
    IN  upto[Len(numbers)]

\* datatype_size, for which arrayed is DATATYPE_FLAG_IS_ARRAY.
datatype_size(t) == IF t.arrayed THEN t.arraySize ELSE t.size
Primitive(t) == t.kind = "primitive"

-----------------------------------------------------------------------------
(* Names                                                                   *)

\* Mutant: every definition has a symbol, and the newest is found first.
LookupNewest(name) ==
    LET found == {i \in DOMAIN defined : defined[i].name = name}
    IN  IF found = {} THEN 0 ELSE Max(found)

\* symresolver_get_symbol: the node of the first symbol with the name, 0 for
\* none.
Lookup(name) ==
    LET found == {i \in DOMAIN symbols : defined[symbols[i]].name = name}
    IN  IF found = {} THEN 0 ELSE symbols[Min(found)]

\* size_of_struct and size_of_union assert the kind of what they find.
Misused(kind, name) ==
    kind \in Aggregates /\ Lookup(name) # 0 /\ defined[Lookup(name)].kind # kind

\* parse_datatype
Datatype(kind, name) ==
    LET node == IF kind = "primitive" THEN 0 ELSE Lookup(name)
    IN  [kind |-> kind, name |-> name, node |-> node,
         size |-> IF kind = "primitive" THEN Primitives[name]
                  ELSE IF node = 0 THEN 0 ELSE defined[node].size,
         arrayed |-> FALSE, arraySize |-> 0]

-----------------------------------------------------------------------------
(* Variables                                                               *)

\* The state that register_variable changes.
Tables == [scopes |-> scopes, declared |-> declared, fixups |-> fixups]

\* scope_last_entity_from_scope_stop_at: the newest entity of the innermost
\* scope that has one, above the first stop scopes; 0 for none.
LastEntity(sc, stop) ==
    LET held == {i \in stop + 1 .. Len(sc) : sc[i] # <<>>}
    IN  IF held = {} THEN 0 ELSE Last(sc[Max(held)])

\* compute_variable_offset: where a variable of type t goes.  A stack variable
\* is given a padding and no offset, a global one neither.
Place(tables, t, flag) ==
    LET stop == IF flag = "structure" THEN 0 ELSE 1
        last == LastEntity(tables.scopes, stop)
        before == tables.declared[last]
        after == CASE flag = "structure" -> before.aoffset + before.type.size
                   [] flag = "argument" -> before.aoffset + datatype_size(before.type)
                   [] OTHER -> datatype_size(t) - before.aoffset
        pad == IF flag = "global" \/ last = 0 \/ ~Primitive(t) THEN 0
               ELSE padding(after, t.size)
    IN  [padding |-> pad,
         aoffset |-> IF flag = "structure" /\ last # 0 THEN after + pad ELSE 0]

\* Mutant: the fixup is made for the node that comes after.
RegisterFixupLate(tables, t, flag) ==
    LET place == Place(tables, t, flag)
        id == Len(tables.declared) + 1
    IN  [scopes |-> [tables.scopes EXCEPT ![Len(tables.scopes)] = Append(@, id)],
         declared |-> Append(tables.declared,
                             [type |-> t, padding |-> place.padding,
                              aoffset |-> place.aoffset, within |-> Current]),
         fixups |-> IF t.kind = "struct" /\ t.node = 0
                    THEN Append(tables.fixups, [variable |-> id + 1, resolved |-> FALSE])
                    ELSE tables.fixups]

\* register_variable: make_variable_node, which leaves a fixup for a struct not
\* yet known, then the offset, then the entity.
Register(tables, t, flag) ==
    LET place == Place(tables, t, flag)
        id == Len(tables.declared) + 1
    IN  [scopes |-> [tables.scopes EXCEPT ![Len(tables.scopes)] = Append(@, id)],
         declared |-> Append(tables.declared,
                             [type |-> t, padding |-> place.padding,
                              aoffset |-> place.aoffset, within |-> Current]),
         fixups |-> IF t.kind = "struct" /\ t.node = 0
                    THEN Append(tables.fixups, [variable |-> id, resolved |-> FALSE])
                    ELSE tables.fixups]

\* The declarators of one declaration share its dtype: what parse_variable notes
\* of an array stays for the ones behind it.
Arrayed(t, length) ==
    IF length = 0 THEN t
    ELSE [t EXCEPT !.arrayed = TRUE, !.arraySize = t.size * length]
Declarator(acc, length, flag) ==
    LET t == Arrayed(acc.type, length)
    IN  [type |-> t, tables |-> Register(acc.tables, t, flag)]
Declarators(t, lengths, flag) ==
    LET after[i \in 0 .. Len(lengths)] ==
            IF i = 0 THEN [type |-> t, tables |-> Tables]
            ELSE Declarator(after[i - 1], lengths[i], flag)
    IN  after[Len(lengths)].tables

NewVariables(tables) == [i \in 1 .. Len(tables.declared) - Len(declared) |->
                            Len(declared) + i]
SetTables(tables) == /\ scopes' = tables.scopes
                     /\ declared' = tables.declared
                     /\ fixups' = tables.fixups

-----------------------------------------------------------------------------
(* Bodies                                                                  *)

\* A body and the flag of its History, which tells how its variables are placed
\* and whether its size goes to the function's; met is the node that an earlier
\* definition of its aggregate has.
NewBody(kind, name, flag) ==
    [kind |-> kind, name |-> name, flag |-> flag,
     met |-> IF kind \in Aggregates THEN Lookup(name) ELSE 0, size |-> 0,
     possible |-> 0, eligible |-> 0, statements |-> <<>>, holds |-> <<>>]

\* append_size_for_node of a variable whose node is one of nodes.
AppendSize(nodes, size, t) ==
    LET total == size + datatype_size(t)
        largest == IF Primitive(t) THEN 0 ELSE nodes[t.node].largest
    IN  IF largest = 0 THEN total ELSE total + align_value(total, largest)

\* The append reads the body of a struct or union that is not there.
Dangling(variables, ids) ==
    \E id \in Range(ids) : LET t == variables[id].type
                           IN  ~Primitive(t) /\ t.node = 0

\* size, and in it what ids take.
Appended(nodes, variables, ids, size) ==
    LET after[i \in 0 .. Len(ids)] ==
            IF i = 0 THEN size
            ELSE AppendSize(nodes, after[i - 1], variables[ids[i]].type)
    IN  after[Len(ids)]

\* What a body makes of a statement that declares ids, listed as a variable
\* list, or as a variable combined with its struct.
Grown(body, nodes, variables, ids, form) ==
    LET id == ids[1]
        t == variables[id].type
        Beats(old) == old = 0 \/ variables[old].type.size <= t.size
        single == form = "single"
    IN  [body EXCEPT
            !.size = Appended(nodes, variables, ids, @),
            !.possible = IF single /\ Beats(@) THEN id ELSE @,
            !.eligible = IF single /\ Primitive(t) /\ Beats(@) THEN id ELSE @,
            !.statements = IF single THEN Append(@, id) ELSE @,
            !.holds = @ \o ids]

\* size, and the paddings of ids.
Padded(ids, size) == Total(size, [i \in DOMAIN ids |-> declared[ids[i]].padding])

\* Mutant: the size is not aligned.
FinalSizeUnaligned(body) == Padded(body.statements, body.size)

\* finalize_body, as the size it gives the body.
FinalSize(body) ==
    LET held == IF body.kind = "union" /\ body.possible # 0
                THEN datatype_size(declared[body.possible].type) ELSE body.size
        padded == Padded(body.statements, held)
    IN  IF body.eligible = 0 THEN padded
        ELSE align_value(padded, declared[body.eligible].type.size)

Enclosing(stack) == SubSeq(stack, 1, Len(stack) - 1)
PopScopes(n) == SubSeq(scopes, 1, Len(scopes) - n)

-----------------------------------------------------------------------------
(* The handlers                                                            *)

Init == /\ scopes = <<<<>>>>
        /\ bodies = <<>> /\ declared = <<>> /\ defined = <<>> /\ symbols = <<>>
        /\ fixups = <<>> /\ functions = <<>>
        /\ cursor = 0 /\ constructs = 0 /\ status = "parsing"

\* Another construct may come.
Reads == Parsing /\ constructs < MaxConstructs /\ constructs' = constructs + 1
Opens == Len(bodies) < MaxNesting

\* An assertion about the kind of a known name.
Abort == /\ status' = "aborted"
         /\ UNCHANGED <<scopes, bodies, declared, defined, symbols, fixups,
                        functions, cursor>>

Misuse == /\ Reads
          /\ \E kind \in Aggregates, name \in Names : Misused(kind, name)
          /\ Abort

\* parse_struct and parse_union up to the body: a scope of their own, and the
\* one of parse_body.
OpenAggregate(kind, name) ==
    /\ Reads /\ Opens
    /\ ~Misused(kind, name)
    /\ scopes' = scopes \o <<<<>>, <<>>>>
    /\ LET flag == IF kind = "struct" THEN "structure" ELSE "none"
       IN  bodies' = Append(bodies, NewBody(kind, name, flag))
    /\ UNCHANGED <<declared, defined, symbols, fixups, functions, cursor, status>>

\* The type of the aggregate that is closed.  parse_union_no_scope leaves the
\* node that parse_datatype met.
ClosedType ==
    [Datatype(Body.kind, Body.name) EXCEPT
        !.size = FinalSize(Body),
        !.node = IF Body.kind = "struct" THEN Len(defined) + 1 ELSE Body.met]

\* The rest of them: the node, the variable combined with it, if any, which goes
\* into the aggregate's own scope, and the symbol of a name not yet taken.
CloseAggregate(combined) ==
    /\ Parsing /\ Body.kind \in Aggregates
    /\ LET size == FinalSize(Body)
           node == Len(defined) + 1
           t == ClosedType
           inner == [Tables EXCEPT !.scopes = PopScopes(1)]
           tables == IF combined THEN Register(inner, t, "none") ELSE inner
           ids == NewVariables(tables)
           outer == Enclosing(bodies)
           nodes == Append(defined,
                  [kind |-> Body.kind, name |-> Body.name, size |-> size,
                   largest |-> IF Body.eligible = 0 THEN 0
                               ELSE declared[Body.eligible].type.size,
                   var |-> IF combined THEN Len(tables.declared) ELSE 0,
                   statements |-> Body.statements, holds |-> Body.holds,
                   within |-> Current])
       IN  /\ defined' = nodes
           /\ SetTables([tables EXCEPT !.scopes = Enclosing(@)])
           /\ symbols' = IF Lookup(Body.name) = 0 THEN Append(symbols, node) ELSE symbols
           /\ \/ /\ combined /\ outer # <<>> /\ ~Dangling(tables.declared, ids)
                 /\ bodies' = [outer EXCEPT ![Len(outer)] =
                                  Grown(@, nodes, tables.declared, ids, "combined")]
                 /\ UNCHANGED status
              \/ /\ combined /\ outer # <<>> /\ Dangling(tables.declared, ids)
                 /\ status' = "crashed" /\ bodies' = outer
              \/ ~(combined /\ outer # <<>>) /\ bodies' = outer /\ UNCHANGED status
    /\ UNCHANGED <<functions, cursor, constructs>>

\* parse_variable_function_or_struct_union on a declaration of variables, and
\* the size it adds to the body it is in.
Declare(kind, name, lengths) ==
    /\ Reads
    /\ ~Misused(kind, name)
    /\ LET tables == Declarators(Datatype(kind, name), lengths, Body.flag)
           ids == NewVariables(tables)
       IN  /\ SetTables(tables)
           /\ \/ bodies = <<>> /\ UNCHANGED <<bodies, status>>
              \/ /\ bodies # <<>> /\ Dangling(tables.declared, ids)
                 /\ status' = "crashed" /\ UNCHANGED bodies
              \/ /\ bodies # <<>> /\ ~Dangling(tables.declared, ids)
                 /\ bodies' = [bodies EXCEPT ![Len(bodies)] =
                                  Grown(@, defined, tables.declared, ids,
                                        IF Len(ids) = 1 THEN "single" ELSE "list")]
                 /\ UNCHANGED status
    /\ UNCHANGED <<defined, symbols, functions, cursor>>

\* The function's scope and one of its arguments', with these registered.
Argued(types) ==
    LET after[i \in 0 .. Len(types)] ==
            IF i = 0 THEN [Tables EXCEPT !.scopes = @ \o <<<<>>, <<>>>>]
            ELSE Register(after[i - 1], Datatype(types[i][1], types[i][2]), "argument")
    IN  after[Len(types)]

\* Mutant: a way out without finish_scope.
ArgumentsUnfinished(types) == Argued(types)

\* parse_function_arguments: a scope of their own, gone before the body's.
Arguments(types) == [Argued(types) EXCEPT !.scopes = Enclosing(@)]

\* parse_function, up to the body or, for a prototype, to its end.
OpenFunction(types, hasBody) ==
    /\ Reads /\ bodies = <<>> /\ (hasBody => Opens)
    /\ \A i \in DOMAIN types : ~Misused(types[i][1], types[i][2])
    /\ LET tables == Arguments(types)
       IN  SetTables([tables EXCEPT !.scopes = IF hasBody THEN Append(@, <<>>)
                                               ELSE Enclosing(@)])
    /\ bodies' = IF hasBody THEN <<NewBody("function", "unnamed", "function")>> ELSE <<>>
    /\ functions' = IF hasBody THEN Append(functions, [stack_size |-> 0, holds |-> <<>>,
                                                       detached |-> FALSE])
                    ELSE functions
    /\ UNCHANGED <<defined, symbols, cursor, status>>

\* Mutant: the bodies of ifs and loops get a History of their own, too.
OpenBlockFlagless(of) ==
    /\ Reads /\ Opens
    /\ Body.kind \in {"function", "block"}
    /\ scopes' = Append(scopes, <<>>)
    /\ LET flag == IF of = "plain" THEN "global" ELSE "none"
       IN  bodies' = Append(bodies, NewBody("block", "unnamed", flag))
    /\ functions' = [functions EXCEPT ![Len(functions)].detached = @ \/ of # "branch"]
    /\ UNCHANGED <<declared, defined, symbols, fixups, cursor, status>>

\* A block is the body of an if, a loop or a switch ("branch"), which keeps the
\* flags of its History, of an else, which is given none, or a plain block among
\* the statements, which is given that of the globals.
Blocks == {"branch", "else", "plain"}
OpenBlock(of) ==
    /\ Reads /\ Opens
    /\ Body.kind \in {"function", "block"}
    /\ scopes' = Append(scopes, <<>>)
    /\ LET flag == CASE of = "branch" -> Body.flag
                     [] of = "else"   -> "none"
                     [] of = "plain"  -> "global"
       IN  bodies' = Append(bodies, NewBody("block", "unnamed", flag))
    /\ functions' = [functions EXCEPT ![Len(functions)].detached = @ \/ of # "branch"]
    /\ UNCHANGED <<declared, defined, symbols, fixups, cursor, status>>

\* The end of a block or of a function's body: parse_body adds its size to the
\* function's stack, and parse_function leaves the function's scope as well.
CloseBody ==
    /\ Parsing /\ Body.kind \in {"function", "block"}
    /\ LET added == IF Body.flag = "function" THEN FinalSize(Body) ELSE 0
       IN  functions' = [functions EXCEPT ![Len(functions)] =
                            [stack_size |-> @.stack_size + added,
                             holds |-> @.holds \o Body.holds,
                             detached |-> @.detached]]
    /\ scopes' = PopScopes(IF Body.kind = "function" THEN 2 ELSE 1)
    /\ bodies' = Enclosing(bodies)
    /\ UNCHANGED <<declared, defined, symbols, fixups, cursor, constructs, status>>

\* Mutant: the assert around fixups_resolve is compiled away.
EndOfTextReleased ==
    /\ Parsing /\ bodies = <<>>
    /\ status' = "done"
    /\ UNCHANGED <<scopes, bodies, declared, defined, symbols, fixups, functions,
                   cursor, constructs>>

\* The end of the text: Parser::run turns to the fixups.
EndOfText ==
    /\ Parsing /\ bodies = <<>>
    /\ status' = "fixing" /\ cursor' = 1
    /\ UNCHANGED <<scopes, bodies, declared, defined, symbols, fixups, functions,
                   constructs>>

\* fix_struct_type gives a variable's type the size and the node of its struct.
fix_struct_type(t) ==
    LET node == Lookup(t.name)
    IN  [t EXCEPT !.size = IF node = 0 THEN 0 ELSE defined[node].size, !.node = node]

\* fixups_resolve on one fixup.
ResolveFixup ==
    /\ status = "fixing" /\ cursor <= Len(fixups)
    /\ LET id == fixups[cursor].variable
           name == declared[id].type.name
       IN  IF Misused("struct", name)
           THEN status' = "aborted" /\ UNCHANGED <<declared, fixups, cursor>>
           ELSE /\ declared' = [declared EXCEPT ![id].type = fix_struct_type(@)]
                /\ fixups' = [fixups EXCEPT ![cursor].resolved = Lookup(name) # 0]
                /\ cursor' = cursor + 1
                /\ UNCHANGED status
    /\ UNCHANGED <<scopes, bodies, defined, symbols, functions, constructs>>

\* All were tried: run asserts that none is left, and frees the root scope.
FixupsTried ==
    /\ status = "fixing" /\ cursor > Len(fixups)
    /\ IF \A i \in DOMAIN fixups : fixups[i].resolved
       THEN status' = "done" /\ scopes' = <<>>
       ELSE status' = "aborted" /\ UNCHANGED scopes
    /\ UNCHANGED <<bodies, declared, defined, symbols, fixups, functions, cursor,
                   constructs>>

Text == \/ Misuse
        \/ \E kind \in Aggregates, name \in Names : OpenAggregate(kind, name)
        \/ \E combined \in BOOLEAN : CloseAggregate(combined)
        \/ \E t \in Types, lengths \in Lists : Declare(t[1], t[2], lengths)
        \/ \E types \in Parameters, hasBody \in BOOLEAN : OpenFunction(types, hasBody)
        \/ \E of \in Blocks : OpenBlock(of)
        \/ CloseBody
        \/ EndOfText
Next == Text \/ ResolveFixup \/ FixupsTried

Spec == Init /\ [][Next]_vars

-----------------------------------------------------------------------------
(* What is kept                                                            *)

Datatypes == [kind : Aggregates \cup {"primitive"}, name : Names \cup DOMAIN Primitives,
              node : Nat, size : Nat, arrayed : BOOLEAN, arraySize : Nat]

\* Every table holds what it should, and refers to entries that are there.
TypeOK ==
    /\ \A i \in DOMAIN scopes : Range(scopes[i]) \subseteq DOMAIN declared
    /\ \A i \in DOMAIN declared : /\ declared[i].type \in Datatypes
                                 /\ declared[i].type.node \in 0 .. Len(defined)
                                 /\ declared[i].padding \in Int
                                 /\ declared[i].aoffset \in Nat
    /\ \A i \in DOMAIN defined : defined[i].size \in Nat /\ defined[i].largest \in Nat
    /\ Range(symbols) \subseteq DOMAIN defined
    /\ \A i \in DOMAIN fixups : fixups[i].variable \in DOMAIN declared
    /\ cursor \in 0 .. Len(fixups) + 1
    /\ constructs \in 0 .. MaxConstructs
    /\ status \in {"parsing", "fixing", "done", "aborted", "crashed"}

\* Scopes nest with the constructs that opened them.  A body's entities are what
\* it holds, save a variable combined with its struct; what a function or an
\* aggregate declares never reaches the root.  (new_scope and finish_scope are
\* called in pairs on every path, src/cpp/parser_decl.cpp:214-336.)
ScopeOf(depth) == 1 + depth + Cardinality({i \in 1 .. depth : bodies[i].kind # "block"})
ScopesNest ==
    Parsing =>
      /\ Len(scopes) = ScopeOf(Len(bodies))
      /\ \A depth \in DOMAIN bodies :
            LET entities == Range(scopes[ScopeOf(depth)])
            IN  /\ entities \subseteq Range(bodies[depth].holds)
                /\ Range(bodies[depth].statements) \subseteq entities
      /\ \A id \in Range(scopes[1]) : declared[id].within = 0

\* What was parsed to the end has no variable of an unknown struct: each has the
\* node of a struct of its name and that struct's size, whether it was there
\* when the variable was met or came later (fixups_resolve).
DoneMeansResolved ==
    status = "done" => \A i \in DOMAIN declared :
        LET t == declared[i].type
        IN  t.kind = "struct" => /\ t.node # 0
                                 /\ defined[t.node].kind = "struct"
                                 /\ defined[t.node].name = t.name
                                 /\ t.size = defined[t.node].size

\* A struct's name means one type in the whole text, before and after its
\* definition, although a later definition of it is accepted (and dropped by
\* symresolver_register_symbol): variables that name it agree, unless one is
\* combined with the definition itself.
Combined(i) == \E n \in DOMAIN defined : defined[n].var = i
OneNameOneType ==
    status = "done" => \A i, j \in DOMAIN declared :
        (/\ declared[i].type.kind = "struct" /\ declared[j].type.kind = "struct"
         /\ declared[i].type.name = declared[j].type.name
         /\ ~Combined(i) /\ ~Combined(j))
        => declared[i].type.node = declared[j].type.node

\* Fields that are no arrays, nor combined with the definition of their type.
Plain(node) == /\ node.kind = "struct"
               /\ \A i \in Range(node.holds) : ~declared[i].type.arrayed /\ ~Combined(i)
End(i) == declared[i].aoffset + declared[i].type.size

\* Such fields of a struct follow each other without overlap, each primitive one
\* at a multiple of its size, wherever the struct is defined
\* (compute_offset_for_struct_field).
FieldsApart ==
    \A n \in DOMAIN defined : Plain(defined[n]) =>
        /\ \A i, j \in Range(defined[n].holds) : i < j => End(i) <= declared[j].aoffset
        /\ \A i \in Range(defined[n].holds) :
              Primitive(declared[i].type) => declared[i].aoffset % declared[i].type.size = 0

\* A struct whose first field is at its start, and whose fields are declared one
\* by one, is large enough for them, and keeps an array of it aligned
\* (finalize_body adds the paddings that the offsets took).
FieldsInside ==
    \A n \in DOMAIN defined :
        LET node == defined[n]
        IN  (/\ Plain(node) /\ node.holds = node.statements
             /\ node.holds # <<>> /\ declared[node.holds[1]].aoffset = 0)
            => /\ \A i \in Range(node.holds) : End(i) <= node.size
               /\ node.largest # 0 => node.size % node.largest = 0

\* The stack of a function with no else and no plain block in it, whose bodies
\* keep its flags, has room for every variable of its body and of the bodies of
\* ifs, loops and switches in it, however deep (parse_body).
StackHoldsLocals ==
    \A f \in DOMAIN functions :
        (f # Current \/ ~Parsing) /\ ~functions[f].detached =>
            functions[f].stack_size >=
                Total(0, [i \in DOMAIN functions[f].holds |->
                            datatype_size(declared[functions[f].holds[i]].type)])

\* What a comment of src/cpp/symresolver.cpp:27-28 says: what a function defines
\* does not pollute the outer scope.
LocalStructsStayLocal ==
    \A i \in DOMAIN declared :
        LET t == declared[i].type
        IN  t.node # 0 => defined[t.node].within \in {0, declared[i].within}

\* What a comment of src/cpp/fixup.cpp:136-137 says: a struct that is used before
\* it is defined is patched once the file is parsed; a variable of it is not the
\* last that the parser registers.
ForwardReferencesWait == status = "crashed" => Last(declared).type.kind # "struct"
=============================================================================
