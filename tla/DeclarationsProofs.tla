------------------------- MODULE DeclarationsProofs -------------------------
(***************************************************************************)
(* Proofs about Declarations.                                              *)
(***************************************************************************)
EXTENDS Declarations, FiniteSetTheorems, SequenceTheorems, WellFoundedInduction, TLAPS

-----------------------------------------------------------------------------
(* Numbers and recursion                                                   *)

\* A set of numbers that is not empty has a smallest.
LEMMA Smallest ==
    ASSUME NEW S, S \subseteq Nat, S # {}
    PROVE  Min(S) \in S /\ \A y \in S : Min(S) <= y
<1> DEFINE R == OpToRel(<, Nat)
<1>1. IsWellFoundedOn(R, Nat)
      BY NatLessThanWellFounded, Zenon
<1>2. \A x, y \in Nat : <<x, y>> \in R <=> x < y
      BY DEF OpToRel
<1> HIDE DEF R
<1>3. PICK x \in S : \A y \in S : ~ (<<y, x>> \in R)
      BY <1>1, WFMin, Zenon
<1>4. ASSUME NEW y \in S
      PROVE  x <= y
  <2>1. x \in Nat /\ y \in Nat /\ ~(<<y, x>> \in R)
        BY <1>3
  <2>2. ~(y < x)
        BY <1>2, <2>1
  <2>3. QED  BY <2>1, <2>2
<1>5. QED  BY <1>4 DEF Min

\* One with a bound has a largest.
LEMMA Largest ==
    ASSUME NEW m \in Nat, NEW S, S \subseteq 1 .. m, S # {}
    PROVE  Max(S) \in S /\ \A y \in S : y <= Max(S)
<1> DEFINE T == {m - i : i \in S}
<1>1. T \subseteq Nat
  <2>1. \A i \in 1 .. m : m - i \in Nat
        OBVIOUS
  <2>2. QED  BY <2>1
<1>2. T # {}
  <2>1. PICK i \in S : TRUE
        OBVIOUS
  <2>2. m - i \in T
        BY <2>1
  <2>3. QED  BY <2>2
<1>3. Min(T) \in T /\ \A u \in T : Min(T) <= u
      BY <1>1, <1>2, Smallest
<1>4. PICK x \in S : Min(T) = m - x
      BY <1>3
<1>5. ASSUME NEW y \in S
      PROVE  x >= y
  <2>1. m - y \in T
        OBVIOUS
  <2>2. x \in 1 .. m /\ y \in 1 .. m /\ m - x <= m - y
        BY <1>3, <1>4, <2>1
  <2>3. QED  BY <2>2
<1>6. Max(S) \in S /\ \A y \in S : Max(S) >= y
      BY <1>5 DEF Max
<1>7. QED
  <2>1. ASSUME NEW y \in S PROVE y <= Max(S)
    <3>1. y \in 1 .. m /\ Max(S) \in 1 .. m /\ Max(S) >= y
          BY <1>6
    <3>2. QED  BY <3>1
  <2>2. QED  BY <1>6, <2>1

\* Induction up to N: a set with 0 and every successor has them all.
LEMMA UpTo ==
    ASSUME NEW N \in Nat, NEW S, 0 \in S,
           \A n \in 1 .. N : n - 1 \in S => n \in S
    PROVE  \A n \in 0 .. N : n \in S
<1> SUFFICES ASSUME {n \in 0 .. N : n \notin S} # {}
             PROVE  FALSE
    OBVIOUS
<1> DEFINE T == {n \in 0 .. N : n \notin S}
<1>1. Min(T) \in T /\ \A y \in T : Min(T) <= y
  <2>1. T \subseteq Nat
        OBVIOUS
  <2>2. QED  BY <2>1, Smallest
<1>2. PICK n \in T : \A y \in T : n <= y
      BY <1>1
<1>3. n \in 1 .. N
      BY <1>2
<1>4. n - 1 \in 0 .. N /\ ~(n <= n - 1)
      BY <1>3
<1>5. n - 1 \in S
      BY <1>2, <1>4
<1>6. n \notin S
      BY <1>2
<1>7. QED  BY <1>3, <1>5, <1>6

\* f follows the recursion H from b.
Recurs(f, N, V, b, H) == /\ f \in [0 .. N -> V]
                         /\ f[0] = b
                         /\ \A n \in 1 .. N : f[n] = H[<<n, f[n - 1]>>]

\* A recursion whose values stay in V has a function that follows it.
LEMMA Recursion ==
    ASSUME NEW N \in Nat, NEW V, NEW b \in V, NEW H \in [(1 .. N) \X V -> V]
    PROVE  \E f : Recurs(f, N, V, b, H)
<1> DEFINE Follows(f, m) == f[0] = b /\ \A n \in 1 .. m : f[n] = H[<<n, f[n - 1]>>]
           S == {m \in 0 .. N : \E f \in [0 .. m -> V] : Follows(f, m)}
<1>1. 0 \in S
  <2> DEFINE f == [n \in 0 .. 0 |-> b]
  <2>1. f \in [0 .. 0 -> V] /\ f[0] = b
        OBVIOUS
  <2> HIDE DEF f
  <2>2. Follows(f, 0)
        BY <2>1
  <2> HIDE DEF Follows
  <2>3. QED  BY <2>1, <2>2
<1>2. ASSUME NEW m \in 1 .. N, m - 1 \in S
      PROVE  m \in S
  <2>1. PICK f \in [0 .. m - 1 -> V] : Follows(f, m - 1)
        BY <1>2
  <2> DEFINE v == H[<<m, f[m - 1]>>]
             g == [n \in 0 .. m |-> IF n = m THEN v ELSE f[n]]
  <2>2. v \in V
        OBVIOUS
  <2> HIDE DEF v
  <2>3. g \in [0 .. m -> V]
        BY <2>2
  <2>4. g[m] = v /\ \A n \in 0 .. m - 1 : g[n] = f[n]
        OBVIOUS
  <2> HIDE DEF g
  <2>5. g[0] = b
        BY <2>1, <2>4
  <2>6. ASSUME NEW n \in 1 .. m
        PROVE  g[n] = H[<<n, g[n - 1]>>]
    <3>1. n - 1 \in 0 .. m - 1 /\ g[n - 1] = f[n - 1]
          BY <2>4
    <3>2. CASE n = m
          BY <3>1, <3>2, <2>4 DEF v
    <3>3. CASE n # m
      <4>1. n \in 1 .. m - 1 /\ g[n] = f[n]
            BY <3>3, <2>4
      <4>2. QED  BY <2>1, <3>1, <4>1
    <3>4. QED  BY <3>2, <3>3
  <2>7. Follows(g, m)
        BY <2>5, <2>6
  <2> HIDE DEF Follows
  <2>8. QED  BY <2>3, <2>7
<1> HIDE DEF S
<1>3. N \in S
      BY <1>1, <1>2, UpTo
<1>4. QED  BY <1>3 DEF S, Follows, Recurs


-----------------------------------------------------------------------------
(* Totals                                                                  *)

\* The partial totals of numbers.
Partial(u, base, s) == /\ u \in [0 .. Len(s) -> Nat]
                       /\ u[0] = base
                       /\ \A n \in 1 .. Len(s) : u[n] = u[n - 1] + s[n]

\* Total is the last of the partial totals.
LEMMA TotalIs ==
    ASSUME NEW base \in Nat, NEW s \in Seq(Nat)
    PROVE  \E u : Partial(u, base, s) /\ Total(base, s) = u[Len(s)]
<1> DEFINE N == Len(s)
           H == [p \in (1 .. N) \X Nat |-> p[2] + s[p[1]]]
           Is(f) == f = [i \in 0 .. N |-> IF i = 0 THEN base ELSE f[i - 1] + s[i]]
           u == CHOOSE f : Is(f)
<1>1. N \in Nat /\ \A i \in 1 .. N : s[i] \in Nat
      OBVIOUS
<1>2. H \in [(1 .. N) \X Nat -> Nat]
      BY <1>1
<1>3. \A n \in 1 .. N, v \in Nat : H[<<n, v>>] = v + s[n]
      OBVIOUS
<1>4. Total(base, s) = u[N]
      BY DEF Total
<1> HIDE DEF N, H
<1>5. PICK f : Recurs(f, N, Nat, base, H)
      BY <1>1, <1>2, Recursion
<1>6. f = [i \in 0 .. N |-> IF i = 0 THEN base ELSE f[i - 1] + s[i]]
  <2>1. ASSUME NEW i \in 0 .. N
        PROVE  f[i] = IF i = 0 THEN base ELSE f[i - 1] + s[i]
    <3>1. CASE i = 0
          BY <3>1, <1>5 DEF Recurs
    <3>2. CASE i # 0
      <4>1. i \in 1 .. N /\ f[i - 1] \in Nat
            BY <3>2, <1>1, <1>5 DEF Recurs
      <4>2. QED  BY <4>1, <3>2, <1>3, <1>5 DEF Recurs
    <3>3. QED  BY <3>1, <3>2
  <2>2. QED  BY <2>1, <1>5 DEF Recurs
<1>7. Is(u)
      BY <1>6
<1> HIDE DEF u
<1>8. u[0] = base /\ DOMAIN u = 0 .. N /\ \A n \in 1 .. N : u[n] = u[n - 1] + s[n]
      BY <1>1, <1>7
<1>9. \A n \in 0 .. N : n \in {k \in 0 .. N : u[k] \in Nat}
  <2> DEFINE S == {k \in 0 .. N : u[k] \in Nat}
  <2>1. 0 \in S
        BY <1>1, <1>8
  <2>2. ASSUME NEW n \in 1 .. N, n - 1 \in S
        PROVE  n \in S
    <3>1. u[n - 1] \in Nat /\ s[n] \in Nat /\ n \in 0 .. N
          BY <2>2, <1>1
    <3>2. u[n] = u[n - 1] + s[n]
          BY <1>8
    <3>3. u[n] \in Nat
          BY <3>1, <3>2
    <3>4. QED  BY <3>1, <3>3
  <2> HIDE DEF S
  <2>3. \A n \in 0 .. N : n \in S
        BY <1>1, <2>1, <2>2, UpTo
  <2>4. QED  BY <2>3 DEF S
<1>10. Partial(u, base, s)
  <2>1. u \in [0 .. N -> Nat]
        BY <1>7, <1>9
  <2>2. QED  BY <2>1, <1>8 DEF Partial, N
<1>11. QED  BY <1>4, <1>10 DEF N

\* Numbers that agree as far as k, from bases d apart, have partial totals d
\* apart.
LEMMA PartialsAgree ==
    ASSUME NEW b \in Nat, NEW d \in Nat, NEW s \in Seq(Nat), NEW t \in Seq(Nat),
           NEW c, c = b + d, NEW u, Partial(u, b, s), NEW w, Partial(w, c, t),
           NEW k \in 0 .. Len(s), k <= Len(t), \A i \in 1 .. k : s[i] = t[i]
    PROVE  w[k] = u[k] + d
<1> DEFINE S == {n \in 0 .. k : w[n] = u[n] + d}
<1>0. k \in Nat /\ Len(s) \in Nat /\ Len(t) \in Nat
      OBVIOUS
<1>1. 0 \in S
      BY <1>0 DEF Partial
<1>2. ASSUME NEW n \in 1 .. k, n - 1 \in S
      PROVE  n \in S
  <2>1. w[n - 1] = u[n - 1] + d
        BY <1>2
  <2>2. n \in 1 .. Len(s) /\ n \in 1 .. Len(t) /\ n - 1 \in 0 .. Len(s)
        BY <1>0
  <2>3. u[n] = u[n - 1] + s[n] /\ w[n] = w[n - 1] + t[n] /\ s[n] = t[n]
        BY <2>2 DEF Partial
  <2>4. u[n - 1] \in Nat /\ s[n] \in Nat
    <3>1. u[n - 1] \in Nat
          BY <2>2 DEF Partial
    <3>2. s[n] \in Nat
          BY <2>2
    <3>3. QED  BY <3>1, <3>2
  <2>5. w[n] = u[n] + d
        BY <2>1, <2>3, <2>4
  <2>6. QED  BY <2>5
<1> HIDE DEF S
<1>3. \A n \in 0 .. k : n \in S
      BY <1>0, <1>1, <1>2, UpTo
<1>4. k \in S
      BY <1>0, <1>3
<1>5. QED  BY <1>4 DEF S

\* A total is a number, no smaller than its base.
LEMMA TotalIsNat ==
    ASSUME NEW base \in Nat, NEW s \in Seq(Nat)
    PROVE  Total(base, s) \in Nat /\ Total(base, s) >= base
<1>1. PICK u : Partial(u, base, s) /\ Total(base, s) = u[Len(s)]
      BY TotalIs
<1> DEFINE S == {n \in 0 .. Len(s) : u[n] >= base}
<1>2. Len(s) \in Nat
      OBVIOUS
<1>3. 0 \in S
      BY <1>1, <1>2 DEF Partial
<1>4. ASSUME NEW n \in 1 .. Len(s), n - 1 \in S
      PROVE  n \in S
  <2>1. u[n - 1] >= base /\ u[n - 1] \in Nat /\ u[n] = u[n - 1] + s[n] /\ s[n] \in Nat
        BY <1>1, <1>2, <1>4, SMTT(40) DEF Partial
  <2>2. u[n] >= base
        BY <2>1
  <2>3. QED  BY <2>2
<1> HIDE DEF S
<1>5. \A n \in 0 .. Len(s) : n \in S
      BY <1>2, <1>3, <1>4, UpTo
<1>6. Len(s) \in S
      BY <1>2, <1>5
<1>7. QED  BY <1>1, <1>2, <1>6 DEF S, Partial

\* What is added to the base is added to the total.
LEMMA TotalShifted ==
    ASSUME NEW b \in Nat, NEW d \in Nat, NEW s \in Seq(Nat)
    PROVE  Total(b + d, s) = Total(b, s) + d
<1>1. PICK u : Partial(u, b, s) /\ Total(b, s) = u[Len(s)]
      BY TotalIs
<1>2. b + d \in Nat
      OBVIOUS
<1>3. PICK w : Partial(w, b + d, s) /\ Total(b + d, s) = w[Len(s)]
      BY <1>2, TotalIs
<1>4. w[Len(s)] = u[Len(s)] + d
      BY <1>1, <1>3, PartialsAgree
<1>5. QED  BY <1>1, <1>3, <1>4

\* The total of nothing is the base.
LEMMA TotalOfNone ==
    ASSUME NEW b \in Nat
    PROVE  Total(b, <<>>) = b
<1>1. <<>> \in Seq(Nat) /\ Len(<<>>) = 0
      OBVIOUS
<1>2. PICK u : Partial(u, b, <<>>) /\ Total(b, <<>>) = u[Len(<<>>)]
      BY <1>1, TotalIs
<1>3. QED  BY <1>1, <1>2 DEF Partial

\* One more number adds itself.
LEMMA TotalAppended ==
    ASSUME NEW b \in Nat, NEW s \in Seq(Nat), NEW x \in Nat
    PROVE  Total(b, Append(s, x)) = Total(b, s) + x
<1> DEFINE t == Append(s, x)
<1>1. t \in Seq(Nat) /\ Len(t) = Len(s) + 1 /\ t[Len(s) + 1] = x
      /\ Len(s) \in Nat /\ \A i \in 1 .. Len(s) : s[i] = t[i]
      OBVIOUS
<1> HIDE DEF t
<1>2. PICK u : Partial(u, b, s) /\ Total(b, s) = u[Len(s)]
      BY TotalIs
<1>3. PICK w : Partial(w, b, t) /\ Total(b, t) = w[Len(t)]
      BY <1>1, TotalIs
<1>4. PICK d \in Nat : d = 0 /\ b = b + d
      OBVIOUS
<1>5. w[Len(s)] = u[Len(s)] + d
  <2>1. PICK k : k = Len(s)
        OBVIOUS
  <2>2. k \in 0 .. Len(s) /\ k <= Len(t) /\ \A i \in 1 .. k : s[i] = t[i]
        BY <1>1, <2>1
  <2>3. w[k] = u[k] + d
        BY <1>1, <1>2, <1>3, <1>4, <2>2, PartialsAgree
  <2>4. QED  BY <2>1, <2>3
<1>6. Len(t) \in 1 .. Len(t) /\ Len(t) - 1 = Len(s)
      BY <1>1
<1>7. w[Len(t)] = w[Len(s)] + x
      BY <1>1, <1>3, <1>6 DEF Partial
<1>8. u[Len(s)] \in Nat
      BY <1>1, <1>2 DEF Partial
<1>9. QED  BY <1>2, <1>3, <1>4, <1>5, <1>7, <1>8 DEF t

-----------------------------------------------------------------------------
(* The invariants                                                          *)

VariableNodes == [type : Datatypes, padding : Nat, aoffset : Nat, within : Nat]
StructNodes == [kind : Aggregates, name : Names, size : Nat, largest : Nat,
                var : Nat, statements : Seq(Nat), holds : Seq(Nat), within : Nat]
BodyNodes == [kind : Aggregates \cup {"function", "block"}, name : Names \cup {"unnamed"},
              flag : {"structure", "none", "function", "global"}, met : Nat, size : Nat,
              possible : Nat, eligible : Nat, statements : Seq(Nat), holds : Seq(Nat)]
FixupNodes == [variable : Nat, resolved : BOOLEAN]
FunctionNodes == [stack_size : Nat, holds : Seq(Nat), detached : BOOLEAN]

Typed ==
    /\ scopes \in Seq(Seq(Nat))
    /\ bodies \in Seq(BodyNodes)
    /\ declared \in Seq(VariableNodes)
    /\ defined \in Seq(StructNodes)
    /\ symbols \in Seq(Nat)
    /\ fixups \in Seq(FixupNodes)
    /\ functions \in Seq(FunctionNodes)
    /\ cursor \in 0 .. Len(fixups) + 1
    /\ constructs \in 0 .. MaxConstructs
    /\ status \in {"parsing", "fixing", "done", "aborted", "crashed"}

\* The ids of a sequence are those of variables of vs.
Ids(s, vs) == \A k \in DOMAIN s : s[k] \in DOMAIN vs

\* A type says what the table and the nodes say of it.
Known(t, nodes) ==
    /\ t.kind = "primitive" => /\ t.node = 0
                               /\ t.name \in DOMAIN Primitives
                               /\ t.size = Primitives[t.name]
    /\ t.node # 0 => /\ t.node \in DOMAIN nodes
                     /\ nodes[t.node].kind = t.kind
                     /\ nodes[t.node].name = t.name
                     /\ t.kind = "struct" => nodes[t.node].size = t.size

TableSet == [scopes : Seq(Seq(Nat)), declared : Seq(VariableNodes),
             fixups : Seq(FixupNodes)]

\* The entities, types and fixups of tables, whose types refer to nodes.
TablesOK(tables, nodes) ==
    /\ tables \in TableSet
    /\ \A s \in DOMAIN tables.scopes : Ids(tables.scopes[s], tables.declared)
    /\ \A i \in DOMAIN tables.declared : Known(tables.declared[i].type, nodes)
    /\ \A j \in DOMAIN tables.fixups :
          /\ tables.fixups[j].variable \in DOMAIN tables.declared
          /\ tables.declared[tables.fixups[j].variable].type.kind = "struct"

BodyOK(b, vs) ==
    /\ Ids(b.statements, vs) /\ Ids(b.holds, vs)
    /\ b.possible \in 0 .. Len(vs)
    /\ b.eligible # 0 => b.eligible \in DOMAIN vs /\ Primitive(vs[b.eligible].type)
    /\ b.kind \in Aggregates => b.name \in Names
    /\ b.kind = "struct" => b.flag = "structure"

\* The node that a body met is one of its kind and name.
MetOK(b, nodes) == b.met # 0 => /\ b.met \in DOMAIN nodes
                                /\ nodes[b.met].kind = b.kind
                                /\ nodes[b.met].name = b.name
NodeOK(n, vs) == Ids(n.statements, vs) /\ Ids(n.holds, vs) /\ n.var \in 0 .. Len(vs)

Refers ==
    /\ TablesOK(Tables, defined)
    /\ \A k \in DOMAIN symbols : symbols[k] \in DOMAIN defined
    /\ \A d \in DOMAIN bodies : BodyOK(bodies[d], declared)
    /\ \A d \in DOMAIN bodies : MetOK(bodies[d], defined)
    /\ \A n \in DOMAIN defined : NodeOK(defined[n], declared)
    /\ \A f \in DOMAIN functions : Ids(functions[f].holds, declared)
    /\ \A d \in DOMAIN bodies : bodies[d].kind \in {"function", "block"} => functions # <<>>
    /\ status \in {"fixing", "done"} => bodies = <<>>
    /\ status = "fixing" => cursor # 0

BaseInv == Typed /\ Refers /\ ScopesNest

\* A variable of a struct not known yet has a fixup that will see to it, none is
\* left at the end, and the others of a struct's name agree with the table.
Waiting ==
    /\ \A i \in DOMAIN declared :
          declared[i].type.kind = "struct" /\ declared[i].type.node = 0 =>
             \E j \in DOMAIN fixups : fixups[j].variable = i /\ ~fixups[j].resolved
    /\ status = "done" => \A j \in DOMAIN fixups : fixups[j].resolved
    /\ \A i \in DOMAIN declared :
          (/\ declared[i].type.kind = "struct" /\ declared[i].type.node # 0
           /\ ~Combined(i)) => declared[i].type.node = Lookup(declared[i].type.name)

\* Where a variable ends; and that fields follow each other, each primitive one
\* aligned, with the paddings that are noted.
EndOf(i, vs) == vs[i].aoffset + vs[i].type.size
Spaced(s, vs) ==
    /\ \A k, l \in DOMAIN s : k < l => EndOf(s[k], vs) <= vs[s[l]].aoffset
    /\ \A k \in DOMAIN s :
          Primitive(vs[s[k]].type) => vs[s[k]].aoffset % vs[s[k]].type.size = 0
    /\ \A k \in DOMAIN s : k > 1 =>
          vs[s[k]].aoffset = EndOf(s[k - 1], vs) + vs[s[k]].padding
    /\ s # <<>> /\ vs[s[1]].aoffset = 0 => vs[s[1]].padding = 0

-----------------------------------------------------------------------------
(* Names                                                                   *)

\* Lookup, in other tables.
Found(syms, nodes, name) ==
    LET found == {i \in DOMAIN syms : nodes[syms[i]].name = name}
    IN  IF found = {} THEN 0 ELSE syms[Min(found)]

\* What is found is a node of the name, and nothing is found only if no symbol
\* has it.
LEMMA FoundIs ==
    ASSUME NEW syms \in Seq(Nat), NEW nodes \in Seq(StructNodes), NEW name,
           \A k \in DOMAIN syms : syms[k] \in DOMAIN nodes
    PROVE  /\ Found(syms, nodes, name) \in Nat
           /\ Found(syms, nodes, name) # 0 =>
                 /\ Found(syms, nodes, name) \in DOMAIN nodes
                 /\ nodes[Found(syms, nodes, name)].name = name
           /\ Found(syms, nodes, name) = 0 =>
                 \A i \in DOMAIN syms : nodes[syms[i]].name # name
<1> DEFINE F == {i \in DOMAIN syms : nodes[syms[i]].name = name}
<1>1. CASE F = {}
      BY <1>1 DEF Found
<1>2. CASE F # {}
  <2>1. F \subseteq Nat
        OBVIOUS
  <2>2. Min(F) \in F
        BY <1>2, <2>1, Smallest
  <2>3. Found(syms, nodes, name) = syms[Min(F)]
        BY <1>2 DEF Found
  <2>4. syms[Min(F)] \in DOMAIN nodes /\ nodes[syms[Min(F)]].name = name
        BY <2>2
  <2>5. \A n \in DOMAIN nodes : n \in Nat /\ n # 0
        OBVIOUS
  <2>6. QED  BY <2>3, <2>4, <2>5
<1>3. QED  BY <1>1, <1>2

\* Names found keep their node when nodes and symbols are added.
LEMMA FoundKept ==
    ASSUME NEW syms \in Seq(Nat), NEW nodes \in Seq(StructNodes),
           NEW syms2 \in Seq(Nat), NEW nodes2 \in Seq(StructNodes), NEW name,
           \A k \in DOMAIN syms : syms[k] \in DOMAIN nodes,
           \A n \in DOMAIN nodes : n \in DOMAIN nodes2 /\ nodes2[n] = nodes[n],
           \A k \in DOMAIN syms : k \in DOMAIN syms2 /\ syms2[k] = syms[k],
           Found(syms, nodes, name) # 0
    PROVE  Found(syms2, nodes2, name) = Found(syms, nodes, name)
<1> DEFINE F == {i \in DOMAIN syms : nodes[syms[i]].name = name}
           G == {i \in DOMAIN syms2 : nodes2[syms2[i]].name = name}
<1>1. F # {} /\ Found(syms, nodes, name) = syms[Min(F)]
      BY DEF Found
<1>2. F \subseteq G /\ F \subseteq Nat /\ G \subseteq Nat
      OBVIOUS
<1>3. Min(F) \in F /\ \A y \in F : Min(F) <= y
      BY <1>1, <1>2, Smallest
<1>4. Min(G) \in G /\ \A y \in G : Min(G) <= y
      BY <1>1, <1>2, Smallest
<1>5. Min(G) <= Min(F)
      BY <1>2, <1>3, <1>4
<1>6. Min(G) \in DOMAIN syms
  <2>1. Min(F) \in 1 .. Len(syms) /\ Min(G) \in 1 .. Len(syms2)
        BY <1>3, <1>4
  <2>2. QED  BY <1>5, <2>1
<1>7. Min(G) \in F
      BY <1>4, <1>6
<1>8. Min(F) <= Min(G) /\ Min(F) \in Nat /\ Min(G) \in Nat
      BY <1>2, <1>3, <1>4, <1>7
<1>9. Min(F) = Min(G)
      BY <1>5, <1>8
<1>10. Found(syms2, nodes2, name) = syms2[Min(G)]
      BY <1>4 DEF Found
<1>11. QED  BY <1>1, <1>3, <1>9, <1>10

-----------------------------------------------------------------------------
(* The scopes of bodies                                                    *)

\* ScopeOf, for other bodies.
Depth(bs, d) == 1 + d + Cardinality({i \in 1 .. d : bs[i].kind # "block"})

\* The outermost body has the second scope or the third, and each further body
\* one or two more.
LEMMA DepthSteps ==
    ASSUME NEW bs, NEW d \in Nat
    PROVE  /\ Depth(bs, 0) = 1
           /\ Depth(bs, d) \in Nat
           /\ Depth(bs, d) >= d + 1
           /\ Depth(bs, d + 1) = Depth(bs, d) + IF bs[d + 1].kind = "block" THEN 1 ELSE 2
<1> DEFINE S(k) == {i \in 1 .. k : bs[i].kind # "block"}
<1>1. \A k \in Nat : IsFiniteSet(S(k)) /\ Cardinality(S(k)) \in Nat
  <2> SUFFICES ASSUME NEW k \in Nat
               PROVE  IsFiniteSet(S(k)) /\ Cardinality(S(k)) \in Nat
      OBVIOUS
  <2>1. IsFiniteSet(1 .. k)
        BY FS_Interval
  <2>2. IsFiniteSet(S(k))
        BY <2>1, FS_Subset
  <2>3. QED  BY <2>2, FS_CardinalityType
<1>2. S(0) = {}
      OBVIOUS
<1>3. Cardinality(S(0)) = 0
      BY <1>2, FS_EmptySet
<1>4. Cardinality(S(d + 1)) = Cardinality(S(d)) + IF bs[d + 1].kind = "block" THEN 0 ELSE 1
  <2>1. CASE bs[d + 1].kind = "block"
    <3>1. \A i : i \in S(d + 1) <=> i \in S(d)
          BY <2>1
    <3>2. S(d + 1) = S(d) /\ Cardinality(S(d)) \in Nat
          BY <1>1, <3>1
    <3> HIDE DEF S
    <3>3. QED  BY <2>1, <3>2
  <2>2. CASE bs[d + 1].kind # "block"
    <3>1. S(d + 1) = S(d) \cup {d + 1} /\ d + 1 \notin S(d)
          BY <2>2
    <3>2. IsFiniteSet(S(d)) /\ Cardinality(S(d)) \in Nat
          BY <1>1
    <3> HIDE DEF S
    <3>3. Cardinality(S(d) \cup {d + 1}) = Cardinality(S(d)) + 1
          BY <3>1, <3>2, FS_AddElement
    <3>4. QED  BY <2>2, <3>1, <3>3
  <2>3. QED  BY <2>1, <2>2
<1>5. Depth(bs, 0) = 1 /\ Depth(bs, d) = 1 + d + Cardinality(S(d))
      /\ Depth(bs, d + 1) = 1 + (d + 1) + Cardinality(S(d + 1))
      BY <1>3 DEF Depth
<1> HIDE DEF S
<1>6. QED  BY <1>1, <1>4, <1>5

\* An inner body's scope is above those of the bodies around it.
LEMMA DepthGrows ==
    ASSUME NEW bs, NEW m \in Nat, NEW d \in 0 .. m
    PROVE  Depth(bs, d) <= Depth(bs, m) /\ (d < m => Depth(bs, d) < Depth(bs, m))
<1> DEFINE S == {k \in 0 .. m - d : /\ Depth(bs, d) <= Depth(bs, d + k)
                                    /\ k > 0 => Depth(bs, d) < Depth(bs, d + k)}
<1>1. \A k \in Nat : Depth(bs, k) \in Nat
      BY DepthSteps
<1>2. 0 \in S
      BY <1>1
<1>3. ASSUME NEW k \in 1 .. m - d, k - 1 \in S
      PROVE  k \in S
  <2>1. PICK e \in Nat : e = d + k - 1
        OBVIOUS
  <2>2. Depth(bs, e + 1) > Depth(bs, e) /\ Depth(bs, d) <= Depth(bs, e)
        /\ e + 1 = d + k
    <3>1. Depth(bs, e + 1) > Depth(bs, e)
          BY <1>1, DepthSteps
    <3>2. d + (k - 1) = e /\ e + 1 = d + k
          BY <2>1
    <3>3. QED  BY <1>3, <3>1, <3>2
  <2>3. Depth(bs, d) < Depth(bs, d + k)
        BY <1>1, <2>2
  <2>4. QED  BY <1>1, <2>3
<1>4. m - d \in Nat
      OBVIOUS
<1> HIDE DEF S
<1>5. \A k \in 0 .. m - d : k \in S
      BY <1>2, <1>3, <1>4, UpTo
<1>6. m - d \in S
      BY <1>4, <1>5
<1>7. d + (m - d) = m
      OBVIOUS
<1>8. QED  BY <1>6, <1>7 DEF S

\* It depends on the kinds of the bodies around only.
LEMMA DepthAlike ==
    ASSUME NEW bs, NEW cs, NEW d, \A i \in 1 .. d : bs[i].kind = cs[i].kind
    PROVE  Depth(bs, d) = Depth(cs, d)
<1>1. {i \in 1 .. d : bs[i].kind # "block"} = {i \in 1 .. d : cs[i].kind # "block"}
      OBVIOUS
<1>2. QED  BY <1>1 DEF Depth

-----------------------------------------------------------------------------
(* Offsets and paddings                                                    *)

\* What a number lacks of a multiple makes it one.
LEMMA Multiple ==
    ASSUME NEW v \in Nat, NEW to \in Nat \ {0}, v % to # 0
    PROVE  (v + (to - (v % to))) % to = 0
<1> DEFINE q == v \div to
<1>1. v = to * q + (v % to)
      BY SMTT(30)
<1>2. q \in Nat /\ v % to \in Nat
      OBVIOUS
<1> HIDE DEF q
<1>3. v + (to - (v % to)) = to * (q + 1)
      BY <1>1, <1>2, SMTT(30)
<1>4. \A k \in Nat : (to * k) % to = 0
      BY SMTT(30)
<1>5. QED  BY <1>2, <1>3, <1>4

\* A padding is a number, and brings a number to a multiple.
LEMMA PaddingFills ==
    ASSUME NEW val \in Int, NEW to \in Nat \ {0}
    PROVE  /\ padding(val, to) \in Nat
           /\ val \in Nat => /\ align_value(val, to) \in Nat
                             /\ align_value(val, to) >= val
                             /\ (val + padding(val, to)) % to = 0
                             /\ align_value(val, to) % to = 0
<1>1. \A a \in Int : a % to \in 0 .. to - 1
      OBVIOUS
<1>2. -val \in Int
      OBVIOUS
<1>3. CASE val >= 0
  <2>1. Rem(val, to) = val % to
        BY <1>3 DEF Rem
  <2>2. padding(val, to) \in Nat
        BY <1>1, <2>1 DEF padding
  <2>3. (val + padding(val, to)) % to = 0
    <3>1. CASE val % to = 0
          BY <2>1, <3>1 DEF padding
    <3>2. CASE val % to # 0
      <4>1. padding(val, to) = to - (val % to)
            BY <2>1, <3>2 DEF padding
      <4>2. val \in Nat
            BY <1>3
      <4>3. (val + (to - (val % to))) % to = 0
            BY <3>2, <4>2, Multiple
      <4>4. QED  BY <4>1, <4>3
    <3>3. QED  BY <3>1, <3>2
  <2>4. QED  BY <1>3, <2>2, <2>3 DEF align_value
<1>4. CASE ~(val >= 0)
  <2>1. Rem(val, to) = -((-val) % to)
        BY <1>4 DEF Rem
  <2>2. (-val) % to \in 0 .. to - 1
        BY <1>1, <1>2
  <2>3. padding(val, to) \in Nat
        BY <2>1, <2>2 DEF padding
  <2>4. QED  BY <1>4, <2>3
<1>5. QED  BY <1>3, <1>4

\* The last entity is a variable, and is the innermost scope's if that has any.
LEMMA LastEntityIs ==
    ASSUME NEW nodes, NEW tables, TablesOK(tables, nodes), NEW stop \in {0, 1}
    PROVE  LET sc == tables.scopes
               last == LastEntity(sc, stop)
           IN  /\ last # 0 => last \in DOMAIN tables.declared
               /\ Len(sc) > stop /\ sc[Len(sc)] # <<>> => last = Last(sc[Len(sc)]) /\ last # 0
<1> DEFINE sc == tables.scopes
           held == {i \in stop + 1 .. Len(sc) : sc[i] # <<>>}
<1>1. sc \in Seq(Seq(Nat)) /\ Len(sc) \in Nat
      BY DEF TablesOK, TableSet
<1>2. \A i \in held : i \in DOMAIN sc /\ sc[i] \in Seq(Nat) /\ sc[i] # <<>>
      BY <1>1
<1>3. \A i \in held : Last(sc[i]) \in DOMAIN tables.declared
  <2> SUFFICES ASSUME NEW i \in held
               PROVE  Last(sc[i]) \in DOMAIN tables.declared
      OBVIOUS
  <2>1. Len(sc[i]) \in DOMAIN sc[i]
        BY <1>2
  <2>2. QED  BY <1>2, <2>1 DEF TablesOK, Ids, Last
<1>4. \A i \in DOMAIN tables.declared : i # 0
      BY DEF TablesOK, TableSet
<1>5. held # {} => Max(held) \in held /\ \A y \in held : y <= Max(held)
  <2>1. held \subseteq 1 .. Len(sc)
        BY <1>1
  <2>2. QED  BY <1>1, <2>1, Largest
<1>6. LastEntity(sc, stop) = IF held = {} THEN 0 ELSE Last(sc[Max(held)])
      BY DEF LastEntity
<1>7. LastEntity(sc, stop) # 0 => LastEntity(sc, stop) \in DOMAIN tables.declared
      BY <1>3, <1>5, <1>6
<1>8. ASSUME Len(sc) > stop, sc[Len(sc)] # <<>>
      PROVE  LastEntity(sc, stop) = Last(sc[Len(sc)]) /\ LastEntity(sc, stop) # 0
  <2>1. Len(sc) \in held
        BY <1>1, <1>8
  <2>2. Max(held) \in held /\ Len(sc) <= Max(held)
        BY <1>5, <2>1
  <2>3. Max(held) = Len(sc)
        BY <1>1, <2>2
  <2>4. QED  BY <1>3, <1>4, <1>6, <2>1, <2>3
<1>9. QED  BY <1>7, <1>8

\* Where a variable goes: a field behind the one before it.
LEMMA PlaceIs ==
    ASSUME NEW nodes, NEW tables, TablesOK(tables, nodes),
           NEW t \in Datatypes, Known(t, nodes), NEW flag
    PROVE  LET place == Place(tables, t, flag)
               last == LastEntity(tables.scopes, 0)
           IN  /\ place.padding \in Nat /\ place.aoffset \in Nat
               /\ flag = "structure" =>
                    /\ Primitive(t) => place.aoffset % t.size = 0
                    /\ last # 0 =>
                         place.aoffset = EndOf(last, tables.declared) + place.padding
                    /\ place.aoffset = 0 => place.padding = 0
<1> DEFINE stop == IF flag = "structure" THEN 0 ELSE 1
           last == LastEntity(tables.scopes, stop)
           before == tables.declared[last]
           after == CASE flag = "structure" -> before.aoffset + before.type.size
                      [] flag = "argument" -> before.aoffset + datatype_size(before.type)
                      [] OTHER -> datatype_size(t) - before.aoffset
           pad == IF flag = "global" \/ last = 0 \/ ~Primitive(t) THEN 0
                  ELSE padding(after, t.size)
           place == Place(tables, t, flag)
<1>1. place = [padding |-> pad,
               aoffset |-> IF flag = "structure" /\ last # 0 THEN after + pad ELSE 0]
      BY DEF Place
<1>2. last # 0 => last \in DOMAIN tables.declared
  <2>1. stop \in {0, 1}
        OBVIOUS
  <2> HIDE DEF stop
  <2>2. QED  BY <2>1, LastEntityIs
<1>3. last # 0 => before \in VariableNodes
      BY <1>2 DEF TablesOK, TableSet
<1>4. t.size \in Nat /\ (Primitive(t) => t.size \in Nat \ {0})
      BY DeclarationsAssumption DEF Datatypes, Known, Primitive
<1>5. \A v \in VariableNodes : /\ v.aoffset \in Nat /\ v.type.size \in Nat
                               /\ datatype_size(v.type) \in Nat
      BY DEF VariableNodes, Datatypes, datatype_size
<1>6. datatype_size(t) \in Nat
      BY DEF Datatypes, datatype_size
<1>7. last # 0 => after \in Int /\ (flag = "structure" => after \in Nat)
      BY <1>3, <1>5, <1>6
<1>8. flag = "structure" => after = EndOf(last, tables.declared) /\ stop = 0
      BY DEF EndOf
<1> HIDE DEF after, last, place, before
<1>9. pad \in Nat
      BY <1>4, <1>7, PaddingFills
<1>10. last # 0 /\ flag = "structure" /\ Primitive(t) => (after + pad) % t.size = 0
      BY <1>4, <1>7, PaddingFills
<1>11. ASSUME Primitive(t) PROVE 0 % t.size = 0
      BY <1>4, <1>11
<1> HIDE DEF pad
<1>12. place.padding \in Nat /\ place.aoffset \in Nat
      BY <1>1, <1>7, <1>9
<1>13. ASSUME flag = "structure"
       PROVE  /\ Primitive(t) => place.aoffset % t.size = 0
              /\ last # 0 => place.aoffset = EndOf(last, tables.declared) + place.padding
              /\ place.aoffset = 0 => place.padding = 0
  <2>1. CASE last = 0
    <3>1. place.aoffset = 0 /\ place.padding = 0
          BY <1>1, <2>1 DEF pad
    <3>2. QED  BY <1>11, <2>1, <3>1
  <2>2. CASE last # 0
    <3>1. place.aoffset = after + pad /\ place.padding = pad
          BY <1>1, <1>13, <2>2
    <3>2. after \in Nat /\ after = EndOf(last, tables.declared)
          BY <1>7, <1>8, <1>13, <2>2
    <3>3. QED  BY <1>9, <1>10, <1>13, <2>2, <3>1, <3>2
  <2>3. QED  BY <2>1, <2>2
<1>14. flag = "structure" => last = LastEntity(tables.scopes, 0)
      BY DEF last
<1>15. QED  BY <1>12, <1>13, <1>14 DEF place

-----------------------------------------------------------------------------
(* Registering variables                                                   *)

\* new is old with n variables more, of types in types, in the last scope.
More(old, new, n, flag, types, nodes) ==
    LET m == Len(old.declared)
        top == Len(old.scopes)
    IN  /\ TablesOK(new, nodes)
        /\ Len(new.declared) = m + n
        /\ \A i \in 1 .. m : new.declared[i] = old.declared[i]
        /\ \A i \in m + 1 .. m + n : /\ new.declared[i].type \in types
                                     /\ new.declared[i].within = Current
        /\ Len(new.scopes) = top
        /\ \A s \in 1 .. top - 1 : new.scopes[s] = old.scopes[s]
        /\ new.scopes[top] = old.scopes[top] \o [k \in 1 .. n |-> m + k]
        /\ Len(new.fixups) >= Len(old.fixups)
        /\ \A j \in 1 .. Len(old.fixups) : new.fixups[j] = old.fixups[j]
        /\ \A j \in Len(old.fixups) + 1 .. Len(new.fixups) :
              /\ ~new.fixups[j].resolved
              /\ new.fixups[j].variable \in m + 1 .. m + n
              /\ new.declared[new.fixups[j].variable].type.node = 0
        /\ \A i \in m + 1 .. m + n :
              new.declared[i].type.kind = "struct" /\ new.declared[i].type.node = 0 =>
                 \E j \in DOMAIN new.fixups : /\ new.fixups[j].variable = i
                                              /\ ~new.fixups[j].resolved
        /\ flag = "structure" /\ Spaced(old.scopes[top], old.declared) =>
              Spaced(new.scopes[top], new.declared)

\* The variables that were there keep their places.
LEMMA SpacedKept ==
    ASSUME NEW s \in Seq(Nat), NEW vs, NEW ws, Ids(s, vs), Spaced(s, vs),
           \A i \in DOMAIN vs : ws[i] = vs[i]
    PROVE  Spaced(s, ws)
<1>1. \A k \in DOMAIN s : s[k] \in DOMAIN vs /\ ws[s[k]] = vs[s[k]]
      BY DEF Ids
<1>2. \A k \in DOMAIN s : EndOf(s[k], ws) = EndOf(s[k], vs)
      BY <1>1 DEF EndOf
<1>3. \A k \in DOMAIN s : /\ (k > 1 => k - 1 \in DOMAIN s)
                           /\ (s # <<>> => 1 \in DOMAIN s)
      OBVIOUS
<1>4. QED  BY <1>1, <1>2, <1>3 DEF Spaced

\* A field behind the last one, and not before, keeps the fields apart.
LEMMA SpacedAppended ==
    ASSUME NEW s \in Seq(Nat), NEW vs \in Seq(VariableNodes), Ids(s, vs), Spaced(s, vs),
           NEW id \in DOMAIN vs,
           Primitive(vs[id].type) => vs[id].aoffset % vs[id].type.size = 0,
           s # <<>> => vs[id].aoffset = EndOf(Last(s), vs) + vs[id].padding,
           vs[id].aoffset = 0 => vs[id].padding = 0
    PROVE  Spaced(Append(s, id), vs)
<1> DEFINE e == Append(s, id)
           n == Len(s)
<1>1. n \in Nat /\ DOMAIN s = 1 .. n /\ DOMAIN e = 1 .. n + 1 /\ e[n + 1] = id
      /\ \A k \in 1 .. n : e[k] = s[k] /\ s[k] \in DOMAIN vs
      BY DEF Ids
<1>2. \A i \in DOMAIN vs : /\ vs[i].aoffset \in Nat /\ vs[i].type.size \in Nat
                           /\ vs[i].padding \in Nat /\ EndOf(i, vs) \in Nat
                           /\ EndOf(i, vs) >= vs[i].aoffset
  <2>1. \A v \in VariableNodes : /\ v.aoffset \in Nat /\ v.type.size \in Nat
                                 /\ v.padding \in Nat
        BY DEF VariableNodes, Datatypes
  <2>2. \A i \in DOMAIN vs : vs[i] \in VariableNodes
        OBVIOUS
  <2>3. QED  BY <2>1, <2>2 DEF EndOf
<1> HIDE DEF e, n
<1>3. n > 0 => vs[id].aoffset = EndOf(s[n], vs) + vs[id].padding
      BY <1>1 DEF Last, n
<1>4. ASSUME NEW k \in DOMAIN e, NEW l \in DOMAIN e, k < l
      PROVE  EndOf(e[k], vs) <= vs[e[l]].aoffset
  <2>1. CASE l \in 1 .. n
    <3>1. k \in 1 .. n /\ e[k] = s[k] /\ e[l] = s[l]
          BY <1>1, <1>4, <2>1
    <3>2. QED  BY <1>1, <1>4, <2>1, <3>1 DEF Spaced
  <2>2. CASE l = n + 1
    <3>1. k \in 1 .. n /\ e[k] = s[k] /\ e[l] = id /\ n > 0
          BY <1>1, <1>4, <2>2
    <3>2. EndOf(s[k], vs) <= EndOf(s[n], vs)
      <4>1. CASE k = n
            BY <1>1, <1>2, <3>1, <4>1
      <4>2. CASE k < n
        <5>1. EndOf(s[k], vs) <= vs[s[n]].aoffset
              BY <1>1, <3>1, <4>2 DEF Spaced
        <5>2. EndOf(s[k], vs) \in Nat /\ EndOf(s[n], vs) \in Nat
              /\ EndOf(s[n], vs) >= vs[s[n]].aoffset /\ vs[s[n]].aoffset \in Nat
              BY <1>1, <1>2, <3>1
        <5>3. QED  BY <5>1, <5>2
      <4>3. QED  BY <1>1, <3>1, <4>1, <4>2
    <3>3. EndOf(s[k], vs) \in Nat /\ EndOf(s[n], vs) \in Nat /\ vs[id].padding \in Nat
          BY <1>1, <1>2, <3>1
    <3>4. QED  BY <1>3, <3>1, <3>2, <3>3
  <2>3. QED  BY <1>1, <2>1, <2>2
<1>5. ASSUME NEW k \in DOMAIN e
      PROVE  /\ Primitive(vs[e[k]].type) => vs[e[k]].aoffset % vs[e[k]].type.size = 0
             /\ k > 1 => vs[e[k]].aoffset = EndOf(e[k - 1], vs) + vs[e[k]].padding
  <2>1. CASE k \in 1 .. n
    <3>1. e[k] = s[k] /\ (k > 1 => e[k - 1] = s[k - 1])
          BY <1>1, <2>1
    <3>2. QED  BY <1>1, <2>1, <3>1 DEF Spaced
  <2>2. CASE k = n + 1
    <3>1. e[k] = id /\ (k > 1 => n > 0 /\ e[k - 1] = s[n])
          BY <1>1, <2>2
    <3>2. QED  BY <1>3, <3>1
  <2>3. QED  BY <1>1, <2>1, <2>2
<1>6. vs[e[1]].aoffset = 0 => vs[e[1]].padding = 0
  <2>1. CASE n = 0
        BY <1>1, <2>1
  <2>2. CASE n > 0
    <3>1. e[1] = s[1] /\ s # <<>>
          BY <1>1, <2>2 DEF n
    <3>2. QED  BY <3>1 DEF Spaced
  <2>3. QED  BY <1>1, <2>1, <2>2
<1>7. QED  BY <1>4, <1>5, <1>6 DEF Spaced, e

\* register_variable adds one variable.
LEMMA RegisterAdds ==
    ASSUME Current \in Nat,
           NEW nodes, NEW old, TablesOK(old, nodes), old.scopes # <<>>,
           NEW types, types \subseteq Datatypes, \A x \in types : Known(x, nodes),
           NEW t \in types, NEW flag
    PROVE  More(old, Register(old, t, flag), 1, flag, types, nodes)
<1> DEFINE place == Place(old, t, flag)
           m == Len(old.declared)
           top == Len(old.scopes)
           v == [type |-> t, padding |-> place.padding, aoffset |-> place.aoffset,
                 within |-> Current]
           fix == [variable |-> m + 1, resolved |-> FALSE]
           new == Register(old, t, flag)
           last == LastEntity(old.scopes, 0)
<1>1. /\ old.scopes \in Seq(Seq(Nat)) /\ old.declared \in Seq(VariableNodes)
      /\ old.fixups \in Seq(FixupNodes)
      /\ m \in Nat /\ top \in Nat \ {0} /\ old.scopes[top] \in Seq(Nat)
      BY DEF TablesOK, TableSet
<1>2. t \in Datatypes /\ Known(t, nodes)
      OBVIOUS
<1>3. /\ place.padding \in Nat /\ place.aoffset \in Nat
      /\ flag = "structure" =>
           /\ Primitive(t) => place.aoffset % t.size = 0
           /\ last # 0 => place.aoffset = EndOf(last, old.declared) + place.padding
           /\ place.aoffset = 0 => place.padding = 0
      BY <1>2, PlaceIs
<1>4. /\ new.scopes = [old.scopes EXCEPT ![top] = Append(@, m + 1)]
      /\ new.declared = Append(old.declared, v)
      /\ new.fixups = IF t.kind = "struct" /\ t.node = 0
                      THEN Append(old.fixups, fix) ELSE old.fixups
      /\ new = [scopes |-> new.scopes, declared |-> new.declared, fixups |-> new.fixups]
      BY DEF Register
<1> HIDE DEF new, place
<1>5. v \in VariableNodes /\ v.type = t /\ v.padding = place.padding
      /\ v.aoffset = place.aoffset /\ v.within = Current
      BY <1>2, <1>3 DEF VariableNodes
<1>6. fix \in FixupNodes /\ fix.variable = m + 1 /\ ~fix.resolved
      BY <1>1 DEF FixupNodes
<1> HIDE DEF v, fix
<1>7. /\ new.declared \in Seq(VariableNodes) /\ Len(new.declared) = m + 1
      /\ \A i \in 1 .. m : new.declared[i] = old.declared[i]
      /\ new.declared[m + 1] = v
      BY <1>1, <1>4, <1>5
<1> DEFINE e == Append(old.scopes[top], m + 1)
<1>8. e \in Seq(Nat) /\ e = old.scopes[top] \o [k \in 1 .. 1 |-> m + k]
  <2>1. PICK s \in Seq(Nat) : s = old.scopes[top]
        BY <1>1
  <2>2. PICK x \in Nat : x = m + 1
        BY <1>1
  <2>3. Append(s, x) = s \o <<x>> /\ Append(s, x) \in Seq(Nat)
        OBVIOUS
  <2>4. e = old.scopes[top] \o <<m + 1>> /\ e \in Seq(Nat)
        BY <2>1, <2>2, <2>3
  <2>5. <<m + 1>> = [k \in 1 .. 1 |-> m + k]
        BY <1>1
  <2>6. QED  BY <2>4, <2>5
<1>9. /\ new.scopes \in Seq(Seq(Nat)) /\ Len(new.scopes) = top
      /\ \A s \in 1 .. top - 1 : new.scopes[s] = old.scopes[s]
      /\ new.scopes[top] = e
      BY <1>1, <1>4, <1>8
<1>10. \A s \in DOMAIN old.scopes : Ids(old.scopes[s], old.declared)
       BY DEF TablesOK
<1>11. Ids(e, new.declared)
  <2>1. Ids(old.scopes[top], old.declared)
        BY <1>1, <1>10
  <2>2. \A k \in DOMAIN e : (k \in DOMAIN old.scopes[top] /\ e[k] = old.scopes[top][k])
                            \/ e[k] = m + 1
        BY <1>1
  <2> HIDE DEF e
  <2>3. DOMAIN old.declared = 1 .. m /\ DOMAIN new.declared = 1 .. m + 1
        BY <1>1, <1>7
  <2>4. QED  BY <1>1, <2>1, <2>2, <2>3, SMTT(40) DEF Ids
<1> HIDE DEF e
<1>12. \A s \in DOMAIN new.scopes : Ids(new.scopes[s], new.declared)
  <2> SUFFICES ASSUME NEW s \in DOMAIN new.scopes
               PROVE  Ids(new.scopes[s], new.declared)
      OBVIOUS
  <2>1. CASE s = top
        BY <1>9, <1>11, <2>1
  <2>2. CASE s # top
    <3>1. s \in DOMAIN old.scopes /\ new.scopes[s] = old.scopes[s]
      <4>1. DOMAIN new.scopes = 1 .. top /\ DOMAIN old.scopes = 1 .. top
            BY <1>1, <1>9
      <4>2. s \in 1 .. top - 1
            BY <1>1, <2>2, <4>1
      <4>3. QED  BY <1>9, <4>1, <4>2
    <3>2. DOMAIN old.declared \subseteq DOMAIN new.declared
          BY <1>1, <1>7
    <3>3. QED  BY <1>10, <3>1, <3>2 DEF Ids
  <2>3. QED  BY <2>1, <2>2
<1>13. \A i \in DOMAIN new.declared : Known(new.declared[i].type, nodes)
  <2>1. \A i \in DOMAIN old.declared : Known(old.declared[i].type, nodes)
        BY DEF TablesOK
  <2>2. DOMAIN old.declared = 1 .. m /\ DOMAIN new.declared = 1 .. m + 1
        BY <1>1, <1>7
  <2>3. \A i \in DOMAIN new.declared : i \in DOMAIN old.declared \/ i = m + 1
        BY <1>1, <2>2
  <2>4. QED  BY <1>2, <1>5, <1>7, <2>1, <2>2, <2>3
<1>14. /\ new.fixups \in Seq(FixupNodes) /\ Len(new.fixups) >= Len(old.fixups)
       /\ \A j \in 1 .. Len(old.fixups) : new.fixups[j] = old.fixups[j]
       /\ \A j \in Len(old.fixups) + 1 .. Len(new.fixups) :
             new.fixups[j] = fix /\ t.kind = "struct" /\ t.node = 0
  <2>1. CASE t.kind = "struct" /\ t.node = 0
        BY <1>1, <1>4, <1>6, <2>1
  <2>2. CASE ~(t.kind = "struct" /\ t.node = 0)
        BY <1>1, <1>4, <2>2
  <2>3. QED  BY <2>1, <2>2
<1>15. \A j \in DOMAIN new.fixups :
          /\ new.fixups[j].variable \in DOMAIN new.declared
          /\ new.declared[new.fixups[j].variable].type.kind = "struct"
  <2> SUFFICES ASSUME NEW j \in DOMAIN new.fixups
               PROVE  /\ new.fixups[j].variable \in DOMAIN new.declared
                      /\ new.declared[new.fixups[j].variable].type.kind = "struct"
      OBVIOUS
  <2>0. DOMAIN old.declared = 1 .. m /\ DOMAIN new.declared = 1 .. m + 1
        BY <1>1, <1>7
  <2>1. CASE j \in 1 .. Len(old.fixups)
    <3>1. j \in DOMAIN old.fixups /\ new.fixups[j] = old.fixups[j]
          BY <1>1, <1>14, <2>1
    <3>2. /\ old.fixups[j].variable \in DOMAIN old.declared
          /\ old.declared[old.fixups[j].variable].type.kind = "struct"
          BY <3>1 DEF TablesOK
    <3>3. old.fixups[j].variable \in 1 .. m
          BY <2>0, <3>2
    <3>4. QED  BY <1>1, <1>7, <2>0, <3>1, <3>2, <3>3, SMTT(40)
  <2>2. CASE j \notin 1 .. Len(old.fixups)
    <3>1. j \in Len(old.fixups) + 1 .. Len(new.fixups)
          BY <1>1, <1>14, <2>2
    <3>2. new.fixups[j] = fix /\ t.kind = "struct"
          BY <1>14, <3>1
    <3>3. new.declared[m + 1].type = t
          BY <1>5, <1>7
    <3>4. m + 1 \in DOMAIN new.declared
          BY <1>1, <2>0
    <3>5. QED  BY <1>6, <3>2, <3>3, <3>4
  <2>3. QED  BY <2>1, <2>2
<1>16. TablesOK(new, nodes)
       BY <1>4, <1>7, <1>9, <1>12, <1>13, <1>14, <1>15 DEF TablesOK, TableSet
<1>17. \A j \in Len(old.fixups) + 1 .. Len(new.fixups) :
          /\ ~new.fixups[j].resolved
          /\ new.fixups[j].variable \in m + 1 .. m + 1
          /\ new.declared[new.fixups[j].variable].type.node = 0
       BY <1>1, <1>5, <1>6, <1>7, <1>14, SMTT(40)
<1>18. ASSUME t.kind = "struct", t.node = 0
       PROVE  \E j \in DOMAIN new.fixups : /\ new.fixups[j].variable = m + 1
                                           /\ ~new.fixups[j].resolved
  <2>1. Len(new.fixups) \in DOMAIN new.fixups /\ new.fixups[Len(new.fixups)] = fix
        BY <1>1, <1>4, <1>6, <1>18
  <2>2. QED  BY <1>6, <2>1
<1>19. ASSUME flag = "structure", Spaced(old.scopes[top], old.declared)
       PROVE  Spaced(new.scopes[top], new.declared)
  <2>1. Ids(old.scopes[top], old.declared)
        BY <1>1, <1>10
  <2>2. \A i \in DOMAIN old.declared : new.declared[i] = old.declared[i]
    <3>1. DOMAIN old.declared = 1 .. m
          BY <1>1
    <3>2. QED  BY <1>7, <3>1
  <2>3. Spaced(old.scopes[top], new.declared)
        BY <1>1, <1>19, <2>1, <2>2, SpacedKept
  <2>0. DOMAIN old.declared = 1 .. m /\ DOMAIN new.declared = 1 .. m + 1
        BY <1>1, <1>7
  <2>4. Ids(old.scopes[top], new.declared)
    <3>1. DOMAIN old.declared \subseteq DOMAIN new.declared
          BY <1>1, <2>0
    <3>2. QED  BY <2>1, <3>1 DEF Ids
  <2>5. m + 1 \in DOMAIN new.declared
        BY <1>1, <2>0
  <2>6. ASSUME old.scopes[top] # <<>>
        PROVE  v.aoffset = EndOf(Last(old.scopes[top]), new.declared) + v.padding
    <3>1. last = Last(old.scopes[top]) /\ last # 0 /\ last \in DOMAIN old.declared
          BY <1>1, <2>6, LastEntityIs
    <3>2. EndOf(last, new.declared) = EndOf(last, old.declared)
          BY <2>2, <3>1 DEF EndOf
    <3>3. QED  BY <1>3, <1>5, <1>19, <3>1, <3>2
  <2>7. /\ Primitive(v.type) => v.aoffset % v.type.size = 0
        /\ v.aoffset = 0 => v.padding = 0
        BY <1>3, <1>5, <1>19
  <2>8. Spaced(e, new.declared)
        BY <1>1, <1>7, <2>3, <2>4, <2>5, <2>6, <2>7, SpacedAppended DEF e
  <2>9. QED  BY <1>9, <2>8
<1>20. \A i \in m + 1 .. m + 1 : i = m + 1
       BY <1>1
<1>21. /\ \A i \in m + 1 .. m + 1 : /\ new.declared[i].type \in types
                                     /\ new.declared[i].within = Current
       /\ \A i \in m + 1 .. m + 1 :
             new.declared[i].type.kind = "struct" /\ new.declared[i].type.node = 0 =>
                \E j \in DOMAIN new.fixups : /\ new.fixups[j].variable = i
                                             /\ ~new.fixups[j].resolved
       BY <1>5, <1>7, <1>18, <1>20
<1>22. new.scopes[top] = old.scopes[top] \o [k \in 1 .. 1 |-> m + k]
       BY <1>8, <1>9
<1>23. \A j \in 1 .. Len(old.fixups) : new.fixups[j] = old.fixups[j]
       BY <1>14
<1>24. Len(new.fixups) >= Len(old.fixups)
       BY <1>14
<1>25. QED
       BY <1>7, <1>9, <1>16, <1>17, <1>19, <1>21, <1>22, <1>23, <1>24 DEF More, new

\* One variable more, after n of them.
LEMMA MoreAndMore ==
    ASSUME NEW nodes, NEW old, TablesOK(old, nodes), old.scopes # <<>>,
           NEW types, NEW flag, NEW n \in Nat,
           NEW mid, More(old, mid, n, flag, types, nodes),
           NEW new, More(mid, new, 1, flag, types, nodes)
    PROVE  More(old, new, n + 1, flag, types, nodes)
<1> DEFINE m == Len(old.declared)
           top == Len(old.scopes)
           s == old.scopes[top]
           f == Len(old.fixups)
           g == Len(mid.fixups)
           h == Len(new.fixups)
<1>1. /\ m \in Nat /\ top \in Nat \ {0} /\ s \in Seq(Nat) /\ f \in Nat
      BY DEF TablesOK, TableSet
<1>2. /\ Len(mid.declared) = m + n /\ Len(mid.scopes) = top /\ g >= f
      /\ mid.scopes[top] = s \o [k \in 1 .. n |-> m + k]
      BY DEF More
<1>3. g \in Nat /\ DOMAIN mid.fixups = 1 .. g
      BY DEF More, TablesOK, TableSet
<1>4. /\ TablesOK(new, nodes) /\ Len(new.declared) = (m + n) + 1 /\ Len(new.scopes) = top
      /\ h >= g
      BY <1>2 DEF More
<1>5. h \in Nat /\ DOMAIN new.fixups = 1 .. h
      BY <1>4 DEF TablesOK, TableSet
<1>6. /\ \A i \in 1 .. m + n : new.declared[i] = mid.declared[i]
      /\ \A i \in 1 .. m : mid.declared[i] = old.declared[i]
      BY <1>2 DEF More
<1>7. /\ \A i \in m + 1 .. m + n : /\ mid.declared[i].type \in types
                                   /\ mid.declared[i].within = Current
      /\ \A i \in (m + n) + 1 .. (m + n) + 1 : /\ new.declared[i].type \in types
                                               /\ new.declared[i].within = Current
      BY <1>2 DEF More
<1>8. /\ \A z \in 1 .. top - 1 : mid.scopes[z] = old.scopes[z]
      /\ \A z \in 1 .. top - 1 : new.scopes[z] = mid.scopes[z]
      /\ new.scopes[top] = mid.scopes[top] \o [k \in 1 .. 1 |-> (m + n) + k]
      BY <1>2 DEF More
<1>9. /\ \A j \in 1 .. f : mid.fixups[j] = old.fixups[j]
      /\ \A j \in 1 .. g : new.fixups[j] = mid.fixups[j]
      BY <1>2 DEF More
<1>10. \A j \in f + 1 .. g : /\ ~mid.fixups[j].resolved
                             /\ mid.fixups[j].variable \in m + 1 .. m + n
                             /\ mid.declared[mid.fixups[j].variable].type.node = 0
       BY DEF More
<1>11. \A j \in g + 1 .. h : /\ ~new.fixups[j].resolved
                             /\ new.fixups[j].variable \in (m + n) + 1 .. (m + n) + 1
                             /\ new.declared[new.fixups[j].variable].type.node = 0
       BY <1>2 DEF More
<1>12. \A i \in m + 1 .. m + n :
          mid.declared[i].type.kind = "struct" /\ mid.declared[i].type.node = 0 =>
             \E j \in DOMAIN mid.fixups : mid.fixups[j].variable = i /\ ~mid.fixups[j].resolved
       BY DEF More
<1>13. \A i \in (m + n) + 1 .. (m + n) + 1 :
          new.declared[i].type.kind = "struct" /\ new.declared[i].type.node = 0 =>
             \E j \in DOMAIN new.fixups : new.fixups[j].variable = i /\ ~new.fixups[j].resolved
       BY <1>2 DEF More
<1>14. flag = "structure" /\ Spaced(s, old.declared) => Spaced(new.scopes[top], new.declared)
  <2>1. flag = "structure" /\ Spaced(s, old.declared) =>
           Spaced(mid.scopes[top], mid.declared)
        BY DEF More
  <2>2. flag = "structure" /\ Spaced(mid.scopes[top], mid.declared) =>
           Spaced(new.scopes[top], new.declared)
        BY <1>2 DEF More
  <2>3. QED  BY <2>1, <2>2
<1> HIDE DEF m, top, s, f, g, h
<1>15. new.scopes[top] = s \o [k \in 1 .. n + 1 |-> m + k]
  <2> DEFINE u == [k \in 1 .. n |-> m + k]
             v == [k \in 1 .. 1 |-> (m + n) + k]
             w == [k \in 1 .. n + 1 |-> m + k]
  <2>1. /\ u \in Seq(Nat) /\ Len(u) = n
        /\ v \in Seq(Nat) /\ Len(v) = 1
        /\ w \in Seq(Nat) /\ Len(w) = n + 1
        BY <1>1
  <2>2. \A k \in 1 .. n : u[k] = m + k /\ w[k] = m + k
        BY <1>1
  <2>3. v[1] = m + n + 1 /\ w[n + 1] = m + n + 1
        BY <1>1
  <2> HIDE DEF u, v, w
  <2>4. u \o v = w
    <3>0. /\ u \o v \in Seq(Nat) /\ Len(u \o v) = Len(u) + Len(v)
          /\ \A k \in 1 .. Len(u) + Len(v) :
                (u \o v)[k] = IF k <= Len(u) THEN u[k] ELSE v[k - Len(u)]
          BY <2>1, ConcatProperties, Zenon
    <3>1. u \o v \in Seq(Nat) /\ Len(u \o v) = n + 1
          /\ \A k \in 1 .. n + 1 : (u \o v)[k] = IF k <= n THEN u[k] ELSE v[k - n]
          BY <2>1, <3>0
    <3>2. ASSUME NEW k \in 1 .. n + 1
          PROVE  (u \o v)[k] = w[k]
      <4>1. CASE k <= n
            BY <2>2, <3>1, <4>1
      <4>2. CASE ~(k <= n)
        <5>1. k = n + 1 /\ k - n = 1
              BY <4>2
        <5>2. QED  BY <2>3, <3>1, <4>2, <5>1
      <4>3. QED  BY <4>1, <4>2
    <3>3. QED  BY <2>1, <3>1, <3>2, SeqEqual
  <2>5. (s \o u) \o v = s \o (u \o v)
    <3>1. s \in Seq(Nat) /\ u \in Seq(Nat) /\ v \in Seq(Nat)
          BY <1>1, <2>1
    <3>2. \A a, b, c \in Seq(Nat) : (a \o b) \o c = a \o (b \o c)
          OBVIOUS
    <3>3. QED  BY <3>1, <3>2, Zenon
  <2>6. mid.scopes[top] = s \o u /\ new.scopes[top] = mid.scopes[top] \o v
        BY <1>2, <1>8, Zenon DEF u, v
  <2>7. new.scopes[top] = s \o w
        BY <2>4, <2>5, <2>6, Zenon
  <2>8. QED  BY <2>7 DEF w
<1>16. \A i \in 1 .. m : new.declared[i] = old.declared[i]
       BY <1>1, <1>6
<1>17. ASSUME NEW i \in m + 1 .. m + (n + 1)
       PROVE  i \in m + 1 .. m + n \/ i \in (m + n) + 1 .. (m + n) + 1
       BY <1>1
<1>18. \A i \in m + 1 .. m + n : i \in 1 .. m + n
       BY <1>1
<1>19. \A i \in m + 1 .. m + (n + 1) : /\ new.declared[i].type \in types
                                       /\ new.declared[i].within = Current
  <2> SUFFICES ASSUME NEW i \in m + 1 .. m + (n + 1)
               PROVE  new.declared[i].type \in types /\ new.declared[i].within = Current
      OBVIOUS
  <2>1. CASE i \in m + 1 .. m + n
    <3>1. new.declared[i] = mid.declared[i]
          BY <1>6, <1>18, <2>1
    <3>2. QED  BY <1>7, <2>1, <3>1
  <2>2. CASE i \in (m + n) + 1 .. (m + n) + 1
        BY <1>7, <2>2
  <2>3. QED  BY <1>17, <2>1, <2>2
<1>20. \A z \in 1 .. top - 1 : new.scopes[z] = old.scopes[z]
       BY <1>8
<1>21. h >= f /\ \A j \in 1 .. f : new.fixups[j] = old.fixups[j]
       BY <1>1, <1>2, <1>3, <1>4, <1>5, <1>9
<1>22. ASSUME NEW j \in f + 1 .. h
       PROVE  /\ ~new.fixups[j].resolved
              /\ new.fixups[j].variable \in m + 1 .. m + (n + 1)
              /\ new.declared[new.fixups[j].variable].type.node = 0
  <2>1. CASE j \in 1 .. g
    <3>1. j \in f + 1 .. g
          BY <1>1, <1>3, <1>5, <2>1
    <3>2. new.fixups[j] = mid.fixups[j] /\ mid.fixups[j].variable \in m + 1 .. m + n
          BY <1>9, <1>10, <2>1, <3>1
    <3>3. mid.fixups[j].variable \in 1 .. m + n
          /\ mid.fixups[j].variable \in m + 1 .. m + (n + 1)
      <4>1. \A i \in m + 1 .. m + n : i \in 1 .. m + n /\ i \in m + 1 .. m + (n + 1)
            BY <1>1
      <4>2. QED  BY <3>2, <4>1
    <3>4. ~mid.fixups[j].resolved /\ mid.declared[mid.fixups[j].variable].type.node = 0
          BY <1>10, <3>1
    <3>5. QED  BY <1>6, <3>2, <3>3, <3>4
  <2>2. CASE j \notin 1 .. g
    <3>1. j \in g + 1 .. h
          BY <1>1, <1>3, <1>5, <2>2
    <3>2. \A i \in (m + n) + 1 .. (m + n) + 1 : i \in m + 1 .. m + (n + 1)
          BY <1>1
    <3>3. QED  BY <1>11, <3>1, <3>2
  <2>3. QED  BY <2>1, <2>2
<1>23. ASSUME NEW i \in m + 1 .. m + (n + 1),
              new.declared[i].type.kind = "struct", new.declared[i].type.node = 0
       PROVE  \E j \in DOMAIN new.fixups : new.fixups[j].variable = i /\ ~new.fixups[j].resolved
  <2>1. CASE i \in m + 1 .. m + n
    <3>1. new.declared[i] = mid.declared[i]
          BY <1>6, <1>18, <2>1
    <3>2. PICK j \in DOMAIN mid.fixups : mid.fixups[j].variable = i /\ ~mid.fixups[j].resolved
          BY <1>12, <1>23, <2>1, <3>1
    <3>3. j \in DOMAIN new.fixups /\ new.fixups[j] = mid.fixups[j]
          BY <1>3, <1>4, <1>5, <1>9
    <3>4. QED  BY <3>2, <3>3
  <2>2. CASE i \in (m + n) + 1 .. (m + n) + 1
        BY <1>13, <1>23, <2>2
  <2>3. QED  BY <1>17, <2>1, <2>2
<1>24. Len(new.declared) = m + (n + 1) /\ TablesOK(new, nodes) /\ Len(new.scopes) = top
       BY <1>1, <1>4
<1>25. QED
       BY <1>14, <1>15, <1>16, <1>19, <1>20, <1>21, <1>22, <1>23, <1>24
       DEF More, m, top, s, f, h

\* No variable more.
LEMMA NoMore ==
    ASSUME NEW nodes, NEW old, TablesOK(old, nodes), old.scopes # <<>>, NEW types, NEW flag
    PROVE  More(old, old, 0, flag, types, nodes)
<1> DEFINE m == Len(old.declared)
           top == Len(old.scopes)
<1>1. /\ m \in Nat /\ top \in Nat \ {0} /\ old.scopes[top] \in Seq(Nat)
      /\ Len(old.fixups) \in Nat
      BY DEF TablesOK, TableSet
<1>2. old.scopes[top] = old.scopes[top] \o [k \in 1 .. 0 |-> m + k]
  <2>1. PICK s \in Seq(Nat) : s = old.scopes[top]
        BY <1>1
  <2>2. [k \in 1 .. 0 |-> m + k] = <<>> /\ s \o <<>> = s
        OBVIOUS
  <2>3. QED  BY <2>1, <2>2
<1>3. m + 1 .. m + 0 = {} /\ Len(old.fixups) + 1 .. Len(old.fixups) = {}
      BY <1>1
<1>4. QED  BY <1>1, <1>2, <1>3 DEF More

-----------------------------------------------------------------------------
(* The types of declarations                                               *)

\* The types a declaration can have now.
Now == {t \in Datatypes : /\ Known(t, defined)
                          /\ ~Primitive(t) => t.node = Lookup(t.name)}

\* The fields of nodes.
LEMMA NodesAre ==
    ASSUME Typed
    PROVE  \A n \in DOMAIN defined :
              /\ defined[n].kind \in Aggregates /\ defined[n].name \in Names
              /\ defined[n].size \in Nat /\ defined[n].largest \in Nat
              /\ defined[n].var \in Nat
<1>1. \A n \in DOMAIN defined : defined[n] \in StructNodes
      BY DEF Typed
<1>2. \A x \in StructNodes : /\ x.kind \in Aggregates /\ x.name \in Names
                             /\ x.size \in Nat /\ x.largest \in Nat /\ x.var \in Nat
      BY DEF StructNodes
<1>3. QED  BY <1>1, <1>2

\* What a variable's node gives: a datatype with a size, and natural numbers.
LEMMA VariablesAre ==
    \A x \in VariableNodes : /\ x.type \in Datatypes /\ x.type.size \in Nat
                             /\ x.padding \in Nat /\ x.aoffset \in Nat
                             /\ x.within \in Nat /\ datatype_size(x.type) \in Nat
BY DEF VariableNodes, Datatypes, datatype_size

\* What is looked up is a node of the name.
LEMMA LookupIs ==
    ASSUME Typed, Refers, NEW name
    PROVE  /\ Lookup(name) = Found(symbols, defined, name)
           /\ Lookup(name) \in Nat
           /\ Lookup(name) # 0 => /\ Lookup(name) \in DOMAIN defined
                                  /\ defined[Lookup(name)].name = name
<1>1. Lookup(name) = Found(symbols, defined, name)
      BY DEF Lookup, Found
<1>2. symbols \in Seq(Nat) /\ defined \in Seq(StructNodes)
      BY DEF Typed
<1>3. \A k \in DOMAIN symbols : symbols[k] \in DOMAIN defined
      BY DEF Refers
<1>4. /\ Found(symbols, defined, name) \in Nat
      /\ Found(symbols, defined, name) # 0 =>
            /\ Found(symbols, defined, name) \in DOMAIN defined
            /\ defined[Found(symbols, defined, name)].name = name
      BY <1>2, <1>3, FoundIs
<1>5. QED  BY <1>1, <1>4

\* parse_datatype gives one of them, unless size_of_struct asserts.
LEMMA DatatypeIsNow ==
    ASSUME Typed, Refers, NEW kind, NEW name, <<kind, name>> \in Types, ~Misused(kind, name)
    PROVE  /\ Datatype(kind, name) \in Now
           /\ Datatype(kind, name).kind = kind /\ Datatype(kind, name).name = name
<1> DEFINE t == Datatype(kind, name)
<1>1. /\ kind = "primitive" => name \in DOMAIN Primitives
      /\ kind # "primitive" => kind \in Aggregates /\ name \in Names
      /\ kind \in Aggregates \cup {"primitive"} /\ name \in Names \cup DOMAIN Primitives
      BY DEF Types, Aggregates
<1>2. /\ Lookup(name) \in Nat
      /\ Lookup(name) # 0 => /\ Lookup(name) \in DOMAIN defined
                             /\ defined[Lookup(name)].name = name
      BY LookupIs
<1>3. \A n \in DOMAIN defined : defined[n].size \in Nat
      BY NodesAre
<1>4. \A p \in DOMAIN Primitives : Primitives[p] \in Nat
      BY DeclarationsAssumption
<1> DEFINE node == IF kind = "primitive" THEN 0 ELSE Lookup(name)
           size == IF kind = "primitive" THEN Primitives[name]
                   ELSE IF node = 0 THEN 0 ELSE defined[node].size
<1>5. t = [kind |-> kind, name |-> name, node |-> node, size |-> size,
           arrayed |-> FALSE, arraySize |-> 0]
      BY DEF Datatype
<1>6. node \in Nat /\ size \in Nat
      BY <1>1, <1>2, <1>3, <1>4
<1> HIDE DEF t, node, size
<1>7. t.kind = kind /\ t.name = name /\ t.node = node /\ t.size = size
      BY <1>5
<1>8. t \in Datatypes
      BY <1>1, <1>5, <1>6 DEF Datatypes
<1>9. CASE kind = "primitive"
  <2>1. Known(t, defined)
        BY <1>1, <1>7, <1>9 DEF Known, node, size
  <2>2. QED  BY <1>7, <1>8, <1>9, <2>1 DEF Now, Primitive, t
<1>10. CASE kind # "primitive"
  <2>1. t.node = Lookup(name)
        BY <1>7, <1>10 DEF node
  <2>2. t.node # 0 => /\ t.node \in DOMAIN defined /\ defined[t.node].name = name
                      /\ defined[t.node].kind = kind /\ t.size = defined[t.node].size
        BY <1>1, <1>2, <1>7, <1>10, <2>1 DEF Misused, node, size
  <2>3. Known(t, defined)
        BY <1>7, <1>10, <2>2 DEF Known
  <2>4. QED  BY <1>7, <1>8, <2>1, <2>3 DEF Now, t
<1>11. QED  BY <1>9, <1>10

\* Nor does an array's length make it another.
LEMMA ArrayedIsNow ==
    ASSUME NEW t \in Now, NEW length \in Nat
    PROVE  Arrayed(t, length) \in Now
<1> DEFINE u == Arrayed(t, length)
<1>1. t \in Datatypes /\ Known(t, defined) /\ (~Primitive(t) => t.node = Lookup(t.name))
      BY DEF Now
<1>2. t.size * length \in Nat
  <2>1. \A a, b \in Nat : a * b \in Nat
        BY SMT
  <2>2. t.size \in Nat
        BY <1>1 DEF Datatypes
  <2>3. QED  BY <2>1, <2>2
<1>3. u \in Datatypes /\ u.kind = t.kind /\ u.name = t.name /\ u.node = t.node
      /\ u.size = t.size
      BY <1>1, <1>2 DEF Datatypes, Arrayed
<1> HIDE DEF u
<1>4. Known(u, defined) /\ (~Primitive(u) => u.node = Lookup(u.name))
      BY <1>1, <1>3 DEF Known, Primitive
<1>5. QED  BY <1>3, <1>4 DEF Now, u

\* A function that is parsed has a number.
LEMMA CurrentIsNat == ASSUME Typed PROVE Current \in Nat
<1>1. Len(functions) \in Nat
      BY DEF Typed
<1>2. Current = 0 \/ Current = Len(functions)
      BY Zenon DEF Current
<1>3. QED  BY <1>1, <1>2

-----------------------------------------------------------------------------
(* Lists of variables                                                      *)

\* What register_variable leaves, and can be given again.
Registers == {tables \in TableSet : TablesOK(tables, defined) /\ tables.scopes # <<>>}

\* It takes a table to a table with a variable more.
LEMMA RegisterIs ==
    ASSUME Typed, NEW tables \in Registers, NEW t \in Now, NEW flag
    PROVE  /\ Register(tables, t, flag) \in Registers
           /\ More(tables, Register(tables, t, flag), 1, flag, Now, defined)
<1> DEFINE new == Register(tables, t, flag)
<1>1. TablesOK(tables, defined) /\ tables.scopes # <<>> /\ tables.scopes \in Seq(Seq(Nat))
      BY DEF Registers, TableSet
<1>2. Now \subseteq Datatypes /\ \A x \in Now : Known(x, defined)
      BY DEF Now
<1>3. More(tables, new, 1, flag, Now, defined)
      BY <1>1, <1>2, CurrentIsNat, RegisterAdds
<1> HIDE DEF new
<1>4. TablesOK(new, defined) /\ Len(new.scopes) = Len(tables.scopes)
      BY <1>3 DEF More
<1>5. new \in TableSet /\ new.scopes \in Seq(Seq(Nat))
      BY <1>4 DEF TablesOK, TableSet
<1>6. Len(tables.scopes) # 0
      BY <1>1
<1>7. new.scopes # <<>>
      BY <1>4, <1>5, <1>6
<1>8. QED  BY <1>3, <1>4, <1>5, <1>7 DEF Registers, new

\* The tables are such when a scope is open.
LEMMA TablesAre ==
    ASSUME Typed, Refers, scopes # <<>>
    PROVE  /\ Tables \in Registers
           /\ Tables.scopes = scopes /\ Tables.declared = declared /\ Tables.fixups = fixups
<1>1. Tables.scopes = scopes /\ Tables.declared = declared /\ Tables.fixups = fixups
      BY DEF Tables
<1>2. TablesOK(Tables, defined)
      BY DEF Refers
<1>3. Tables \in TableSet
      BY <1>2 DEF TablesOK
<1>4. QED  BY <1>1, <1>2, <1>3 DEF Registers

\* A declaration adds a variable for each declarator.
LEMMA DeclaratorsAdd ==
    ASSUME Typed, Refers, scopes # <<>>,
           NEW t \in Now, NEW lengths \in Seq(Nat), NEW flag
    PROVE  More(Tables, Declarators(t, lengths, flag), Len(lengths), flag, Now, defined)
<1> DEFINE N == Len(lengths)
           base == [type |-> t, tables |-> Tables]
           V == [type : Now, tables : Registers]
           H == [p \in (1 .. N) \X V |-> Declarator(p[2], lengths[p[1]], flag)]
           Is(f) == f = [i \in 0 .. N |-> IF i = 0 THEN base
                                          ELSE Declarator(f[i - 1], lengths[i], flag)]
           u == CHOOSE f : Is(f)
<1>1. N \in Nat /\ \A i \in 1 .. N : lengths[i] \in Nat
      OBVIOUS
<1>2. base \in V /\ base.tables = Tables
      BY TablesAre
<1>3. ASSUME NEW acc \in V, NEW i \in 1 .. N
      PROVE  /\ Declarator(acc, lengths[i], flag) \in V
             /\ More(acc.tables, Declarator(acc, lengths[i], flag).tables, 1, flag, Now, defined)
  <2> DEFINE a == Arrayed(acc.type, lengths[i])
  <2>1. acc.type \in Now /\ acc.tables \in Registers
        OBVIOUS
  <2>2. a \in Now
        BY <1>1, <2>1, ArrayedIsNow
  <2>3. Declarator(acc, lengths[i], flag) =
           [type |-> a, tables |-> Register(acc.tables, a, flag)]
        BY DEF Declarator
  <2> HIDE DEF a
  <2>4. /\ Register(acc.tables, a, flag) \in Registers
        /\ More(acc.tables, Register(acc.tables, a, flag), 1, flag, Now, defined)
        BY <2>1, <2>2, RegisterIs
  <2>5. QED  BY <2>2, <2>3, <2>4
<1>4. H \in [(1 .. N) \X V -> V] /\ \A n \in 1 .. N, v \in V :
           H[<<n, v>>] = Declarator(v, lengths[n], flag)
  <2> HIDE DEF V
  <2>1. \A p \in (1 .. N) \X V : Declarator(p[2], lengths[p[1]], flag) \in V
        BY <1>3
  <2>2. QED  BY <2>1
<1>5. Declarators(t, lengths, flag) = u[N].tables
      BY DEF Declarators
<1> HIDE DEF N, V, base, H
<1>6. PICK f : Recurs(f, N, V, base, H)
      BY <1>1, <1>2, <1>4, Recursion
<1>7. Is(f)
  <2>1. ASSUME NEW i \in 0 .. N
        PROVE  f[i] = IF i = 0 THEN base ELSE Declarator(f[i - 1], lengths[i], flag)
    <3>1. CASE i = 0
          BY <3>1, <1>6 DEF Recurs
    <3>2. CASE i # 0
      <4>1. i \in 1 .. N /\ i - 1 \in 0 .. N
            BY <3>2, <1>1
      <4>2. f[i - 1] \in V
            BY <4>1, <1>6 DEF Recurs
      <4>3. QED  BY <4>1, <4>2, <3>2, <1>4, <1>6 DEF Recurs
    <3>3. QED  BY <3>1, <3>2
  <2>2. QED  BY <2>1, <1>6 DEF Recurs
<1>8. Is(u)
      BY <1>7
<1> HIDE DEF u
<1>9. u[0] = base /\ \A n \in 1 .. N : u[n] = Declarator(u[n - 1], lengths[n], flag)
      BY <1>1, <1>8
<1> DEFINE S == {n \in 0 .. N : u[n] \in V /\ More(Tables, u[n].tables, n, flag, Now, defined)}
<1>10. TablesOK(Tables, defined) /\ Tables.scopes # <<>>
       BY TablesAre DEF Registers
<1>11. 0 \in S
  <2>1. More(Tables, Tables, 0, flag, Now, defined)
        BY <1>10, NoMore
  <2>2. QED  BY <1>1, <1>2, <1>9, <2>1
<1>12. ASSUME NEW n \in 1 .. N, n - 1 \in S
       PROVE  n \in S
  <2>1. PICK k \in Nat : k = n - 1
        BY <1>1
  <2>2. u[k] \in V /\ More(Tables, u[k].tables, k, flag, Now, defined)
        BY <1>12, <2>1
  <2>3. /\ u[n] \in V
        /\ More(u[k].tables, u[n].tables, 1, flag, Now, defined)
        BY <1>3, <1>9, <2>1, <2>2
  <2>4. More(Tables, u[n].tables, k + 1, flag, Now, defined)
        BY <1>10, <2>2, <2>3, MoreAndMore
  <2>5. k + 1 = n /\ n \in 0 .. N
        BY <1>1, <2>1
  <2>6. QED  BY <2>3, <2>4, <2>5
<1> HIDE DEF S
<1>13. \A n \in 0 .. N : n \in S
       BY <1>1, <1>11, <1>12, UpTo
<1>14. N \in S
       BY <1>1, <1>13
<1>15. QED  BY <1>5, <1>14 DEF S, N

\* The tables with the scopes of a function and of its arguments.
LEMMA OpenedIs ==
    ASSUME Typed, Refers, scopes # <<>>
    PROVE  LET opened == [Tables EXCEPT !.scopes = @ \o <<<<>>, <<>>>>]
           IN  /\ opened \in Registers
               /\ opened.declared = declared /\ opened.fixups = fixups
               /\ opened.scopes = scopes \o <<<<>>, <<>>>>
<1> DEFINE opened == [Tables EXCEPT !.scopes = @ \o <<<<>>, <<>>>>]
           two == <<<<>>, <<>>>>
<1>1. /\ Tables \in Registers
      /\ Tables.scopes = scopes /\ Tables.declared = declared /\ Tables.fixups = fixups
      BY TablesAre
<1>2. Tables \in TableSet /\ TablesOK(Tables, defined)
      BY <1>1 DEF Registers
<1>3. scopes \in Seq(Seq(Nat))
      BY DEF Typed
<1>4. two \in Seq(Seq(Nat)) /\ Len(two) = 2 /\ two[1] = <<>> /\ two[2] = <<>>
      OBVIOUS
<1>5. opened = [scopes |-> scopes \o two, declared |-> declared, fixups |-> fixups]
  <2>1. opened = [Tables EXCEPT !.scopes = Tables.scopes \o two]
        OBVIOUS
  <2> HIDE DEF two, opened
  <2>2. PICK z : z = scopes \o two
        OBVIOUS
  <2>3. opened = [Tables EXCEPT !.scopes = z]
        BY <1>1, <2>1, <2>2
  <2>4. opened = [scopes |-> z, declared |-> declared, fixups |-> fixups]
        BY <2>3 DEF Tables
  <2>5. QED  BY <2>2, <2>4
<1> HIDE DEF two, opened
<1>6. /\ scopes \o two \in Seq(Seq(Nat)) /\ Len(scopes \o two) = Len(scopes) + 2
      /\ \A s \in 1 .. Len(scopes) + 2 :
            (scopes \o two)[s] = IF s <= Len(scopes) THEN scopes[s] ELSE two[s - Len(scopes)]
  <2>1. /\ scopes \o two \in Seq(Seq(Nat)) /\ Len(scopes \o two) = Len(scopes) + Len(two)
        /\ \A s \in 1 .. Len(scopes) + Len(two) :
              (scopes \o two)[s] = IF s <= Len(scopes) THEN scopes[s]
                                   ELSE two[s - Len(scopes)]
        BY <1>3, <1>4, ConcatProperties, Zenon
  <2>2. QED  BY <1>4, <2>1
<1>7. \A s \in 1 .. Len(scopes) + 2 : (scopes \o two)[s] = <<>> \/
         (s \in DOMAIN scopes /\ (scopes \o two)[s] = scopes[s])
  <2> SUFFICES ASSUME NEW s \in 1 .. Len(scopes) + 2
               PROVE  (scopes \o two)[s] = <<>> \/
                         (s \in DOMAIN scopes /\ (scopes \o two)[s] = scopes[s])
      OBVIOUS
  <2>1. Len(scopes) \in Nat /\ DOMAIN scopes = 1 .. Len(scopes)
        BY <1>3
  <2>2. CASE s <= Len(scopes)
        BY <1>6, <2>1, <2>2
  <2>3. CASE ~(s <= Len(scopes))
    <3>1. s - Len(scopes) \in {1, 2}
          BY <2>1, <2>3
    <3>2. QED  BY <1>4, <1>6, <2>3, <3>1
  <2>4. QED  BY <2>2, <2>3
<1>8. opened \in TableSet
      BY <1>2, <1>5, <1>6, <1>1 DEF TableSet
<1>9. \A s \in DOMAIN opened.scopes : Ids(opened.scopes[s], opened.declared)
  <2>1. DOMAIN opened.scopes = 1 .. Len(scopes) + 2 /\ opened.scopes = scopes \o two
        /\ opened.declared = declared
        BY <1>5, <1>6
  <2>2. \A s \in DOMAIN scopes : Ids(scopes[s], declared)
        BY <1>1, <1>2 DEF TablesOK
  <2>3. Ids(<<>>, declared)
        BY DEF Ids
  <2>4. QED  BY <1>7, <2>1, <2>2, <2>3
<1>10. TablesOK(opened, defined)
  <2>1. opened.declared = Tables.declared /\ opened.fixups = Tables.fixups
        BY <1>1, <1>5
  <2>2. QED  BY <1>2, <1>8, <1>9, <2>1 DEF TablesOK
<1>11. opened.scopes # <<>>
  <2>1. Len(scopes \o two) # 0
        BY <1>3, <1>6
  <2>2. opened.scopes = scopes \o two /\ scopes \o two \in Seq(Seq(Nat))
        BY <1>5, <1>6
  <2>3. QED  BY <2>1, <2>2
<1>12. opened \in Registers
       BY <1>8, <1>10, <1>11 DEF Registers
<1>13. QED  BY <1>5, <1>12 DEF opened, two

\* A function's arguments are registered in the innermost of them.
LEMMA ArguedAdds ==
    ASSUME Typed, Refers, scopes # <<>>,
           NEW types \in Seq(Types),
           \A i \in DOMAIN types : ~Misused(types[i][1], types[i][2])
    PROVE  More([Tables EXCEPT !.scopes = @ \o <<<<>>, <<>>>>], Argued(types), Len(types),
                "argument", Now, defined)
<1> DEFINE N == Len(types)
           base == [Tables EXCEPT !.scopes = @ \o <<<<>>, <<>>>>]
           V == Registers
           Arg(v, n) == Register(v, Datatype(types[n][1], types[n][2]), "argument")
           H == [p \in (1 .. N) \X V |-> Arg(p[2], p[1])]
           Is(f) == f = [i \in 0 .. N |-> IF i = 0 THEN base
                            ELSE Register(f[i - 1], Datatype(types[i][1], types[i][2]),
                                          "argument")]
           u == CHOOSE f : Is(f)
<1>1. N \in Nat /\ DOMAIN types = 1 .. N /\ \A i \in 1 .. N : types[i] \in Types
      OBVIOUS
<1>2. base \in V
      BY OpenedIs
<1>3. ASSUME NEW v \in V, NEW i \in 1 .. N
      PROVE  Arg(v, i) \in V /\ More(v, Arg(v, i), 1, "argument", Now, defined)
  <2>1. <<types[i][1], types[i][2]>> \in Types
    <3>1. \A x \in Types : <<x[1], x[2]>> = x
          BY DEF Types
    <3>2. QED  BY <1>1, <3>1
  <2>2. ~Misused(types[i][1], types[i][2])
        BY <1>1
  <2>3. Datatype(types[i][1], types[i][2]) \in Now
        BY <2>1, <2>2, DatatypeIsNow
  <2>4. QED  BY <2>3, RegisterIs
<1>4. H \in [(1 .. N) \X V -> V] /\ \A n \in 1 .. N, v \in V : H[<<n, v>>] = Arg(v, n)
  <2> HIDE DEF V, Arg
  <2>1. \A p \in (1 .. N) \X V : Arg(p[2], p[1]) \in V
        BY <1>3
  <2>2. QED  BY <2>1
<1>5. Argued(types) = u[N]
      BY DEF Argued
<1> HIDE DEF N, V, base, H
<1>6. PICK f : Recurs(f, N, V, base, H)
      BY <1>1, <1>2, <1>4, Recursion
<1>7. Is(f)
  <2>1. ASSUME NEW i \in 0 .. N
        PROVE  f[i] = IF i = 0 THEN base
                      ELSE Register(f[i - 1], Datatype(types[i][1], types[i][2]), "argument")
    <3>1. CASE i = 0
          BY <3>1, <1>6 DEF Recurs
    <3>2. CASE i # 0
      <4>1. i \in 1 .. N /\ i - 1 \in 0 .. N
            BY <3>2, <1>1
      <4>2. f[i - 1] \in V
            BY <4>1, <1>6 DEF Recurs
      <4>3. f[i] = Arg(f[i - 1], i)
            BY <4>1, <4>2, <1>4, <1>6 DEF Recurs
      <4>4. QED  BY <3>2, <4>3
    <3>3. QED  BY <3>1, <3>2
  <2>2. QED  BY <2>1, <1>6 DEF Recurs
<1>8. Is(u)
      BY <1>7
<1> HIDE DEF u
<1>9. u[0] = base /\ \A n \in 1 .. N : u[n] = Arg(u[n - 1], n)
      BY <1>1, <1>8
<1> HIDE DEF Arg
<1> DEFINE S == {n \in 0 .. N : u[n] \in V /\ More(base, u[n], n, "argument", Now, defined)}
<1>10. TablesOK(base, defined) /\ base.scopes # <<>>
       BY <1>2 DEF V, Registers
<1>11. 0 \in S
  <2>1. More(base, base, 0, "argument", Now, defined)
        BY <1>10, NoMore
  <2>2. QED  BY <1>1, <1>2, <1>9, <2>1
<1>12. ASSUME NEW n \in 1 .. N, n - 1 \in S
       PROVE  n \in S
  <2>1. PICK k \in Nat : k = n - 1
        BY <1>1
  <2>2. u[k] \in V /\ More(base, u[k], k, "argument", Now, defined)
        BY <1>12, <2>1
  <2>3. u[n] \in V /\ More(u[k], u[n], 1, "argument", Now, defined)
        BY <1>3, <1>9, <2>1, <2>2
  <2>4. More(base, u[n], k + 1, "argument", Now, defined)
        BY <1>10, <2>2, <2>3, MoreAndMore
  <2>5. k + 1 = n /\ n \in 0 .. N
        BY <1>1, <2>1
  <2>6. QED  BY <2>3, <2>4, <2>5
<1> HIDE DEF S
<1>13. \A n \in 0 .. N : n \in S
       BY <1>1, <1>11, <1>12, UpTo
<1>14. N \in S
       BY <1>1, <1>13
<1>15. QED  BY <1>5, <1>14 DEF S, N, base

-----------------------------------------------------------------------------
(* Sizes of bodies                                                         *)

\* The append takes a type's size, and what aligns it.
LEMMA AppendSizeIs ==
    ASSUME NEW nodes \in Seq(StructNodes), NEW size \in Nat, NEW t \in Datatypes,
           Known(t, nodes), Primitive(t) \/ t.node # 0
    PROVE  /\ datatype_size(t) \in Nat
           /\ AppendSize(nodes, size, t) \in Nat
           /\ AppendSize(nodes, size, t) >= size + datatype_size(t)
<1> DEFINE total == size + datatype_size(t)
           largest == IF Primitive(t) THEN 0 ELSE nodes[t.node].largest
<1>1. datatype_size(t) \in Nat
      BY DEF Datatypes, datatype_size
<1>2. total \in Nat
      BY <1>1
<1>3. largest \in Nat
  <2>1. ~Primitive(t) => nodes[t.node] \in StructNodes
        BY DEF Known
  <2>2. \A x \in StructNodes : x.largest \in Nat
        BY DEF StructNodes
  <2>3. QED  BY <2>1, <2>2
<1>4. AppendSize(nodes, size, t) =
         IF largest = 0 THEN total ELSE total + align_value(total, largest)
      BY DEF AppendSize
<1> HIDE DEF total, largest
<1>5. CASE largest = 0
      BY <1>1, <1>2, <1>4, <1>5 DEF total
<1>6. CASE largest # 0
  <2>1. total \in Int /\ largest \in Nat \ {0}
        BY <1>2, <1>3, <1>6
  <2>2. align_value(total, largest) \in Nat
        BY <1>2, <2>1, PaddingFills
  <2>3. QED  BY <1>1, <1>2, <1>4, <1>6, <2>2 DEF total
<1>7. QED  BY <1>5, <1>6

\* What variables take of a body.
Sizes(ids, vs) == [k \in DOMAIN ids |-> datatype_size(vs[ids[k]].type)]

\* A body grows by no less than its variables take, when the append finds their
\* nodes.
LEMMA AppendedIs ==
    ASSUME NEW nodes \in Seq(StructNodes), NEW vs \in Seq(VariableNodes),
           NEW ids \in Seq(Nat), Ids(ids, vs), NEW size \in Nat,
           \A i \in DOMAIN vs : Known(vs[i].type, nodes),
           \A k \in DOMAIN ids : Primitive(vs[ids[k]].type) \/ vs[ids[k]].type.node # 0
    PROVE  /\ Appended(nodes, vs, ids, size) \in Nat
           /\ Sizes(ids, vs) \in Seq(Nat)
           /\ Appended(nodes, vs, ids, size) >= Total(size, Sizes(ids, vs))
<1> DEFINE N == Len(ids)
           Step(v, n) == AppendSize(nodes, v, vs[ids[n]].type)
           H == [p \in (1 .. N) \X Nat |-> Step(p[2], p[1])]
           Is(f) == f = [i \in 0 .. N |->
                            IF i = 0 THEN size
                            ELSE AppendSize(nodes, f[i - 1], vs[ids[i]].type)]
           u == CHOOSE f : Is(f)
           s == Sizes(ids, vs)
<1>1. N \in Nat /\ DOMAIN ids = 1 .. N /\ \A i \in 1 .. N : ids[i] \in DOMAIN vs
      BY DEF Ids
<1>2. ASSUME NEW v \in Nat, NEW i \in 1 .. N
      PROVE  /\ datatype_size(vs[ids[i]].type) \in Nat
             /\ Step(v, i) \in Nat /\ Step(v, i) >= v + datatype_size(vs[ids[i]].type)
  <2>1. vs[ids[i]] \in VariableNodes /\ vs[ids[i]].type \in Datatypes
        BY <1>1, VariablesAre
  <2>2. /\ vs[ids[i]].type \in Datatypes /\ Known(vs[ids[i]].type, nodes)
        /\ Primitive(vs[ids[i]].type) \/ vs[ids[i]].type.node # 0
        BY <1>1, <2>1
  <2>3. PICK t \in Datatypes : t = vs[ids[i]].type
        BY <2>2
  <2>4. Known(t, nodes) /\ (Primitive(t) \/ t.node # 0)
        BY <2>2, <2>3
  <2>5. /\ datatype_size(t) \in Nat
        /\ AppendSize(nodes, v, t) \in Nat
        /\ AppendSize(nodes, v, t) >= v + datatype_size(t)
        BY <2>4, AppendSizeIs
  <2>6. QED  BY <2>3, <2>5
<1>3. H \in [(1 .. N) \X Nat -> Nat] /\ \A n \in 1 .. N, v \in Nat : H[<<n, v>>] = Step(v, n)
  <2> HIDE DEF Step
  <2>1. \A p \in (1 .. N) \X Nat : Step(p[2], p[1]) \in Nat
        BY <1>2
  <2>2. QED  BY <2>1
<1>4. Appended(nodes, vs, ids, size) = u[N]
      BY DEF Appended
<1>5. s \in Seq(Nat) /\ Len(s) = N
      /\ \A i \in 1 .. N : s[i] = datatype_size(vs[ids[i]].type)
  <2>1. s = [k \in 1 .. N |-> datatype_size(vs[ids[k]].type)]
        BY <1>1 DEF Sizes
  <2>2. QED  BY <1>1, <1>2, <2>1
<1> HIDE DEF N, H, s
<1>6. PICK f : Recurs(f, N, Nat, size, H)
      BY <1>1, <1>3, Recursion
<1>7. Is(f)
  <2>1. ASSUME NEW i \in 0 .. N
        PROVE  f[i] = IF i = 0 THEN size
                      ELSE AppendSize(nodes, f[i - 1], vs[ids[i]].type)
    <3>1. CASE i = 0
          BY <3>1, <1>6 DEF Recurs
    <3>2. CASE i # 0
      <4>1. i \in 1 .. N /\ i - 1 \in 0 .. N
            BY <3>2, <1>1
      <4>2. f[i - 1] \in Nat
            BY <4>1, <1>6 DEF Recurs
      <4>3. f[i] = Step(f[i - 1], i)
            BY <4>1, <4>2, <1>3, <1>6 DEF Recurs
      <4>4. QED  BY <3>2, <4>3
    <3>3. QED  BY <3>1, <3>2
  <2>2. QED  BY <2>1, <1>6 DEF Recurs
<1>8. Is(u)
      BY <1>7
<1> HIDE DEF u
<1>9. u[0] = size /\ \A n \in 1 .. N : u[n] = Step(u[n - 1], n)
      BY <1>1, <1>8
<1> HIDE DEF Step
<1>10. PICK w : Partial(w, size, s) /\ Total(size, s) = w[N]
       BY <1>5, TotalIs
<1>11. /\ w \in [0 .. N -> Nat] /\ w[0] = size
       /\ \A n \in 1 .. N : w[n] = w[n - 1] + s[n]
       BY <1>5, <1>10 DEF Partial
<1> DEFINE S == {n \in 0 .. N : u[n] \in Nat /\ u[n] >= w[n]}
<1>12. 0 \in S
       BY <1>1, <1>9, <1>11
<1>13. ASSUME NEW n \in 1 .. N, n - 1 \in S
       PROVE  n \in S
  <2>1. u[n - 1] \in Nat /\ u[n - 1] >= w[n - 1] /\ w[n - 1] \in Nat
        BY <1>1, <1>11, <1>13
  <2>2. u[n] \in Nat /\ u[n] >= u[n - 1] + s[n] /\ s[n] \in Nat
        BY <1>2, <1>5, <1>9, <2>1
  <2>3. w[n] = w[n - 1] + s[n]
        BY <1>11
  <2>4. u[n] >= w[n] /\ n \in 0 .. N
        BY <1>1, <2>1, <2>2, <2>3
  <2>5. QED  BY <2>2, <2>4
<1> HIDE DEF S
<1>14. \A n \in 0 .. N : n \in S
       BY <1>1, <1>12, <1>13, UpTo
<1>15. N \in S
       BY <1>1, <1>14
<1>16. QED  BY <1>4, <1>5, <1>10, <1>15 DEF S, s

\* The paddings that are added to a body's size.
LEMMA PaddedIs ==
    ASSUME Typed, NEW ids \in Seq(Nat), Ids(ids, declared), NEW size \in Nat
    PROVE  Padded(ids, size) \in Nat /\ Padded(ids, size) >= size
<1> DEFINE s == [i \in DOMAIN ids |-> declared[ids[i]].padding]
<1>1. \A i \in DOMAIN declared : declared[i].padding \in Nat
  <2>1. \A i \in DOMAIN declared : declared[i] \in VariableNodes
        BY DEF Typed
  <2>2. QED  BY <2>1, VariablesAre
<1>2. s \in Seq(Nat)
  <2>1. DOMAIN ids = 1 .. Len(ids) /\ Len(ids) \in Nat
        OBVIOUS
  <2>2. \A i \in 1 .. Len(ids) : declared[ids[i]].padding \in Nat
        BY <1>1, <2>1 DEF Ids
  <2>3. QED  BY <2>1, <2>2
<1>3. Padded(ids, size) = Total(size, s)
      BY DEF Padded
<1> HIDE DEF s
<1>4. QED  BY <1>2, <1>3, TotalIsNat

\* finalize_body gives a body a size, which is at least what was appended and
\* padded, and is aligned to the largest eligible variable.
LEMMA FinalSizeIs ==
    ASSUME Typed, Refers, NEW b \in BodyNodes, BodyOK(b, declared)
    PROVE  /\ FinalSize(b) \in Nat
           /\ b.kind # "union" => /\ FinalSize(b) >= b.size
                                  /\ FinalSize(b) >= Padded(b.statements, b.size)
           /\ b.eligible # 0 => FinalSize(b) % declared[b.eligible].type.size = 0
<1> DEFINE held == IF b.kind = "union" /\ b.possible # 0
                   THEN datatype_size(declared[b.possible].type) ELSE b.size
           padded == Padded(b.statements, held)
<1>1. FinalSize(b) = IF b.eligible = 0 THEN padded
                     ELSE align_value(padded, declared[b.eligible].type.size)
      BY DEF FinalSize
<1>2. declared \in Seq(VariableNodes)
      BY DEF Typed
<1>3. \A i \in DOMAIN declared : /\ declared[i].type \in Datatypes
                                 /\ declared[i].type.size \in Nat
                                 /\ datatype_size(declared[i].type) \in Nat
  <2>1. \A i \in DOMAIN declared : declared[i] \in VariableNodes
        BY <1>2
  <2>2. QED  BY <2>1, VariablesAre
<1>4. b.size \in Nat /\ b.possible \in Nat /\ b.statements \in Seq(Nat)
      BY DEF BodyNodes
<1>5. b.possible # 0 => b.possible \in DOMAIN declared
      BY <1>2, <1>4 DEF BodyOK
<1>6. held \in Nat /\ (b.kind # "union" => held = b.size)
      BY <1>3, <1>4, <1>5
<1>7. Ids(b.statements, declared)
      BY DEF BodyOK
<1> HIDE DEF held
<1>8. padded \in Nat /\ padded >= held
      BY <1>4, <1>6, <1>7, PaddedIs
<1>9. b.kind # "union" => padded = Padded(b.statements, b.size)
      BY <1>6
<1> HIDE DEF padded
<1>10. CASE b.eligible = 0
       BY <1>1, <1>6, <1>8, <1>9, <1>10
<1>11. CASE b.eligible # 0
  <2>1. b.eligible \in DOMAIN declared /\ Primitive(declared[b.eligible].type)
        BY <1>11 DEF BodyOK
  <2>2. Known(declared[b.eligible].type, defined)
        BY <2>1 DEF Refers, TablesOK, Tables
  <2>3. declared[b.eligible].type.size \in Nat \ {0}
        BY <2>1, <2>2, DeclarationsAssumption DEF Known, Primitive
  <2>4. PICK to \in Nat \ {0} : to = declared[b.eligible].type.size
        BY <2>3
  <2>5. /\ align_value(padded, to) \in Nat /\ align_value(padded, to) >= padded
        /\ align_value(padded, to) % to = 0
        BY <1>8, PaddingFills
  <2>6. FinalSize(b) = align_value(padded, to)
        BY <1>1, <1>11, <2>4
  <2>7. FinalSize(b) \in Nat /\ FinalSize(b) >= padded /\ FinalSize(b) % to = 0
        BY <2>5, <2>6
  <2>8. b.kind # "union" => padded >= b.size /\ padded = Padded(b.statements, b.size)
        BY <1>6, <1>8, <1>9
  <2>9. QED  BY <1>4, <1>8, <2>4, <2>7, <2>8
<1>12. QED  BY <1>10, <1>11

-----------------------------------------------------------------------------
(* What later variables, nodes and bodies leave as it was                  *)

\* ws is vs with more behind it.
Extends(vs, ws) == \A i \in DOMAIN vs : i \in DOMAIN ws /\ ws[i] = vs[i]

\* Ids, bodies and nodes of variables are such of more variables.
LEMMA IdsKept ==
    ASSUME NEW vs, NEW ws, Extends(vs, ws), NEW s, Ids(s, vs)
    PROVE  Ids(s, ws)
BY DEF Extends, Ids

\* Two sequences of ids joined are a sequence of ids.
LEMMA IdsJoined ==
    ASSUME NEW vs, NEW s \in Seq(Nat), NEW u \in Seq(Nat), Ids(s, vs), Ids(u, vs)
    PROVE  Ids(s \o u, vs) /\ s \o u \in Seq(Nat)
<1>1. PICK m \in Nat : m = Len(s)
      OBVIOUS
<1>2. PICK n \in Nat : n = Len(u)
      OBVIOUS
<1>3. /\ DOMAIN s = 1 .. m /\ DOMAIN u = 1 .. n /\ DOMAIN (s \o u) = 1 .. m + n
      /\ \A k \in 1 .. m + n : (s \o u)[k] = IF k <= m THEN s[k] ELSE u[k - m]
      BY <1>1, <1>2
<1>4. ASSUME NEW k \in 1 .. m + n
      PROVE  (s \o u)[k] \in DOMAIN vs
  <2>1. CASE k <= m
        BY <1>3, <2>1 DEF Ids
  <2>2. CASE ~(k <= m)
    <3>1. k - m \in 1 .. n
          BY <2>2
    <3>2. QED  BY <1>3, <2>2, <3>1 DEF Ids
  <2>3. QED  BY <2>1, <2>2
<1>5. QED  BY <1>3, <1>4 DEF Ids

\* An id behind a sequence of ids makes one again.
LEMMA IdsAppended ==
    ASSUME NEW vs, NEW s \in Seq(Nat), NEW i \in Nat, i \in DOMAIN vs, Ids(s, vs)
    PROVE  Append(s, i) \in Seq(Nat) /\ Ids(Append(s, i), vs)
<1>1. PICK m \in Nat : m = Len(s)
      OBVIOUS
<1>2. /\ DOMAIN s = 1 .. m /\ DOMAIN Append(s, i) = 1 .. m + 1
      /\ Append(s, i)[m + 1] = i /\ \A k \in 1 .. m : Append(s, i)[k] = s[k]
      BY <1>1
<1>3. ASSUME NEW k \in 1 .. m + 1
      PROVE  Append(s, i)[k] \in DOMAIN vs
  <2>1. k \in 1 .. m \/ k = m + 1
        BY <1>1
  <2>2. QED  BY <1>2, <2>1 DEF Ids
<1>4. QED  BY <1>2, <1>3 DEF Ids

\* A body that is sound stays so when nodes are added behind those it names.
LEMMA BodyKept ==
    ASSUME NEW vs, NEW ws, Extends(vs, ws), NEW b, BodyOK(b, vs),
           Len(vs) \in Nat, Len(ws) \in Nat, Len(vs) <= Len(ws)
    PROVE  BodyOK(b, ws)
<1>1. Ids(b.statements, ws) /\ Ids(b.holds, ws)
      BY IdsKept DEF BodyOK
<1>2. b.possible \in 0 .. Len(ws)
      BY DEF BodyOK
<1>3. b.eligible # 0 => b.eligible \in DOMAIN ws /\ Primitive(ws[b.eligible].type)
      BY DEF BodyOK, Extends
<1>4. QED  BY <1>1, <1>2, <1>3 DEF BodyOK

\* And so does a struct's node.
LEMMA NodeKept ==
    ASSUME NEW vs, NEW ws, Extends(vs, ws), NEW n, NodeOK(n, vs),
           Len(vs) \in Nat, Len(ws) \in Nat, Len(vs) <= Len(ws)
    PROVE  NodeOK(n, ws)
<1>1. Ids(n.statements, ws) /\ Ids(n.holds, ws)
      BY IdsKept DEF NodeOK
<1>2. n.var \in 0 .. Len(ws)
      BY DEF NodeOK
<1>3. QED  BY <1>1, <1>2 DEF NodeOK

\* More variables extend those that were there.
LEMMA MoreExtends ==
    ASSUME NEW nodes, NEW old, old.declared \in Seq(VariableNodes),
           NEW new, NEW n \in Nat, NEW flag, NEW types,
           More(old, new, n, flag, types, nodes)
    PROVE  /\ Extends(old.declared, new.declared)
           /\ Len(old.declared) <= Len(new.declared)
<1>1. PICK m \in Nat : m = Len(old.declared)
      OBVIOUS
<1>2. Len(new.declared) = m + n /\ \A i \in 1 .. m : new.declared[i] = old.declared[i]
      BY <1>1 DEF More
<1>3. new.declared \in Seq(VariableNodes)
      BY DEF More, TablesOK, TableSet
<1>4. DOMAIN old.declared = 1 .. m /\ DOMAIN new.declared = 1 .. m + n
      BY <1>1, <1>2, <1>3
<1>5. \A i \in DOMAIN old.declared : i \in DOMAIN new.declared
      BY <1>4
<1>6. QED  BY <1>1, <1>2, <1>4, <1>5 DEF Extends

\* The first n of a sequence.
LEMMA FrontIs ==
    ASSUME NEW S, NEW s \in Seq(S), NEW n \in 0 .. Len(s)
    PROVE  /\ SubSeq(s, 1, n) \in Seq(S) /\ Len(SubSeq(s, 1, n)) = n
           /\ DOMAIN SubSeq(s, 1, n) = 1 .. n
           /\ \A i \in 1 .. n : SubSeq(s, 1, n)[i] = s[i]
<1>1. \A i \in 1 .. n : s[i] \in S
      OBVIOUS
<1>2. /\ SubSeq(s, 1, n) \in Seq(S) /\ Len(SubSeq(s, 1, n)) = n
      /\ \A i \in 1 .. n : SubSeq(s, 1, n)[i] = s[i]
      BY <1>1
<1>3. QED  BY <1>2

-----------------------------------------------------------------------------
(* How scopes nest                                                         *)

\* ScopesNest, for other scopes, bodies and variables.
Nests(sc, bs, vs) ==
    /\ Len(sc) = Depth(bs, Len(bs))
    /\ \A d \in DOMAIN bs : /\ Range(sc[Depth(bs, d)]) \subseteq Range(bs[d].holds)
                            /\ Range(bs[d].statements) \subseteq Range(sc[Depth(bs, d)])
    /\ \A id \in Range(sc[1]) : vs[id].within = 0

\* ScopesNest, with the tables it reads made explicit so that it can be applied to
\* those of a step.
LEMMA NestsIs == ScopesNest <=> (Parsing => Nests(scopes, bodies, declared))
BY DEF ScopesNest, ScopeOf, Nests, Depth

\* Bodies of the same kinds, as far as the n-th, have the same scopes, below the
\* n-th's.
LEMMA DepthBelow ==
    ASSUME NEW bs, NEW bs2, NEW n \in Nat, \A i \in 1 .. n : bs2[i].kind = bs[i].kind,
           NEW d \in 1 .. n
    PROVE  /\ Depth(bs2, d) = Depth(bs, d)
           /\ Depth(bs, d) \in 2 .. Depth(bs, n)
           /\ d < n => Depth(bs, d) < Depth(bs, n)
<1>1. \A i \in 1 .. d : bs2[i].kind = bs[i].kind
      OBVIOUS
<1>2. Depth(bs2, d) = Depth(bs, d)
      BY <1>1, DepthAlike
<1>3. Depth(bs, d) \in Nat /\ Depth(bs, d) >= d + 1
      BY DepthSteps
<1>4. d \in 0 .. n
      OBVIOUS
<1>5. Depth(bs, d) <= Depth(bs, n) /\ (d < n => Depth(bs, d) < Depth(bs, n))
      BY <1>4, DepthGrows
<1>6. Depth(bs, n) \in Nat
      BY DepthSteps
<1>7. QED  BY <1>2, <1>3, <1>5, <1>6

\* A body opens with a scope, and one of its own around it unless it is a block.
LEMMA NestsOpened ==
    ASSUME NEW sc \in Seq(Seq(Nat)), NEW bs \in Seq(BodyNodes), NEW vs, Nests(sc, bs, vs),
           NEW b \in BodyNodes, b.holds = <<>>, b.statements = <<>>,
           NEW sc2 \in Seq(Seq(Nat)),
           Len(sc2) = Len(sc) + IF b.kind = "block" THEN 1 ELSE 2,
           \A s \in 1 .. Len(sc) : sc2[s] = sc[s], sc2[Len(sc2)] = <<>>
    PROVE  Nests(sc2, Append(bs, b), vs)
<1> DEFINE m == Len(bs)
           new == Append(bs, b)
<1>1. m \in Nat /\ DOMAIN bs = 1 .. m /\ DOMAIN new = 1 .. m + 1 /\ Len(new) = m + 1
      /\ new[m + 1] = b /\ \A d \in 1 .. m : new[d] = bs[d]
      OBVIOUS
<1> HIDE DEF m, new
<1>2. Len(sc) = Depth(bs, m) /\ Len(sc) \in Nat /\ Len(sc2) \in Nat
      BY DEF Nests, m
<1>3. Depth(new, m) = Depth(bs, m)
      BY <1>1, DepthAlike
<1>4. Depth(new, m + 1) = Len(sc2)
  <2>1. Depth(new, m + 1) = Depth(new, m) + IF new[m + 1].kind = "block" THEN 1 ELSE 2
        BY <1>1, DepthSteps
  <2>2. QED  BY <1>1, <1>2, <1>3, <2>1
<1>5. ASSUME NEW d \in 1 .. m
      PROVE  Depth(new, d) = Depth(bs, d) /\ Depth(bs, d) \in 1 .. Len(sc)
  <2>1. \A i \in 1 .. m : new[i].kind = bs[i].kind
        BY <1>1
  <2>2. Depth(new, d) = Depth(bs, d) /\ Depth(bs, d) \in 2 .. Depth(bs, m)
        BY <1>1, <2>1, DepthBelow
  <2>3. QED  BY <1>2, <2>2
<1>6. ASSUME NEW d \in DOMAIN new
      PROVE  /\ Range(sc2[Depth(new, d)]) \subseteq Range(new[d].holds)
             /\ Range(new[d].statements) \subseteq Range(sc2[Depth(new, d)])
  <2>1. CASE d \in 1 .. m
    <3>1. sc2[Depth(new, d)] = sc[Depth(bs, d)] /\ new[d] = bs[d]
          BY <1>1, <1>5, <2>1
    <3>2. QED  BY <1>1, <2>1, <3>1 DEF Nests
  <2>2. CASE d = m + 1
    <3>1. sc2[Depth(new, d)] = <<>> /\ new[d] = b
          BY <1>1, <1>4, <2>2
    <3>2. Range(<<>>) = {}
          BY DEF Range
    <3>3. QED  BY <3>1, <3>2
  <2>3. QED  BY <1>1, <2>1, <2>2
<1>7. sc2[1] = sc[1]
  <2>1. Depth(bs, m) >= m + 1
        BY <1>1, DepthSteps
  <2>2. 1 \in 1 .. Len(sc)
        BY <1>1, <1>2, <2>1
  <2>3. QED  BY <2>2
<1>8. Len(sc2) = Depth(new, Len(new))
      BY <1>1, <1>4
<1>9. QED  BY <1>6, <1>7, <1>8 DEF Nests, new

\* It closes with them.
LEMMA NestsClosed ==
    ASSUME NEW sc \in Seq(Seq(Nat)), NEW bs \in Seq(BodyNodes), NEW vs, Nests(sc, bs, vs),
           bs # <<>>,
           NEW sc2 \in Seq(Seq(Nat)),
           Len(sc2) = Len(sc) - IF bs[Len(bs)].kind = "block" THEN 1 ELSE 2,
           \A s \in 1 .. Len(sc2) : sc2[s] = sc[s]
    PROVE  /\ Nests(sc2, SubSeq(bs, 1, Len(bs) - 1), vs)
           /\ Len(sc) >= IF bs[Len(bs)].kind = "block" THEN 2 ELSE 3
<1> DEFINE k == Len(bs) - 1
           new == SubSeq(bs, 1, k)
<1>1. /\ k \in Nat /\ Len(bs) \in Nat /\ k < Len(bs) /\ k + 1 = Len(bs)
      /\ DOMAIN bs = 1 .. Len(bs)
      OBVIOUS
<1>2. /\ Len(new) = k /\ DOMAIN new = 1 .. k
      /\ \A i \in 1 .. k : new[i] = bs[i]
  <2>1. k \in 0 .. Len(bs)
        BY <1>1
  <2> HIDE DEF k
  <2>2. QED  BY <2>1, FrontIs
<1> HIDE DEF k, new
<1>3. Len(sc) = Depth(bs, k + 1) /\ Len(sc) \in Nat /\ Len(sc2) \in Nat
      BY <1>1 DEF Nests
<1>4. /\ Depth(bs, k) \in Nat /\ Depth(bs, k) >= k + 1
      /\ Depth(bs, k + 1) = Depth(bs, k) + IF bs[k + 1].kind = "block" THEN 1 ELSE 2
      BY <1>1, DepthSteps
<1>5. Len(sc2) = Depth(bs, k)
      BY <1>1, <1>3, <1>4, SMTT(40)
<1>6. Depth(new, k) = Depth(bs, k)
      BY <1>2, DepthAlike
<1>7. ASSUME NEW d \in 1 .. k
      PROVE  Depth(new, d) = Depth(bs, d) /\ Depth(bs, d) \in 1 .. Len(sc2)
  <2>1. \A i \in 1 .. k : new[i].kind = bs[i].kind
        BY <1>2
  <2>2. Depth(new, d) = Depth(bs, d) /\ Depth(bs, d) \in 2 .. Depth(bs, k)
        BY <1>1, <2>1, DepthBelow
  <2>3. QED  BY <1>4, <1>5, <2>2, SMTT(40)
<1>8. ASSUME NEW d \in DOMAIN new
      PROVE  /\ Range(sc2[Depth(new, d)]) \subseteq Range(new[d].holds)
             /\ Range(new[d].statements) \subseteq Range(sc2[Depth(new, d)])
  <2>1. d \in 1 .. k /\ d \in DOMAIN bs
        BY <1>1, <1>2
  <2>2. sc2[Depth(new, d)] = sc[Depth(bs, d)] /\ new[d] = bs[d]
        BY <1>2, <1>7, <2>1
  <2>3. QED  BY <2>1, <2>2 DEF Nests
<1>9. sc2[1] = sc[1]
      BY <1>1, <1>4, <1>5
<1>10. Nests(sc2, new, vs)
       BY <1>2, <1>5, <1>6, <1>8, <1>9 DEF Nests
<1>11. QED  BY <1>1, <1>3, <1>4, <1>10 DEF new, k

\* The innermost body and its scope grow together.
LEMMA NestsGrown ==
    ASSUME NEW sc \in Seq(Seq(Nat)), NEW bs \in Seq(BodyNodes), NEW vs, Nests(sc, bs, vs),
           bs # <<>>, Ids(sc[1], vs), NEW ws, Extends(vs, ws),
           NEW bs2 \in Seq(BodyNodes), Len(bs2) = Len(bs),
           \A d \in 1 .. Len(bs) - 1 : bs2[d] = bs[d],
           bs2[Len(bs)].kind = bs[Len(bs)].kind,
           NEW sc2 \in Seq(Seq(Nat)), Len(sc2) = Len(sc),
           \A s \in 1 .. Len(sc) - 1 : sc2[s] = sc[s],
           Range(sc2[Len(sc)]) \subseteq Range(bs2[Len(bs)].holds),
           Range(bs2[Len(bs)].statements) \subseteq Range(sc2[Len(sc)])
    PROVE  Nests(sc2, bs2, ws)
<1>1. PICK m : m = Len(bs)
      OBVIOUS
<1>2. /\ m \in Nat \ {0} /\ m \in Nat
      /\ DOMAIN bs = 1 .. m /\ DOMAIN bs2 = 1 .. m
      BY <1>1
<1>3. \A i \in 1 .. m : bs2[i].kind = bs[i].kind
  <2>1. \A i \in 1 .. m : i \in 1 .. m - 1 \/ i = m
        BY <1>2
  <2>2. QED  BY <1>1, <2>1
<1>4. Len(sc) = Depth(bs, m) /\ Len(sc) \in Nat
      BY <1>1 DEF Nests
<1>5. Depth(bs2, m) = Depth(bs, m)
      BY <1>3, DepthAlike
<1>6. ASSUME NEW d \in 1 .. m
      PROVE  /\ Depth(bs2, d) = Depth(bs, d) /\ Depth(bs, d) \in 1 .. Len(sc)
             /\ d < m => Depth(bs, d) \in 1 .. Len(sc) - 1
  <2>1. \A i \in 1 .. d : bs2[i].kind = bs[i].kind
        BY <1>2, <1>3
  <2>2. Depth(bs2, d) = Depth(bs, d)
        BY <2>1, DepthAlike
  <2>3. Depth(bs, d) >= d + 1 /\ Depth(bs, d) \in Nat
        BY DepthSteps
  <2>4. d \in 0 .. m
        BY <1>2
  <2>5. Depth(bs, d) <= Depth(bs, m) /\ (d < m => Depth(bs, d) < Depth(bs, m))
        BY <1>2, <2>4, DepthGrows
  <2>6. QED  BY <1>4, <2>2, <2>3, <2>5
<1>7. ASSUME NEW d \in DOMAIN bs2
      PROVE  /\ Range(sc2[Depth(bs2, d)]) \subseteq Range(bs2[d].holds)
             /\ Range(bs2[d].statements) \subseteq Range(sc2[Depth(bs2, d)])
  <2>1. CASE d = m
        BY <1>1, <1>4, <1>5, <2>1
  <2>2. CASE d # m
    <3>1. d \in 1 .. m - 1 /\ d \in 1 .. m /\ d < m
          BY <1>2, <2>2
    <3>2. sc2[Depth(bs2, d)] = sc[Depth(bs, d)] /\ bs2[d] = bs[d]
          BY <1>1, <1>6, <3>1
    <3>3. QED  BY <1>2, <3>1, <3>2 DEF Nests
  <2>3. QED  BY <2>1, <2>2
<1>8. sc2[1] = sc[1]
  <2>1. Depth(bs, m) >= m + 1
        BY <1>2, DepthSteps
  <2>2. 1 \in 1 .. Len(sc) - 1
        BY <1>2, <1>4, <2>1
  <2>3. QED  BY <2>2
<1>9. ASSUME NEW id \in Range(sc[1])
      PROVE  ws[id].within = 0
  <2>1. id \in DOMAIN vs
        BY DEF Range, Ids
  <2>2. ws[id] = vs[id] /\ vs[id].within = 0
        BY <2>1 DEF Extends, Nests
  <2>3. QED  BY <2>2
<1>10. Len(sc2) = Depth(bs2, Len(bs2))
       BY <1>1, <1>4, <1>5
<1>11. QED  BY <1>7, <1>8, <1>9, <1>10 DEF Nests

-----------------------------------------------------------------------------
(* The tables and their scopes, step by step                               *)

\* Another construct is within the bound.
LEMMA ReadsCounts ==
    ASSUME Typed, Reads
    PROVE  constructs' \in 0 .. MaxConstructs
<1>1. MaxConstructs \in Nat /\ constructs \in 0 .. MaxConstructs
      BY DeclarationsAssumption DEF Typed
<1>2. QED  BY <1>1 DEF Reads

\* The innermost body is one of the bodies.
LEMMA BodyIs ==
    ASSUME Typed, bodies # <<>>
    PROVE  /\ Len(bodies) \in Nat \ {0} /\ Len(bodies) \in DOMAIN bodies
           /\ Body = bodies[Len(bodies)] /\ Body \in BodyNodes
<1>1. bodies \in Seq(BodyNodes)
      BY DEF Typed
<1>2. Body = bodies[Len(bodies)]
      BY DEF Body, Last
<1>3. QED  BY <1>1, <1>2

\* A handler that is given a body has one.
LEMMA KindHasBody ==
    ASSUME Body.kind \in Aggregates \cup {"function", "block"}
    PROVE  bodies # <<>>
BY DEF Body, NOBODY, Aggregates

\* A text that misuses a name aborts the compiler and leaves the tables alone.
LEMMA MisuseKeeps ==
    ASSUME BaseInv, Misuse
    PROVE  BaseInv'
<1>1. Typed /\ Refers /\ Reads
      BY DEF BaseInv, Misuse
<1>2. /\ status' = "aborted"
      /\ UNCHANGED <<scopes, bodies, declared, defined, symbols, fixups, functions, cursor>>
      BY DEF Misuse, Abort
<1>3. Typed'
      BY <1>1, <1>2, ReadsCounts DEF Typed
<1>4. Refers'
  <2>1. Tables' = Tables
        BY <1>2 DEF Tables
  <2>2. QED  BY <1>1, <1>2, <2>1 DEF Refers
<1>5. ScopesNest'
      BY <1>2 DEF ScopesNest, Parsing
<1>6. QED  BY <1>3, <1>4, <1>5 DEF BaseInv

\* A new body is one of nothing; the node it met is one of its kind, when the
\* name is not misused.
LEMMA NewBodyIs ==
    ASSUME Typed, Refers, NEW kind, NEW name \in Names \cup {"unnamed"},
           NEW flag \in {"structure", "none", "function", "global"},
           (kind \in Aggregates /\ name \in Names) \/ kind \in {"function", "block"},
           kind = "struct" => flag = "structure", NEW vs \in Seq(VariableNodes)
    PROVE  LET b == NewBody(kind, name, flag)
           IN  /\ b \in BodyNodes /\ BodyOK(b, vs)
               /\ kind \notin Aggregates \/ ~Misused(kind, name) => MetOK(b, defined)
               /\ b.kind = kind /\ b.flag = flag /\ b.size = 0
               /\ b.holds = <<>> /\ b.statements = <<>>
<1> DEFINE b == NewBody(kind, name, flag)
           met == IF kind \in Aggregates THEN Lookup(name) ELSE 0
<1>1. b = [kind |-> kind, name |-> name, flag |-> flag, met |-> met, size |-> 0,
           possible |-> 0, eligible |-> 0, statements |-> <<>>, holds |-> <<>>]
      BY DEF NewBody
<1>2. /\ met \in Nat
      /\ kind \in Aggregates /\ met # 0 => met \in DOMAIN defined /\ defined[met].name = name
      /\ kind \notin Aggregates => met = 0
      BY LookupIs
<1>3. ~Misused(kind, name) /\ kind \in Aggregates /\ met # 0 => defined[met].kind = kind
      BY DEF Misused
<1> HIDE DEF b, met
<1>4. b \in BodyNodes
      BY <1>1, <1>2 DEF BodyNodes
<1>5. Ids(<<>>, vs) /\ Len(vs) \in Nat
      BY DEF Ids
<1>6. BodyOK(b, vs)
      BY <1>1, <1>5 DEF BodyOK, Aggregates
<1>7. kind \notin Aggregates \/ ~Misused(kind, name) => MetOK(b, defined)
  <2>1. b.met = met /\ b.kind = kind /\ b.name = name
        BY <1>1
  <2>2. QED  BY <1>2, <1>3, <2>1 DEF MetOK
<1>8. QED  BY <1>1, <1>4, <1>6, <1>7 DEF b

\* What a body and its scopes open leaves the rest as it was.
LEMMA OpenKeeps ==
    ASSUME BaseInv, Reads, NEW b \in BodyNodes, BodyOK(b, declared), MetOK(b, defined),
           b.holds = <<>>, b.statements = <<>>,
           b.kind \in {"function", "block"} => functions' # <<>>,
           bodies' = Append(bodies, b),
           scopes' \in Seq(Seq(Nat)),
           Len(scopes') = Len(scopes) + IF b.kind = "block" THEN 1 ELSE 2,
           \A s \in 1 .. Len(scopes) : scopes'[s] = scopes[s],
           \A s \in Len(scopes) + 1 .. Len(scopes') : scopes'[s] = <<>>,
           functions' \in Seq(FunctionNodes),
           \A f \in DOMAIN functions' : Ids(functions'[f].holds, declared),
           functions # <<>> => functions' # <<>>,
           UNCHANGED <<declared, defined, symbols, fixups, cursor, status>>
    PROVE  BaseInv'
<1>1. Typed /\ Refers /\ status = "parsing" /\ Nests(scopes, bodies, declared)
      BY NestsIs DEF BaseInv, Reads, Parsing
<1>2. Len(scopes) \in Nat /\ Len(scopes') \in Nat /\ Len(bodies) \in Nat
      /\ bodies \in Seq(BodyNodes) /\ scopes \in Seq(Seq(Nat))
      BY <1>1 DEF Typed
<1>3. bodies' \in Seq(BodyNodes) /\ DOMAIN bodies' = 1 .. Len(bodies) + 1
      /\ bodies'[Len(bodies) + 1] = b /\ \A d \in 1 .. Len(bodies) : bodies'[d] = bodies[d]
      BY <1>2
<1>4. Typed'
      BY <1>1, <1>3, ReadsCounts DEF Typed
<1>5. TablesOK(Tables', defined)
  <2>1. Tables' = [scopes |-> scopes', declared |-> declared, fixups |-> fixups]
        BY DEF Tables
  <2>2. TablesOK(Tables, defined) /\ Tables.scopes = scopes /\ Tables.declared = declared
        /\ Tables.fixups = fixups
        BY <1>1 DEF Refers, Tables
  <2>3. \A s \in DOMAIN scopes' : Ids(scopes'[s], declared)
    <3>1. Ids(<<>>, declared)
          BY DEF Ids
    <3>2. \A s \in DOMAIN scopes : Ids(scopes[s], declared)
          BY <2>2 DEF TablesOK
    <3>3. DOMAIN scopes' = 1 .. Len(scopes') /\ DOMAIN scopes = 1 .. Len(scopes)
          BY <1>2
    <3>4. \A s \in 1 .. Len(scopes') : s \in 1 .. Len(scopes)
                                       \/ s \in Len(scopes) + 1 .. Len(scopes')
          BY <1>2
    <3>5. QED  BY <3>1, <3>2, <3>3, <3>4
  <2>4. declared \in Seq(VariableNodes) /\ fixups \in Seq(FixupNodes)
        BY <1>1 DEF Typed
  <2>5. Tables' \in TableSet
        BY <2>1, <2>4 DEF TableSet
  <2>6. Tables'.scopes = scopes' /\ Tables'.declared = declared /\ Tables'.fixups = fixups
        BY <2>1
  <2>7. QED  BY <2>2, <2>3, <2>5, <2>6 DEF TablesOK
<1>6. \A d \in DOMAIN bodies' :
        (d \in DOMAIN bodies /\ bodies'[d] = bodies[d]) \/ bodies'[d] = b
  <2>1. PICK m \in Nat : m = Len(bodies) /\ DOMAIN bodies = 1 .. m
        BY <1>2
  <2>2. \A d \in 1 .. m + 1 : d \in 1 .. m \/ d = m + 1
        OBVIOUS
  <2>3. QED  BY <1>3, <2>1, <2>2
<1>7. Refers'
  <2>1. /\ \A k \in DOMAIN symbols : symbols[k] \in DOMAIN defined
        /\ \A d \in DOMAIN bodies : BodyOK(bodies[d], declared) /\ MetOK(bodies[d], defined)
        /\ \A n \in DOMAIN defined : NodeOK(defined[n], declared)
        /\ \A d \in DOMAIN bodies : bodies[d].kind \in {"function", "block"} => functions # <<>>
        BY <1>1 DEF Refers
  <2>2. \A d \in DOMAIN bodies' : BodyOK(bodies'[d], declared) /\ MetOK(bodies'[d], defined)
        BY <1>6, <2>1
  <2>3. \A d \in DOMAIN bodies' : bodies'[d].kind \in {"function", "block"} => functions' # <<>>
        BY <1>6, <2>1
  <2>4. status' = "parsing"
        BY <1>1
  <2>5. QED  BY <1>5, <2>1, <2>2, <2>3, <2>4 DEF Refers
<1>8. ScopesNest'
  <2>1. scopes'[Len(scopes')] = <<>>
    <3>1. Len(scopes') \in Len(scopes) + 1 .. Len(scopes')
          BY <1>2
    <3>2. QED  BY <3>1
  <2>2. Nests(scopes', Append(bodies, b), declared)
        BY <1>1, <1>2, <2>1, NestsOpened
  <2>3. QED  BY <2>2 DEF ScopesNest, ScopeOf, Nests, Depth
<1>9. QED  BY <1>4, <1>7, <1>8 DEF BaseInv

\* A struct or a union opened gets an empty scope, and a body that holds nothing.
LEMMA OpenAggregateKeeps ==
    ASSUME BaseInv, NEW kind \in Aggregates, NEW name \in Names, OpenAggregate(kind, name)
    PROVE  BaseInv'
<1> DEFINE flag == IF kind = "struct" THEN "structure" ELSE "none"
           b == NewBody(kind, name, flag)
           two == <<<<>>, <<>>>>
<1>1. Typed /\ Refers
      BY DEF BaseInv
<1>2. /\ scopes \in Seq(Seq(Nat)) /\ declared \in Seq(VariableNodes)
      /\ functions \in Seq(FunctionNodes) /\ Len(scopes) \in Nat
      BY <1>1 DEF Typed
<1>3. /\ Reads /\ bodies' = Append(bodies, b) /\ scopes' = scopes \o two
      /\ UNCHANGED <<declared, defined, symbols, fixups, functions, cursor, status>>
      /\ ~Misused(kind, name)
      BY DEF OpenAggregate
<1>4. kind \in {"struct", "union"} /\ flag \in {"structure", "none", "function", "global"}
      /\ (kind = "struct" => flag = "structure")
      BY DEF Aggregates
<1> HIDE DEF flag
<1>5. b \in BodyNodes /\ BodyOK(b, declared) /\ MetOK(b, defined) /\ b.kind = kind
      /\ b.holds = <<>> /\ b.statements = <<>>
      BY <1>1, <1>2, <1>3, <1>4, NewBodyIs
<1> HIDE DEF b
<1>6. two \in Seq(Seq(Nat)) /\ Len(two) = 2 /\ two[1] = <<>> /\ two[2] = <<>>
      OBVIOUS
<1> HIDE DEF two
<1>7. /\ scopes' \in Seq(Seq(Nat)) /\ Len(scopes') = Len(scopes) + 2
      /\ \A s \in 1 .. Len(scopes) + 2 :
            scopes'[s] = IF s <= Len(scopes) THEN scopes[s] ELSE two[s - Len(scopes)]
  <2>1. /\ scopes \o two \in Seq(Seq(Nat)) /\ Len(scopes \o two) = Len(scopes) + Len(two)
        /\ \A s \in 1 .. Len(scopes) + Len(two) :
              (scopes \o two)[s] = IF s <= Len(scopes) THEN scopes[s]
                                   ELSE two[s - Len(scopes)]
        BY <1>2, <1>6, ConcatProperties, Zenon
  <2>2. QED  BY <1>3, <1>6, <2>1
<1>8. \A s \in 1 .. Len(scopes) : scopes'[s] = scopes[s]
      BY <1>2, <1>7
<1>9. \A s \in Len(scopes) + 1 .. Len(scopes') : scopes'[s] = <<>>
  <2> SUFFICES ASSUME NEW s \in Len(scopes) + 1 .. Len(scopes')
               PROVE  scopes'[s] = <<>>
      OBVIOUS
  <2>1. PICK m \in Nat : m = Len(scopes)
        BY <1>2
  <2>2. s \in m + 1 .. m + 2
        BY <1>7, <2>1
  <2>3. s - m \in {1, 2} /\ ~(s <= m) /\ s \in 1 .. m + 2
        BY <2>2
  <2>4. QED  BY <1>6, <1>7, <2>1, <2>3
<1>10. b.kind # "block" /\ b.kind # "function"
       BY <1>4, <1>5
<1>11. \A f \in DOMAIN functions' : Ids(functions'[f].holds, declared)
       BY <1>1, <1>3 DEF Refers
<1>12. functions' \in Seq(FunctionNodes) /\ (functions # <<>> => functions' # <<>>)
       BY <1>2, <1>3
<1>13. Len(scopes') = Len(scopes) + IF b.kind = "block" THEN 1 ELSE 2
       BY <1>7, <1>10
<1>14. QED
       BY <1>3, <1>5, <1>7, <1>8, <1>9, <1>10, <1>11, <1>12, <1>13, OpenKeeps

\* The function that is parsed is changed in its size, its variables and whether
\* it has a detached block only.
LEMMA FunctionChanged ==
    ASSUME Typed, functions # <<>>, NEW f \in FunctionNodes,
           functions' = [functions EXCEPT ![Len(functions)] = f]
    PROVE  /\ functions' \in Seq(FunctionNodes) /\ Len(functions') = Len(functions)
           /\ functions' # <<>> /\ functions'[Len(functions)] = f
           /\ \A i \in DOMAIN functions' : /\ i \in DOMAIN functions
                                           /\ i # Len(functions) => functions'[i] = functions[i]
<1>1. functions \in Seq(FunctionNodes)
      BY DEF Typed
<1>2. QED  BY <1>1

\* A block opened inside a function gets the same, and may note that it is detached.
LEMMA OpenBlockKeeps ==
    ASSUME BaseInv, NEW of \in Blocks, OpenBlock(of)
    PROVE  BaseInv'
<1> DEFINE flag == CASE of = "branch" -> Body.flag
                     [] of = "else"   -> "none"
                     [] of = "plain"  -> "global"
           b == NewBody("block", "unnamed", flag)
           f == [functions[Len(functions)] EXCEPT !.detached = @ \/ of # "branch"]
<1>1. Typed /\ Refers
      BY DEF BaseInv
<1>2. /\ scopes \in Seq(Seq(Nat)) /\ declared \in Seq(VariableNodes)
      /\ functions \in Seq(FunctionNodes) /\ Len(scopes) \in Nat
      BY <1>1 DEF Typed
<1>3. bodies # <<>>
      BY KindHasBody DEF OpenBlock
<1>4. Len(bodies) \in DOMAIN bodies /\ Body = bodies[Len(bodies)] /\ Body \in BodyNodes
      BY <1>1, <1>3, BodyIs
<1>5. functions # <<>>
      BY <1>1, <1>4 DEF OpenBlock, Refers
<1>6. /\ Reads /\ bodies' = Append(bodies, b) /\ scopes' = Append(scopes, <<>>)
      /\ functions' = [functions EXCEPT ![Len(functions)].detached = @ \/ of # "branch"]
      /\ UNCHANGED <<declared, defined, symbols, fixups, cursor, status>>
      BY DEF OpenBlock
<1>7. flag \in {"structure", "none", "function", "global"} /\ "block" \notin Aggregates
      BY <1>4 DEF BodyNodes, Blocks, Aggregates
<1> HIDE DEF flag
<1>8. b \in BodyNodes /\ BodyOK(b, declared) /\ MetOK(b, defined) /\ b.kind = "block"
      /\ b.holds = <<>> /\ b.statements = <<>>
      BY <1>1, <1>2, <1>7, NewBodyIs
<1> HIDE DEF b
<1>9. functions[Len(functions)] \in FunctionNodes /\ Len(functions) \in DOMAIN functions
      BY <1>2, <1>5
<1>10. f \in FunctionNodes /\ f.holds = functions[Len(functions)].holds
       BY <1>9 DEF FunctionNodes
<1>11. functions' = [functions EXCEPT ![Len(functions)] = f]
       BY <1>6
<1> HIDE DEF f
<1>12. /\ functions' \in Seq(FunctionNodes) /\ functions' # <<>>
       /\ functions'[Len(functions)] = f
       /\ \A i \in DOMAIN functions' : /\ i \in DOMAIN functions
                                       /\ i # Len(functions) => functions'[i] = functions[i]
       BY <1>1, <1>5, <1>10, <1>11, FunctionChanged
<1>13. \A i \in DOMAIN functions' : Ids(functions'[i].holds, declared)
  <2>1. \A i \in DOMAIN functions : Ids(functions[i].holds, declared)
        BY <1>1 DEF Refers
  <2>2. QED  BY <1>9, <1>10, <1>12, <2>1
<1>14. /\ scopes' \in Seq(Seq(Nat)) /\ Len(scopes') = Len(scopes) + 1
       /\ \A s \in 1 .. Len(scopes) : scopes'[s] = scopes[s]
       /\ \A s \in Len(scopes) + 1 .. Len(scopes') : scopes'[s] = <<>>
       BY <1>2, <1>6
<1>15. Len(scopes') = Len(scopes) + IF b.kind = "block" THEN 1 ELSE 2
       BY <1>8, <1>14
<1>16. QED
       BY <1>6, <1>8, <1>12, <1>13, <1>14, <1>15, OpenKeeps

\* A block or a function closed hands what it holds to its function and loses its scopes.
LEMMA CloseBodyKeeps ==
    ASSUME BaseInv, CloseBody
    PROVE  BaseInv'
<1> DEFINE m == Len(bodies)
           n == IF Body.kind = "function" THEN 2 ELSE 1
           added == IF Body.flag = "function" THEN FinalSize(Body) ELSE 0
           old == functions[Len(functions)]
           f == [stack_size |-> old.stack_size + added, holds |-> old.holds \o Body.holds,
                 detached |-> old.detached]
<1>1. Typed /\ Refers /\ Nests(scopes, bodies, declared)
      BY NestsIs DEF BaseInv, CloseBody
<1>2. /\ scopes \in Seq(Seq(Nat)) /\ declared \in Seq(VariableNodes)
      /\ functions \in Seq(FunctionNodes) /\ Len(scopes) \in Nat
      /\ bodies \in Seq(BodyNodes)
      BY <1>1 DEF Typed
<1>3. bodies # <<>> /\ Body.kind \in {"function", "block"}
      BY KindHasBody DEF CloseBody
<1>4. /\ m \in Nat \ {0} /\ m \in DOMAIN bodies /\ Body = bodies[m] /\ Body \in BodyNodes
      BY <1>1, <1>3, BodyIs
<1>5. BodyOK(Body, declared) /\ functions # <<>>
      BY <1>1, <1>3, <1>4 DEF Refers
<1>6. added \in Nat
      BY <1>1, <1>4, <1>5, FinalSizeIs
<1> HIDE DEF added
<1>7. old \in FunctionNodes /\ Len(functions) \in DOMAIN functions
      BY <1>2, <1>5
<1>8. /\ old.stack_size \in Nat /\ old.holds \in Seq(Nat) /\ old.detached \in BOOLEAN
      /\ old = [stack_size |-> old.stack_size, holds |-> old.holds,
                detached |-> old.detached]
      BY <1>7 DEF FunctionNodes
<1>9. Body.holds \in Seq(Nat)
      BY <1>4 DEF BodyNodes
<1>10. f \in FunctionNodes
       BY <1>6, <1>8, <1>9 DEF FunctionNodes
<1>11. functions' = [functions EXCEPT ![Len(functions)] = f]
       BY <1>7 DEF CloseBody, added
<1>12. f.holds = old.holds \o Body.holds
       OBVIOUS
<1> HIDE DEF f
<1>13. /\ functions' \in Seq(FunctionNodes) /\ functions' # <<>>
       /\ functions'[Len(functions)] = f
       /\ \A i \in DOMAIN functions' : /\ i \in DOMAIN functions
                                       /\ i # Len(functions) => functions'[i] = functions[i]
       BY <1>1, <1>5, <1>10, <1>11, FunctionChanged
<1>14. /\ bodies' = SubSeq(bodies, 1, m - 1) /\ scopes' = SubSeq(scopes, 1, Len(scopes) - n)
       /\ UNCHANGED <<declared, defined, symbols, fixups, cursor, constructs, status>>
       BY DEF CloseBody, PopScopes, Enclosing
<1>15. Len(scopes) >= n + 1 /\ n \in {1, 2}
       /\ Nests(SubSeq(scopes, 1, Len(scopes) - n), SubSeq(bodies, 1, m - 1), declared)
  <2>1. Body.kind = "function" \/ Body.kind = "block"
        BY <1>3
  <2>2. Len(scopes) = Depth(bodies, m)
        BY <1>1 DEF Nests
  <2>3. PICK k \in Nat : k + 1 = m
        BY <1>4
  <2>4. /\ Depth(bodies, k) \in Nat /\ Depth(bodies, k) >= k + 1
        /\ Depth(bodies, k + 1) = Depth(bodies, k)
              + IF bodies[k + 1].kind = "block" THEN 1 ELSE 2
        BY DepthSteps
  <2>5. n = IF bodies[m].kind = "block" THEN 1 ELSE 2
        BY <1>4, <2>1
  <2> HIDE DEF n
  <2>6. Len(scopes) >= n + 1 /\ n \in {1, 2}
        BY <2>2, <2>3, <2>4, <2>5
  <2>7. PICK c \in 0 .. Len(scopes) : c = Len(scopes) - n
    <3>1. PICK len \in Nat : len = Len(scopes)
          BY <1>2
    <3>2. len - n \in 0 .. len
          BY <2>6, <3>1
    <3>3. QED  BY <3>1, <3>2
  <2>8. /\ SubSeq(scopes, 1, c) \in Seq(Seq(Nat)) /\ Len(SubSeq(scopes, 1, c)) = c
        /\ \A s \in 1 .. c : SubSeq(scopes, 1, c)[s] = scopes[s]
        BY <1>2, FrontIs
  <2>9. PICK sc2 \in Seq(Seq(Nat)) : sc2 = SubSeq(scopes, 1, c)
        BY <2>8
  <2>10. Len(sc2) = Len(scopes) - IF bodies[Len(bodies)].kind = "block" THEN 1 ELSE 2
         BY <2>5, <2>7, <2>8, <2>9
  <2>11. \A s \in 1 .. Len(sc2) : sc2[s] = scopes[s]
         BY <2>8, <2>9
  <2>12. Nests(sc2, SubSeq(bodies, 1, m - 1), declared)
         BY <1>1, <1>2, <1>3, <2>10, <2>11, NestsClosed
  <2>13. QED  BY <2>6, <2>7, <2>9, <2>12
<1> HIDE DEF n
<1>16. /\ scopes' \in Seq(Seq(Nat)) /\ DOMAIN scopes' \subseteq DOMAIN scopes
       /\ \A s \in DOMAIN scopes' : scopes'[s] = scopes[s]
  <2>1. Len(scopes) - n \in 0 .. Len(scopes)
        BY <1>2, <1>15
  <2>2. /\ scopes' \in Seq(Seq(Nat)) /\ DOMAIN scopes' = 1 .. Len(scopes) - n
        /\ \A s \in 1 .. Len(scopes) - n : scopes'[s] = scopes[s]
        BY <1>2, <1>14, <2>1, FrontIs
  <2>3. QED  BY <1>2, <2>1, <2>2
<1>17. /\ bodies' \in Seq(BodyNodes) /\ DOMAIN bodies' \subseteq DOMAIN bodies
       /\ \A d \in DOMAIN bodies' : bodies'[d] = bodies[d]
  <2>1. m - 1 \in 0 .. Len(bodies)
        BY <1>4
  <2>2. /\ bodies' \in Seq(BodyNodes) /\ DOMAIN bodies' = 1 .. m - 1
        /\ \A d \in 1 .. m - 1 : bodies'[d] = bodies[d]
        BY <1>2, <1>14, <2>1, FrontIs
  <2>3. QED  BY <1>2, <1>4, <2>1, <2>2
<1>18. Typed'
       BY <1>1, <1>13, <1>14, <1>16, <1>17 DEF Typed
<1>19. \A i \in DOMAIN functions' : Ids(functions'[i].holds, declared)
  <2>1. \A i \in DOMAIN functions : Ids(functions[i].holds, declared)
        BY <1>1 DEF Refers
  <2>2. Ids(old.holds, declared) /\ Ids(Body.holds, declared)
        BY <1>5, <1>7, <2>1 DEF BodyOK
  <2>3. Ids(f.holds, declared)
    <3>1. PICK s \in Seq(Nat) : s = old.holds
          BY <1>8
    <3>2. PICK u \in Seq(Nat) : u = Body.holds
          BY <1>9
    <3>3. Ids(s \o u, declared)
          BY <2>2, <3>1, <3>2, IdsJoined
    <3>4. QED  BY <1>12, <3>1, <3>2, <3>3
  <2>4. QED  BY <1>13, <2>1, <2>3
<1>20. TablesOK(Tables', defined)
  <2>1. Tables' = [scopes |-> scopes', declared |-> declared, fixups |-> fixups]
        BY <1>14 DEF Tables
  <2>2. TablesOK([scopes |-> scopes, declared |-> declared, fixups |-> fixups], defined)
        BY <1>1 DEF Refers, Tables
  <2>3. Tables' \in TableSet
        BY <1>1, <1>16, <2>1 DEF TableSet, Typed
  <2>4. Tables'.scopes = scopes' /\ Tables'.declared = declared /\ Tables'.fixups = fixups
        BY <2>1
  <2>5. \A s \in DOMAIN scopes' : Ids(scopes'[s], declared)
        BY <1>16, <2>2 DEF TablesOK
  <2>6. QED  BY <2>2, <2>3, <2>4, <2>5 DEF TablesOK
<1>21. Refers'
  <2>1. /\ \A k \in DOMAIN symbols : symbols[k] \in DOMAIN defined
        /\ \A d \in DOMAIN bodies : BodyOK(bodies[d], declared) /\ MetOK(bodies[d], defined)
        /\ \A k \in DOMAIN defined : NodeOK(defined[k], declared)
        BY <1>1 DEF Refers
  <2>2. \A d \in DOMAIN bodies' : BodyOK(bodies'[d], declared) /\ MetOK(bodies'[d], defined)
        BY <1>17, <2>1
  <2>3. status' = "parsing"
        BY <1>14 DEF CloseBody, Parsing
  <2>4. QED  BY <1>13, <1>14, <1>19, <1>20, <2>1, <2>2, <2>3 DEF Refers
<1>22. ScopesNest'
  <2>1. Nests(scopes', bodies', declared)
        BY <1>14, <1>15
  <2>2. QED  BY <1>14, <2>1 DEF ScopesNest, ScopeOf, Nests, Depth
<1>23. QED  BY <1>18, <1>21, <1>22 DEF BaseInv

\* At the end of the text no body is open and the fixups are up.
LEMMA EndOfTextKeeps ==
    ASSUME BaseInv, EndOfText
    PROVE  BaseInv'
<1>1. Typed /\ Refers
      BY DEF BaseInv
<1>2. /\ bodies = <<>> /\ status' = "fixing" /\ cursor' = 1
      /\ UNCHANGED <<scopes, bodies, declared, defined, symbols, fixups, functions,
                     constructs>>
      BY DEF EndOfText
<1>3. Typed'
  <2>1. Len(fixups) \in Nat
        BY <1>1 DEF Typed
  <2>2. cursor' \in 0 .. Len(fixups) + 1
        BY <1>2, <2>1
  <2>3. QED  BY <1>1, <1>2, <2>2 DEF Typed
<1>4. Refers'
  <2>1. Tables' = Tables
        BY <1>2 DEF Tables
  <2>2. cursor' # 0
        BY <1>2
  <2>3. QED  BY <1>1, <1>2, <2>1, <2>2 DEF Refers
<1>5. ScopesNest'
      BY <1>2 DEF ScopesNest, Parsing
<1>6. QED  BY <1>3, <1>4, <1>5 DEF BaseInv

\* What is looked up, now, is a type of the struct's name.
LEMMA FixedIsNow ==
    ASSUME Typed, Refers, NEW t \in Datatypes, t.kind = "struct", ~Misused("struct", t.name)
    PROVE  LET u == fix_struct_type(t)
           IN  /\ u \in Now /\ u.kind = "struct" /\ u.name = t.name
               /\ u.node = Lookup(t.name)
               /\ u.arrayed = t.arrayed /\ u.arraySize = t.arraySize
<1> DEFINE node == Lookup(t.name)
           size == IF node = 0 THEN 0 ELSE defined[node].size
           u == fix_struct_type(t)
<1>1. /\ node \in Nat
      /\ node # 0 => node \in DOMAIN defined /\ defined[node].name = t.name
      BY LookupIs
<1>2. node # 0 => defined[node].kind = "struct"
      BY DEF Misused, Aggregates
<1>3. size \in Nat
      BY <1>1, NodesAre
<1>4. u = [t EXCEPT !.size = size, !.node = node]
      BY DEF fix_struct_type
<1> HIDE DEF u, size, node
<1>5. /\ u \in Datatypes /\ u.kind = "struct" /\ u.name = t.name
      /\ u.node = node /\ u.size = size
      /\ u.arrayed = t.arrayed /\ u.arraySize = t.arraySize
      BY <1>1, <1>3, <1>4 DEF Datatypes
<1>6. Known(u, defined)
      BY <1>1, <1>2, <1>5 DEF Known, size
<1>7. QED  BY <1>5, <1>6 DEF Now, u, node

\* What a fixup that is tried changes: one variable, of a struct, and itself.
LEMMA ResolveDoes ==
    ASSUME Typed, Refers, ResolveFixup, status' # "aborted"
    PROVE  LET id == fixups[cursor].variable
               name == declared[id].type.name
           IN  /\ cursor \in DOMAIN fixups /\ id \in DOMAIN declared
               /\ declared[id].type.kind = "struct"
               /\ ~Misused("struct", name)
               /\ declared' \in Seq(VariableNodes) /\ Len(declared') = Len(declared)
               /\ DOMAIN declared' = DOMAIN declared
               /\ \A i \in DOMAIN declared : i # id => declared'[i] = declared[i]
               /\ declared'[id].type = fix_struct_type(declared[id].type)
               /\ declared'[id].type \in Now /\ declared'[id].type.kind = "struct"
               /\ declared'[id].type.name = name /\ declared'[id].type.node = Lookup(name)
               /\ declared'[id].within = declared[id].within
               /\ fixups' \in Seq(FixupNodes) /\ Len(fixups') = Len(fixups)
               /\ DOMAIN fixups' = DOMAIN fixups
               /\ \A j \in DOMAIN fixups : fixups'[j].variable = fixups[j].variable
               /\ \A j \in DOMAIN fixups : j # cursor => fixups'[j] = fixups[j]
               /\ fixups'[cursor].resolved = (Lookup(name) # 0)
               /\ cursor' = cursor + 1 /\ status' = "fixing"
               /\ UNCHANGED <<scopes, bodies, defined, symbols, functions, constructs>>
<1> DEFINE id == fixups[cursor].variable
           name == declared[id].type.name
           v == [declared[id] EXCEPT !.type = fix_struct_type(declared[id].type)]
           fix == [fixups[cursor] EXCEPT !.resolved = (Lookup(name) # 0)]
<1>1. /\ status = "fixing" /\ cursor <= Len(fixups) /\ ~Misused("struct", name)
      /\ declared' = [declared EXCEPT ![id].type = fix_struct_type(@)]
      /\ fixups' = [fixups EXCEPT ![cursor].resolved = (Lookup(name) # 0)]
      /\ cursor' = cursor + 1 /\ status' = "fixing"
      /\ UNCHANGED <<scopes, bodies, defined, symbols, functions, constructs>>
      BY DEF ResolveFixup
<1>2. /\ declared \in Seq(VariableNodes) /\ fixups \in Seq(FixupNodes)
      /\ cursor \in 0 .. Len(fixups) + 1
      BY DEF Typed
<1>3. TablesOK(Tables, defined) /\ Tables.declared = declared /\ Tables.fixups = fixups
      BY DEF Refers, Tables
<1>4. cursor \in DOMAIN fixups
  <2>1. cursor # 0
        BY <1>1 DEF Refers
  <2>2. QED  BY <1>1, <1>2, <2>1
<1>5. id \in DOMAIN declared /\ declared[id].type.kind = "struct"
      BY <1>3, <1>4 DEF TablesOK
<1>6. declared[id] \in VariableNodes /\ declared[id].type \in Datatypes
      BY <1>2, <1>5, VariablesAre
<1>7. fixups[cursor] \in FixupNodes
      BY <1>2, <1>4
<1>8. LET u == fix_struct_type(declared[id].type)
      IN  /\ u \in Now /\ u \in Datatypes /\ u.kind = "struct" /\ u.name = name
          /\ u.node = Lookup(name)
      BY <1>1, <1>5, <1>6, FixedIsNow DEF Now
<1>9. v \in VariableNodes /\ v.type = fix_struct_type(declared[id].type)
      /\ v.within = declared[id].within
  <2>1. PICK u \in Datatypes : u = fix_struct_type(declared[id].type)
        BY <1>8
  <2>2. PICK w \in VariableNodes : w = declared[id]
        BY <1>6
  <2>3. /\ [w EXCEPT !.type = u] \in VariableNodes /\ [w EXCEPT !.type = u].type = u
        /\ [w EXCEPT !.type = u].within = w.within
        BY DEF VariableNodes
  <2>4. QED  BY <2>1, <2>2, <2>3
<1>10. fix \in FixupNodes /\ fix.variable = id /\ fix.resolved = (Lookup(name) # 0)
       BY <1>7 DEF FixupNodes
<1>11. declared' = [declared EXCEPT ![id] = v] /\ fixups' = [fixups EXCEPT ![cursor] = fix]
       BY <1>1
<1> HIDE DEF v, fix
<1>12. /\ declared' \in Seq(VariableNodes) /\ Len(declared') = Len(declared)
       /\ DOMAIN declared' = DOMAIN declared
       /\ declared'[id] = v /\ \A i \in DOMAIN declared : i # id => declared'[i] = declared[i]
       BY <1>2, <1>5, <1>9, <1>11
<1>13. /\ fixups' \in Seq(FixupNodes) /\ Len(fixups') = Len(fixups)
       /\ DOMAIN fixups' = DOMAIN fixups
       /\ fixups'[cursor] = fix
       /\ \A j \in DOMAIN fixups : j # cursor => fixups'[j] = fixups[j]
       BY <1>2, <1>4, <1>10, <1>11
<1>14. \A j \in DOMAIN fixups : fixups'[j].variable = fixups[j].variable
       BY <1>10, <1>13
<1>15. QED
       BY <1>1, <1>4, <1>5, <1>8, <1>9, <1>10, <1>12, <1>13, <1>14

\* Behind the last fixup the root's scope closes, or the compiler aborts.
LEMMA FixupsTriedKeeps ==
    ASSUME BaseInv, FixupsTried
    PROVE  BaseInv'
<1>1. Typed /\ Refers
      BY DEF BaseInv
<1>2. /\ status = "fixing" /\ status' \in {"done", "aborted"}
      /\ scopes' = <<>> \/ scopes' = scopes
      /\ UNCHANGED <<bodies, declared, defined, symbols, fixups, functions, cursor,
                     constructs>>
      BY DEF FixupsTried
<1>3. Typed'
  <2>1. scopes' \in Seq(Seq(Nat))
    <3>1. scopes \in Seq(Seq(Nat))
          BY <1>1 DEF Typed
    <3>2. CASE scopes' = scopes
          BY <3>1, <3>2
    <3>3. CASE scopes' = <<>>
          BY <3>3
    <3>4. QED  BY <1>2, <3>2, <3>3
  <2>2. status' \in {"parsing", "fixing", "done", "aborted", "crashed"}
        BY <1>2
  <2>3. QED  BY <1>1, <1>2, <2>1, <2>2 DEF Typed
<1>4. Refers'
  <2>1. CASE scopes' = scopes
    <3>1. Tables' = Tables
          BY <1>2, <2>1 DEF Tables
    <3>2. QED  BY <1>1, <1>2, <3>1 DEF Refers
  <2>2. CASE scopes' = <<>>
    <3>1. TablesOK([scopes |-> scopes, declared |-> declared, fixups |-> fixups], defined)
          BY <1>1 DEF Refers, Tables
    <3>2. Tables' = [scopes |-> <<>>, declared |-> declared, fixups |-> fixups]
          BY <1>2, <2>2 DEF Tables
    <3>3. Tables' \in TableSet
          BY <3>1, <3>2 DEF TablesOK, TableSet
    <3>4. Tables'.scopes = <<>> /\ Tables'.declared = declared /\ Tables'.fixups = fixups
          BY <3>2
    <3>5. TablesOK(Tables', defined')
          BY <1>2, <3>1, <3>3, <3>4 DEF TablesOK
    <3>6. QED  BY <1>1, <1>2, <3>5 DEF Refers
  <2>3. QED  BY <1>2, <2>1, <2>2
<1>5. ScopesNest'
      BY <1>2 DEF ScopesNest, Parsing
<1>6. QED  BY <1>3, <1>4, <1>5 DEF BaseInv

\* A fixup resolved gives a node a type that the table knows, or aborts.
LEMMA ResolveFixupKeeps ==
    ASSUME BaseInv, ResolveFixup
    PROVE  BaseInv'
<1>1. Typed /\ Refers
      BY DEF BaseInv
<1>2. status = "fixing" /\ status' \in {"fixing", "aborted"}
      BY DEF ResolveFixup
<1>3. CASE status' = "aborted"
  <2>1. UNCHANGED <<scopes, bodies, declared, defined, symbols, fixups, functions, cursor,
                    constructs>>
        BY <1>2, <1>3 DEF ResolveFixup
  <2>2. Tables' = Tables
        BY <2>1 DEF Tables
  <2>3. QED  BY <1>1, <1>3, <2>1, <2>2
             DEF BaseInv, Typed, Refers, ScopesNest, Parsing
<1>4. CASE status' # "aborted"
  <2> DEFINE id == fixups[cursor].variable
  <2>1. /\ cursor \in DOMAIN fixups /\ id \in DOMAIN declared
        /\ declared' \in Seq(VariableNodes) /\ Len(declared') = Len(declared)
        /\ DOMAIN declared' = DOMAIN declared
        /\ \A i \in DOMAIN declared : i # id => declared'[i] = declared[i]
        /\ declared'[id].type \in Now /\ declared'[id].type.kind = "struct"
        /\ fixups' \in Seq(FixupNodes) /\ Len(fixups') = Len(fixups)
        /\ DOMAIN fixups' = DOMAIN fixups
        /\ \A j \in DOMAIN fixups : fixups'[j].variable = fixups[j].variable
        /\ cursor' = cursor + 1 /\ status' = "fixing"
        /\ UNCHANGED <<scopes, bodies, defined, symbols, functions, constructs>>
        BY <1>1, <1>4, ResolveDoes, Zenon
  <2> HIDE DEF id
  <2>2. Typed'
    <3>1. cursor' \in 0 .. Len(fixups') + 1
      <4>1. fixups \in Seq(FixupNodes)
            BY <1>1 DEF Typed
      <4>2. cursor \in 1 .. Len(fixups) /\ Len(fixups) \in Nat
            BY <2>1, <4>1
      <4>3. QED  BY <2>1, <4>2
    <3>2. QED  BY <1>1, <2>1, <3>1 DEF Typed
  <2>3. TablesOK(Tables', defined')
    <3>1. TablesOK(Tables, defined) /\ Tables.scopes = scopes
          /\ Tables.declared = declared /\ Tables.fixups = fixups
          BY <1>1 DEF Refers, Tables
    <3>2. Tables'.scopes = scopes /\ Tables'.declared = declared'
          /\ Tables'.fixups = fixups' /\ Tables' \in TableSet
          BY <2>1, <2>2 DEF Tables, TableSet, Typed
    <3>3. \A s \in DOMAIN scopes : Ids(scopes[s], declared')
          BY <2>1, <3>1 DEF TablesOK, Ids
    <3>4. \A i \in DOMAIN declared' : Known(declared'[i].type, defined')
      <4>1. \A i \in DOMAIN declared : Known(declared[i].type, defined)
            BY <3>1 DEF TablesOK
      <4>2. Known(declared'[id].type, defined)
            BY <2>1 DEF Now
      <4>3. QED  BY <2>1, <4>1, <4>2
    <3>5. \A j \in DOMAIN fixups' : /\ fixups'[j].variable \in DOMAIN declared'
                                    /\ declared'[fixups'[j].variable].type.kind = "struct"
      <4>1. \A j \in DOMAIN fixups : /\ fixups[j].variable \in DOMAIN declared
                                     /\ declared[fixups[j].variable].type.kind = "struct"
            BY <3>1 DEF TablesOK
      <4>2. \A i \in DOMAIN declared : declared[i].type.kind = "struct" =>
               declared'[i].type.kind = "struct"
            BY <2>1
      <4>3. QED  BY <2>1, <4>1, <4>2
    <3>6. QED  BY <3>2, <3>3, <3>4, <3>5 DEF TablesOK
  <2>4. Refers'
    <3>1. bodies = <<>>
          BY <1>1, <1>2 DEF Refers
    <3>2. \A n \in DOMAIN defined : NodeOK(defined[n], declared')
          BY <1>1, <2>1 DEF Refers, NodeOK, Ids
    <3>3. \A f \in DOMAIN functions : Ids(functions[f].holds, declared')
          BY <1>1, <2>1 DEF Refers, Ids
    <3>4. \A k \in DOMAIN symbols : symbols[k] \in DOMAIN defined
          BY <1>1 DEF Refers
    <3>5. \A d \in DOMAIN bodies : FALSE
          BY <3>1
    <3>6. cursor' # 0
          BY <2>1
    <3>7. QED  BY <2>1, <2>3, <3>1, <3>2, <3>3, <3>4, <3>5, <3>6 DEF Refers
  <2>5. ScopesNest'
        BY <2>1 DEF ScopesNest, Parsing
  <2>6. QED  BY <2>2, <2>4, <2>5 DEF BaseInv
<1>5. QED  BY <1>3, <1>4

\* What a body makes of variables keeps it one, and holds them.
LEMMA GrownIs ==
    ASSUME NEW b \in BodyNodes, NEW nodes \in Seq(StructNodes),
           NEW vs \in Seq(VariableNodes), BodyOK(b, vs),
           NEW ids \in Seq(Nat), ids # <<>>, Ids(ids, vs),
           \A i \in DOMAIN vs : Known(vs[i].type, nodes),
           \A k \in DOMAIN ids : Primitive(vs[ids[k]].type) \/ vs[ids[k]].type.node # 0,
           NEW form
    PROVE  LET g == Grown(b, nodes, vs, ids, form)
           IN  /\ g \in BodyNodes /\ BodyOK(g, vs)
               /\ g.kind = b.kind /\ g.name = b.name /\ g.flag = b.flag /\ g.met = b.met
               /\ g.size = Appended(nodes, vs, ids, b.size)
               /\ g.holds = b.holds \o ids
               /\ g.statements = IF form = "single" THEN Append(b.statements, ids[1])
                                 ELSE b.statements
<1> DEFINE id == ids[1]
           t == vs[id].type
           Beats(old) == old = 0 \/ vs[old].type.size <= t.size
           size == Appended(nodes, vs, ids, b.size)
           possible == IF form = "single" /\ Beats(b.possible) THEN id ELSE b.possible
           eligible == IF form = "single" /\ Primitive(t) /\ Beats(b.eligible) THEN id
                       ELSE b.eligible
           statements == IF form = "single" THEN Append(b.statements, id) ELSE b.statements
           holds == b.holds \o ids
           g == Grown(b, nodes, vs, ids, form)
<1>1. g = [b EXCEPT !.size = size, !.possible = possible, !.eligible = eligible,
                    !.statements = statements, !.holds = holds]
      BY DEF Grown
<1>2. /\ b.size \in Nat /\ b.possible \in Nat /\ b.eligible \in Nat
      /\ b.statements \in Seq(Nat) /\ b.holds \in Seq(Nat)
      BY DEF BodyNodes
<1>3. id \in DOMAIN vs /\ id \in Nat /\ Len(vs) \in Nat
  <2>1. 1 \in DOMAIN ids
        BY ElementOfSeq
  <2>2. QED  BY <2>1 DEF Ids
<1>4. size \in Nat
      BY <1>2, AppendedIs
<1>5. possible \in Nat /\ eligible \in Nat /\ possible \in 0 .. Len(vs)
      /\ (eligible # 0 => eligible \in DOMAIN vs /\ Primitive(vs[eligible].type))
  <2> HIDE DEF Beats, t, id
  <2>1. b.possible \in 0 .. Len(vs)
        BY DEF BodyOK
  <2>2. b.eligible # 0 => b.eligible \in DOMAIN vs /\ Primitive(vs[b.eligible].type)
        BY DEF BodyOK
  <2>3. id \in 0 .. Len(vs)
        BY <1>3
  <2>4. Primitive(t) => Primitive(vs[id].type)
        BY DEF t
  <2>5. QED  BY <1>2, <1>3, <2>1, <2>2, <2>3, <2>4
<1>6. statements \in Seq(Nat) /\ Ids(statements, vs)
  <2>1. Ids(b.statements, vs)
        BY DEF BodyOK
  <2>2. PICK s \in Seq(Nat) : s = b.statements
        BY <1>2
  <2>3. Append(s, id) \in Seq(Nat) /\ Ids(Append(s, id), vs)
    <3>1. PICK i \in Nat : i = id
          BY <1>3
    <3>2. QED  BY <1>3, <2>1, <2>2, <3>1, IdsAppended
  <2>4. QED  BY <2>1, <2>2, <2>3
<1>7. holds \in Seq(Nat) /\ Ids(holds, vs)
      BY <1>2, IdsJoined DEF BodyOK
<1> HIDE DEF g, size, possible, eligible, statements, holds
<1>8. /\ g \in BodyNodes /\ g.kind = b.kind /\ g.name = b.name /\ g.flag = b.flag
      /\ g.met = b.met /\ g.size = size /\ g.possible = possible /\ g.eligible = eligible
      /\ g.statements = statements /\ g.holds = holds
      BY <1>1, <1>4, <1>5, <1>6, <1>7 DEF BodyNodes
<1>9. BodyOK(g, vs)
  <2>1. /\ b.kind \in Aggregates => b.name \in Names
        /\ b.kind = "struct" => b.flag = "structure"
        BY DEF BodyOK
  <2>2. QED  BY <1>5, <1>6, <1>7, <1>8, <2>1 DEF BodyOK
<1>10. QED  BY <1>8, <1>9 DEF g, size, statements, holds

\* While the text is parsed a scope is open, the root alone outside of bodies.
LEMMA ScopesOpen ==
    ASSUME Typed, Nests(scopes, bodies, declared)
    PROVE  /\ scopes # <<>> /\ Len(scopes) \in Nat \ {0}
           /\ bodies = <<>> => Len(scopes) = 1
           /\ bodies # <<>> => Len(scopes) > 1
           /\ Len(scopes) = Depth(bodies, Len(bodies))
<1>1. PICK m \in Nat : m = Len(bodies)
      BY DEF Typed
<1>2. Len(scopes) = Depth(bodies, m)
      BY <1>1 DEF Nests
<1>3. Depth(bodies, m) \in Nat /\ Depth(bodies, m) >= m + 1 /\ Depth(bodies, 0) = 1
      BY DepthSteps
<1>4. (bodies = <<>> => m = 0) /\ (bodies # <<>> => m # 0)
      BY <1>1 DEF Typed
<1>5. scopes # <<>>
      BY <1>2, <1>3
<1>6. QED  BY <1>1, <1>2, <1>3, <1>4, <1>5

\* The next n ids.
Fresh(n) == [k \in 1 .. n |-> Len(declared) + k]

\* The ids of the nodes a declaration makes are the next ones, in their order.
LEMMA FreshIs ==
    ASSUME Typed, NEW n \in Nat, NEW vs \in Seq(VariableNodes), Len(vs) = Len(declared) + n
    PROVE  /\ Fresh(n) \in Seq(Nat) /\ Len(Fresh(n)) = n /\ Ids(Fresh(n), vs)
           /\ DOMAIN Fresh(n) = 1 .. n
           /\ \A k \in 1 .. n : Fresh(n)[k] = Len(declared) + k
           /\ n # 0 => Fresh(n) # <<>>
<1>1. PICK m \in Nat : m = Len(declared)
      BY DEF Typed
<1>2. Fresh(n) = [k \in 1 .. n |-> m + k]
      BY <1>1 DEF Fresh
<1>3. DOMAIN vs = 1 .. m + n
      BY <1>1
<1>4. Fresh(n) \in Seq(Nat) /\ Len(Fresh(n)) = n /\ DOMAIN Fresh(n) = 1 .. n
      BY <1>2
<1>5. Ids(Fresh(n), vs)
      BY <1>2, <1>3 DEF Ids
<1>6. QED  BY <1>1, <1>2, <1>4, <1>5

\* What a declaration does.
LEMMA DeclareDoes ==
    ASSUME Typed, Refers, Nests(scopes, bodies, declared),
           NEW t \in Types, NEW lengths \in Lists, Declare(t[1], t[2], lengths)
    PROVE  LET n == Len(lengths)
               form == IF n = 1 THEN "single" ELSE "list"
           IN  /\ n \in Nat \ {0} /\ Reads
               /\ More(Tables, Tables', n, Body.flag, Now, defined)
               /\ \/ bodies = <<>> /\ UNCHANGED <<bodies, status>>
                  \/ bodies # <<>> /\ status' = "crashed" /\ UNCHANGED bodies
                  \/ /\ bodies # <<>> /\ ~Dangling(declared', Fresh(n)) /\ UNCHANGED status
                     /\ bodies' = [bodies EXCEPT ![Len(bodies)] =
                                      Grown(Body, defined, declared', Fresh(n), form)]
               /\ UNCHANGED <<defined, symbols, functions, cursor>>
<1> DEFINE n == Len(lengths)
           tables == Declarators(Datatype(t[1], t[2]), lengths, Body.flag)
           ids == NewVariables(tables)
           form == IF n = 1 THEN "single" ELSE "list"
<1>1. n \in Nat \ {0} /\ lengths \in Seq(Nat)
      BY DeclarationsAssumption
<1>2. <<t[1], t[2]>> \in Types /\ ~Misused(t[1], t[2])
      BY DEF Declare, Types
<1>3. Datatype(t[1], t[2]) \in Now
      BY <1>2, DatatypeIsNow
<1>4. scopes # <<>>
      BY ScopesOpen
<1>5. More(Tables, tables, n, Body.flag, Now, defined)
      BY <1>1, <1>3, <1>4, DeclaratorsAdd
<1>6. SetTables(tables)
      BY DEF Declare
<1>7. /\ \/ bodies = <<>> /\ UNCHANGED <<bodies, status>>
         \/ bodies # <<>> /\ status' = "crashed" /\ UNCHANGED bodies
         \/ /\ bodies # <<>> /\ ~Dangling(tables.declared, ids) /\ UNCHANGED status
            /\ bodies' = [bodies EXCEPT ![Len(bodies)] =
                             Grown(@, defined, tables.declared, ids,
                                   IF Len(ids) = 1 THEN "single" ELSE "list")]
      /\ UNCHANGED <<defined, symbols, functions, cursor>> /\ Reads
      BY DEF Declare
<1> HIDE DEF tables
<1>8. tables = Tables' /\ tables.declared = declared'
  <2>1. tables \in TableSet
        BY <1>5 DEF More, TablesOK
  <2>2. tables = [scopes |-> tables.scopes, declared |-> tables.declared,
                  fixups |-> tables.fixups]
        BY <2>1 DEF TableSet
  <2>3. QED  BY <1>6, <2>2 DEF SetTables, Tables
<1>9. ids = Fresh(n) /\ Len(ids) = n
  <2>1. PICK m \in Nat : m = Len(declared)
        BY DEF Typed
  <2>2. Len(tables.declared) = m + n /\ Tables.declared = declared
        BY <1>5, <2>1 DEF More, Tables
  <2>3. Len(tables.declared) - m = n
        BY <1>1, <2>1, <2>2
  <2>4. ids = Fresh(n)
        BY <2>1, <2>3 DEF NewVariables, Fresh
  <2>5. Len(Fresh(n)) = n
        BY <1>1, <2>1 DEF Fresh
  <2>6. QED  BY <2>4, <2>5
<1> HIDE DEF n, ids
<1>10. \/ bodies = <<>> /\ UNCHANGED <<bodies, status>>
       \/ bodies # <<>> /\ status' = "crashed" /\ UNCHANGED bodies
       \/ /\ bodies # <<>> /\ ~Dangling(declared', Fresh(n)) /\ UNCHANGED status
          /\ bodies' = [bodies EXCEPT ![Len(bodies)] =
                           Grown(Body, defined, declared', Fresh(n), form)]
  <2>1. bodies # <<>> => Len(bodies) \in DOMAIN bodies /\ Body = bodies[Len(bodies)]
        BY BodyIs
  <2>2. CASE /\ bodies # <<>> /\ ~Dangling(tables.declared, ids) /\ UNCHANGED status
             /\ bodies' = [bodies EXCEPT ![Len(bodies)] =
                              Grown(@, defined, tables.declared, ids,
                                    IF Len(ids) = 1 THEN "single" ELSE "list")]
        BY <1>8, <1>9, <2>1, <2>2
  <2>3. QED  BY <1>7, <2>2
<1>11. QED
       BY <1>1, <1>5, <1>7, <1>8, <1>10 DEF n

\* What bodies, nodes and functions refer to is still there among more variables.
LEMMA RestKept ==
    ASSUME Typed, Refers, NEW ws \in Seq(VariableNodes), Extends(declared, ws),
           Len(declared) <= Len(ws)
    PROVE  /\ \A d \in DOMAIN bodies : BodyOK(bodies[d], ws)
           /\ \A n \in DOMAIN defined : NodeOK(defined[n], ws)
           /\ \A f \in DOMAIN functions : Ids(functions[f].holds, ws)
<1>1. /\ \A d \in DOMAIN bodies : BodyOK(bodies[d], declared)
      /\ \A n \in DOMAIN defined : NodeOK(defined[n], declared)
      /\ \A f \in DOMAIN functions : Ids(functions[f].holds, declared)
      BY DEF Refers
<1>2. Len(declared) \in Nat /\ Len(ws) \in Nat
      BY DEF Typed
<1>3. \A d \in DOMAIN bodies : BodyOK(bodies[d], ws)
      BY <1>1, <1>2, BodyKept
<1>4. \A n \in DOMAIN defined : NodeOK(defined[n], ws)
      BY <1>1, <1>2, NodeKept
<1>5. \A f \in DOMAIN functions : Ids(functions[f].holds, ws)
      BY <1>1, IdsKept
<1>6. QED  BY <1>3, <1>4, <1>5

\* What a sequence and another together hold.
LEMMA RangeJoined ==
    ASSUME NEW s \in Seq(Nat), NEW u \in Seq(Nat)
    PROVE  Range(s \o u) = Range(s) \cup Range(u)
<1>1. PICK m \in Nat : m = Len(s)
      OBVIOUS
<1>2. PICK n \in Nat : n = Len(u)
      OBVIOUS
<1>3. PICK w : w = s \o u
      OBVIOUS
<1>4. /\ DOMAIN s = 1 .. m /\ DOMAIN u = 1 .. n /\ DOMAIN w = 1 .. m + n
      /\ \A k \in 1 .. m + n : w[k] = IF k <= m THEN s[k] ELSE u[k - m]
      BY <1>1, <1>2, <1>3
<1>5. ASSUME NEW k \in 1 .. m + n
      PROVE  w[k] \in Range(s) \cup Range(u)
  <2>1. CASE k <= m
    <3>1. k \in 1 .. m
          BY <2>1
    <3>2. QED  BY <1>4, <2>1, <3>1 DEF Range
  <2>2. CASE ~(k <= m)
    <3>1. k - m \in 1 .. n
          BY <2>2
    <3>2. QED  BY <1>4, <2>2, <3>1 DEF Range
  <2>3. QED  BY <2>1, <2>2
<1>6. ASSUME NEW k \in 1 .. m
      PROVE  s[k] \in Range(w)
  <2>1. k \in 1 .. m + n /\ k <= m
        OBVIOUS
  <2>2. w[k] = s[k]
        BY <1>4, <2>1
  <2>3. QED  BY <1>4, <2>1, <2>2 DEF Range
<1>7. ASSUME NEW k \in 1 .. n
      PROVE  u[k] \in Range(w)
  <2>1. PICK l : l = k + m
        OBVIOUS
  <2>2. l \in 1 .. m + n /\ ~(l <= m) /\ l - m = k
        BY <2>1
  <2>3. w[l] = u[k]
        BY <1>4, <2>2
  <2>4. QED  BY <1>4, <2>2, <2>3 DEF Range
<1>8. Range(w) \subseteq Range(s) \cup Range(u)
      BY <1>4, <1>5 DEF Range
<1>9. Range(s) \cup Range(u) \subseteq Range(w)
      BY <1>4, <1>6, <1>7 DEF Range
<1>10. QED  BY <1>3, <1>8, <1>9

\* A declaration adds its variables behind the nodes, to the scope and to the body.
LEMMA DeclareKeeps ==
    ASSUME BaseInv, NEW t \in Types, NEW lengths \in Lists, Declare(t[1], t[2], lengths)
    PROVE  BaseInv'
<1> DEFINE n == Len(lengths)
           form == IF n = 1 THEN "single" ELSE "list"
           g == Grown(Body, defined, declared', Fresh(n), form)
<1>1. Typed /\ Refers /\ Nests(scopes, bodies, declared) /\ status = "parsing"
      BY NestsIs DEF BaseInv, Declare, Reads, Parsing
<1>2. /\ n \in Nat \ {0} /\ Reads
      /\ More(Tables, Tables', n, Body.flag, Now, defined)
      /\ \/ bodies = <<>> /\ UNCHANGED <<bodies, status>>
         \/ bodies # <<>> /\ status' = "crashed" /\ UNCHANGED bodies
         \/ /\ bodies # <<>> /\ ~Dangling(declared', Fresh(n)) /\ UNCHANGED status
            /\ bodies' = [bodies EXCEPT ![Len(bodies)] = g]
      /\ UNCHANGED <<defined, symbols, functions, cursor>>
      BY <1>1, DeclareDoes
<1> HIDE DEF n, form, g
<1>3. /\ scopes \in Seq(Seq(Nat)) /\ declared \in Seq(VariableNodes)
      /\ bodies \in Seq(BodyNodes) /\ defined \in Seq(StructNodes)
      BY <1>1 DEF Typed
<1>4. /\ Tables.scopes = scopes /\ Tables.declared = declared /\ Tables.fixups = fixups
      /\ Tables'.scopes = scopes' /\ Tables'.declared = declared' /\ Tables'.fixups = fixups'
      BY DEF Tables
<1>5. TablesOK(Tables', defined) /\ Tables' \in TableSet
      BY <1>2 DEF More, TablesOK
<1>6. /\ scopes' \in Seq(Seq(Nat)) /\ declared' \in Seq(VariableNodes)
      /\ fixups' \in Seq(FixupNodes)
      BY <1>4, <1>5 DEF TableSet
<1>7. /\ Extends(declared, declared') /\ Len(declared) <= Len(declared')
      /\ Len(declared') = Len(declared) + n
      /\ Len(fixups) <= Len(fixups')
  <2>1. Extends(declared, declared') /\ Len(declared) <= Len(declared')
        BY <1>2, <1>3, <1>4, MoreExtends
  <2>2. QED  BY <1>2, <1>4, <2>1 DEF More
<1>8. /\ Fresh(n) \in Seq(Nat) /\ Ids(Fresh(n), declared') /\ Fresh(n) # <<>>
      /\ DOMAIN Fresh(n) = 1 .. n /\ \A k \in 1 .. n : Fresh(n)[k] = Len(declared) + k
      BY <1>1, <1>2, <1>6, <1>7, FreshIs
<1>9. PICK top \in Nat \ {0} : top = Len(scopes)
      BY <1>1, ScopesOpen
<1>10. /\ Len(scopes') = top /\ \A s \in 1 .. top - 1 : scopes'[s] = scopes[s]
       /\ scopes'[top] = scopes[top] \o Fresh(n)
       BY <1>2, <1>4, <1>9 DEF More, Fresh
<1>11. /\ \A d \in DOMAIN bodies : BodyOK(bodies[d], declared') /\ MetOK(bodies[d], defined)
       /\ \A k \in DOMAIN defined : NodeOK(defined[k], declared')
       /\ \A f \in DOMAIN functions : Ids(functions[f].holds, declared')
       BY <1>1, <1>6, <1>7, RestKept DEF Refers
<1>12. Range(scopes'[top]) = Range(scopes[top]) \cup Range(Fresh(n))
  <2>1. PICK s \in Seq(Nat) : s = scopes[top]
        BY <1>3, <1>9
  <2>2. QED  BY <1>8, <1>10, <2>1, RangeJoined
<1>13. ASSUME bodies # <<>>, ~Dangling(declared', Fresh(n)),
              bodies' = [bodies EXCEPT ![Len(bodies)] = g]
       PROVE  /\ bodies' \in Seq(BodyNodes) /\ Len(bodies') = Len(bodies)
              /\ DOMAIN bodies' = DOMAIN bodies
              /\ \A d \in DOMAIN bodies' : /\ BodyOK(bodies'[d], declared')
                                           /\ MetOK(bodies'[d], defined)
                                           /\ bodies'[d].kind = bodies[d].kind
              /\ Nests(scopes', bodies', declared')
  <2>1. /\ Len(bodies) \in DOMAIN bodies /\ Body = bodies[Len(bodies)] /\ Body \in BodyNodes
        /\ DOMAIN bodies = 1 .. Len(bodies) /\ Len(bodies) \in Nat
        BY <1>1, <1>3, <1>13, BodyIs
  <2>2. BodyOK(Body, declared')
        BY <1>11, <2>1
  <2>3. \A i \in DOMAIN declared' : Known(declared'[i].type, defined)
        BY <1>4, <1>5 DEF TablesOK
  <2>4. \A k \in DOMAIN Fresh(n) : \/ Primitive(declared'[Fresh(n)[k]].type)
                                   \/ declared'[Fresh(n)[k]].type.node # 0
        BY <1>13 DEF Dangling, Range
  <2>5. /\ g \in BodyNodes /\ BodyOK(g, declared') /\ g.kind = Body.kind
        /\ g.name = Body.name /\ g.met = Body.met
        /\ g.holds = Body.holds \o Fresh(n)
        /\ g.statements = IF form = "single" THEN Append(Body.statements, Fresh(n)[1])
                          ELSE Body.statements
    <3>1. PICK ids \in Seq(Nat) : ids = Fresh(n)
          BY <1>8
    <3>2. PICK vs \in Seq(VariableNodes) : vs = declared'
          BY <1>6
    <3>3. PICK b \in BodyNodes : b = Body
          BY <2>1
    <3>4. ids # <<>> /\ Ids(ids, vs) /\ BodyOK(b, vs)
          BY <1>8, <2>2, <3>1, <3>2, <3>3
    <3>5. \A i \in DOMAIN vs : Known(vs[i].type, defined)
          BY <2>3, <3>2
    <3>6. \A k \in DOMAIN ids : Primitive(vs[ids[k]].type) \/ vs[ids[k]].type.node # 0
          BY <2>4, <3>1, <3>2
    <3>7. PICK nodes \in Seq(StructNodes) : nodes = defined
          BY <1>3
    <3>8. \A i \in DOMAIN vs : Known(vs[i].type, nodes)
          BY <3>5, <3>7
    <3>9. PICK h : h = Grown(b, nodes, vs, ids, form)
          OBVIOUS
    <3>10. /\ h \in BodyNodes /\ BodyOK(h, vs) /\ h.kind = b.kind /\ h.flag = b.flag
           /\ h.name = b.name /\ h.met = b.met
           /\ h.size = Appended(nodes, vs, ids, b.size)
           /\ h.holds = b.holds \o ids
           /\ h.statements = IF form = "single" THEN Append(b.statements, ids[1])
                             ELSE b.statements
           BY <3>4, <3>6, <3>8, <3>9, GrownIs, SMTT(40)
    <3>11. g = h
           BY <3>1, <3>2, <3>3, <3>7, <3>9 DEF g
    <3>12. QED  BY <3>1, <3>2, <3>3, <3>10, <3>11
  <2>6. /\ bodies' \in Seq(BodyNodes) /\ Len(bodies') = Len(bodies)
        /\ DOMAIN bodies' = DOMAIN bodies
        /\ bodies'[Len(bodies)] = g
        /\ \A d \in DOMAIN bodies : d # Len(bodies) => bodies'[d] = bodies[d]
        BY <1>3, <1>13, <2>1, <2>5
  <2>7. \A d \in DOMAIN bodies' : /\ BodyOK(bodies'[d], declared')
                                  /\ MetOK(bodies'[d], defined)
                                  /\ bodies'[d].kind = bodies[d].kind
    <3>1. MetOK(g, defined)
          BY <1>11, <2>1, <2>5 DEF MetOK
    <3>2. QED  BY <1>11, <2>1, <2>5, <2>6, <3>1
  <2>8. /\ Range(scopes[top]) \subseteq Range(Body.holds)
        /\ Range(Body.statements) \subseteq Range(scopes[top])
    <3>1. top = Depth(bodies, Len(bodies))
          BY <1>1, <1>9 DEF Nests
    <3>2. QED  BY <1>1, <2>1, <3>1 DEF Nests
  <2>9. /\ Body.holds \in Seq(Nat) /\ Body.statements \in Seq(Nat)
        BY <2>1 DEF BodyNodes
  <2>10. Range(scopes'[top]) \subseteq Range(g.holds)
    <3>1. Range(g.holds) = Range(Body.holds) \cup Range(Fresh(n))
      <4>1. PICK s \in Seq(Nat) : s = Body.holds
            BY <2>9
      <4>2. QED  BY <1>8, <2>5, <4>1, RangeJoined
    <3>2. QED  BY <1>12, <2>8, <3>1
  <2>11. Range(g.statements) \subseteq Range(scopes'[top])
    <3>1. CASE form = "single"
      <4>1. PICK s \in Seq(Nat) : s = Body.statements
            BY <2>9
      <4>2. Fresh(n)[1] \in Range(Fresh(n)) /\ Fresh(n)[1] \in Nat
            BY <1>2, <1>8, SMTT(40) DEF Range
      <4>3. PICK i \in Nat : i = Fresh(n)[1]
            BY <4>2
      <4>4. Range(Append(s, i)) \subseteq Range(s) \cup {i}
            BY DEF Range
      <4>5. QED  BY <1>12, <2>5, <2>8, <3>1, <4>1, <4>2, <4>3, <4>4
    <3>2. CASE form # "single"
          BY <1>12, <2>5, <2>8, <3>2
    <3>3. QED  BY <3>1, <3>2
  <2>12. Ids(scopes[1], declared)
    <3>1. 1 \in DOMAIN scopes
          BY <1>3, <1>9
    <3>2. QED  BY <1>1, <1>4, <3>1 DEF Refers, TablesOK
  <2>13. \A d \in 1 .. Len(bodies) - 1 : bodies'[d] = bodies[d]
         BY <2>1, <2>6
  <2>14. bodies'[Len(bodies)].kind = bodies[Len(bodies)].kind
         BY <2>1, <2>6, <2>7
  <2>15. Nests(scopes', bodies', declared')
    <3>1. PICK ws \in Seq(VariableNodes) : ws = declared'
          BY <1>6
    <3>2. PICK bs2 \in Seq(BodyNodes) : bs2 = bodies'
          BY <2>6
    <3>3. PICK sc2 \in Seq(Seq(Nat)) : sc2 = scopes'
          BY <1>6
    <3>4. /\ Len(sc2) = Len(scopes) /\ \A s \in 1 .. Len(scopes) - 1 : sc2[s] = scopes[s]
          /\ Range(sc2[Len(scopes)]) \subseteq Range(bs2[Len(bodies)].holds)
          /\ Range(bs2[Len(bodies)].statements) \subseteq Range(sc2[Len(scopes)])
          BY <1>9, <1>10, <2>6, <2>10, <2>11, <3>2, <3>3
    <3>5. Nests(sc2, bs2, ws)
          BY <1>1, <1>3, <1>7, <1>13, <2>6, <2>12, <2>13, <2>14, <3>1, <3>2, <3>3, <3>4,
             NestsGrown
    <3>6. QED  BY <3>1, <3>2, <3>3, <3>5
  <2>16. QED  BY <2>6, <2>7, <2>15
<1>14. /\ bodies' \in Seq(BodyNodes) /\ DOMAIN bodies' = DOMAIN bodies
       /\ \A d \in DOMAIN bodies' : /\ BodyOK(bodies'[d], declared')
                                    /\ MetOK(bodies'[d], defined)
                                    /\ bodies'[d].kind = bodies[d].kind
       /\ bodies = <<>> => bodies' = <<>>
       BY <1>2, <1>3, <1>11, <1>13
<1>15. status' \in {"parsing", "crashed"}
       BY <1>1, <1>2
<1>16. Typed'
  <2>1. cursor' \in 0 .. Len(fixups') + 1
    <3>1. PICK a \in Nat : a = Len(fixups)
          BY <1>1 DEF Typed
    <3>2. PICK b \in Nat : b = Len(fixups')
          BY <1>6
    <3>3. cursor \in 0 .. a + 1 /\ a <= b
          BY <1>1, <1>7, <3>1, <3>2 DEF Typed
    <3>4. QED  BY <1>2, <3>2, <3>3
  <2>2. QED  BY <1>1, <1>2, <1>6, <1>14, <1>15, <2>1, ReadsCounts DEF Typed
<1>17. Refers'
  <2>1. /\ \A k \in DOMAIN symbols : symbols[k] \in DOMAIN defined
        /\ \A d \in DOMAIN bodies : bodies[d].kind \in {"function", "block"} => functions # <<>>
        BY <1>1 DEF Refers
  <2>2. QED  BY <1>2, <1>5, <1>11, <1>14, <1>15, <2>1 DEF Refers
<1>18. ASSUME status' = "parsing"
       PROVE  Nests(scopes', bodies', declared')
  <2>1. CASE bodies = <<>>
    <3>1. top = 1 /\ bodies' = <<>>
          BY <1>1, <1>9, <1>14, <2>1, ScopesOpen
    <3>2. Len(scopes') = Depth(bodies', Len(bodies'))
      <4>1. Depth(<<>>, 0) = 1
        <5>1. {i \in 1 .. 0 : <<>>[i].kind # "block"} = {}
              OBVIOUS
        <5>2. QED  BY <5>1, FS_EmptySet DEF Depth
      <4>2. Len(<<>>) = 0
            OBVIOUS
      <4>3. QED  BY <1>10, <3>1, <4>1, <4>2
    <3>3. ASSUME NEW id \in Range(scopes'[1])
          PROVE  declared'[id].within = 0
      <4>1. CASE id \in Range(scopes[1])
        <5>1. declared[id].within = 0
              BY <1>1, <4>1 DEF Nests
        <5>2. id \in DOMAIN declared
          <6>1. 1 \in DOMAIN scopes
                BY <1>3, <1>9
          <6>2. Ids(scopes[1], declared)
                BY <1>1, <1>4, <6>1 DEF Refers, TablesOK
          <6>3. QED  BY <4>1, <6>2 DEF Ids, Range
        <5>3. QED  BY <1>7, <5>1, <5>2 DEF Extends
      <4>2. CASE id \in Range(Fresh(n))
        <5>1. PICK k \in 1 .. n : id = Len(declared) + k
              BY <1>8, <4>2 DEF Range
        <5>2. PICK m \in Nat : m = Len(declared)
              BY <1>3
        <5>3. id \in m + 1 .. m + n
              BY <1>2, <5>1, <5>2
        <5>4. declared'[id].within = Current
              BY <1>2, <1>4, <5>2, <5>3 DEF More
        <5>5. Current = 0
              BY <2>1 DEF Current
        <5>6. QED  BY <5>4, <5>5
      <4>3. QED  BY <1>12, <3>1, <3>3, <4>1, <4>2
    <3>4. \A d \in DOMAIN bodies' : FALSE
          BY <3>1
    <3>5. QED  BY <3>2, <3>3, <3>4 DEF Nests
  <2>2. CASE bodies # <<>>
        BY <1>2, <1>13, <1>18, <2>2
  <2>3. QED  BY <2>1, <2>2
<1>19. ScopesNest'
       BY <1>18 DEF ScopesNest, ScopeOf, Nests, Depth, Parsing
<1>20. QED  BY <1>16, <1>17, <1>19 DEF BaseInv

\* Scopes nest as before when more variables are declared elsewhere.
LEMMA NestsKept ==
    ASSUME NEW sc, NEW bs, NEW vs, Nests(sc, bs, vs), Ids(sc[1], vs),
           NEW ws, Extends(vs, ws)
    PROVE  Nests(sc, bs, ws)
<1>1. \A id \in Range(sc[1]) : id \in DOMAIN vs /\ ws[id] = vs[id]
      BY DEF Ids, Range, Extends
<1>2. QED  BY <1>1 DEF Nests

\* One more behind a sequence.
LEMMA AppendIs ==
    ASSUME NEW S, NEW s \in Seq(S), NEW e \in S
    PROVE  /\ Append(s, e) \in Seq(S) /\ Len(Append(s, e)) = Len(s) + 1
           /\ Append(s, e)[Len(s) + 1] = e
           /\ \A i \in 1 .. Len(s) : Append(s, e)[i] = s[i]
OBVIOUS

\* What a function's head does.
LEMMA OpenFunctionDoes ==
    ASSUME Typed, Refers, Nests(scopes, bodies, declared),
           NEW types \in Parameters, NEW hasBody \in BOOLEAN, OpenFunction(types, hasBody)
    PROVE  LET n == Len(types)
               opened == [Tables EXCEPT !.scopes = @ \o <<<<>>, <<>>>>]
               argued == Argued(types)
           IN  /\ n \in Nat /\ Reads /\ bodies = <<>>
               /\ opened \in Registers
               /\ opened.declared = declared /\ opened.fixups = fixups
               /\ More(opened, argued, n, "argument", Now, defined)
               /\ declared' = argued.declared /\ fixups' = argued.fixups
               /\ scopes' \in Seq(Seq(Nat)) /\ Len(scopes') = IF hasBody THEN 3 ELSE 1
               /\ scopes'[1] = scopes[1] /\ \A s \in 2 .. Len(scopes') : scopes'[s] = <<>>
               /\ bodies' = IF hasBody THEN <<NewBody("function", "unnamed", "function")>>
                            ELSE <<>>
               /\ functions' = IF hasBody
                               THEN Append(functions, [stack_size |-> 0, holds |-> <<>>,
                                                       detached |-> FALSE])
                               ELSE functions
               /\ UNCHANGED <<defined, symbols, cursor, status>>
<1> DEFINE n == Len(types)
           opened == [Tables EXCEPT !.scopes = @ \o <<<<>>, <<>>>>]
           argued == Argued(types)
<1>1. types \in Seq(Types) /\ n \in Nat
      BY DeclarationsAssumption
<1>2. /\ Reads /\ bodies = <<>>
      /\ \A i \in DOMAIN types : ~Misused(types[i][1], types[i][2])
      BY DEF OpenFunction
<1>3. Len(scopes) = 1 /\ scopes # <<>> /\ scopes \in Seq(Seq(Nat))
      BY <1>2, ScopesOpen DEF Typed
<1>4. /\ opened \in Registers /\ opened.declared = declared /\ opened.fixups = fixups
      /\ opened.scopes = scopes \o <<<<>>, <<>>>>
      BY <1>3, OpenedIs
<1>5. More(opened, argued, n, "argument", Now, defined)
      BY <1>1, <1>2, <1>3, ArguedAdds
<1>6. /\ bodies' = IF hasBody THEN <<NewBody("function", "unnamed", "function")>> ELSE <<>>
      /\ functions' = IF hasBody
                      THEN Append(functions, [stack_size |-> 0, holds |-> <<>>,
                                              detached |-> FALSE])
                      ELSE functions
      /\ UNCHANGED <<defined, symbols, cursor, status>>
      BY DEF OpenFunction
<1>7. SetTables([Arguments(types) EXCEPT !.scopes = IF hasBody THEN Append(@, <<>>)
                                                    ELSE Enclosing(@)])
      BY DEF OpenFunction
<1> HIDE DEF opened, argued
<1>8. /\ opened.scopes \in Seq(Seq(Nat)) /\ Len(opened.scopes) = 3
      /\ opened.scopes[1] = scopes[1] /\ opened.scopes[2] = <<>>
  <2>1. PICK u : u = <<<<>>, <<>>>>
        OBVIOUS
  <2>2. u \in Seq(Seq(Nat)) /\ Len(u) = 2 /\ u[1] = <<>>
        BY <2>1
  <2>3. /\ scopes \o u \in Seq(Seq(Nat)) /\ Len(scopes \o u) = Len(scopes) + Len(u)
        /\ \A s \in 1 .. Len(scopes) + Len(u) :
              (scopes \o u)[s] = IF s <= Len(scopes) THEN scopes[s] ELSE u[s - Len(scopes)]
        BY <1>3, <2>2, ConcatProperties, Zenon
  <2>4. opened.scopes = scopes \o u
        BY <1>4, <2>1
  <2>5. /\ opened.scopes[1] = IF 1 <= 1 THEN scopes[1] ELSE u[1 - 1]
        /\ opened.scopes[2] = IF 2 <= 1 THEN scopes[2] ELSE u[2 - 1]
        /\ Len(opened.scopes) = 3
    <3>1. 1 \in 1 .. 1 + 2 /\ 2 \in 1 .. 1 + 2 /\ 1 + 2 = 3
          OBVIOUS
    <3>2. QED  BY <1>3, <2>2, <2>3, <2>4, <3>1
  <2>6. QED  BY <2>2, <2>3, <2>4, <2>5
<1>9. argued \in TableSet
      BY <1>5 DEF More, TablesOK
<1>10. /\ argued.scopes \in Seq(Seq(Nat)) /\ Len(argued.scopes) = 3
       /\ argued.scopes[1] = scopes[1] /\ argued.scopes[2] = <<>>
  <2>1. \A s \in 1 .. 3 - 1 : argued.scopes[s] = opened.scopes[s]
        BY <1>5, <1>8 DEF More
  <2>2. QED  BY <1>5, <1>8, <1>9, <2>1 DEF More, TableSet
<1>11. PICK two : two = Enclosing(argued.scopes)
       OBVIOUS
<1>12. two \in Seq(Seq(Nat)) /\ Len(two) = 2 /\ two[1] = scopes[1] /\ two[2] = <<>>
  <2>1. PICK sc \in Seq(Seq(Nat)) : sc = argued.scopes
        BY <1>10
  <2>2. two = SubSeq(sc, 1, 2)
        BY <1>10, <1>11, <2>1 DEF Enclosing
  <2>3. 2 \in 0 .. Len(sc) /\ 1 \in 1 .. 2 /\ 2 \in 1 .. 2
        BY <1>10, <2>1
  <2>4. /\ SubSeq(sc, 1, 2) \in Seq(Seq(Nat)) /\ Len(SubSeq(sc, 1, 2)) = 2
        /\ \A i \in 1 .. 2 : SubSeq(sc, 1, 2)[i] = sc[i]
        BY <2>3, FrontIs
  <2>5. QED  BY <1>10, <2>1, <2>2, <2>3, <2>4
<1>13. PICK mid : mid = [argued EXCEPT !.scopes = two]
       OBVIOUS
<1>14. /\ mid.scopes = two /\ mid.declared = argued.declared /\ mid.fixups = argued.fixups
       /\ DOMAIN mid = {"scopes", "declared", "fixups"}
       BY <1>9, <1>13 DEF TableSet
<1>15. mid = Arguments(types)
       BY <1>11, <1>13 DEF Arguments, argued
<1>16. PICK last : last = IF hasBody THEN Append(two, <<>>) ELSE Enclosing(two)
       OBVIOUS
<1>17. SetTables([mid EXCEPT !.scopes = last])
       BY <1>7, <1>14, <1>15, <1>16
<1>18. scopes' = last /\ declared' = argued.declared /\ fixups' = argued.fixups
       BY <1>14, <1>17 DEF SetTables
<1>19. /\ scopes' \in Seq(Seq(Nat)) /\ Len(scopes') = IF hasBody THEN 3 ELSE 1
       /\ scopes'[1] = scopes[1] /\ \A s \in 2 .. Len(scopes') : scopes'[s] = <<>>
  <2>1. CASE hasBody
    <3>1. scopes' = Append(two, <<>>)
          BY <1>16, <1>18, <2>1
    <3>2. PICK e \in Seq(Nat) : e = <<>>
      <4>1. <<>> \in Seq(Nat)
            OBVIOUS
      <4>2. QED  BY <4>1, Zenon
    <3>3. /\ scopes' \in Seq(Seq(Nat)) /\ Len(scopes') = 3 /\ scopes'[3] = <<>>
          /\ scopes'[1] = two[1] /\ scopes'[2] = two[2]
      <4>1. PICK sc \in Seq(Seq(Nat)) : sc = two
            BY <1>12
      <4>2. /\ Append(sc, e) \in Seq(Seq(Nat)) /\ Len(Append(sc, e)) = Len(sc) + 1
            /\ Append(sc, e)[Len(sc) + 1] = e
            /\ \A i \in 1 .. Len(sc) : Append(sc, e)[i] = sc[i]
            BY AppendIs
      <4>3. Len(sc) = 2
            BY <1>12, <4>1, Zenon
      <4>4. Len(sc) + 1 = 3 /\ 1 \in 1 .. Len(sc) /\ 2 \in 1 .. Len(sc)
            BY <4>3
      <4>5. scopes' = Append(sc, e)
            BY <3>1, <3>2, <4>1
      <4>6. QED  BY <3>2, <4>1, <4>2, <4>3, <4>4, <4>5
    <3>4. \A s \in 2 .. 3 : s = 2 \/ s = 3
          OBVIOUS
    <3>5. QED  BY <1>12, <2>1, <3>3, <3>4
  <2>2. CASE ~hasBody
    <3>1. scopes' = SubSeq(two, 1, 1)
          BY <1>12, <1>16, <1>18, <2>2 DEF Enclosing
    <3>2. 1 \in 0 .. Len(two) /\ 1 \in 1 .. 1
          BY <1>12
    <3>3. /\ SubSeq(two, 1, 1) \in Seq(Seq(Nat)) /\ Len(SubSeq(two, 1, 1)) = 1
          /\ SubSeq(two, 1, 1)[1] = two[1]
          BY <1>12, <3>2, FrontIs
    <3>4. \A s \in 2 .. 1 : FALSE
          OBVIOUS
    <3>5. QED  BY <1>12, <2>2, <3>1, <3>3, <3>4
  <2>3. QED  BY <2>1, <2>2
<1>20. QED
       BY <1>1, <1>2, <1>4, <1>5, <1>6, <1>18, <1>19 DEF opened, argued

\* A function adds its arguments to a scope of their own, and a body if it has one.
LEMMA OpenFunctionKeeps ==
    ASSUME BaseInv, NEW types \in Parameters, NEW hasBody \in BOOLEAN,
           OpenFunction(types, hasBody)
    PROVE  BaseInv'
<1> DEFINE n == Len(types)
           opened == [Tables EXCEPT !.scopes = @ \o <<<<>>, <<>>>>]
           argued == Argued(types)
           b == NewBody("function", "unnamed", "function")
           f == [stack_size |-> 0, holds |-> <<>>, detached |-> FALSE]
<1>1. Typed /\ Refers /\ Nests(scopes, bodies, declared) /\ status = "parsing"
      BY NestsIs DEF BaseInv, OpenFunction, Reads, Parsing
<1>2. /\ n \in Nat /\ Reads /\ bodies = <<>>
      /\ opened \in Registers
      /\ opened.declared = declared /\ opened.fixups = fixups
      /\ More(opened, argued, n, "argument", Now, defined)
      /\ declared' = argued.declared /\ fixups' = argued.fixups
      /\ scopes' \in Seq(Seq(Nat)) /\ Len(scopes') = IF hasBody THEN 3 ELSE 1
      /\ scopes'[1] = scopes[1] /\ \A s \in 2 .. Len(scopes') : scopes'[s] = <<>>
      /\ bodies' = IF hasBody THEN <<b>> ELSE <<>>
      /\ functions' = IF hasBody THEN Append(functions, f) ELSE functions
      /\ UNCHANGED <<defined, symbols, cursor, status>>
      BY <1>1, OpenFunctionDoes
<1> HIDE DEF n, opened, argued
<1>3. /\ scopes \in Seq(Seq(Nat)) /\ declared \in Seq(VariableNodes)
      /\ functions \in Seq(FunctionNodes)
      BY <1>1 DEF Typed
<1>4. TablesOK(argued, defined) /\ argued \in TableSet
      BY <1>2 DEF More, TablesOK
<1>5. declared' \in Seq(VariableNodes) /\ fixups' \in Seq(FixupNodes)
      BY <1>2, <1>4 DEF TableSet
<1>6. /\ Extends(declared, declared') /\ Len(declared) <= Len(declared')
      /\ Len(fixups) <= Len(fixups')
  <2>1. opened.declared \in Seq(VariableNodes)
        BY <1>2, <1>3
  <2>2. Extends(declared, declared') /\ Len(declared) <= Len(declared')
        BY <1>2, <2>1, MoreExtends
  <2>3. QED  BY <1>2, <2>2 DEF More
<1>7. /\ \A k \in DOMAIN defined : NodeOK(defined[k], declared')
      /\ \A i \in DOMAIN functions : Ids(functions[i].holds, declared')
      BY <1>1, <1>5, <1>6, RestKept
<1>8. b \in BodyNodes /\ BodyOK(b, declared') /\ MetOK(b, defined) /\ b.kind = "function"
      /\ b.holds = <<>> /\ b.statements = <<>>
  <2>1. "function" \notin Aggregates
        BY DEF Aggregates
  <2>2. QED  BY <1>1, <1>5, <2>1, NewBodyIs
<1>9. f \in FunctionNodes /\ f.holds = <<>>
      BY DEF FunctionNodes
<1> HIDE DEF b, f
<1>10. /\ bodies' \in Seq(BodyNodes)
       /\ \A d \in DOMAIN bodies' : hasBody /\ bodies'[d] = b
  <2>1. CASE hasBody
    <3>1. bodies' = <<b>>
          BY <1>2, <2>1
    <3>2. QED  BY <1>8, <2>1, <3>1
  <2>2. CASE ~hasBody
    <3>1. bodies' = <<>>
          BY <1>2, <2>2
    <3>2. QED  BY <3>1
  <2>3. QED  BY <2>1, <2>2
<1>11. /\ functions' \in Seq(FunctionNodes) /\ (hasBody => functions' # <<>>)
       /\ \A i \in DOMAIN functions' : Ids(functions'[i].holds, declared')
  <2>1. CASE hasBody
    <3>1. PICK m \in Nat : m = Len(functions)
          BY <1>3
    <3>2. /\ functions' \in Seq(FunctionNodes) /\ DOMAIN functions' = 1 .. m + 1
          /\ functions'[m + 1] = f /\ \A i \in 1 .. m : functions'[i] = functions[i]
          /\ DOMAIN functions = 1 .. m /\ functions' # <<>>
      <4>1. functions' = Append(functions, f)
            BY <1>2, <2>1
      <4>2. /\ functions \in Seq(FunctionNodes) /\ f \in FunctionNodes
            BY <1>3, <1>9
      <4>3. QED  BY <3>1, <4>1, <4>2
    <3>3. Ids(<<>>, declared')
          BY DEF Ids
    <3>4. ASSUME NEW i \in 1 .. m + 1
          PROVE  Ids(functions'[i].holds, declared')
      <4>1. i = m + 1 \/ i \in 1 .. m
            OBVIOUS
      <4>2. QED  BY <1>7, <1>9, <3>2, <3>3, <4>1
    <3>5. QED  BY <3>2, <3>4
  <2>2. CASE ~hasBody
        BY <1>2, <1>3, <1>7, <2>2
  <2>3. QED  BY <2>1, <2>2
<1>12. Typed'
  <2>1. cursor' \in 0 .. Len(fixups') + 1
    <3>1. PICK p \in Nat : p = Len(fixups)
          BY <1>1 DEF Typed
    <3>2. PICK q \in Nat : q = Len(fixups')
          BY <1>5
    <3>3. cursor \in 0 .. p + 1 /\ p <= q
          BY <1>1, <1>6, <3>1, <3>2 DEF Typed
    <3>4. QED  BY <1>2, <3>2, <3>3
  <2>2. QED  BY <1>1, <1>2, <1>5, <1>10, <1>11, <2>1, ReadsCounts DEF Typed
<1>13. Ids(scopes[1], declared) /\ 1 \in DOMAIN scopes /\ Len(scopes) = 1
  <2>1. Len(scopes) = 1
        BY <1>1, <1>2, ScopesOpen
  <2>2. \A s \in DOMAIN scopes : Ids(scopes[s], declared)
    <3>1. Tables.scopes = scopes /\ Tables.declared = declared /\ TablesOK(Tables, defined)
          BY <1>1 DEF Refers, Tables
    <3>2. QED  BY <3>1 DEF TablesOK
  <2>3. QED  BY <1>3, <2>1, <2>2
<1>14. TablesOK(Tables', defined')
  <2>1. Tables' = [scopes |-> scopes', declared |-> declared', fixups |-> fixups']
        BY DEF Tables
  <2>2. Tables' \in TableSet
        BY <1>2, <1>5, <2>1 DEF TableSet
  <2>3. Tables'.scopes = scopes' /\ Tables'.declared = argued.declared
        /\ Tables'.fixups = argued.fixups /\ defined' = defined
        BY <1>2, <2>1
  <2>4. ASSUME NEW s \in DOMAIN scopes'
        PROVE  Ids(scopes'[s], declared')
    <3>1. s = 1 \/ s \in 2 .. Len(scopes')
      <4>1. s \in 1 .. Len(scopes') /\ Len(scopes') \in Nat
        <5>1. scopes' \in Seq(Seq(Nat))
              BY <1>2
        <5>2. QED  BY <5>1
      <4>2. QED  BY <4>1
    <3>2. Ids(<<>>, declared')
          BY DEF Ids
    <3>3. Ids(scopes[1], declared')
          BY <1>6, <1>13, IdsKept
    <3>4. QED  BY <1>2, <3>1, <3>2, <3>3
  <2>5. QED  BY <1>2, <1>4, <2>2, <2>3, <2>4 DEF TablesOK
<1>15. Refers'
  <2>1. \A k \in DOMAIN symbols : symbols[k] \in DOMAIN defined
        BY <1>1 DEF Refers
  <2>2. status' = "parsing"
        BY <1>1, <1>2
  <2>3. /\ \A d \in DOMAIN bodies' : BodyOK(bodies'[d], declared') /\ MetOK(bodies'[d], defined)
        /\ \A d \in DOMAIN bodies' :
              bodies'[d].kind \in {"function", "block"} => functions' # <<>>
        BY <1>8, <1>10, <1>11
  <2>4. QED  BY <1>2, <1>7, <1>11, <1>14, <2>1, <2>2, <2>3 DEF Refers
<1>16. Nests(scopes', bodies', declared')
  <2>1. Nests(scopes, <<>>, declared')
        BY <1>1, <1>2, <1>6, <1>13, NestsKept
  <2>2. CASE hasBody
    <3>1. PICK vs : vs = declared'
          OBVIOUS
    <3>2. PICK sc2 \in Seq(Seq(Nat)) : sc2 = scopes'
          BY <1>2
    <3>3. Len(sc2) = 3 /\ sc2[1] = scopes[1] /\ sc2[3] = <<>>
      <4>1. Len(sc2) = 3 /\ 3 \in 2 .. 3
            BY <1>2, <2>2, <3>2
      <4>2. QED  BY <1>2, <3>2, <4>1
    <3>4. PICK bs \in Seq(BodyNodes) : bs = <<>>
      <4>1. <<>> \in Seq(BodyNodes)
            OBVIOUS
      <4>2. QED  BY <4>1, Zenon
    <3>5. /\ Len(sc2) = Len(scopes) + IF b.kind = "block" THEN 1 ELSE 2
          /\ \A s \in 1 .. Len(scopes) : sc2[s] = scopes[s]
          /\ sc2[Len(sc2)] = <<>>
          BY <1>8, <1>13, <3>3
    <3>6. Nests(sc2, Append(bs, b), vs)
          BY <1>3, <1>8, <2>1, <3>1, <3>4, <3>5, NestsOpened
    <3>7. Append(bs, b) = <<b>>
          BY <1>8, <3>4
    <3>8. QED  BY <1>2, <2>2, <3>1, <3>2, <3>6, <3>7
  <2>3. CASE ~hasBody
    <3>1. bodies' = <<>> /\ Len(scopes') = 1 /\ scopes'[1] = scopes[1]
          BY <1>2, <2>3
    <3>2. \A d \in DOMAIN <<>> : FALSE
          OBVIOUS
    <3>3. QED  BY <1>13, <2>1, <3>1, <3>2 DEF Nests
  <2>4. QED  BY <2>2, <2>3
<1>17. ScopesNest'
       BY <1>16 DEF ScopesNest, ScopeOf, Nests, Depth
<1>18. QED  BY <1>12, <1>15, <1>17 DEF BaseInv

\* What is known of a type stays so among more nodes.
LEMMA KnownKept ==
    ASSUME NEW nodes, NEW nodes2, Extends(nodes, nodes2), NEW t, Known(t, nodes)
    PROVE  Known(t, nodes2)
BY DEF Known, Extends

\* And the node that a body met is still there.
LEMMA MetKept ==
    ASSUME NEW nodes, NEW nodes2, Extends(nodes, nodes2), NEW b, MetOK(b, nodes)
    PROVE  MetOK(b, nodes2)
BY DEF MetOK, Extends

\* The node of the aggregate that is closed.
ClosedNode(combined) ==
    [kind |-> Body.kind, name |-> Body.name, size |-> FinalSize(Body),
     largest |-> IF Body.eligible = 0 THEN 0 ELSE declared[Body.eligible].type.size,
     var |-> IF combined THEN Len(declared) + 1 ELSE 0,
     statements |-> Body.statements, holds |-> Body.holds, within |-> Current]

\* The node a closing struct makes is sound, and its datatype is one the table
\* knows, as is that of a union, which has the node met before, if any.
LEMMA ClosedIs ==
    ASSUME Typed, Refers, Body.kind \in Aggregates, NEW combined \in BOOLEAN
    PROVE  LET s == ClosedNode(combined)
               nodes == Append(defined, s)
           IN  /\ s \in StructNodes /\ nodes \in Seq(StructNodes)
               /\ Len(nodes) = Len(defined) + 1 /\ nodes[Len(defined) + 1] = s
               /\ Extends(defined, nodes)
               /\ ClosedType \in Datatypes /\ Known(ClosedType, nodes)
               /\ ClosedType.kind = Body.kind /\ ClosedType.name = Body.name
               /\ ClosedType.size = FinalSize(Body)
               /\ Body.kind = "struct" => ClosedType.node = Len(defined) + 1
               /\ ~ClosedType.arrayed
<1> DEFINE s == ClosedNode(combined)
           nodes == Append(defined, s)
           d == Datatype(Body.kind, Body.name)
<1>1. /\ Body \in BodyNodes /\ BodyOK(Body, declared) /\ MetOK(Body, defined)
  <2>1. bodies # <<>>
        BY KindHasBody
  <2>2. Len(bodies) \in DOMAIN bodies /\ Body = bodies[Len(bodies)] /\ Body \in BodyNodes
        BY <2>1, BodyIs
  <2>3. QED  BY <2>2 DEF Refers
<1>2. /\ Body.name \in Names /\ FinalSize(Body) \in Nat
      /\ Body.statements \in Seq(Nat) /\ Body.holds \in Seq(Nat) /\ Body.met \in Nat
  <2>1. FinalSize(Body) \in Nat
        BY <1>1, FinalSizeIs
  <2>2. QED  BY <1>1, <2>1 DEF BodyOK, BodyNodes
<1>3. Current \in Nat /\ Len(declared) \in Nat /\ Len(defined) \in Nat
      /\ defined \in Seq(StructNodes) /\ declared \in Seq(VariableNodes)
      BY CurrentIsNat DEF Typed
<1>4. PICK largest \in Nat :
         largest = IF Body.eligible = 0 THEN 0 ELSE declared[Body.eligible].type.size
  <2>1. CASE Body.eligible = 0
        BY <2>1
  <2>2. CASE Body.eligible # 0
    <3>1. Body.eligible \in DOMAIN declared
          BY <1>1, <2>2 DEF BodyOK
    <3>2. declared[Body.eligible] \in VariableNodes
          BY <1>3, <3>1
    <3>3. declared[Body.eligible].type.size \in Nat
          BY <3>2, VariablesAre
    <3>4. QED  BY <2>2, <3>3
  <2>3. QED  BY <2>1, <2>2
<1>5. PICK var \in Nat : var = IF combined THEN Len(declared) + 1 ELSE 0
      BY <1>3
<1>6. PICK size \in Nat : size = FinalSize(Body)
      BY <1>2
<1>7. s = [kind |-> Body.kind, name |-> Body.name, size |-> size, largest |-> largest,
           var |-> var, statements |-> Body.statements, holds |-> Body.holds,
           within |-> Current]
      BY <1>4, <1>5, <1>6 DEF ClosedNode
<1> HIDE DEF s
<1>8. s \in StructNodes
      BY <1>2, <1>3, <1>7 DEF StructNodes
<1>9. s.kind = Body.kind /\ s.name = Body.name /\ s.size = size
      BY <1>7
<1>10. PICK m \in Nat : m = Len(defined)
       BY <1>3
<1>11. /\ nodes \in Seq(StructNodes) /\ Len(nodes) = m + 1 /\ nodes[m + 1] = s
       /\ \A i \in 1 .. m : nodes[i] = defined[i]
       BY <1>3, <1>8, <1>10, AppendIs
<1> HIDE DEF nodes
<1>12. DOMAIN nodes = 1 .. m + 1 /\ DOMAIN defined = 1 .. m
       BY <1>3, <1>10, <1>11
<1>13. Extends(defined, nodes)
  <2>1. \A i \in 1 .. m : i \in 1 .. m + 1
        OBVIOUS
  <2>2. QED  BY <1>11, <1>12, <2>1 DEF Extends
<1>14. PICK dnode : dnode = d.node
       OBVIOUS
<1>15. PICK dsize : dsize = d.size
       OBVIOUS
<1>16. d = [kind |-> Body.kind, name |-> Body.name, node |-> dnode, size |-> dsize,
            arrayed |-> FALSE, arraySize |-> 0]
       BY <1>14, <1>15 DEF Datatype
<1>17. PICK node \in Nat : node = IF Body.kind = "struct" THEN m + 1 ELSE Body.met
       BY <1>2
<1>18. ClosedType = [kind |-> Body.kind, name |-> Body.name, node |-> node, size |-> size,
                     arrayed |-> FALSE, arraySize |-> 0]
  <2>1. ClosedType = [d EXCEPT !.size = size, !.node = node]
        BY <1>6, <1>10, <1>17 DEF ClosedType
  <2> HIDE DEF d
  <2>2. QED  BY <1>16, <2>1
<1>19. /\ ClosedType.kind = Body.kind /\ ClosedType.name = Body.name
       /\ ClosedType.size = size /\ ClosedType.node = node /\ ~ClosedType.arrayed
       BY <1>18
<1>20. ClosedType \in Datatypes
       BY <1>2, <1>18 DEF Datatypes
<1>21. Known(ClosedType, nodes)
  <2>1. ClosedType.kind # "primitive"
        BY <1>19 DEF Aggregates
  <2>2. CASE Body.kind = "struct"
    <3>1. m + 1 \in DOMAIN nodes /\ m + 1 # 0 /\ node = m + 1
          BY <1>12, <1>17, <2>2
    <3>2. QED  BY <1>9, <1>11, <1>19, <2>1, <3>1 DEF Known
  <2>3. CASE Body.kind # "struct" /\ node # 0
    <3>1. /\ node \in DOMAIN defined /\ defined[node].kind = Body.kind
          /\ defined[node].name = Body.name
          BY <1>1, <1>17, <2>3 DEF MetOK
    <3>2. node \in DOMAIN nodes /\ nodes[node] = defined[node]
          BY <1>13, <3>1 DEF Extends
    <3>3. QED  BY <1>19, <2>1, <2>3, <3>1, <3>2 DEF Known
  <2>4. CASE node = 0
        BY <1>19, <2>1, <2>4 DEF Known
  <2>5. QED  BY <2>2, <2>3, <2>4
<1>22. QED
       BY <1>6, <1>8, <1>10, <1>11, <1>13, <1>17, <1>19, <1>20, <1>21 DEF nodes, s

\* Sequences with the same elements are the same.
LEMMA SameElements ==
    ASSUME NEW S, NEW s \in Seq(S), NEW u \in Seq(S), Len(s) = Len(u),
           \A i \in 1 .. Len(s) : s[i] = u[i]
    PROVE  s = u
OBVIOUS

\* What the end of a struct or union does.
LEMMA CloseAggregateDoes ==
    ASSUME Typed, Refers, Nests(scopes, bodies, declared),
           NEW combined \in BOOLEAN, CloseAggregate(combined)
    PROVE  LET n == IF combined THEN 1 ELSE 0
               nodes == Append(defined, ClosedNode(combined))
               outer == SubSeq(bodies, 1, Len(bodies) - 1)
           IN  /\ bodies # <<>> /\ Body.kind \in Aggregates
               /\ defined' = nodes
               /\ Len(scopes) >= 3 /\ scopes' = SubSeq(scopes, 1, Len(scopes) - 2)
               /\ TablesOK(Tables', nodes)
               /\ Extends(declared, declared') /\ Len(declared') = Len(declared) + n
               /\ combined => /\ declared'[Len(declared) + 1].type = ClosedType
                              /\ declared'[Len(declared) + 1].within = Current
               /\ fixups' = fixups
               /\ symbols' = IF Lookup(Body.name) = 0 THEN Append(symbols, Len(defined) + 1)
                             ELSE symbols
               /\ \/ /\ combined /\ outer # <<>> /\ ~Dangling(declared', Fresh(n))
                     /\ bodies' = [outer EXCEPT ![Len(outer)] =
                                      Grown(outer[Len(outer)], nodes, declared', Fresh(n),
                                            "combined")]
                     /\ UNCHANGED status
                  \/ combined /\ outer # <<>> /\ status' = "crashed" /\ bodies' = outer
                  \/ ~(combined /\ outer # <<>>) /\ bodies' = outer /\ UNCHANGED status
               /\ UNCHANGED <<functions, cursor, constructs>>
<1> DEFINE n == IF combined THEN 1 ELSE 0
           s == ClosedNode(combined)
           nodes == Append(defined, s)
           outer == SubSeq(bodies, 1, Len(bodies) - 1)
           inner == [Tables EXCEPT !.scopes = PopScopes(1)]
           tables == IF combined THEN Register(inner, ClosedType, "none") ELSE inner
<1>1. bodies # <<>> /\ Body.kind \in Aggregates /\ n \in {0, 1}
      BY KindHasBody DEF CloseAggregate
<1>2. /\ s \in StructNodes /\ nodes \in Seq(StructNodes)
      /\ Extends(defined, nodes)
      /\ ClosedType \in Datatypes /\ Known(ClosedType, nodes)
      /\ ClosedType.kind = "struct" => ClosedType.node = Len(defined) + 1
      BY <1>1, ClosedIs
<1>3. /\ scopes \in Seq(Seq(Nat)) /\ declared \in Seq(VariableNodes)
      /\ bodies \in Seq(BodyNodes) /\ Len(defined) \in Nat /\ fixups \in Seq(FixupNodes)
      BY DEF Typed
<1>4. PICK top \in Nat : top = Len(scopes) /\ top >= 3
  <2>1. Len(bodies) \in DOMAIN bodies /\ Body = bodies[Len(bodies)]
        BY <1>1, BodyIs
  <2>2. PICK k \in Nat : k + 1 = Len(bodies)
    <3>1. PICK l \in Nat \ {0} : l = Len(bodies)
          BY <1>1, BodyIs
    <3>2. l - 1 \in Nat /\ (l - 1) + 1 = l
          OBVIOUS
    <3>3. QED  BY <3>1, <3>2
  <2>3. /\ Depth(bodies, k) \in Nat /\ Depth(bodies, k) >= k + 1
        /\ Depth(bodies, k + 1) = Depth(bodies, k)
              + IF bodies[k + 1].kind = "block" THEN 1 ELSE 2
        BY DepthSteps
  <2>4. bodies[k + 1].kind # "block"
        BY <1>1, <2>1, <2>2 DEF Aggregates
  <2>5. Depth(bodies, k + 1) >= 3 /\ Depth(bodies, k + 1) \in Nat
        BY <2>3, <2>4
  <2>6. Len(scopes) = Depth(bodies, k + 1)
        BY <2>2 DEF Nests
  <2>7. QED  BY <2>5, <2>6
<1>5. PICK popped : popped = SubSeq(scopes, 1, top - 1)
      OBVIOUS
<1>6. /\ popped \in Seq(Seq(Nat)) /\ Len(popped) = top - 1
      /\ \A i \in 1 .. top - 1 : popped[i] = scopes[i]
  <2>1. top - 1 \in 0 .. Len(scopes)
        BY <1>4
  <2>2. QED  BY <1>3, <1>5, <2>1, FrontIs
<1>7. inner = [scopes |-> popped, declared |-> declared, fixups |-> fixups]
  <2>1. PopScopes(1) = popped
        BY <1>4, <1>5 DEF PopScopes
  <2>2. QED  BY <2>1 DEF Tables
<1>8. /\ inner.scopes = popped /\ inner.declared = declared /\ inner.fixups = fixups
      BY <1>7
<1>9. TablesOK(inner, nodes)
  <2>1. /\ Tables.scopes = scopes /\ Tables.declared = declared /\ Tables.fixups = fixups
        /\ TablesOK(Tables, defined)
        BY DEF Refers, Tables
  <2>2. inner \in TableSet
        BY <1>3, <1>6, <1>7 DEF TableSet
  <2> HIDE DEF inner, nodes
  <2>3. \A i \in DOMAIN popped : Ids(popped[i], declared)
    <3>1. DOMAIN popped = 1 .. top - 1 /\ DOMAIN scopes = 1 .. top
          BY <1>3, <1>4, <1>6
    <3>2. \A i \in 1 .. top - 1 : i \in 1 .. top
          OBVIOUS
    <3>3. QED  BY <1>6, <2>1, <3>1, <3>2 DEF TablesOK
  <2>4. \A i \in DOMAIN declared : Known(declared[i].type, nodes)
        BY <1>2, <2>1, KnownKept DEF TablesOK
  <2>5. QED  BY <1>8, <2>1, <2>2, <2>3, <2>4 DEF TablesOK
<1>10. inner.scopes # <<>>
       BY <1>4, <1>6, <1>8
<1> HIDE DEF nodes, s, inner
<1>11. More(inner, tables, n, "none", {ClosedType}, nodes)
  <2>1. CASE combined
    <3>1. /\ {ClosedType} \subseteq Datatypes /\ \A x \in {ClosedType} : Known(x, nodes)
          /\ ClosedType \in {ClosedType} /\ Current \in Nat
          BY <1>2, CurrentIsNat
    <3>2. More(inner, Register(inner, ClosedType, "none"), 1, "none", {ClosedType}, nodes)
          BY <1>9, <1>10, <3>1, RegisterAdds
    <3>3. QED  BY <2>1, <3>2
  <2>2. CASE ~combined
    <3>1. More(inner, inner, 0, "none", {ClosedType}, nodes)
          BY <1>9, <1>10, NoMore
    <3>2. QED  BY <2>2, <3>1
  <2>3. QED  BY <2>1, <2>2
<1> DEFINE news == tables.declared
           ids == NewVariables(tables)
<1>12. PICK m \in Nat : m = Len(declared)
       BY <1>3
<1>13. /\ TablesOK(tables, nodes) /\ Len(news) = m + n
       /\ \A i \in m + 1 .. m + n : /\ news[i].type = ClosedType
                                    /\ news[i].within = Current
       /\ Len(tables.scopes) = top - 1
       /\ \A i \in 1 .. top - 1 - 1 : tables.scopes[i] = popped[i]
       /\ Len(tables.fixups) >= Len(fixups)
       /\ \A j \in 1 .. Len(fixups) : tables.fixups[j] = fixups[j]
       /\ \A j \in Len(fixups) + 1 .. Len(tables.fixups) :
             /\ tables.fixups[j].variable \in m + 1 .. m + n
             /\ news[tables.fixups[j].variable].type.node = 0
       BY <1>6, <1>8, <1>11, <1>12 DEF More
<1>14. Extends(declared, news)
       BY <1>1, <1>3, <1>8, <1>11, MoreExtends
<1> HIDE DEF tables
<1>15. tables \in TableSet
       BY <1>13 DEF TablesOK
<1>16. tables.fixups = fixups
  <2>1. PICK g \in Seq(FixupNodes) : g = tables.fixups
        BY <1>15 DEF TableSet
  <2>2. PICK a \in Nat : a = Len(fixups)
        BY <1>3
  <2>3. PICK b \in Nat : b = Len(g)
        BY <2>1
  <2>4. b <= a
    <3>1. SUFFICES ASSUME b > a
                   PROVE  FALSE
          OBVIOUS
    <3>2. b \in a + 1 .. b
          BY <3>1
    <3>3. /\ g[b].variable \in m + 1 .. m + n
          /\ news[g[b].variable].type.node = 0
          BY <1>13, <2>1, <2>2, <2>3, <3>2
    <3>4. news[g[b].variable].type.node = Len(defined) + 1
      <4>1. news[g[b].variable].type.kind = "struct"
        <5>1. b \in DOMAIN g
              BY <2>1, <2>2, <2>3, <3>2
        <5>2. QED  BY <1>13, <2>1, <5>1 DEF TablesOK
      <4>2. QED  BY <1>2, <1>13, <3>3, <4>1
    <3>5. PICK k \in Nat : k = Len(defined)
          BY <1>3
    <3>6. k + 1 # 0
          OBVIOUS
    <3>7. QED  BY <3>3, <3>4, <3>5, <3>6
  <2>5. b = a
        BY <1>13, <2>1, <2>2, <2>3, <2>4
  <2>6. \A j \in 1 .. a : g[j] = fixups[j]
        BY <1>13, <2>1, <2>2
  <2>7. g = fixups
    <3>1. Len(g) = Len(fixups) /\ \A j \in 1 .. Len(g) : g[j] = fixups[j]
          BY <2>2, <2>3, <2>5, <2>6
    <3>2. fixups \in Seq(FixupNodes)
          BY <1>3
    <3>3. QED  BY <3>1, <3>2, SameElements
  <2>8. QED  BY <2>1, <2>7
<1>17. ids = Fresh(n)
  <2>1. Len(news) - Len(declared) = n
        BY <1>1, <1>12, <1>13
  <2>2. QED  BY <2>1 DEF NewVariables, Fresh
<1>18. combined => Len(news) = Len(declared) + 1
       BY <1>12, <1>13
<1>19. /\ defined' = nodes
       /\ SetTables([tables EXCEPT !.scopes = Enclosing(@)])
       /\ symbols' = IF Lookup(Body.name) = 0 THEN Append(symbols, Len(defined) + 1)
                     ELSE symbols
       /\ \/ /\ combined /\ outer # <<>> /\ ~Dangling(news, ids)
             /\ bodies' = [outer EXCEPT ![Len(outer)] =
                              Grown(@, nodes, news, ids, "combined")]
             /\ UNCHANGED status
          \/ combined /\ outer # <<>> /\ status' = "crashed" /\ bodies' = outer
          \/ ~(combined /\ outer # <<>>) /\ bodies' = outer /\ UNCHANGED status
       /\ UNCHANGED <<functions, cursor, constructs>>
  <2>1. [kind |-> Body.kind, name |-> Body.name, size |-> FinalSize(Body),
         largest |-> IF Body.eligible = 0 THEN 0 ELSE declared[Body.eligible].type.size,
         var |-> IF combined THEN Len(news) ELSE 0,
         statements |-> Body.statements, holds |-> Body.holds, within |-> Current] = s
        BY <1>18 DEF s, ClosedNode
  <2>2. tables = IF combined
                 THEN Register([Tables EXCEPT !.scopes = PopScopes(1)], ClosedType, "none")
                 ELSE [Tables EXCEPT !.scopes = PopScopes(1)]
        BY DEF tables, inner
  <2>3. QED  BY <2>1, <2>2 DEF CloseAggregate, Enclosing, nodes
<1> HIDE DEF ids, news, outer, n
<1>20. /\ scopes' = Enclosing(tables.scopes)
       /\ declared' = news /\ fixups' = tables.fixups
  <2>1. PICK last : last = Enclosing(tables.scopes)
        OBVIOUS
  <2>2. SetTables([tables EXCEPT !.scopes = last])
        BY <1>19, <2>1
  <2>3. LET u == [tables EXCEPT !.scopes = last]
        IN  u.scopes = last /\ u.declared = tables.declared /\ u.fixups = tables.fixups
        BY <1>15 DEF TableSet
  <2>4. QED  BY <2>1, <2>2, <2>3 DEF SetTables, news
<1>21. /\ scopes' = SubSeq(scopes, 1, top - 2) /\ scopes' \in Seq(Seq(Nat))
       /\ Len(scopes') = top - 2 /\ \A i \in 1 .. top - 2 : scopes'[i] = scopes[i]
  <2>1. PICK sc \in Seq(Seq(Nat)) : sc = tables.scopes
        BY <1>15 DEF TableSet
  <2>2. /\ Len(sc) = top - 1 /\ top - 1 - 1 = top - 2
        /\ top - 2 \in 0 .. Len(sc) /\ top - 2 \in 0 .. Len(scopes)
        BY <1>4, <1>13, <2>1
  <2>3. scopes' = SubSeq(sc, 1, top - 2)
        BY <1>20, <2>1, <2>2 DEF Enclosing
  <2>4. PICK c \in Nat : c = top - 2
        BY <1>4
  <2>5. /\ SubSeq(sc, 1, c) \in Seq(Seq(Nat)) /\ Len(SubSeq(sc, 1, c)) = c
        /\ \A i \in 1 .. c : SubSeq(sc, 1, c)[i] = sc[i]
        BY <2>2, <2>4, FrontIs
  <2>6. /\ SubSeq(scopes, 1, c) \in Seq(Seq(Nat)) /\ Len(SubSeq(scopes, 1, c)) = c
        /\ \A i \in 1 .. c : SubSeq(scopes, 1, c)[i] = scopes[i]
        BY <1>3, <2>2, <2>4, FrontIs
  <2>7. \A i \in 1 .. c : sc[i] = scopes[i]
    <3>1. ASSUME NEW i \in 1 .. c
          PROVE  sc[i] = scopes[i]
      <4>1. i \in 1 .. top - 1 - 1 /\ i \in 1 .. top - 1
            BY <1>4, <2>4
      <4>2. QED  BY <1>6, <1>13, <2>1, <4>1
    <3>2. QED  BY <3>1
  <2>8. PICK x \in Seq(Seq(Nat)) : x = SubSeq(sc, 1, c)
        BY <2>5
  <2>9. PICK y \in Seq(Seq(Nat)) : y = SubSeq(scopes, 1, c)
        BY <2>6
  <2>10. x = y
         BY <2>5, <2>6, <2>7, <2>8, <2>9
  <2>11. QED  BY <2>3, <2>4, <2>6, <2>8, <2>9, <2>10
<1>22. TablesOK(Tables', nodes)
  <2>1. Tables' = [scopes |-> scopes', declared |-> news, fixups |-> fixups]
        BY <1>16, <1>20 DEF Tables
  <2>2. news \in Seq(VariableNodes)
        BY <1>15 DEF TableSet, news
  <2>3. Tables' \in TableSet
        BY <1>3, <1>21, <2>1, <2>2 DEF TableSet
  <2>4. \A i \in DOMAIN scopes' : Ids(scopes'[i], news)
    <3>1. ASSUME NEW i \in 1 .. top - 2
          PROVE  Ids(scopes'[i], news)
      <4>1. i \in 1 .. top - 1 /\ i \in 1 .. Len(scopes)
            BY <1>4
      <4>2. Ids(scopes[i], declared)
        <5>1. Tables.scopes = scopes /\ Tables.declared = declared
              /\ TablesOK(Tables, defined)
              BY DEF Refers, Tables
        <5>2. QED  BY <1>3, <4>1, <5>1 DEF TablesOK
      <4>3. QED  BY <1>14, <1>21, <4>2, IdsKept DEF news
    <3>2. DOMAIN scopes' = 1 .. top - 2
          BY <1>21
    <3>3. QED  BY <3>1, <3>2
  <2>5. Tables'.scopes = scopes' /\ Tables'.declared = news /\ Tables'.fixups = fixups
        BY <2>1
  <2>6. QED  BY <1>13, <1>16, <2>3, <2>4, <2>5 DEF TablesOK, news
<1>23. combined => declared'[m + 1].type = ClosedType /\ declared'[m + 1].within = Current
  <2>1. combined => m + 1 \in m + 1 .. m + n
        BY DEF n
  <2>2. QED  BY <1>13, <1>20, <2>1 DEF news
<1>24. \/ /\ combined /\ outer # <<>> /\ ~Dangling(declared', Fresh(n))
          /\ bodies' = [outer EXCEPT ![Len(outer)] =
                           Grown(outer[Len(outer)], nodes, declared', Fresh(n), "combined")]
          /\ UNCHANGED status
       \/ combined /\ outer # <<>> /\ status' = "crashed" /\ bodies' = outer
       \/ ~(combined /\ outer # <<>>) /\ bodies' = outer /\ UNCHANGED status
       BY <1>17, <1>19, <1>20
<1>25. Extends(declared, declared') /\ Len(declared') = Len(declared) + n
       BY <1>12, <1>13, <1>14, <1>20 DEF vars
<1>26. Len(scopes) >= 3 /\ scopes' = SubSeq(scopes, 1, Len(scopes) - 2)
       BY <1>4, <1>21
<1>27. fixups' = fixups /\ declared'[Len(declared) + 1] = declared'[m + 1]
       BY <1>12, <1>16, <1>20
<1>28. QED
       BY <1>1, <1>19, <1>22, <1>23, <1>24, <1>25, <1>26, <1>27
       DEF nodes, s, outer, n

\* A struct or a union closed becomes a node, a symbol, and with a name behind it a
\* variable of the body around.
LEMMA CloseAggregateKeeps ==
    ASSUME BaseInv, NEW combined \in BOOLEAN, CloseAggregate(combined)
    PROVE  BaseInv'
<1> DEFINE n == IF combined THEN 1 ELSE 0
           s == ClosedNode(combined)
           nodes == Append(defined, s)
           outer == SubSeq(bodies, 1, Len(bodies) - 1)
           g == Grown(outer[Len(outer)], nodes, declared', Fresh(n), "combined")
<1>1. Typed /\ Refers /\ Nests(scopes, bodies, declared) /\ status = "parsing"
      BY NestsIs DEF BaseInv, CloseAggregate, Parsing
<1>2. /\ bodies # <<>> /\ Body.kind \in Aggregates
      /\ defined' = nodes
      /\ Len(scopes) >= 3 /\ scopes' = SubSeq(scopes, 1, Len(scopes) - 2)
      /\ TablesOK(Tables', nodes)
      /\ Extends(declared, declared') /\ Len(declared') = Len(declared) + n
      /\ combined => /\ declared'[Len(declared) + 1].type = ClosedType
                     /\ declared'[Len(declared) + 1].within = Current
      /\ fixups' = fixups
      /\ symbols' = IF Lookup(Body.name) = 0 THEN Append(symbols, Len(defined) + 1)
                    ELSE symbols
      /\ \/ /\ combined /\ outer # <<>> /\ ~Dangling(declared', Fresh(n))
            /\ bodies' = [outer EXCEPT ![Len(outer)] = g] /\ UNCHANGED status
         \/ combined /\ outer # <<>> /\ status' = "crashed" /\ bodies' = outer
         \/ ~(combined /\ outer # <<>>) /\ bodies' = outer /\ UNCHANGED status
      /\ UNCHANGED <<functions, cursor, constructs>>
      BY <1>1, CloseAggregateDoes
<1>3. /\ s \in StructNodes /\ nodes \in Seq(StructNodes)
      /\ Len(nodes) = Len(defined) + 1 /\ nodes[Len(defined) + 1] = s
      /\ Extends(defined, nodes)
      BY <1>1, <1>2, ClosedIs
<1>4. s.statements = Body.statements /\ s.holds = Body.holds
      /\ s.var = IF combined THEN Len(declared) + 1 ELSE 0
      BY DEF ClosedNode
<1> HIDE DEF nodes, s, outer, g
<1>5. /\ scopes \in Seq(Seq(Nat)) /\ declared \in Seq(VariableNodes)
      /\ bodies \in Seq(BodyNodes) /\ defined \in Seq(StructNodes)
      /\ symbols \in Seq(Nat)
      BY <1>1 DEF Typed
<1>6. PICK m \in Nat : m = Len(declared)
      BY <1>5
<1>7. n \in Nat /\ n \in {0, 1}
      OBVIOUS
<1>8. Tables'.scopes = scopes' /\ Tables'.declared = declared' /\ Tables'.fixups = fixups'
      /\ Tables' \in TableSet
      BY <1>2 DEF Tables, TablesOK
<1>9. scopes' \in Seq(Seq(Nat)) /\ declared' \in Seq(VariableNodes)
      /\ Len(declared') = m + n
      BY <1>2, <1>6, <1>8 DEF TableSet
<1>10. Len(declared) <= Len(declared')
       BY <1>6, <1>7, <1>9
<1>11. /\ \A d \in DOMAIN bodies : BodyOK(bodies[d], declared')
       /\ \A k \in DOMAIN defined : NodeOK(defined[k], declared')
       /\ \A f \in DOMAIN functions : Ids(functions[f].holds, declared')
       BY <1>1, <1>2, <1>9, <1>10, RestKept
<1>12. PICK k \in Nat : /\ k + 1 = Len(bodies) /\ outer = SubSeq(bodies, 1, k)
                        /\ k \in 0 .. Len(bodies)
  <2>1. PICK l \in Nat \ {0} : l = Len(bodies)
        BY <1>1, <1>2, BodyIs
  <2>2. l - 1 \in Nat /\ (l - 1) + 1 = l /\ l - 1 \in 0 .. l
        OBVIOUS
  <2>3. outer = SubSeq(bodies, 1, l - 1)
        BY <2>1 DEF outer
  <2>4. QED  BY <2>1, <2>2, <2>3
<1>13. /\ outer \in Seq(BodyNodes) /\ Len(outer) = k /\ DOMAIN outer = 1 .. k
       /\ \A d \in 1 .. k : outer[d] = bodies[d]
       BY <1>5, <1>12, FrontIs
<1>14. Body = bodies[Len(bodies)] /\ Len(bodies) \in DOMAIN bodies
       BY <1>1, <1>2, BodyIs
<1>15. \A d \in 1 .. k : BodyOK(outer[d], declared') /\ MetOK(outer[d], nodes)
  <2>1. \A d \in 1 .. k : d \in DOMAIN bodies
        BY <1>5, <1>12
  <2>2. \A d \in DOMAIN bodies : MetOK(bodies[d], nodes)
        BY <1>1, <1>3, MetKept DEF Refers
  <2>3. QED  BY <1>11, <1>13, <2>1, <2>2
<1>16. Nests(scopes', outer, declared')
  <2>1. PICK top \in Nat : top = Len(scopes)
        BY <1>5
  <2>2. top - 2 \in 0 .. Len(scopes) /\ scopes' = SubSeq(scopes, 1, top - 2)
        BY <1>2, <2>1
  <2>3. PICK sc2 \in Seq(Seq(Nat)) : sc2 = scopes'
        BY <1>9
  <2>4. Len(sc2) = top - 2 /\ \A i \in 1 .. Len(sc2) : sc2[i] = scopes[i]
        BY <1>5, <2>2, <2>3, FrontIs
  <2>5. bodies[Len(bodies)].kind # "block"
        BY <1>2, <1>14 DEF Aggregates
  <2>6. Len(sc2) = Len(scopes) - IF bodies[Len(bodies)].kind = "block" THEN 1 ELSE 2
        BY <2>1, <2>4, <2>5
  <2>7. Nests(sc2, outer, declared)
        BY <1>1, <1>2, <1>5, <2>4, <2>6, NestsClosed DEF outer
  <2>8. Ids(sc2[1], declared)
    <3>1. 1 \in DOMAIN scopes /\ 1 \in 1 .. Len(sc2)
          BY <1>2, <1>5, <2>1, <2>4
    <3>2. TablesOK(Tables, defined) /\ Tables.scopes = scopes /\ Tables.declared = declared
          BY <1>1 DEF Refers, Tables
    <3>3. QED  BY <2>4, <3>1, <3>2 DEF TablesOK
  <2>9. QED  BY <1>2, <2>3, <2>7, <2>8, NestsKept
<1>17. ASSUME combined, outer # <<>>, ~Dangling(declared', Fresh(n))
       PROVE  /\ k \in 1 .. k
              /\ g \in BodyNodes /\ BodyOK(g, declared') /\ MetOK(g, nodes)
              /\ g.kind = outer[k].kind
              /\ g.holds = outer[k].holds \o Fresh(n) /\ g.statements = outer[k].statements
  <2>1. k # 0
        BY <1>13, <1>17
  <2>2. k \in 1 .. k
        BY <2>1
  <2>3. PICK b \in BodyNodes : b = outer[k]
        BY <1>13, <2>2
  <2>4. BodyOK(b, declared')
        BY <1>15, <2>2, <2>3
  <2>5. PICK ids \in Seq(Nat) : ids = Fresh(n) /\ ids # <<>> /\ Ids(ids, declared')
                                /\ DOMAIN ids = 1 .. 1 /\ ids[1] = m + 1
    <3>1. Len(declared') = Len(declared) + n /\ n = 1
          BY <1>2, <1>17
    <3>2. /\ Fresh(n) \in Seq(Nat) /\ Ids(Fresh(n), declared')
          /\ DOMAIN Fresh(n) = 1 .. n
          /\ \A i \in 1 .. n : Fresh(n)[i] = Len(declared) + i
          /\ n # 0 => Fresh(n) # <<>>
          BY <1>1, <1>7, <1>9, <3>1, FreshIs
    <3>3. PICK ids \in Seq(Nat) : ids = Fresh(n)
          BY <3>2
    <3>4. ids # <<>> /\ Ids(ids, declared')
          BY <3>1, <3>2, <3>3
    <3>5. DOMAIN ids = 1 .. 1 /\ ids[1] = m + 1
      <4>1. 1 \in 1 .. 1
            OBVIOUS
      <4>2. QED  BY <1>6, <3>1, <3>2, <3>3, <4>1
    <3>6. QED  BY <3>3, <3>4, <3>5
  <2>6. \A i \in DOMAIN ids : \/ Primitive(declared'[ids[i]].type)
                             \/ declared'[ids[i]].type.node # 0
        BY <1>17, <2>5 DEF Dangling, Range
  <2>7. PICK vs \in Seq(VariableNodes) : vs = declared'
        BY <1>9
  <2>8. PICK ns \in Seq(StructNodes) : ns = nodes
        BY <1>3
  <2>9. \A i \in DOMAIN vs : Known(vs[i].type, ns)
        BY <1>2, <1>8, <2>7, <2>8 DEF TablesOK
  <2>10. PICK form : form = "combined"
         OBVIOUS
  <2>11. PICK h : h = Grown(b, ns, vs, ids, form)
         OBVIOUS
  <2>12. ids # <<>> /\ Ids(ids, vs) /\ BodyOK(b, vs)
         BY <2>4, <2>5, <2>7
  <2>13. \A i \in DOMAIN ids : Primitive(vs[ids[i]].type) \/ vs[ids[i]].type.node # 0
         BY <2>6, <2>7
  <2>14. /\ h \in BodyNodes /\ BodyOK(h, vs) /\ h.kind = b.kind
         /\ h.name = b.name /\ h.met = b.met
         /\ h.holds = b.holds \o ids
         /\ form # "single" => h.statements = b.statements
    <3>1. /\ Grown(b, ns, vs, ids, form) \in BodyNodes
          /\ BodyOK(Grown(b, ns, vs, ids, form), vs)
          /\ Grown(b, ns, vs, ids, form).kind = b.kind
          /\ Grown(b, ns, vs, ids, form).name = b.name
          /\ Grown(b, ns, vs, ids, form).met = b.met
          BY <2>9, <2>12, <2>13, GrownIs
    <3>2. Grown(b, ns, vs, ids, form).holds = b.holds \o ids
          BY <2>9, <2>12, <2>13, GrownIs, SMTT(40)
    <3>3. form # "single" => Grown(b, ns, vs, ids, form).statements = b.statements
          BY <2>9, <2>12, <2>13, GrownIs
    <3>4. QED  BY <2>11, <3>1, <3>2, <3>3
  <2>15. g = h
         BY <1>13, <2>3, <2>5, <2>7, <2>8, <2>10, <2>11 DEF g
  <2>16. form # "single"
         BY <2>10
  <2>17. MetOK(h, nodes)
         BY <1>15, <2>2, <2>3, <2>14 DEF MetOK
  <2>18. QED  BY <2>2, <2>3, <2>5, <2>7, <2>14, <2>15, <2>16, <2>17
<1>18. /\ bodies' \in Seq(BodyNodes) /\ DOMAIN bodies' = 1 .. k
       /\ \A d \in 1 .. k : /\ BodyOK(bodies'[d], declared') /\ MetOK(bodies'[d], nodes)
                            /\ bodies'[d].kind = bodies[d].kind
       /\ Nests(scopes', bodies', declared')
  <2>1. CASE /\ combined /\ outer # <<>> /\ ~Dangling(declared', Fresh(n))
             /\ bodies' = [outer EXCEPT ![Len(outer)] = g]
    <3>1. bodies' = [outer EXCEPT ![k] = g]
          BY <1>13, <2>1
    <3>2. /\ k \in 1 .. k
          /\ g \in BodyNodes /\ BodyOK(g, declared') /\ MetOK(g, nodes)
          /\ g.kind = outer[k].kind
          /\ g.holds = outer[k].holds \o Fresh(n) /\ g.statements = outer[k].statements
          BY <1>17, <2>1
    <3>3. /\ bodies' \in Seq(BodyNodes) /\ DOMAIN bodies' = 1 .. k /\ Len(bodies') = k
          /\ bodies'[k] = g /\ \A d \in 1 .. k : d # k => bodies'[d] = outer[d]
          BY <1>13, <3>1, <3>2
    <3>4. \A d \in 1 .. k : /\ BodyOK(bodies'[d], declared') /\ MetOK(bodies'[d], nodes)
                            /\ bodies'[d].kind = bodies[d].kind
          BY <1>13, <1>15, <3>2, <3>3
    <3>5. PICK top \in Nat \ {0} : top = Len(scopes') /\ top = Depth(outer, k)
      <4>1. Len(scopes') = Depth(outer, k)
            BY <1>13, <1>16 DEF Nests
      <4>2. Depth(outer, k) \in Nat /\ Depth(outer, k) >= k + 1
            BY DepthSteps
      <4>3. QED  BY <4>1, <4>2
    <3>6. /\ Range(scopes'[top]) \subseteq Range(outer[k].holds)
          /\ Range(outer[k].statements) \subseteq Range(scopes'[top])
          BY <1>13, <1>16, <3>2, <3>5 DEF Nests
    <3>7. Range(outer[k].holds) \subseteq Range(g.holds)
      <4>1. PICK hs \in Seq(Nat) : hs = outer[k].holds
        <5>1. outer[k] \in BodyNodes
              BY <1>13, <3>2
        <5>2. QED  BY <5>1 DEF BodyNodes
      <4>2. Fresh(n) \in Seq(Nat)
            BY <1>1, <1>2, <1>7, <1>9, FreshIs
      <4>3. QED  BY <3>2, <4>1, <4>2, RangeJoined
    <3>8. Ids(scopes'[1], declared')
      <4>1. 1 \in DOMAIN scopes'
        <5>1. PICK sc2 \in Seq(Seq(Nat)) : sc2 = scopes'
              BY <1>9
        <5>2. top = Len(sc2)
              BY <3>5, <5>1, Zenon
        <5>3. 1 \in 1 .. top
              OBVIOUS
        <5>4. QED  BY <5>1, <5>2, <5>3
      <4>2. QED  BY <1>2, <1>8, <4>1 DEF TablesOK
    <3>9. Extends(declared', declared')
          BY DEF Extends
    <3>10. PICK bs2 \in Seq(BodyNodes) : bs2 = bodies'
           BY <3>3
    <3>11. PICK sc2 \in Seq(Seq(Nat)) : sc2 = scopes'
           BY <1>9
    <3>12. PICK vs : vs = declared'
           OBVIOUS
    <3>13. /\ Len(bs2) = Len(outer)
           /\ \A d \in 1 .. Len(outer) - 1 : bs2[d] = outer[d]
           /\ bs2[Len(outer)].kind = outer[Len(outer)].kind
      <4>1. \A d \in 1 .. k - 1 : d \in 1 .. k /\ d # k
            OBVIOUS
      <4>2. QED  BY <1>13, <3>2, <3>3, <3>10, <4>1
    <3>14. /\ Range(sc2[Len(sc2)]) \subseteq Range(bs2[Len(outer)].holds)
           /\ Range(bs2[Len(outer)].statements) \subseteq Range(sc2[Len(sc2)])
           BY <1>13, <3>2, <3>3, <3>5, <3>6, <3>7, <3>10, <3>11
    <3>15. Nests(sc2, bs2, vs)
      <4>1. Nests(sc2, outer, vs) /\ Ids(sc2[1], vs) /\ Extends(vs, vs)
            BY <1>16, <3>8, <3>9, <3>11, <3>12
      <4>2. QED  BY <1>13, <2>1, <3>13, <3>14, <4>1, NestsGrown
    <3>16. QED  BY <3>3, <3>4, <3>10, <3>11, <3>12, <3>15
  <2>2. CASE bodies' = outer
        BY <1>13, <1>15, <1>16, <2>2
  <2>3. QED  BY <1>2, <2>1, <2>2
<1>19. PICK c \in Nat : c = Len(defined) /\ c + 1 = Len(nodes)
       BY <1>3, <1>5
<1>20. /\ symbols' \in Seq(Nat)
       /\ \A i \in DOMAIN symbols' : symbols'[i] \in DOMAIN nodes
  <2>1. DOMAIN nodes = 1 .. c + 1 /\ DOMAIN defined = 1 .. c
        BY <1>3, <1>5, <1>19
  <2>2. \A i \in DOMAIN symbols : symbols[i] \in 1 .. c
        BY <1>1, <2>1 DEF Refers
  <2>3. CASE Lookup(Body.name) = 0
    <3>1. symbols' = Append(symbols, c + 1)
          BY <1>2, <1>19, <2>3
    <3>2. symbols' \in Seq(Nat)
          BY <1>5, <3>1
    <3>3. \A i \in DOMAIN symbols' : symbols'[i] \in 1 .. c + 1
      <4>1. PICK l \in Nat : l = Len(symbols)
            BY <1>5
      <4>2. DOMAIN symbols' = 1 .. l + 1 /\ DOMAIN symbols = 1 .. l
            /\ symbols'[l + 1] = c + 1 /\ \A i \in 1 .. l : symbols'[i] = symbols[i]
            BY <1>5, <3>1, <4>1
      <4>3. ASSUME NEW i \in 1 .. l + 1
            PROVE  symbols'[i] \in 1 .. c + 1
        <5>1. i = l + 1 \/ i \in 1 .. l
              OBVIOUS
        <5>2. c + 1 \in 1 .. c + 1 /\ \A x \in 1 .. c : x \in 1 .. c + 1
              OBVIOUS
        <5>3. QED  BY <2>2, <4>2, <5>1, <5>2
      <4>4. QED  BY <4>2, <4>3
    <3>4. QED  BY <2>1, <3>2, <3>3
  <2>4. CASE Lookup(Body.name) # 0
    <3>1. symbols' = symbols
          BY <1>2, <2>4
    <3>2. \A x \in 1 .. c : x \in 1 .. c + 1
          OBVIOUS
    <3>3. QED  BY <1>5, <2>1, <2>2, <3>1, <3>2
  <2>5. QED  BY <2>3, <2>4
<1>21. status' \in {"parsing", "crashed"} /\ Typed'
  <2>1. status' \in {"parsing", "crashed"}
        BY <1>1, <1>2
  <2>2. QED  BY <1>1, <1>2, <1>3, <1>9, <1>18, <1>20, <2>1 DEF Typed
<1>22. \A i \in DOMAIN nodes : NodeOK(nodes[i], declared')
  <2>1. DOMAIN nodes = 1 .. c + 1 /\ DOMAIN defined = 1 .. c
        BY <1>3, <1>5, <1>19
  <2>2. NodeOK(s, declared')
    <3>1. BodyOK(Body, declared')
          BY <1>11, <1>14
    <3>2. s.var \in 0 .. Len(declared')
      <4>1. s.var = IF combined THEN m + 1 ELSE 0
            BY <1>4, <1>6
      <4>2. QED  BY <1>9, <4>1
    <3>3. QED  BY <1>4, <3>1, <3>2 DEF BodyOK, NodeOK
  <2>3. ASSUME NEW i \in 1 .. c + 1
        PROVE  NodeOK(nodes[i], declared')
    <3>1. CASE i \in 1 .. c
      <4>1. nodes[i] = defined[i]
            BY <1>3, <2>1, <3>1 DEF Extends
      <4>2. QED  BY <1>11, <2>1, <3>1, <4>1
    <3>2. CASE i = c + 1
          BY <1>3, <1>19, <2>2, <3>2
    <3>3. QED  BY <3>1, <3>2
  <2>4. QED  BY <2>1, <2>3
<1>23. Refers'
  <2>1. \A d \in DOMAIN bodies : bodies[d].kind \in {"function", "block"} => functions # <<>>
        BY <1>1 DEF Refers
  <2>2. \A d \in 1 .. k : d \in DOMAIN bodies
        BY <1>5, <1>12
  <2>3. /\ \A d \in DOMAIN bodies' : BodyOK(bodies'[d], declared') /\ MetOK(bodies'[d], nodes)
        /\ \A d \in DOMAIN bodies' :
              bodies'[d].kind \in {"function", "block"} => functions' # <<>>
        BY <1>2, <1>18, <2>1, <2>2
  <2>4. QED  BY <1>2, <1>11, <1>20, <1>21, <1>22, <2>3 DEF Refers
<1>24. ScopesNest'
       BY <1>18 DEF ScopesNest, ScopeOf, Nests, Depth
<1>25. QED  BY <1>21, <1>23, <1>24 DEF BaseInv

-----------------------------------------------------------------------------
(* The theorems about tables and scopes                                    *)

\* They agree at first.
LEMMA InitBase == Init => BaseInv
<1> SUFFICES ASSUME Init
             PROVE  BaseInv
    OBVIOUS
<1>1. /\ scopes = <<<<>>>> /\ bodies = <<>> /\ declared = <<>> /\ defined = <<>>
      /\ symbols = <<>> /\ fixups = <<>> /\ functions = <<>>
      /\ cursor = 0 /\ constructs = 0 /\ status = "parsing"
      BY DEF Init
<1>2. MaxConstructs \in Nat
      BY DeclarationsAssumption
<1>3. scopes \in Seq(Seq(Nat)) /\ Len(scopes) = 1 /\ scopes[1] = <<>> /\ DOMAIN scopes = {1}
      BY <1>1
<1>4. Typed
      BY <1>1, <1>2, <1>3 DEF Typed
<1>5. Refers
  <2>1. Tables = [scopes |-> scopes, declared |-> <<>>, fixups |-> <<>>]
        BY <1>1 DEF Tables
  <2>2. Tables \in TableSet
        BY <1>3, <2>1 DEF TableSet
  <2>3. Tables.scopes = scopes /\ Tables.declared = <<>> /\ Tables.fixups = <<>>
        BY <2>1
  <2>4. \A i \in DOMAIN <<>> : FALSE
        OBVIOUS
  <2>5. \A s \in DOMAIN scopes : Ids(scopes[s], <<>>)
        BY <1>3, <2>4 DEF Ids
  <2>6. TablesOK(Tables, defined)
        BY <2>2, <2>3, <2>4, <2>5 DEF TablesOK
  <2>7. QED  BY <1>1, <2>4, <2>6 DEF Refers
<1>6. Nests(scopes, bodies, declared)
  <2>1. Depth(<<>>, 0) = 1
        BY DepthSteps
  <2>2. Len(<<>>) = 0 /\ \A i \in DOMAIN <<>> : FALSE
        OBVIOUS
  <2>3. \A id \in Range(scopes[1]) : FALSE
        BY <1>3 DEF Range
  <2>4. Len(scopes) = Depth(bodies, Len(bodies))
        BY <1>1, <1>3, <2>1, <2>2
  <2>5. \A d \in DOMAIN bodies : FALSE
        BY <1>1, <2>2
  <2>6. QED  BY <2>3, <2>4, <2>5 DEF Nests
<1>7. ScopesNest
      BY <1>6, NestsIs
<1>8. QED  BY <1>4, <1>5, <1>7 DEF BaseInv

\* No step makes them differ.
LEMMA StepBase == BaseInv /\ [Next]_vars => BaseInv'
<1> SUFFICES ASSUME BaseInv, [Next]_vars
             PROVE  BaseInv'
    OBVIOUS
<1>1. CASE Misuse
      BY <1>1, MisuseKeeps
<1>2. ASSUME NEW kind \in Aggregates, NEW name \in Names, OpenAggregate(kind, name)
      PROVE  BaseInv'
      BY <1>2, OpenAggregateKeeps
<1>3. ASSUME NEW combined \in BOOLEAN, CloseAggregate(combined)
      PROVE  BaseInv'
      BY <1>3, CloseAggregateKeeps
<1>4. ASSUME NEW t \in Types, NEW lengths \in Lists, Declare(t[1], t[2], lengths)
      PROVE  BaseInv'
      BY <1>4, DeclareKeeps
<1>5. ASSUME NEW types \in Parameters, NEW hasBody \in BOOLEAN, OpenFunction(types, hasBody)
      PROVE  BaseInv'
      BY <1>5, OpenFunctionKeeps
<1>6. ASSUME NEW of \in Blocks, OpenBlock(of)
      PROVE  BaseInv'
      BY <1>6, OpenBlockKeeps
<1>7. CASE CloseBody
      BY <1>7, CloseBodyKeeps
<1>8. CASE EndOfText
      BY <1>8, EndOfTextKeeps
<1>9. CASE ResolveFixup
      BY <1>9, ResolveFixupKeeps
<1>10. CASE FixupsTried
       BY <1>10, FixupsTriedKeeps
<1>11. CASE UNCHANGED vars
  <2>1. UNCHANGED <<scopes, bodies, declared, defined, symbols, fixups, functions, cursor,
                    constructs, status>>
        BY <1>11 DEF vars
  <2>2. Tables' = Tables
        BY <2>1 DEF Tables
  <2>3. QED  BY <2>1, <2>2 DEF BaseInv, Typed, Refers, ScopesNest, ScopeOf, Parsing
<1>12. QED
       BY <1>1, <1>2, <1>3, <1>4, <1>5, <1>6, <1>7, <1>8, <1>9, <1>10, <1>11 DEF Next, Text

\* The tables agree and scopes nest, in every state.
THEOREM Base == Spec => []BaseInv
BY InitBase, StepBase, PTL DEF Spec

\* Every table holds what it should, and refers to entries that are there.
THEOREM TypesCorrect == Spec => []TypeOK
<1>1. BaseInv => TypeOK
  <2> SUFFICES ASSUME BaseInv
               PROVE  TypeOK
      OBVIOUS
  <2>1. Typed /\ Refers
        BY DEF BaseInv
  <2>2. /\ TablesOK(Tables, defined)
        /\ Tables.scopes = scopes /\ Tables.declared = declared /\ Tables.fixups = fixups
        BY <2>1 DEF Refers, Tables
  <2>3. \A s \in DOMAIN scopes : Range(scopes[s]) \subseteq DOMAIN declared
        BY <2>2 DEF TablesOK, Ids, Range
  <2>4. ASSUME NEW i \in DOMAIN declared
        PROVE  /\ declared[i].type \in Datatypes
               /\ declared[i].type.node \in 0 .. Len(defined)
               /\ declared[i].padding \in Int
               /\ declared[i].aoffset \in Nat
    <3>1. declared[i] \in VariableNodes
          BY <2>1 DEF Typed
    <3>2. declared[i].type \in Datatypes /\ declared[i].padding \in Nat
          /\ declared[i].aoffset \in Nat
          BY <3>1, VariablesAre
    <3>3. Known(declared[i].type, defined)
          BY <2>2 DEF TablesOK
    <3>4. declared[i].type.node \in Nat
          BY <3>2 DEF Datatypes
    <3>5. PICK m \in Nat : m = Len(defined) /\ DOMAIN defined = 1 .. m
          BY <2>1 DEF Typed
    <3>6. declared[i].type.node # 0 => declared[i].type.node \in 1 .. m
          BY <3>3, <3>5 DEF Known
    <3>7. QED  BY <3>2, <3>4, <3>5, <3>6
  <2>5. \A n \in DOMAIN defined : defined[n].size \in Nat /\ defined[n].largest \in Nat
        BY <2>1, NodesAre
  <2>6. Range(symbols) \subseteq DOMAIN defined
        BY <2>1 DEF Refers, Range
  <2>7. \A j \in DOMAIN fixups : fixups[j].variable \in DOMAIN declared
        BY <2>2 DEF TablesOK
  <2>8. QED  BY <2>1, <2>3, <2>4, <2>5, <2>6, <2>7 DEF TypeOK, Typed
<1>2. QED  BY <1>1, Base, PTL

\* Scopes nest with the constructs that opened them: new_scope and finish_scope
\* are called in pairs on every path, in texts of any length and depth.
THEOREM ScopesPaired == Spec => []ScopesNest
BY Base, PTL DEF BaseInv

-----------------------------------------------------------------------------
(* Fixups, and what a struct's name means                                  *)

\* Variables that are declared wait for their struct, or have it from the table.
LEMMA MoreWait ==
    ASSUME Typed, Refers, Waiting, NEW n \in Nat, NEW flag,
           NEW old, old.declared = declared, old.fixups = fixups,
           NEW new, More(old, new, n, flag, Now, defined),
           declared' = new.declared, fixups' = new.fixups,
           UNCHANGED <<defined, symbols>>, status' # "done"
    PROVE  Waiting'
<1>1. PICK m \in Nat : m = Len(declared)
      BY DEF Typed
<1>2. PICK g \in Nat : g = Len(fixups)
      BY DEF Typed
<1>3. /\ declared \in Seq(VariableNodes) /\ DOMAIN declared = 1 .. m
      /\ fixups \in Seq(FixupNodes) /\ DOMAIN fixups = 1 .. g
      BY <1>1, <1>2 DEF Typed
<1>4. /\ Len(declared') = m + n
      /\ \A i \in 1 .. m : declared'[i] = declared[i]
      /\ \A i \in m + 1 .. m + n : declared'[i].type \in Now
      /\ Len(fixups') >= g
      /\ \A j \in 1 .. g : fixups'[j] = fixups[j]
      /\ \A i \in m + 1 .. m + n :
            declared'[i].type.kind = "struct" /\ declared'[i].type.node = 0 =>
               \E j \in DOMAIN fixups' : /\ fixups'[j].variable = i /\ ~fixups'[j].resolved
      /\ new \in TableSet
      BY <1>1, <1>2 DEF More, TablesOK
<1>5. declared' \in Seq(VariableNodes) /\ fixups' \in Seq(FixupNodes)
      BY <1>4 DEF TableSet
<1>6. DOMAIN declared' = 1 .. m + n /\ \A j \in DOMAIN fixups : j \in DOMAIN fixups'
  <2>1. PICK h \in Nat : h = Len(fixups')
        BY <1>5
  <2>2. \A j \in 1 .. g : j \in 1 .. h
        BY <1>4, <2>1
  <2>3. DOMAIN fixups' = 1 .. h
        BY <1>5, <2>1
  <2>4. QED  BY <1>3, <1>4, <1>5, <2>2, <2>3
<1>7. \A i \in 1 .. m + n : i \in 1 .. m \/ i \in m + 1 .. m + n
      OBVIOUS
<1>8. ASSUME NEW i \in DOMAIN declared', declared'[i].type.kind = "struct",
             declared'[i].type.node = 0
      PROVE  \E j \in DOMAIN fixups' : fixups'[j].variable = i /\ ~fixups'[j].resolved
  <2>1. CASE i \in 1 .. m
    <3>1. PICK j \in DOMAIN fixups : fixups[j].variable = i /\ ~fixups[j].resolved
          BY <1>3, <1>4, <1>8, <2>1 DEF Waiting
    <3>2. QED  BY <1>3, <1>4, <1>6, <3>1
  <2>2. CASE i \in m + 1 .. m + n
        BY <1>4, <1>8, <2>2
  <2>3. QED  BY <1>6, <1>7, <2>1, <2>2
<1>9. ASSUME NEW i \in DOMAIN declared', declared'[i].type.kind = "struct",
             declared'[i].type.node # 0, ~(\E k \in DOMAIN defined : defined[k].var = i)
      PROVE  declared'[i].type.node = Lookup(declared'[i].type.name)
  <2>1. CASE i \in 1 .. m
        BY <1>3, <1>4, <1>9, <2>1 DEF Waiting, Combined
  <2>2. CASE i \in m + 1 .. m + n
    <3>1. declared'[i].type \in Now
          BY <1>4, <2>2
    <3>2. QED  BY <1>9, <3>1 DEF Now, Primitive
  <2>3. QED  BY <1>6, <1>7, <2>1, <2>2
<1>10. \A name : Lookup(name)' = Lookup(name)
       BY DEF Lookup
<1>11. QED  BY <1>8, <1>9, <1>10 DEF Waiting, Combined

\* A definition leaves them waiting, and leaves what was found in the table.
LEMMA CloseAggregateWaits ==
    ASSUME BaseInv, Waiting, NEW combined \in BOOLEAN, CloseAggregate(combined)
    PROVE  Waiting'
<1> DEFINE n == IF combined THEN 1 ELSE 0
           s == ClosedNode(combined)
           nodes == Append(defined, s)
<1>1. Typed /\ Refers /\ Nests(scopes, bodies, declared) /\ status = "parsing"
      BY NestsIs DEF BaseInv, CloseAggregate, Parsing
<1>2. /\ Body.kind \in Aggregates
      /\ defined' = nodes
      /\ Extends(declared, declared') /\ Len(declared') = Len(declared) + n
      /\ combined => declared'[Len(declared) + 1].type = ClosedType
      /\ fixups' = fixups
      /\ symbols' = IF Lookup(Body.name) = 0 THEN Append(symbols, Len(defined) + 1)
                    ELSE symbols
      /\ UNCHANGED status \/ status' = "crashed"
      BY <1>1, CloseAggregateDoes
<1>3. /\ s \in StructNodes /\ nodes \in Seq(StructNodes)
      /\ Len(nodes) = Len(defined) + 1 /\ nodes[Len(defined) + 1] = s
      /\ Extends(defined, nodes)
      /\ ClosedType.kind = "struct" => ClosedType.node = Len(defined) + 1
      BY <1>1, <1>2, ClosedIs
<1>4. combined => s.var = Len(declared) + 1
      BY DEF ClosedNode
<1> HIDE DEF s, nodes
<1>5. PICK m \in Nat : m = Len(declared) /\ DOMAIN declared = 1 .. m
      BY <1>1 DEF Typed
<1>6. PICK c \in Nat : c = Len(defined) /\ DOMAIN defined = 1 .. c
      BY <1>1 DEF Typed
<1>7. DOMAIN nodes = 1 .. c + 1 /\ c + 1 \in 1 .. c + 1 /\ c + 1 # 0
      BY <1>3, <1>6
<1>8. DOMAIN declared' = 1 .. m + n /\ Typed' /\ Refers'
  <2>1. Typed' /\ Refers'
        BY CloseAggregateKeeps DEF BaseInv
  <2>2. declared' \in Seq(VariableNodes)
        BY <2>1 DEF Typed
  <2>3. QED  BY <1>2, <1>5, <2>1, <2>2
<1>9. ASSUME NEW i \in DOMAIN declared'
      PROVE  \/ i \in DOMAIN declared /\ declared'[i] = declared[i]
             \/ /\ combined /\ i = m + 1 /\ nodes[c + 1].var = i
                /\ declared'[i].type.kind = "struct" => declared'[i].type.node = c + 1
  <2>1. CASE i \in 1 .. m
        BY <1>2, <1>5, <2>1 DEF Extends
  <2>2. CASE ~(i \in 1 .. m)
    <3>1. combined /\ i = m + 1
          BY <1>8, <2>2
    <3>2. QED  BY <1>2, <1>3, <1>4, <1>5, <1>6, <3>1
  <2>3. QED  BY <2>1, <2>2
<1>10. ASSUME NEW i \in DOMAIN declared', declared'[i].type.kind = "struct",
              declared'[i].type.node = 0
       PROVE  \E j \in DOMAIN fixups' : fixups'[j].variable = i /\ ~fixups'[j].resolved
  <2>1. i \in DOMAIN declared /\ declared'[i] = declared[i]
        BY <1>7, <1>9, <1>10
  <2>2. QED  BY <1>2, <1>10, <2>1 DEF Waiting
<1>11. ASSUME NEW name, Lookup(name) # 0
       PROVE  Found(symbols', nodes, name) = Lookup(name)
  <2>1. Lookup(name) = Found(symbols, defined, name)
        BY DEF Lookup, Found
  <2>2. nodes \in Seq(StructNodes)
        BY <1>3
  <2>3. symbols \in Seq(Nat) /\ defined \in Seq(StructNodes) /\ symbols' \in Seq(Nat)
        BY <1>1, <1>8 DEF Typed
  <2>4. \A k \in DOMAIN symbols : symbols[k] \in DOMAIN defined
        BY <1>1 DEF Refers
  <2>5. \A k \in DOMAIN defined : k \in DOMAIN nodes /\ nodes[k] = defined[k]
        BY <1>3 DEF Extends
  <2>6. \A k \in DOMAIN symbols : k \in DOMAIN symbols' /\ symbols'[k] = symbols[k]
    <3>1. CASE symbols' = symbols
          BY <3>1
    <3>2. CASE symbols' = Append(symbols, Len(defined) + 1)
      <4>1. PICK x \in Nat : x = Len(defined) + 1
            BY <1>6
      <4>2. PICK l \in Nat : l = Len(symbols)
            BY <2>3
      <4>3. DOMAIN symbols = 1 .. l /\ DOMAIN symbols' = 1 .. l + 1
            /\ \A k \in 1 .. l : symbols'[k] = symbols[k]
            BY <2>3, <3>2, <4>1, <4>2
      <4>4. \A k \in 1 .. l : k \in 1 .. l + 1
            OBVIOUS
      <4>5. QED  BY <4>3, <4>4
    <3>3. QED  BY <1>2, <3>1, <3>2
  <2>7. PICK syms2 \in Seq(Nat) : syms2 = symbols'
        BY <2>3
  <2>8. PICK nodes2 \in Seq(StructNodes) : nodes2 = nodes
        BY <2>2
  <2>9. PICK syms \in Seq(Nat) : syms = symbols
        BY <2>3
  <2>10. PICK olds \in Seq(StructNodes) : olds = defined
         BY <2>3
  <2>11. \A k \in DOMAIN syms : syms[k] \in DOMAIN olds
         BY <2>4, <2>9, <2>10
  <2>12. \A k \in DOMAIN olds : k \in DOMAIN nodes2 /\ nodes2[k] = olds[k]
         BY <2>5, <2>8, <2>10
  <2>13. \A k \in DOMAIN syms : k \in DOMAIN syms2 /\ syms2[k] = syms[k]
         BY <2>6, <2>7, <2>9
  <2>14. Found(syms, olds, name) # 0
         BY <1>11, <2>1, <2>9, <2>10
  <2>15. Found(syms2, nodes2, name) = Found(syms, olds, name)
         BY <2>11, <2>12, <2>13, <2>14, FoundKept, SMTT(40)
  <2>16. QED  BY <2>1, <2>7, <2>8, <2>9, <2>10, <2>15
<1>12. ASSUME NEW i \in DOMAIN declared', declared'[i].type.kind = "struct",
              declared'[i].type.node # 0, ~(\E k \in DOMAIN nodes : nodes[k].var = i)
       PROVE  declared'[i].type.node = Found(symbols', nodes, declared'[i].type.name)
  <2>1. i \in DOMAIN declared /\ declared'[i] = declared[i]
        BY <1>7, <1>9, <1>12
  <2>2. ~Combined(i)
        BY <1>3, <1>12 DEF Combined, Extends
  <2>3. PICK name : name = declared[i].type.name
        OBVIOUS
  <2>4. declared[i].type.node = Lookup(name)
        BY <1>12, <2>1, <2>2, <2>3 DEF Waiting
  <2>5. Found(symbols', nodes, name) = Lookup(name)
        BY <1>11, <1>12, <2>1, <2>3, <2>4
  <2>6. QED  BY <2>1, <2>3, <2>4, <2>5
<1>13. status' # "done"
       BY <1>1, <1>2
<1>14. \A name : Found(symbols', nodes, name) = Lookup(name)'
       BY <1>2 DEF Lookup, Found
<1>15. QED  BY <1>2, <1>10, <1>12, <1>13, <1>14 DEF Waiting, Combined

\* A fixup that is tried, fixes its variable or is left.
LEMMA ResolveFixupWaits ==
    ASSUME BaseInv, Waiting, ResolveFixup
    PROVE  Waiting'
<1>1. Typed /\ Refers /\ status = "fixing"
      BY DEF BaseInv, ResolveFixup
<1>2. CASE status' = "aborted"
  <2>1. UNCHANGED <<declared, defined, symbols, fixups>>
        BY <1>1, <1>2 DEF ResolveFixup
  <2>2. QED  BY <1>2, <2>1 DEF Waiting, Combined, Lookup
<1>3. CASE status' # "aborted"
  <2> DEFINE id == fixups[cursor].variable
             name == declared[id].type.name
  <2>1. /\ cursor \in DOMAIN fixups /\ id \in DOMAIN declared
        /\ DOMAIN declared' = DOMAIN declared
        /\ \A i \in DOMAIN declared : i # id => declared'[i] = declared[i]
        /\ declared'[id].type.kind = "struct"
        /\ declared'[id].type.name = name /\ declared'[id].type.node = Lookup(name)
        /\ DOMAIN fixups' = DOMAIN fixups
        /\ \A j \in DOMAIN fixups : fixups'[j].variable = fixups[j].variable
        /\ \A j \in DOMAIN fixups : j # cursor => fixups'[j] = fixups[j]
        /\ fixups'[cursor].resolved = (Lookup(name) # 0)
        /\ status' = "fixing"
        /\ UNCHANGED <<defined, symbols>>
        BY <1>1, <1>3, ResolveDoes, Zenon
  <2> HIDE DEF id, name
  <2>2. ASSUME NEW i \in DOMAIN declared', declared'[i].type.kind = "struct",
               declared'[i].type.node = 0
        PROVE  \E j \in DOMAIN fixups' : fixups'[j].variable = i /\ ~fixups'[j].resolved
    <3>1. CASE i = id
      <4>1. ~fixups'[cursor].resolved /\ fixups'[cursor].variable = id
            BY <2>1, <2>2, <3>1 DEF id
      <4>2. QED  BY <2>1, <3>1, <4>1
    <3>2. CASE i # id
      <4>1. PICK j \in DOMAIN fixups : fixups[j].variable = i /\ ~fixups[j].resolved
            BY <2>1, <2>2, <3>2 DEF Waiting
      <4>2. j # cursor
            BY <3>2, <4>1 DEF id
      <4>3. QED  BY <2>1, <4>1, <4>2
    <3>3. QED  BY <3>1, <3>2
  <2>3. ASSUME NEW i \in DOMAIN declared', declared'[i].type.kind = "struct",
               declared'[i].type.node # 0, ~(\E k \in DOMAIN defined : defined[k].var = i)
        PROVE  declared'[i].type.node = Lookup(declared'[i].type.name)
    <3>1. CASE i = id
          BY <2>1, <3>1
    <3>2. CASE i # id
          BY <2>1, <2>3, <3>2 DEF Waiting, Combined
    <3>3. QED  BY <3>1, <3>2
  <2>4. \A x : Lookup(x)' = Lookup(x)
        BY <2>1 DEF Lookup
  <2>5. QED  BY <2>1, <2>2, <2>3, <2>4 DEF Waiting, Combined
<1>4. QED  BY <1>2, <1>3

\* So it stays, whatever is read.
LEMMA StepWaits == BaseInv /\ Waiting /\ [Next]_vars => Waiting'
<1> SUFFICES ASSUME BaseInv, Waiting, [Next]_vars
             PROVE  Waiting'
    OBVIOUS
<1>1. Typed /\ Refers
      BY DEF BaseInv
<1>2. ASSUME UNCHANGED <<declared, defined, symbols, fixups>>,
             status' = "done" => status = "done" \/ \A j \in DOMAIN fixups : fixups[j].resolved
      PROVE  Waiting'
      BY <1>2 DEF Waiting, Combined, Lookup
<1>3. CASE Misuse
      BY <1>2, <1>3 DEF Misuse, Abort
<1>4. ASSUME NEW kind \in Aggregates, NEW name \in Names, OpenAggregate(kind, name)
      PROVE  Waiting'
      BY <1>2, <1>4 DEF OpenAggregate
<1>5. ASSUME NEW combined \in BOOLEAN, CloseAggregate(combined)
      PROVE  Waiting'
      BY <1>5, CloseAggregateWaits
<1>6. ASSUME NEW t \in Types, NEW lengths \in Lists, Declare(t[1], t[2], lengths)
      PROVE  Waiting'
  <2>1. Nests(scopes, bodies, declared) /\ status = "parsing"
        BY <1>6, NestsIs DEF BaseInv, Declare, Reads, Parsing
  <2>2. /\ Len(lengths) \in Nat
        /\ More(Tables, Tables', Len(lengths), Body.flag, Now, defined)
        /\ UNCHANGED <<defined, symbols>>
        /\ UNCHANGED status \/ status' = "crashed"
        BY <1>1, <1>6, <2>1, DeclareDoes
  <2>3. /\ Tables.declared = declared /\ Tables.fixups = fixups
        /\ Tables'.declared = declared' /\ Tables'.fixups = fixups'
        BY DEF Tables
  <2>4. QED  BY <1>1, <2>1, <2>2, <2>3, MoreWait
<1>7. ASSUME NEW types \in Parameters, NEW hasBody \in BOOLEAN, OpenFunction(types, hasBody)
      PROVE  Waiting'
  <2> DEFINE opened == [Tables EXCEPT !.scopes = @ \o <<<<>>, <<>>>>]
  <2>1. Nests(scopes, bodies, declared) /\ status = "parsing"
        BY <1>7, NestsIs DEF BaseInv, OpenFunction, Reads, Parsing
  <2>2. /\ Len(types) \in Nat
        /\ opened.declared = declared /\ opened.fixups = fixups
        /\ More(opened, Argued(types), Len(types), "argument", Now, defined)
        /\ declared' = Argued(types).declared /\ fixups' = Argued(types).fixups
        /\ UNCHANGED <<defined, symbols, status>>
        BY <1>1, <1>7, <2>1, OpenFunctionDoes
  <2> HIDE DEF opened
  <2>3. QED  BY <1>1, <2>1, <2>2, MoreWait
<1>8. ASSUME NEW of \in Blocks, OpenBlock(of)
      PROVE  Waiting'
      BY <1>2, <1>8 DEF OpenBlock
<1>9. CASE CloseBody
      BY <1>2, <1>9 DEF CloseBody
<1>10. CASE EndOfText
       BY <1>2, <1>10 DEF EndOfText
<1>11. CASE ResolveFixup
       BY <1>11, ResolveFixupWaits
<1>12. CASE FixupsTried
       BY <1>2, <1>12 DEF FixupsTried
<1>13. CASE UNCHANGED vars
       BY <1>2, <1>13 DEF vars
<1>14. QED
       BY <1>3, <1>4, <1>5, <1>6, <1>7, <1>8, <1>9, <1>10, <1>11, <1>12, <1>13 DEF Next, Text

\* At every moment of the text, and of the fixups after it.
THEOREM Waits == Spec => []Waiting
<1>1. Init => Waiting
  <2>1. \A i \in DOMAIN <<>> : FALSE
        OBVIOUS
  <2>2. QED  BY <2>1 DEF Init, Waiting
<1>2. BaseInv /\ Waiting /\ [Next]_vars => Waiting'
      BY StepWaits
<1>3. QED  BY <1>1, <1>2, Base, PTL DEF Spec

\* What was parsed to the end has no variable of an unknown struct: the fixup
\* that is made for each is only marked resolved when it is (fixups_resolve).
THEOREM ForwardReferencesFixed == Spec => []DoneMeansResolved
<1>1. BaseInv /\ Waiting => DoneMeansResolved
  <2> SUFFICES ASSUME BaseInv, Waiting, status = "done", NEW i \in DOMAIN declared,
                      declared[i].type.kind = "struct"
               PROVE  /\ declared[i].type.node # 0
                      /\ defined[declared[i].type.node].kind = "struct"
                      /\ defined[declared[i].type.node].name = declared[i].type.name
                      /\ declared[i].type.size = defined[declared[i].type.node].size
      BY DEF DoneMeansResolved
  <2>1. declared[i].type.node # 0
        BY DEF Waiting
  <2>2. Known(declared[i].type, defined)
        BY DEF BaseInv, Refers, TablesOK, Tables
  <2>3. QED  BY <2>1, <2>2 DEF Known
<1>2. QED  BY <1>1, Base, Waits, PTL

\* A struct's name means one type in the whole text: what was found in the table
\* is found there to the end, and a later definition is not entered
\* (symresolver_register_symbol).
THEOREM NamesMeanOneType == Spec => []OneNameOneType
<1>1. BaseInv /\ Waiting /\ DoneMeansResolved => OneNameOneType
  <2> SUFFICES ASSUME Waiting, DoneMeansResolved, status = "done",
                      NEW i \in DOMAIN declared, NEW j \in DOMAIN declared,
                      declared[i].type.kind = "struct", declared[j].type.kind = "struct",
                      declared[i].type.name = declared[j].type.name,
                      ~Combined(i), ~Combined(j)
               PROVE  declared[i].type.node = declared[j].type.node
      BY DEF OneNameOneType
  <2>1. declared[i].type.node # 0 /\ declared[j].type.node # 0
        BY DEF DoneMeansResolved
  <2>2. QED  BY <2>1 DEF Waiting
<1>2. QED  BY <1>1, Base, Waits, ForwardReferencesFixed, PTL

=============================================================================
