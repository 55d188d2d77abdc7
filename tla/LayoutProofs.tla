---------------------------- MODULE LayoutProofs ----------------------------
(***************************************************************************)
(* Proofs about what Declarations says of layout: that a function's stack  *)
(* has room for its variables, and how the fields of a struct lie.         *)
(***************************************************************************)
EXTENDS DeclarationsProofs

-----------------------------------------------------------------------------
(* Totals of more                                                          *)

\* A total goes on where another ends.
LEMMA TotalGoesOn ==
    ASSUME NEW b \in Nat, NEW s \in Seq(Nat), NEW t \in Seq(Nat)
    PROVE  s \o t \in Seq(Nat) /\ Total(b, s \o t) = Total(Total(b, s), t)
<1>1. PICK m \in Nat : m = Len(s)
      OBVIOUS
<1>2. PICK n \in Nat : n = Len(t)
      OBVIOUS
<1>3. PICK w \in Seq(Nat) : w = s \o t
  <2>1. s \o t \in Seq(Nat)
        OBVIOUS
  <2>2. QED  BY <2>1, Zenon
<1>4. /\ Len(w) = m + n /\ \A k \in 1 .. m : w[k] = s[k]
      /\ \A k \in 1 .. n : w[m + k] = t[k]
  <2>1. DOMAIN s = 1 .. m /\ DOMAIN t = 1 .. n
        BY <1>1, <1>2
  <2>2. /\ Len(w) = m + n
        /\ \A k \in 1 .. m + n : w[k] = IF k <= m THEN s[k] ELSE t[k - m]
        BY <1>1, <1>2, <1>3
  <2>3. ASSUME NEW k \in 1 .. n
        PROVE  w[m + k] = t[k]
    <3>1. m + k \in 1 .. m + n /\ ~(m + k <= m) /\ (m + k) - m = k
          OBVIOUS
    <3>2. QED  BY <2>2, <3>1
  <2>4. ASSUME NEW k \in 1 .. m
        PROVE  w[k] = s[k]
    <3>1. k \in 1 .. m + n /\ k <= m
          OBVIOUS
    <3>2. QED  BY <2>2, <3>1
  <2>5. QED  BY <2>2, <2>3, <2>4
<1>5. PICK u : Partial(u, b, s) /\ Total(b, s) = u[Len(s)]
      BY TotalIs
<1>6. PICK v : Partial(v, b, w) /\ Total(b, w) = v[Len(w)]
      BY TotalIs
<1>7. PICK c \in Nat : c = Total(b, s)
      BY TotalIsNat
<1>8. PICK z : Partial(z, c, t) /\ Total(c, t) = z[Len(t)]
      BY TotalIs
<1>9. v[m] = c
  <2>1. PICK d \in Nat : d = 0 /\ b = b + d
        OBVIOUS
  <2>2. m \in 0 .. Len(s) /\ m <= Len(w) /\ \A i \in 1 .. m : s[i] = w[i]
        BY <1>1, <1>2, <1>4
  <2>3. v[m] = u[m] + d
        BY <1>5, <1>6, <2>1, <2>2, PartialsAgree
  <2>4. QED  BY <1>1, <1>5, <1>7, <2>1, <2>3
<1> DEFINE S == {k \in 0 .. n : v[m + k] = z[k]}
<1>10. 0 \in S
       BY <1>2, <1>8, <1>9 DEF Partial
<1>11. ASSUME NEW k \in 1 .. n, k - 1 \in S
       PROVE  k \in S
  <2>1. v[m + (k - 1)] = z[k - 1]
        BY <1>11
  <2>2. PICK i \in Nat : i = m + k
        OBVIOUS
  <2>3. i \in 1 .. Len(w) /\ i - 1 = m + (k - 1) /\ w[i] = t[k] /\ k \in 1 .. Len(t)
        BY <1>2, <1>4, <2>2
  <2>4. v[i] = v[i - 1] + w[i]
        BY <1>6, <2>3 DEF Partial
  <2>5. z[k] = z[k - 1] + t[k]
        BY <1>8, <2>3 DEF Partial
  <2>6. v[i] = z[k]
        BY <2>1, <2>3, <2>4, <2>5
  <2>7. QED  BY <2>2, <2>6
<1> HIDE DEF S
<1>12. n \in S
  <2>1. \A k \in 0 .. n : k \in S
        BY <1>10, <1>11, UpTo
  <2>2. QED  BY <2>1
<1>13. v[m + n] = z[n]
       BY <1>12 DEF S
<1>14. QED  BY <1>2, <1>3, <1>4, <1>6, <1>7, <1>8, <1>13

\* What two lists of variables take, they take together.
LEMMA TakenTogether ==
    ASSUME NEW s \in Seq(Nat), NEW t \in Seq(Nat)
    PROVE  /\ s \o t \in Seq(Nat)
           /\ Total(0, s \o t) = Total(0, s) + Total(0, t)
<1>1. PICK c \in Nat : c = Total(0, s)
      BY TotalIsNat
<1>2. s \o t \in Seq(Nat) /\ Total(0, s \o t) = Total(c, t)
      BY <1>1, TotalGoesOn
<1>3. PICK z \in Nat : z = 0 /\ z + c = c
      OBVIOUS
<1>4. Total(z + c, t) = Total(z, t) + c
      BY TotalShifted
<1>5. Total(z, t) \in Nat
      BY TotalIsNat
<1>6. QED  BY <1>1, <1>2, <1>3, <1>4, <1>5

-----------------------------------------------------------------------------
(* What a body holds is not changed any more                               *)

\* No fixup is for the variables that ids are of.
Untouched(ids, fixes) ==
    \A k \in DOMAIN ids : \A j \in DOMAIN fixes : fixes[j].variable # ids[k]

\* A variable that a body, a node or a function holds had its type's node, so
\* that no fixup changes it.
Settled ==
    /\ \A d \in DOMAIN bodies : Untouched(bodies[d].holds, fixups)
    /\ \A n \in DOMAIN defined : Untouched(defined[n].holds, fixups)
    /\ \A f \in DOMAIN functions : Untouched(functions[f].holds, fixups)

\* A step keeps the variables that have no fixup, and makes none for them.
Steady ==
    \A i \in DOMAIN declared :
        (\A j \in DOMAIN fixups : fixups[j].variable # i) =>
            /\ i \in DOMAIN declared' /\ declared'[i] = declared[i]
            /\ \A j \in DOMAIN fixups' : fixups'[j].variable # i

\* What is held stays as it is.
LEMMA HeldKept ==
    ASSUME Steady, NEW ids, Ids(ids, declared), Untouched(ids, fixups)
    PROVE  /\ Ids(ids, declared') /\ Untouched(ids, fixups')
           /\ \A k \in DOMAIN ids : declared'[ids[k]] = declared[ids[k]]
BY DEF Steady, Ids, Untouched

\* Variables that are declared leave the others alone.
LEMMA MoreSteady ==
    ASSUME Typed, NEW n \in Nat, NEW flag, NEW nodes, NEW types,
           NEW old, old.declared = declared, old.fixups = fixups,
           NEW new, More(old, new, n, flag, types, nodes),
           declared' = new.declared, fixups' = new.fixups
    PROVE  Steady
<1>1. PICK m \in Nat : m = Len(declared)
      BY DEF Typed
<1>2. PICK g \in Nat : g = Len(fixups)
      BY DEF Typed
<1>3. /\ DOMAIN declared = 1 .. m /\ DOMAIN fixups = 1 .. g
      BY <1>1, <1>2 DEF Typed
<1>4. /\ Len(declared') = m + n
      /\ \A i \in 1 .. m : declared'[i] = declared[i]
      /\ Len(fixups') >= g
      /\ \A j \in 1 .. g : fixups'[j] = fixups[j]
      /\ \A j \in g + 1 .. Len(fixups') : fixups'[j].variable \in m + 1 .. m + n
      /\ new \in TableSet
      BY <1>1, <1>2 DEF More, TablesOK
<1>5. declared' \in Seq(VariableNodes) /\ fixups' \in Seq(FixupNodes)
      BY <1>4 DEF TableSet
<1>6. PICK h \in Nat : h = Len(fixups')
      BY <1>5
<1>7. DOMAIN declared' = 1 .. m + n /\ DOMAIN fixups' = 1 .. h
      BY <1>4, <1>5, <1>6
<1>8. ASSUME NEW i \in 1 .. m, \A j \in 1 .. g : fixups[j].variable # i
      PROVE  i \in 1 .. m + n /\ \A j \in 1 .. h : fixups'[j].variable # i
  <2>1. ASSUME NEW j \in 1 .. h
        PROVE  fixups'[j].variable # i
    <3>1. CASE j \in 1 .. g
          BY <1>4, <1>8, <3>1
    <3>2. CASE ~(j \in 1 .. g)
      <4>1. j \in g + 1 .. h
            BY <3>2
      <4>2. fixups'[j].variable \in m + 1 .. m + n
            BY <1>4, <1>6, <4>1
      <4>3. i \notin m + 1 .. m + n
            OBVIOUS
      <4>4. QED  BY <4>2, <4>3
    <3>3. QED  BY <3>1, <3>2
  <2>2. QED  BY <2>1
<1>9. QED  BY <1>3, <1>4, <1>7, <1>8 DEF Steady

\* Every step is steady: fixups_resolve changes the variables of fixups, and
\* whatever else declares variables adds them.
LEMMA StepSteady ==
    ASSUME BaseInv, [Next]_vars
    PROVE  Steady
<1>1. Typed /\ Refers
      BY DEF BaseInv
<1>2. ASSUME UNCHANGED <<declared, fixups>>
      PROVE  Steady
      BY <1>2 DEF Steady
<1>3. CASE Misuse
      BY <1>2, <1>3 DEF Misuse, Abort
<1>4. ASSUME NEW kind \in Aggregates, NEW name \in Names, OpenAggregate(kind, name)
      PROVE  Steady
      BY <1>2, <1>4 DEF OpenAggregate
<1>5. ASSUME NEW combined \in BOOLEAN, CloseAggregate(combined)
      PROVE  Steady
  <2>1. Nests(scopes, bodies, declared)
        BY <1>5, NestsIs DEF BaseInv, CloseAggregate, Parsing
  <2>2. Extends(declared, declared') /\ fixups' = fixups
        BY <1>1, <1>5, <2>1, CloseAggregateDoes
  <2>3. QED  BY <2>2 DEF Steady, Extends
<1>6. ASSUME NEW t \in Types, NEW lengths \in Lists, Declare(t[1], t[2], lengths)
      PROVE  Steady
  <2>1. Nests(scopes, bodies, declared)
        BY <1>6, NestsIs DEF BaseInv, Declare, Reads, Parsing
  <2>2. /\ Len(lengths) \in Nat
        /\ More(Tables, Tables', Len(lengths), Body.flag, Now, defined)
        BY <1>1, <1>6, <2>1, DeclareDoes
  <2>3. /\ Tables.declared = declared /\ Tables.fixups = fixups
        /\ Tables'.declared = declared' /\ Tables'.fixups = fixups'
        BY DEF Tables
  <2>4. QED  BY <1>1, <2>2, <2>3, MoreSteady
<1>7. ASSUME NEW types \in Parameters, NEW hasBody \in BOOLEAN, OpenFunction(types, hasBody)
      PROVE  Steady
  <2> DEFINE opened == [Tables EXCEPT !.scopes = @ \o <<<<>>, <<>>>>]
  <2>1. Nests(scopes, bodies, declared)
        BY <1>7, NestsIs DEF BaseInv, OpenFunction, Reads, Parsing
  <2>2. /\ Len(types) \in Nat
        /\ opened.declared = declared /\ opened.fixups = fixups
        /\ More(opened, Argued(types), Len(types), "argument", Now, defined)
        /\ declared' = Argued(types).declared /\ fixups' = Argued(types).fixups
        BY <1>1, <1>7, <2>1, OpenFunctionDoes
  <2> HIDE DEF opened
  <2>3. QED  BY <1>1, <2>2, MoreSteady
<1>8. ASSUME NEW of \in Blocks, OpenBlock(of)
      PROVE  Steady
      BY <1>2, <1>8 DEF OpenBlock
<1>9. CASE CloseBody
      BY <1>2, <1>9 DEF CloseBody
<1>10. CASE EndOfText
       BY <1>2, <1>10 DEF EndOfText
<1>11. CASE ResolveFixup
  <2>1. CASE status' = "aborted"
    <3>1. status # "aborted"
          BY <1>11 DEF ResolveFixup
    <3>2. UNCHANGED <<declared, fixups>>
          BY <1>11, <2>1, <3>1 DEF ResolveFixup
    <3>3. QED  BY <1>2, <3>2
  <2>2. CASE status' # "aborted"
    <3>1. /\ cursor \in DOMAIN fixups
          /\ DOMAIN declared' = DOMAIN declared
          /\ \A i \in DOMAIN declared : i # fixups[cursor].variable => declared'[i] = declared[i]
          /\ DOMAIN fixups' = DOMAIN fixups
          /\ \A j \in DOMAIN fixups : fixups'[j].variable = fixups[j].variable
          BY <1>1, <1>11, <2>2, ResolveDoes, Zenon
    <3>2. QED  BY <3>1 DEF Steady
  <2>3. QED  BY <2>1, <2>2
<1>12. CASE FixupsTried
       BY <1>2, <1>12 DEF FixupsTried
<1>13. CASE UNCHANGED vars
       BY <1>2, <1>13 DEF vars
<1>14. QED
       BY <1>3, <1>4, <1>5, <1>6, <1>7, <1>8, <1>9, <1>10, <1>11, <1>12, <1>13 DEF Next, Text

-----------------------------------------------------------------------------
(* Room for what is held                                                   *)

\* What ids take of a stack.
Taken(ids, vs) == Total(0, Sizes(ids, vs))

\* It is a number.
LEMMA TakenIs ==
    ASSUME NEW vs \in Seq(VariableNodes), NEW ids \in Seq(Nat), Ids(ids, vs)
    PROVE  Sizes(ids, vs) \in Seq(Nat) /\ Taken(ids, vs) \in Nat
<1>1. PICK n \in Nat : n = Len(ids) /\ DOMAIN ids = 1 .. n
      OBVIOUS
<1>2. \A k \in 1 .. n : datatype_size(vs[ids[k]].type) \in Nat
  <2>1. \A k \in 1 .. n : vs[ids[k]] \in VariableNodes
        BY <1>1 DEF Ids
  <2>2. QED  BY <2>1, VariablesAre
<1>3. Sizes(ids, vs) \in Seq(Nat)
      BY <1>1, <1>2 DEF Sizes
<1>4. QED  BY <1>3, TotalIsNat DEF Taken

\* Nothing takes nothing.
LEMMA TakenOfNone ==
    ASSUME NEW vs
    PROVE  Taken(<<>>, vs) = 0
<1>1. Sizes(<<>>, vs) = <<>>
      BY DEF Sizes
<1>2. QED  BY <1>1, TotalOfNone DEF Taken

\* Lists of variables take together what each takes.
LEMMA TakenJoined ==
    ASSUME NEW vs \in Seq(VariableNodes), NEW s \in Seq(Nat), Ids(s, vs),
           NEW t \in Seq(Nat), Ids(t, vs)
    PROVE  Taken(s \o t, vs) = Taken(s, vs) + Taken(t, vs)
<1>1. PICK a \in Seq(Nat) : a = Sizes(s, vs)
      BY TakenIs
<1>2. PICK b \in Seq(Nat) : b = Sizes(t, vs)
      BY TakenIs
<1>3. PICK m \in Nat : m = Len(s) /\ DOMAIN s = 1 .. m
      OBVIOUS
<1>4. PICK n \in Nat : n = Len(t) /\ DOMAIN t = 1 .. n
      OBVIOUS
<1>5. Len(a) = m /\ \A k \in 1 .. m : a[k] = datatype_size(vs[s[k]].type)
      BY <1>1, <1>3 DEF Sizes
<1>6. Len(b) = n /\ \A k \in 1 .. n : b[k] = datatype_size(vs[t[k]].type)
      BY <1>2, <1>4 DEF Sizes
<1>7. PICK w : w = s \o t
      OBVIOUS
<1>8. DOMAIN w = 1 .. m + n /\ \A k \in 1 .. m + n : w[k] = IF k <= m THEN s[k] ELSE t[k - m]
      BY <1>3, <1>4, <1>7
<1>9. PICK c : c = a \o b
      OBVIOUS
<1>10. /\ c \in Seq(Nat) /\ DOMAIN c = 1 .. m + n /\ Len(c) = m + n
       /\ \A k \in 1 .. m + n : c[k] = IF k <= m THEN a[k] ELSE b[k - m]
  <2>1. Len(a) = m /\ Len(b) = n
        BY <1>5, <1>6
  <2>2. DOMAIN c = 1 .. m + n /\ Len(c) = m + n
    <3>1. DOMAIN (a \o b) = 1 .. Len(a) + Len(b) /\ Len(a \o b) = Len(a) + Len(b)
          OBVIOUS
    <3>2. QED  BY <1>9, <2>1, <3>1
  <2>3. \A k \in 1 .. m + n : c[k] = IF k <= m THEN a[k] ELSE b[k - m]
    <3>1. \A k \in 1 .. Len(a) + Len(b) :
             (a \o b)[k] = IF k <= Len(a) THEN a[k] ELSE b[k - Len(a)]
          OBVIOUS
    <3>2. QED  BY <1>9, <2>1, <3>1
  <2>4. c \in Seq(Nat)
        BY <1>9, TakenTogether
  <2>5. QED  BY <2>2, <2>3, <2>4
<1>11. ASSUME NEW k \in 1 .. m + n
       PROVE  c[k] = datatype_size(vs[w[k]].type)
  <2>1. CASE k <= m
    <3>1. k \in 1 .. m
          BY <2>1
    <3>2. QED  BY <1>5, <1>8, <1>10, <2>1, <3>1
  <2>2. CASE ~(k <= m)
    <3>1. k - m \in 1 .. n
          BY <2>2
    <3>2. QED  BY <1>6, <1>8, <1>10, <2>2, <3>1
  <2>3. QED  BY <2>1, <2>2
<1>12. c = Sizes(w, vs)
  <2>1. c = [k \in 1 .. m + n |-> c[k]]
        BY <1>10
  <2>2. QED  BY <1>8, <1>11, <2>1 DEF Sizes
<1>13. Total(0, c) = Total(0, a) + Total(0, b)
       BY <1>9, TakenTogether
<1>14. QED  BY <1>1, <1>2, <1>7, <1>12, <1>13 DEF Taken

\* Variables that stay as they are take what they took.
LEMMA TakenKept ==
    ASSUME NEW vs, NEW ws, NEW ids, \A k \in DOMAIN ids : ws[ids[k]] = vs[ids[k]]
    PROVE  Taken(ids, ws) = Taken(ids, vs)
<1>1. Sizes(ids, ws) = Sizes(ids, vs)
      BY DEF Sizes
<1>2. QED  BY <1>1 DEF Taken

\* A body that grew still has room for what it holds.
LEMMA GrownHasRoom ==
    ASSUME NEW b \in BodyNodes, NEW nodes \in Seq(StructNodes),
           NEW vs \in Seq(VariableNodes), BodyOK(b, vs),
           NEW ids \in Seq(Nat), ids # <<>>, Ids(ids, vs),
           \A i \in DOMAIN vs : Known(vs[i].type, nodes),
           \A k \in DOMAIN ids : Primitive(vs[ids[k]].type) \/ vs[ids[k]].type.node # 0,
           NEW form,
           Taken(b.holds, vs) <= b.size
    PROVE  LET g == Grown(b, nodes, vs, ids, form)
           IN  Taken(g.holds, vs) <= g.size
<1> DEFINE g == Grown(b, nodes, vs, ids, form)
<1>1. g.size = Appended(nodes, vs, ids, b.size) /\ g.holds = b.holds \o ids
      BY GrownIs, SMTT(40)
<1> HIDE DEF g
<1>2. PICK s \in Seq(Nat) : s = b.holds /\ Ids(s, vs)
      BY DEF BodyNodes, BodyOK
<1>3. PICK size \in Nat : size = b.size
      BY DEF BodyNodes
<1>4. /\ Sizes(ids, vs) \in Seq(Nat) /\ Appended(nodes, vs, ids, size) \in Nat
      /\ Appended(nodes, vs, ids, size) >= Total(size, Sizes(ids, vs))
      BY AppendedIs
<1>5. PICK c \in Seq(Nat) : c = Sizes(ids, vs)
      BY <1>4
<1>6. PICK z \in Nat : z = 0 /\ z + size = size
      BY <1>3
<1>7. Total(z + size, c) = Total(z, c) + size
      BY TotalShifted
<1>8. Total(z, c) = Taken(ids, vs)
      BY <1>5, <1>6 DEF Taken
<1>9. Taken(s \o ids, vs) = Taken(s, vs) + Taken(ids, vs)
      BY <1>2, TakenJoined
<1>10. Taken(s, vs) \in Nat /\ Taken(ids, vs) \in Nat /\ Taken(s, vs) <= size
       BY <1>2, <1>3, TakenIs
<1>11. PICK a \in Nat : a = Appended(nodes, vs, ids, size)
       BY <1>4
<1>12. a >= Taken(ids, vs) + size
       BY <1>4, <1>5, <1>6, <1>7, <1>8, <1>11
<1>13. Taken(s \o ids, vs) <= a
       BY <1>9, <1>10, <1>12
<1>14. Taken(g.holds, vs) <= g.size
       BY <1>1, <1>2, <1>3, <1>11, <1>13
<1>15. QED  BY <1>14 DEF g

\* A function's stack has room for what it holds, unless an else or a plain block
\* in it is detached.
Roomy ==
    /\ \A d \in DOMAIN bodies : Taken(bodies[d].holds, declared) <= bodies[d].size
    /\ \A f \in DOMAIN functions :
          ~functions[f].detached => Taken(functions[f].holds, declared) <= functions[f].stack_size

\* Unless one is, what the bodies in a function hold goes to its stack.
Flagged ==
    \A d \in DOMAIN bodies :
        bodies[d].kind \in {"function", "block"} /\ ~functions[Len(functions)].detached =>
           bodies[d].flag = "function"

Housed == Settled /\ Roomy /\ Flagged

\* What two lists hold, they hold together.
LEMMA UntouchedTogether ==
    ASSUME NEW s \in Seq(Nat), NEW t \in Seq(Nat), NEW fixes,
           Untouched(s, fixes), Untouched(t, fixes)
    PROVE  Untouched(s \o t, fixes)
<1>1. PICK w : w = s \o t
      OBVIOUS
<1>2. PICK m \in Nat : m = Len(s) /\ DOMAIN s = 1 .. m
      OBVIOUS
<1>3. PICK n \in Nat : n = Len(t) /\ DOMAIN t = 1 .. n
      OBVIOUS
<1>4. DOMAIN w = 1 .. m + n /\ \A k \in 1 .. m + n : w[k] = IF k <= m THEN s[k] ELSE t[k - m]
      BY <1>1, <1>2, <1>3
<1>5. ASSUME NEW k \in 1 .. m + n
      PROVE  (\E i \in 1 .. m : w[k] = s[i]) \/ (\E i \in 1 .. n : w[k] = t[i])
  <2>1. CASE k <= m
    <3>1. k \in 1 .. m
          BY <2>1
    <3>2. QED  BY <1>4, <2>1, <3>1
  <2>2. CASE ~(k <= m)
    <3>1. k - m \in 1 .. n
          BY <2>2
    <3>2. QED  BY <1>4, <2>2, <3>1
  <2>3. QED  BY <2>1, <2>2
<1>6. QED  BY <1>1, <1>2, <1>3, <1>4, <1>5 DEF Untouched

\* A fixup is for a variable that was there, or for one whose struct is not known.
Fixes(vs, fixes) ==
    \A j \in DOMAIN fixes : LET i == fixes[j].variable
                            IN  \/ i \in 1 .. Len(declared)
                                \/ ~Primitive(vs[i].type) /\ vs[i].type.node = 0

\* The step declares n variables, whose structs are known, and body k takes them.
Takes(k, n, form) ==
    /\ Len(declared') = Len(declared) + n /\ Extends(declared, declared')
    /\ bodies'[k] = Grown(bodies[k], defined', declared', Fresh(n), form)
    /\ \A i \in DOMAIN Fresh(n) : \/ Primitive(declared'[Fresh(n)[i]].type)
                                  \/ declared'[Fresh(n)[i]].type.node # 0

\* Then it holds them.
LEMMA TakesIn ==
    ASSUME BaseInv, BaseInv', NEW k \in DOMAIN bodies, NEW n \in Nat \ {0}, NEW form,
           Takes(k, n, form), Fixes(declared', fixups')
    PROVE  LET b == bodies[k]
               g == bodies'[k]
           IN  /\ Fresh(n) \in Seq(Nat) /\ Ids(Fresh(n), declared')
               /\ Untouched(Fresh(n), fixups')
               /\ g.kind = b.kind /\ g.flag = b.flag /\ g.holds = b.holds \o Fresh(n)
               /\ g.size = Appended(defined', declared', Fresh(n), b.size)
               /\ g.statements = IF form = "single" THEN Append(b.statements, Fresh(n)[1])
                                 ELSE b.statements
               /\ Taken(b.holds, declared) <= b.size => Taken(g.holds, declared') <= g.size
<1>1. Typed /\ Refers /\ Typed' /\ Refers'
      BY DEF BaseInv
<1>2. Len(declared') = Len(declared) + n /\ Extends(declared, declared')
      BY DEF Takes
<1>3. /\ declared \in Seq(VariableNodes) /\ declared' \in Seq(VariableNodes)
      /\ defined' \in Seq(StructNodes) /\ bodies \in Seq(BodyNodes)
      BY <1>1 DEF Typed
<1>4. PICK m \in Nat : m = Len(declared) /\ DOMAIN declared = 1 .. m
      BY <1>3
<1>5. PICK b \in BodyNodes : b = bodies[k] /\ BodyOK(b, declared)
      BY <1>1, <1>3 DEF Refers
<1>6. PICK vs \in Seq(VariableNodes) : vs = declared'
      BY <1>3
<1>7. PICK nodes \in Seq(StructNodes) : nodes = defined'
      BY <1>3
<1>8. BodyOK(b, vs)
  <2>1. Len(vs) = m + n /\ m <= m + n
        BY <1>2, <1>4, <1>6
  <2>2. QED  BY <1>2, <1>4, <1>5, <1>6, <2>1, BodyKept
<1>9. /\ Fresh(n) \in Seq(Nat) /\ Ids(Fresh(n), vs) /\ DOMAIN Fresh(n) = 1 .. n
      /\ \A i \in 1 .. n : Fresh(n)[i] = m + i
      /\ Fresh(n) # <<>>
  <2>1. n \in Nat /\ n # 0 /\ Len(vs) = Len(declared) + n
        BY <1>2, <1>6
  <2>2. QED  BY <1>1, <1>4, <2>1, FreshIs
<1>10. PICK ids \in Seq(Nat) : ids = Fresh(n)
       BY <1>9
<1>11. ids # <<>> /\ Ids(ids, vs)
       BY <1>9, <1>10
<1>12. \A i \in DOMAIN vs : Known(vs[i].type, nodes)
  <2>1. TablesOK(Tables', defined') /\ Tables'.declared = declared'
        BY <1>1 DEF Refers, Tables
  <2>2. QED  BY <1>6, <1>7, <2>1 DEF TablesOK
<1>13. \A i \in DOMAIN ids : Primitive(vs[ids[i]].type) \/ vs[ids[i]].type.node # 0
       BY <1>6, <1>10 DEF Takes
<1> DEFINE g == Grown(b, nodes, vs, ids, form)
<1>14. g = bodies'[k]
       BY <1>5, <1>6, <1>7, <1>10 DEF Takes
<1>15. /\ g.kind = b.kind /\ g.flag = b.flag
       /\ g.size = Appended(nodes, vs, ids, b.size)
       /\ g.holds = b.holds \o ids
       /\ g.statements = IF form = "single" THEN Append(b.statements, ids[1])
                         ELSE b.statements
  <2>1. g.kind = b.kind /\ g.flag = b.flag
        BY <1>8, <1>11, <1>12, <1>13, GrownIs
  <2>2. g.size = Appended(nodes, vs, ids, b.size)
        BY <1>8, <1>11, <1>12, <1>13, GrownIs
  <2>3. g.holds = b.holds \o ids
        BY <1>8, <1>11, <1>12, <1>13, GrownIs
  <2>4. g.statements = IF form = "single" THEN Append(b.statements, ids[1])
                       ELSE b.statements
        BY <1>8, <1>11, <1>12, <1>13, GrownIs
  <2> HIDE DEF g
  <2>5. QED  BY <2>1, <2>2, <2>3, <2>4
<1>16. Taken(b.holds, vs) <= b.size => Taken(g.holds, vs) <= g.size
       BY <1>8, <1>11, <1>12, <1>13, GrownHasRoom
<1>17. Taken(b.holds, vs) = Taken(b.holds, declared)
  <2>1. \A i \in DOMAIN b.holds : vs[b.holds[i]] = declared[b.holds[i]]
        BY <1>2, <1>5, <1>6 DEF BodyOK, Ids, Extends
  <2>2. QED  BY <2>1, TakenKept
<1>18. Untouched(ids, fixups')
  <2>1. ASSUME NEW i \in 1 .. n, NEW j \in DOMAIN fixups', fixups'[j].variable = m + i
        PROVE  FALSE
    <3>1. m + i \notin 1 .. m
          OBVIOUS
    <3>2. ~Primitive(vs[m + i].type) /\ vs[m + i].type.node = 0
      <4>1. \/ fixups'[j].variable \in 1 .. Len(declared)
            \/ /\ ~Primitive(vs[fixups'[j].variable].type)
               /\ vs[fixups'[j].variable].type.node = 0
            BY <1>6, Zenon DEF Fixes
      <4>2. fixups'[j].variable \notin 1 .. Len(declared)
            BY <1>4, <2>1, <3>1
      <4>3. QED  BY <2>1, <4>1, <4>2, Zenon
    <3>3. ids[i] = m + i /\ i \in DOMAIN ids
          BY <1>9, <1>10
    <3>4. QED  BY <1>13, <3>2, <3>3
  <2>2. QED  BY <1>9, <1>10, <2>1 DEF Untouched
<1> HIDE DEF g
<1>19. /\ Fresh(n) \in Seq(Nat) /\ Ids(Fresh(n), declared') /\ Untouched(Fresh(n), fixups')
       BY <1>6, <1>10, <1>11, <1>18
<1>20. /\ g.holds = b.holds \o Fresh(n)
       /\ g.size = Appended(defined', declared', Fresh(n), b.size)
       /\ g.statements = IF form = "single" THEN Append(b.statements, Fresh(n)[1])
                         ELSE b.statements
       BY <1>6, <1>7, <1>10, <1>15
<1>21. Taken(b.holds, declared) <= b.size => Taken(g.holds, declared') <= g.size
       BY <1>6, <1>16, <1>17
<1>22. QED
       BY <1>5, <1>14, <1>15, <1>19, <1>20, <1>21

\* A body, a node or a function is as it was, or has what Housed says of it.
BodyHoused(d) ==
    \/ d \in DOMAIN bodies /\ bodies'[d] = bodies[d]
    \/ /\ Untouched(bodies'[d].holds, fixups')
       /\ Taken(bodies'[d].holds, declared') <= bodies'[d].size
NodeHoused(n) ==
    \/ n \in DOMAIN defined /\ defined'[n] = defined[n]
    \/ Untouched(defined'[n].holds, fixups')
FunctionHoused(f) ==
    \/ /\ f \in DOMAIN functions
       /\ functions'[f].holds = functions[f].holds
       /\ functions'[f].stack_size = functions[f].stack_size
       /\ functions[f].detached => functions'[f].detached
    \/ /\ Untouched(functions'[f].holds, fixups')
       /\ ~functions'[f].detached =>
             Taken(functions'[f].holds, declared') <= functions'[f].stack_size

\* So all that is held after the step has room.
LEMMA StepHouses ==
    ASSUME BaseInv, Steady, Housed,
           \A d \in DOMAIN bodies' : BodyHoused(d),
           \A n \in DOMAIN defined' : NodeHoused(n),
           \A f \in DOMAIN functions' : FunctionHoused(f)
    PROVE  Settled' /\ Roomy'
<1>1. /\ \A d \in DOMAIN bodies : BodyOK(bodies[d], declared)
      /\ \A n \in DOMAIN defined : NodeOK(defined[n], declared)
      /\ \A f \in DOMAIN functions : Ids(functions[f].holds, declared)
      BY DEF BaseInv, Refers
<1>2. ASSUME NEW ids, Ids(ids, declared), Untouched(ids, fixups)
      PROVE  Untouched(ids, fixups') /\ Taken(ids, declared') = Taken(ids, declared)
  <2>1. Untouched(ids, fixups') /\ \A k \in DOMAIN ids : declared'[ids[k]] = declared[ids[k]]
        BY <1>2, HeldKept
  <2>2. QED  BY <2>1, TakenKept
<1>3. ASSUME NEW d \in DOMAIN bodies'
      PROVE  /\ Untouched(bodies'[d].holds, fixups')
             /\ Taken(bodies'[d].holds, declared') <= bodies'[d].size
  <2>1. CASE d \in DOMAIN bodies /\ bodies'[d] = bodies[d]
    <3>1. Ids(bodies[d].holds, declared) /\ Untouched(bodies[d].holds, fixups)
          BY <1>1, <2>1 DEF BodyOK, Housed, Settled
    <3>2. PICK ids : ids = bodies[d].holds
          OBVIOUS
    <3>3. Untouched(ids, fixups') /\ Taken(ids, declared') = Taken(ids, declared)
          BY <1>2, <3>1, <3>2
    <3>4. Taken(ids, declared) <= bodies[d].size
          BY <2>1, <3>2 DEF Housed, Roomy
    <3>5. QED  BY <2>1, <3>2, <3>3, <3>4
  <2>2. QED  BY <2>1 DEF BodyHoused
<1>4. ASSUME NEW n \in DOMAIN defined'
      PROVE  Untouched(defined'[n].holds, fixups')
  <2>1. CASE n \in DOMAIN defined /\ defined'[n] = defined[n]
    <3>1. Ids(defined[n].holds, declared) /\ Untouched(defined[n].holds, fixups)
          BY <1>1, <2>1 DEF NodeOK, Housed, Settled
    <3>2. QED  BY <1>2, <2>1, <3>1
  <2>2. QED  BY <2>1 DEF NodeHoused
<1>5. ASSUME NEW f \in DOMAIN functions'
      PROVE  /\ Untouched(functions'[f].holds, fixups')
             /\ ~functions'[f].detached =>
                   Taken(functions'[f].holds, declared') <= functions'[f].stack_size
  <2>1. CASE /\ f \in DOMAIN functions
             /\ functions'[f].holds = functions[f].holds
             /\ functions'[f].stack_size = functions[f].stack_size
             /\ functions[f].detached => functions'[f].detached
    <3>1. Ids(functions[f].holds, declared) /\ Untouched(functions[f].holds, fixups)
          BY <1>1, <2>1 DEF Housed, Settled
    <3>2. PICK ids : ids = functions[f].holds
          OBVIOUS
    <3>3. Untouched(ids, fixups') /\ Taken(ids, declared') = Taken(ids, declared)
          BY <1>2, <3>1, <3>2
    <3>4. ~functions[f].detached => Taken(ids, declared) <= functions[f].stack_size
          BY <2>1, <3>2 DEF Housed, Roomy
    <3>5. ~functions'[f].detached => ~functions[f].detached
          BY <2>1, Zenon
    <3>6. CASE functions'[f].detached
          BY <2>1, <3>2, <3>3, <3>6, Zenon
    <3>7. CASE ~functions'[f].detached
      <4>1. Taken(ids, declared) <= functions[f].stack_size
            BY <3>4, <3>5, <3>7, Zenon
      <4>2. Taken(functions'[f].holds, declared') <= functions'[f].stack_size
            BY <2>1, <3>2, <3>3, <4>1
      <4>3. QED  BY <2>1, <3>2, <3>3, <4>2, Zenon
    <3>8. QED  BY <3>6, <3>7
  <2>2. QED  BY <2>1 DEF FunctionHoused
<1>6. Settled'
      BY <1>3, <1>4, <1>5 DEF Settled
<1>7. Roomy'
      BY <1>3, <1>5 DEF Roomy
<1>8. QED  BY <1>6, <1>7

\* A step that changes no body, node or function.
LEMMA OthersHoused ==
    ASSUME BaseInv, Steady, Housed, UNCHANGED <<bodies, defined, functions>>
    PROVE  Housed'
<1>1. /\ \A d \in DOMAIN bodies' : BodyHoused(d)
      /\ \A n \in DOMAIN defined' : NodeHoused(n)
      /\ \A f \in DOMAIN functions' : FunctionHoused(f)
      BY DEF BodyHoused, NodeHoused, FunctionHoused
<1>2. Settled' /\ Roomy'
      BY <1>1, StepHouses
<1>3. Flagged'
      BY DEF Housed, Flagged
<1>4. QED  BY <1>2, <1>3 DEF Housed

\* A new body holds nothing.
LEMMA OpenedHoused ==
    ASSUME Typed, NEW b \in BodyNodes, b.holds = <<>>, b.size = 0,
           bodies' = Append(bodies, b)
    PROVE  \A d \in DOMAIN bodies' : BodyHoused(d)
<1>1. PICK k \in Nat : k = Len(bodies) /\ DOMAIN bodies = 1 .. k
      BY DEF Typed
<1>2. bodies \in Seq(BodyNodes)
      BY DEF Typed
<1>3. /\ DOMAIN bodies' = 1 .. k + 1 /\ bodies'[k + 1] = b
      /\ \A d \in 1 .. k : bodies'[d] = bodies[d]
  <2>1. /\ Append(bodies, b) \in Seq(BodyNodes) /\ Len(Append(bodies, b)) = k + 1
        /\ Append(bodies, b)[k + 1] = b
        /\ \A d \in 1 .. k : Append(bodies, b)[d] = bodies[d]
        BY <1>1, <1>2, AppendIs
  <2>2. QED  BY <1>1, <2>1
<1>4. Untouched(b.holds, fixups') /\ Taken(b.holds, declared') <= b.size
  <2>1. Taken(<<>>, declared') = 0
        BY TakenOfNone
  <2>2. Untouched(<<>>, fixups')
        BY DEF Untouched
  <2>3. QED  BY <2>1, <2>2
<1>5. ASSUME NEW d \in 1 .. k + 1
      PROVE  BodyHoused(d)
  <2>1. d \in 1 .. k \/ d = k + 1
        OBVIOUS
  <2>2. CASE d \in 1 .. k
        BY <1>1, <1>3, <2>2 DEF BodyHoused
  <2>3. CASE d = k + 1
        BY <1>3, <1>4, <2>3 DEF BodyHoused
  <2>4. QED  BY <2>1, <2>2, <2>3
<1>6. QED  BY <1>3, <1>5

\* A struct or union that begins.
LEMMA OpenAggregateHoused ==
    ASSUME BaseInv, Steady, Housed, NEW kind \in Aggregates, NEW name \in Names,
           OpenAggregate(kind, name)
    PROVE  Housed'
<1> DEFINE flag == IF kind = "struct" THEN "structure" ELSE "none"
           b == NewBody(kind, name, flag)
<1>1. Typed /\ Refers
      BY DEF BaseInv
<1>2. /\ b \in BodyNodes /\ b.kind = kind /\ b.holds = <<>> /\ b.size = 0
  <2>1. declared \in Seq(VariableNodes)
        BY <1>1 DEF Typed
  <2>2. flag \in {"structure", "none", "function", "global"} /\ (kind = "struct" => flag = "structure")
        OBVIOUS
  <2> HIDE DEF flag
  <2>3. QED  BY <1>1, <2>1, <2>2, NewBodyIs
<1>3. bodies' = Append(bodies, b) /\ UNCHANGED <<defined, functions>>
      BY DEF OpenAggregate
<1> HIDE DEF b
<1>4. \A d \in DOMAIN bodies' : BodyHoused(d)
      BY <1>1, <1>2, <1>3, OpenedHoused
<1>5. /\ \A n \in DOMAIN defined' : NodeHoused(n)
      /\ \A f \in DOMAIN functions' : FunctionHoused(f)
      BY <1>3 DEF NodeHoused, FunctionHoused
<1>6. Settled' /\ Roomy'
      BY <1>4, <1>5, StepHouses
<1>7. Flagged'
  <2>1. PICK k \in Nat : k = Len(bodies) /\ DOMAIN bodies = 1 .. k
        BY <1>1 DEF Typed
  <2>2. /\ DOMAIN bodies' = 1 .. k + 1 /\ bodies'[k + 1] = b
        /\ \A d \in 1 .. k : bodies'[d] = bodies[d]
        BY <1>1, <1>2, <1>3, <2>1 DEF Typed
  <2>3. ASSUME NEW d \in 1 .. k + 1, bodies'[d].kind \in {"function", "block"}
        PROVE  d \in 1 .. k /\ bodies'[d] = bodies[d]
    <3>1. d # k + 1
          BY <1>2, <2>2, <2>3 DEF Aggregates
    <3>2. QED  BY <2>2, <3>1
  <2>4. QED  BY <1>3, <2>1, <2>2, <2>3 DEF Housed, Flagged
<1>8. QED  BY <1>6, <1>7 DEF Housed

\* A block that begins: the body of an if, of an else or of a loop, or a plain one.
LEMMA OpenBlockHoused ==
    ASSUME BaseInv, Steady, Housed, NEW of \in Blocks, OpenBlock(of)
    PROVE  Housed'
<1> DEFINE flag == CASE of = "branch" -> Body.flag
                     [] of = "else"   -> "none"
                     [] of = "plain"  -> "global"
           b == NewBody("block", "unnamed", flag)
           f == [functions[Len(functions)] EXCEPT !.detached = @ \/ of # "branch"]
           l == Len(functions)
<1>1. Typed /\ Refers
      BY DEF BaseInv
<1>2. Body.kind \in {"function", "block"} /\ bodies # <<>>
      BY KindHasBody DEF OpenBlock
<1>3. PICK k \in Nat : /\ k = Len(bodies) /\ DOMAIN bodies = 1 .. k /\ k \in 1 .. k
                       /\ Body = bodies[k] /\ Body \in BodyNodes
  <2>1. /\ Len(bodies) \in Nat \ {0} /\ Len(bodies) \in DOMAIN bodies
        /\ Body = bodies[Len(bodies)] /\ Body \in BodyNodes
        BY <1>1, <1>2, BodyIs
  <2>2. DOMAIN bodies = 1 .. Len(bodies)
        BY <1>1 DEF Typed
  <2>3. QED  BY <2>1, <2>2
<1>4. functions # <<>>
      BY <1>1, <1>2, <1>3 DEF Refers
<1>5. /\ functions \in Seq(FunctionNodes) /\ l \in DOMAIN functions
      /\ functions[l] \in FunctionNodes
      BY <1>1, <1>4 DEF Typed
<1>6. /\ b \in BodyNodes /\ b.kind = "block" /\ b.flag = flag /\ b.holds = <<>> /\ b.size = 0
  <2>1. flag \in {"structure", "none", "function", "global"}
        BY <1>3 DEF BodyNodes, Blocks
  <2>2. declared \in Seq(VariableNodes)
        BY <1>1 DEF Typed
  <2> HIDE DEF flag
  <2>3. PICK kind : kind = "block"
        OBVIOUS
  <2>4. kind \in {"function", "block"} /\ kind # "struct"
        BY <2>3
  <2>5. PICK name \in Names \cup {"unnamed"} : name = "unnamed"
        OBVIOUS
  <2>6. LET c == NewBody(kind, name, flag)
        IN  c \in BodyNodes /\ c.kind = kind /\ c.flag = flag /\ c.holds = <<>> /\ c.size = 0
        BY <1>1, <2>1, <2>2, <2>4, NewBodyIs
  <2>7. QED  BY <2>3, <2>5, <2>6
<1>7. bodies' = Append(bodies, b) /\ UNCHANGED defined
      /\ functions' = [functions EXCEPT ![l] = f]
  <2>1. functions' = [functions EXCEPT ![l].detached = @ \/ of # "branch"]
        BY DEF OpenBlock
  <2>2. QED  BY <1>5, <2>1 DEF OpenBlock
<1>8. /\ f \in FunctionNodes /\ f.holds = functions[l].holds
      /\ f.stack_size = functions[l].stack_size
      BY <1>5 DEF FunctionNodes
<1>9. (~f.detached => ~functions[l].detached /\ of = "branch")
      /\ (functions[l].detached => f.detached)
  <2>1. f.detached = (functions[l].detached \/ of # "branch")
        BY <1>5 DEF FunctionNodes
  <2>2. QED  BY <2>1, Zenon
<1> HIDE DEF b, f
<1>10. /\ Len(functions') = l /\ functions'[l] = f /\ DOMAIN functions' = DOMAIN functions
       /\ \A i \in DOMAIN functions : i # l => functions'[i] = functions[i]
       BY <1>5, <1>7, <1>8
<1>11. \A d \in DOMAIN bodies' : BodyHoused(d)
       BY <1>1, <1>6, <1>7, OpenedHoused
<1>12. ASSUME NEW i \in DOMAIN functions'
       PROVE  FunctionHoused(i)
  <2>1. CASE i = l
        BY <1>5, <1>8, <1>9, <1>10, <2>1, Zenon DEF FunctionHoused
  <2>2. CASE i # l
        BY <1>10, <2>2, Zenon DEF FunctionHoused
  <2>3. QED  BY <2>1, <2>2
<1>13. Settled' /\ Roomy'
  <2>1. \A n \in DOMAIN defined' : NodeHoused(n)
        BY <1>7 DEF NodeHoused
  <2>2. QED  BY <1>11, <1>12, <2>1, StepHouses
<1>14. Flagged'
  <2>1. /\ DOMAIN bodies' = 1 .. k + 1 /\ bodies'[k + 1] = b
        /\ \A d \in 1 .. k : bodies'[d] = bodies[d]
        BY <1>1, <1>3, <1>6, <1>7 DEF Typed
  <2>2. ASSUME NEW d \in 1 .. k + 1, bodies'[d].kind \in {"function", "block"},
               ~f.detached
        PROVE  bodies'[d].flag = "function"
    <3>1. ~functions[l].detached /\ of = "branch"
          BY <1>9, <2>2, Zenon
    <3>2. CASE d \in 1 .. k
          BY <1>3, <2>1, <2>2, <3>1, <3>2 DEF Housed, Flagged
    <3>3. CASE d \notin 1 .. k
      <4>1. d = k + 1
            BY <3>3
      <4>2. flag = Body.flag
            BY <3>1, Zenon
      <4>3. Body.flag = "function"
            BY <1>2, <1>3, <3>1 DEF Housed, Flagged
      <4>4. QED  BY <1>6, <2>1, <4>1, <4>2, <4>3
    <3>4. QED  BY <3>2, <3>3
  <2>3. QED  BY <1>10, <2>1, <2>2 DEF Flagged
<1>15. QED  BY <1>13, <1>14 DEF Housed

\* A function's head: its body, if it has one, holds nothing yet.
LEMMA OpenFunctionHoused ==
    ASSUME BaseInv, Steady, Housed, NEW types \in Parameters, NEW hasBody \in BOOLEAN,
           OpenFunction(types, hasBody)
    PROVE  Housed'
<1> DEFINE new == [stack_size |-> 0, holds |-> <<>>, detached |-> FALSE]
           b == NewBody("function", "unnamed", "function")
<1>1. Typed /\ Refers /\ Nests(scopes, bodies, declared)
      BY NestsIs DEF BaseInv, OpenFunction, Reads
<1>2. /\ bodies = <<>> /\ UNCHANGED defined
      /\ bodies' = IF hasBody THEN <<b>> ELSE <<>>
      /\ functions' = IF hasBody THEN Append(functions, new) ELSE functions
      BY <1>1, OpenFunctionDoes
<1>3. CASE ~hasBody
  <2>1. UNCHANGED <<bodies, defined, functions>>
        BY <1>2, <1>3
  <2>2. QED  BY <2>1, OthersHoused
<1>4. CASE hasBody
  <2>1. /\ b \in BodyNodes /\ b.flag = "function" /\ b.holds = <<>> /\ b.size = 0
    <3>1. declared \in Seq(VariableNodes)
          BY <1>1 DEF Typed
    <3>2. PICK kind : kind = "function"
          OBVIOUS
    <3>3. kind \in {"function", "block"} /\ kind # "struct"
          BY <3>2
    <3>4. PICK name \in Names \cup {"unnamed"} : name = "unnamed"
          OBVIOUS
    <3>5. PICK flag \in {"structure", "none", "function", "global"} : flag = "function"
          OBVIOUS
    <3>6. LET c == NewBody(kind, name, flag)
          IN  c \in BodyNodes /\ c.flag = flag /\ c.holds = <<>> /\ c.size = 0
          BY <1>1, <3>1, <3>3, NewBodyIs
    <3>7. QED  BY <3>2, <3>4, <3>5, <3>6
  <2> HIDE DEF b
  <2>2. bodies' = Append(bodies, b)
        BY <1>2, <1>4
  <2>3. \A d \in DOMAIN bodies' : BodyHoused(d)
        BY <1>1, <2>1, <2>2, OpenedHoused
  <2>4. PICK l \in Nat : l = Len(functions) /\ DOMAIN functions = 1 .. l
        BY <1>1 DEF Typed
  <2>5. /\ functions \in Seq(FunctionNodes) /\ new \in FunctionNodes
        /\ functions' = Append(functions, new)
        BY <1>1, <1>2, <1>4 DEF Typed, FunctionNodes
  <2>6. ~new.detached /\ new.holds = <<>> /\ new.stack_size = 0
        OBVIOUS
  <2> HIDE DEF new
  <2>7. /\ DOMAIN functions' = 1 .. l + 1 /\ functions'[l + 1] = new
        /\ \A f \in 1 .. l : functions'[f] = functions[f]
        BY <2>4, <2>5
  <2>8. ASSUME NEW f \in 1 .. l + 1
        PROVE  FunctionHoused(f)
    <3>1. CASE f \in 1 .. l
          BY <2>4, <2>7, <3>1, Zenon DEF FunctionHoused
    <3>2. CASE f \notin 1 .. l
      <4>1. f = l + 1
            BY <3>2
      <4>2. Taken(new.holds, declared') <= new.stack_size
        <5>1. Taken(<<>>, declared') = 0
              BY TakenOfNone
        <5>2. QED  BY <2>6, <5>1
      <4>3. Untouched(new.holds, fixups')
            BY <2>6 DEF Untouched
      <4>4. QED  BY <2>7, <4>1, <4>2, <4>3, Zenon DEF FunctionHoused
    <3>3. QED  BY <3>1, <3>2
  <2>9. Settled' /\ Roomy'
    <3>1. \A n \in DOMAIN defined' : NodeHoused(n)
          BY <1>2 DEF NodeHoused
    <3>2. QED  BY <2>3, <2>7, <2>8, <3>1, StepHouses
  <2>10. Flagged'
    <3>1. bodies' = <<b>>
          BY <1>2, <1>4
    <3>2. \A d \in DOMAIN bodies' : bodies'[d] = b
          BY <3>1
    <3>3. QED  BY <2>1, <3>2 DEF Flagged
  <2>11. QED  BY <2>9, <2>10 DEF Housed
<1>5. QED  BY <1>3, <1>4

\* The end of a block or of a function's body: what it holds, and its size, go to
\* the function.
LEMMA CloseBodyHoused ==
    ASSUME BaseInv, Steady, Housed, CloseBody
    PROVE  Housed'
<1> DEFINE added == IF Body.flag = "function" THEN FinalSize(Body) ELSE 0
           l == Len(functions)
           old == functions[l]
           f == [stack_size |-> old.stack_size + added, holds |-> old.holds \o Body.holds,
                 detached |-> old.detached]
<1>1. Typed /\ Refers
      BY DEF BaseInv
<1>2. Body.kind \in {"function", "block"} /\ bodies # <<>>
      BY KindHasBody DEF CloseBody
<1>3. PICK k \in Nat : /\ k = Len(bodies) /\ DOMAIN bodies = 1 .. k /\ k \in 1 .. k
                       /\ Body = bodies[k] /\ Body \in BodyNodes
  <2>1. /\ Len(bodies) \in Nat \ {0} /\ Len(bodies) \in DOMAIN bodies
        /\ Body = bodies[Len(bodies)] /\ Body \in BodyNodes
        BY <1>1, <1>2, BodyIs
  <2>2. DOMAIN bodies = 1 .. Len(bodies)
        BY <1>1 DEF Typed
  <2>3. QED  BY <2>1, <2>2
<1>4. functions # <<>>
      BY <1>1, <1>2, <1>3 DEF Refers
<1>5. /\ functions \in Seq(FunctionNodes) /\ l \in DOMAIN functions
      /\ old \in FunctionNodes
      BY <1>1, <1>4 DEF Typed
<1>6. PICK held \in Seq(Nat) : /\ held = Body.holds /\ Ids(held, declared)
                               /\ Untouched(held, fixups)
  <2>1. Body.holds \in Seq(Nat)
        BY <1>3 DEF BodyNodes
  <2>2. Ids(Body.holds, declared) /\ Untouched(Body.holds, fixups)
        BY <1>1, <1>3 DEF Refers, BodyOK, Housed, Settled
  <2>3. QED  BY <2>1, <2>2
<1>7. PICK was \in Seq(Nat) : /\ was = old.holds /\ Ids(was, declared)
                              /\ Untouched(was, fixups)
  <2>1. old.holds \in Seq(Nat)
        BY <1>5 DEF FunctionNodes
  <2>2. Ids(old.holds, declared) /\ Untouched(old.holds, fixups)
        BY <1>1, <1>5 DEF Refers, Housed, Settled
  <2>3. QED  BY <2>1, <2>2
<1>8. PICK size \in Nat : size = old.stack_size
      BY <1>5 DEF FunctionNodes
<1>9. declared \in Seq(VariableNodes)
      BY <1>1 DEF Typed
<1>10. ~old.detached => Taken(was \o held, declared) <= size + added
  <2> SUFFICES ASSUME ~old.detached
               PROVE  Taken(was \o held, declared) <= size + added
      OBVIOUS
  <2>1. Body.flag = "function"
        BY <1>2, <1>3 DEF Housed, Flagged
  <2>2. PICK body \in Nat : body = Body.size
        BY <1>3 DEF BodyNodes
  <2>3. PICK final \in Nat : final = FinalSize(Body) /\ final >= body
    <3>1. BodyOK(Body, declared) /\ Body.kind # "union"
          BY <1>1, <1>2, <1>3 DEF Refers
    <3>2. FinalSize(Body) \in Nat /\ FinalSize(Body) >= Body.size
          BY <1>1, <1>3, <3>1, FinalSizeIs
    <3>3. QED  BY <2>2, <3>2
  <2>4. Taken(held, declared) <= body
        BY <1>3, <1>6, <2>2 DEF Housed, Roomy
  <2>5. Taken(was, declared) <= size
        BY <1>5, <1>7, <1>8 DEF Housed, Roomy
  <2>6. Taken(was \o held, declared) = Taken(was, declared) + Taken(held, declared)
        BY <1>6, <1>7, <1>9, TakenJoined
  <2>7. Taken(was, declared) \in Nat /\ Taken(held, declared) \in Nat
        BY <1>6, <1>7, <1>9, TakenIs
  <2>8. added = final
        BY <2>1, <2>3
  <2>9. QED  BY <2>3, <2>4, <2>5, <2>6, <2>7, <2>8
<1>11. Untouched(was \o held, fixups)
       BY <1>6, <1>7, UntouchedTogether
<1>12. UNCHANGED <<declared, defined, fixups>>
       BY DEF CloseBody
<1>13. functions' = [functions EXCEPT ![l] = f]
       BY <1>5 DEF CloseBody
<1>14. f.holds = was \o held /\ f.stack_size = size + added /\ f.detached = old.detached
       BY <1>6, <1>7, <1>8
<1> HIDE DEF f, added
<1>15. /\ Len(functions') = l /\ functions'[l] = f /\ DOMAIN functions' = DOMAIN functions
       /\ \A i \in DOMAIN functions : i # l => functions'[i] = functions[i]
       BY <1>5, <1>13
<1>16. ASSUME NEW i \in DOMAIN functions'
       PROVE  FunctionHoused(i)
  <2>1. CASE i = l
    <3>1. Untouched(f.holds, fixups')
          BY <1>11, <1>12, <1>14
    <3>2. CASE old.detached
          BY <1>14, <1>15, <2>1, <3>1, <3>2, Zenon DEF FunctionHoused
    <3>3. CASE ~old.detached
      <4>1. Taken(f.holds, declared') <= f.stack_size
        <5>1. PICK a : a = f.holds /\ a = was \o held
              BY <1>14
        <5>2. Taken(a, declared) <= size + added
              BY <1>10, <3>3, <5>1, Zenon
        <5>3. QED  BY <1>12, <1>14, <5>1, <5>2
      <4>2. QED  BY <1>15, <2>1, <3>1, <4>1, Zenon DEF FunctionHoused
    <3>4. QED  BY <3>2, <3>3
  <2>2. CASE i # l
        BY <1>15, <2>2, Zenon DEF FunctionHoused
  <2>3. QED  BY <2>1, <2>2
<1>17. PICK m \in Nat : m + 1 = k /\ bodies' = SubSeq(bodies, 1, m) /\ m \in 0 .. Len(bodies)
  <2>1. PICK m : m = k - 1
        OBVIOUS
  <2>2. m \in Nat /\ m + 1 = k /\ m \in 0 .. k
        BY <1>3, <2>1
  <2>3. bodies' = SubSeq(bodies, 1, m)
        BY <1>3, <2>1 DEF CloseBody, Enclosing
  <2>4. QED  BY <1>3, <2>2, <2>3
<1>18. /\ DOMAIN bodies' = 1 .. m
       /\ \A d \in 1 .. m : d \in DOMAIN bodies /\ bodies'[d] = bodies[d]
  <2>1. bodies \in Seq(BodyNodes)
        BY <1>1 DEF Typed
  <2>2. DOMAIN SubSeq(bodies, 1, m) = 1 .. m /\ \A d \in 1 .. m : SubSeq(bodies, 1, m)[d] = bodies[d]
        BY <1>17, <2>1, FrontIs
  <2>3. \A d \in 1 .. m : d \in 1 .. k
        BY <1>17
  <2>4. QED  BY <1>3, <1>17, <2>2, <2>3
<1>19. Settled' /\ Roomy'
  <2>1. \A d \in DOMAIN bodies' : BodyHoused(d)
        BY <1>18 DEF BodyHoused
  <2>2. \A n \in DOMAIN defined' : NodeHoused(n)
        BY <1>12 DEF NodeHoused
  <2>3. QED  BY <1>16, <2>1, <2>2, StepHouses
<1>20. Flagged'
  <2>1. functions'[Len(functions')].detached = functions[Len(functions)].detached
        BY <1>14, <1>15
  <2>2. QED  BY <1>18, <2>1, Zenon DEF Housed, Flagged
<1>21. QED  BY <1>19, <1>20 DEF Housed

\* A body that takes in variables has room for them.
LEMMA TakerHoused ==
    ASSUME BaseInv, BaseInv', Steady, Housed, NEW k \in DOMAIN bodies,
           NEW n \in Nat \ {0}, NEW form, Takes(k, n, form), Fixes(declared', fixups')
    PROVE  BodyHoused(k) /\ bodies'[k].kind = bodies[k].kind /\ bodies'[k].flag = bodies[k].flag
<1>1. Typed /\ Refers
      BY DEF BaseInv
<1>2. /\ Fresh(n) \in Seq(Nat) /\ Untouched(Fresh(n), fixups')
      /\ bodies'[k].kind = bodies[k].kind /\ bodies'[k].flag = bodies[k].flag
      /\ bodies'[k].holds = bodies[k].holds \o Fresh(n)
      /\ Taken(bodies[k].holds, declared) <= bodies[k].size =>
            Taken(bodies'[k].holds, declared') <= bodies'[k].size
      BY TakesIn
<1>3. Taken(bodies'[k].holds, declared') <= bodies'[k].size
      BY <1>2 DEF Housed, Roomy
<1>4. PICK held \in Seq(Nat) : held = bodies[k].holds
  <2>1. bodies[k] \in BodyNodes
        BY <1>1 DEF Typed
  <2>2. QED  BY <2>1 DEF BodyNodes
<1>5. Untouched(held, fixups')
  <2>1. Ids(held, declared) /\ Untouched(held, fixups)
        BY <1>1, <1>4 DEF Refers, BodyOK, Housed, Settled
  <2>2. QED  BY <2>1, HeldKept
<1>6. PICK ids \in Seq(Nat) : ids = Fresh(n)
      BY <1>2
<1>7. Untouched(held \o ids, fixups')
      BY <1>2, <1>5, <1>6, UntouchedTogether
<1>8. QED  BY <1>2, <1>3, <1>4, <1>6, <1>7 DEF BodyHoused

\* A declaration of variables in a body: the body takes them, unless the program
\* ends there.
LEMMA DeclareTakes ==
    ASSUME BaseInv, BaseInv', NEW t \in Types, NEW lengths \in Lists,
           Declare(t[1], t[2], lengths), bodies # <<>>, status' # "crashed"
    PROVE  LET n == Len(lengths)
               k == Len(bodies)
           IN  /\ k \in DOMAIN bodies /\ DOMAIN bodies' = DOMAIN bodies
               /\ \A d \in DOMAIN bodies : d # k => bodies'[d] = bodies[d]
               /\ Takes(k, n, IF n = 1 THEN "single" ELSE "list")
               /\ Fixes(declared', fixups')
<1> DEFINE n == Len(lengths)
           form == IF n = 1 THEN "single" ELSE "list"
           g == Grown(Body, defined, declared', Fresh(n), form)
<1>1. Typed /\ Refers /\ Nests(scopes, bodies, declared)
      BY NestsIs DEF BaseInv, Declare, Reads
<1>2. /\ n \in Nat \ {0}
      /\ More(Tables, Tables', n, Body.flag, Now, defined)
      /\ ~Dangling(declared', Fresh(n)) /\ bodies' = [bodies EXCEPT ![Len(bodies)] = g]
      /\ UNCHANGED defined
      BY <1>1, DeclareDoes
<1> HIDE DEF n, form, g
<1>3. PICK k \in Nat : /\ k = Len(bodies) /\ DOMAIN bodies = 1 .. k /\ k \in DOMAIN bodies
                       /\ Body = bodies[k]
  <2>1. /\ Len(bodies) \in Nat \ {0} /\ Len(bodies) \in DOMAIN bodies
        /\ Body = bodies[Len(bodies)]
        BY <1>1, BodyIs
  <2>2. DOMAIN bodies = 1 .. Len(bodies)
        BY <1>1 DEF Typed
  <2>3. QED  BY <2>1, <2>2
<1>4. /\ DOMAIN bodies' = DOMAIN bodies /\ bodies'[k] = g
      /\ \A d \in DOMAIN bodies : d # k => bodies'[d] = bodies[d]
      BY <1>1, <1>2, <1>3 DEF Typed
<1>5. /\ Tables.declared = declared /\ Tables.fixups = fixups
      /\ Tables'.declared = declared' /\ Tables'.fixups = fixups'
      BY DEF Tables
<1>6. Extends(declared, declared')
  <2>1. declared \in Seq(VariableNodes) /\ n \in Nat
        BY <1>1, <1>2 DEF Typed
  <2>2. QED  BY <1>2, <1>5, <2>1, MoreExtends
<1>7. Len(declared') = Len(declared) + n
      BY <1>2, <1>5 DEF More
<1>8. \A i \in DOMAIN Fresh(n) : \/ Primitive(declared'[Fresh(n)[i]].type)
                                 \/ declared'[Fresh(n)[i]].type.node # 0
      BY <1>2 DEF Dangling, Range
<1>9. Fixes(declared', fixups')
  <2>1. PICK h \in Nat : h = Len(fixups)
        BY <1>1 DEF Typed
  <2>2. PICK i \in Nat : i = Len(fixups') /\ DOMAIN fixups' = 1 .. i
        BY DEF BaseInv, Typed
  <2>3. ASSUME NEW j \in 1 .. i
        PROVE  \/ fixups'[j].variable \in 1 .. Len(declared)
               \/ /\ ~Primitive(declared'[fixups'[j].variable].type)
                  /\ declared'[fixups'[j].variable].type.node = 0
    <3>1. CASE j \in 1 .. h
      <4>1. fixups'[j] = fixups[j] /\ j \in DOMAIN fixups
            BY <1>1, <1>2, <1>5, <2>1, <3>1 DEF More, Typed
      <4>2. fixups[j].variable \in DOMAIN declared
            BY <1>1, <1>5, <4>1 DEF Refers, TablesOK
      <4>3. DOMAIN declared = 1 .. Len(declared)
            BY <1>1 DEF Typed
      <4>4. QED  BY <4>1, <4>2, <4>3
    <3>2. CASE j \notin 1 .. h
      <4>1. j \in h + 1 .. i
            BY <3>2
      <4>2. declared'[fixups'[j].variable].type.node = 0
            BY <1>2, <1>5, <2>1, <2>2, <4>1 DEF More
      <4>3. declared'[fixups'[j].variable].type.kind = "struct"
        <5>1. TablesOK(Tables', defined)
              BY <1>2 DEF More
        <5>2. QED  BY <1>5, <2>2, <5>1 DEF TablesOK
      <4>4. QED  BY <4>2, <4>3 DEF Primitive
    <3>3. QED  BY <3>1, <3>2
  <2>4. QED  BY <2>2, <2>3 DEF Fixes
<1>10. bodies'[k] = Grown(bodies[k], defined', declared', Fresh(n), form)
      BY <1>2, <1>3, <1>4 DEF g
<1>11. Takes(k, n, form)
       BY <1>6, <1>7, <1>8, <1>10 DEF Takes
<1> USE DEF n, form
<1>12. QED  BY <1>3, <1>4, <1>9, <1>11

\* A declaration of variables, in a body or outside.
LEMMA DeclareHoused ==
    ASSUME BaseInv, BaseInv', Steady, Housed, NEW t \in Types, NEW lengths \in Lists,
           Declare(t[1], t[2], lengths)
    PROVE  Housed'
<1> DEFINE n == Len(lengths)
           form == IF n = 1 THEN "single" ELSE "list"
<1>1. Typed /\ Refers /\ Nests(scopes, bodies, declared)
      BY NestsIs DEF BaseInv, Declare, Reads
<1>2. /\ n \in Nat \ {0}
      /\ bodies = <<>> \/ status' = "crashed" => UNCHANGED bodies
      /\ UNCHANGED <<defined, functions>>
      BY <1>1, DeclareDoes DEF Reads, Parsing
<1>3. CASE UNCHANGED bodies
      BY <1>2, <1>3, OthersHoused
<1>4. CASE bodies # <<>> /\ status' # "crashed"
  <2>1. PICK k : k = Len(bodies)
        OBVIOUS
  <2>2. /\ k \in DOMAIN bodies /\ DOMAIN bodies' = DOMAIN bodies
        /\ \A d \in DOMAIN bodies : d # k => bodies'[d] = bodies[d]
        /\ Takes(k, n, form) /\ Fixes(declared', fixups')
        BY <1>4, <2>1, DeclareTakes
  <2> HIDE DEF n, form
  <2>3. BodyHoused(k) /\ bodies'[k].kind = bodies[k].kind /\ bodies'[k].flag = bodies[k].flag
        BY <1>2, <2>2, TakerHoused
  <2>4. Settled' /\ Roomy'
    <3>1. \A d \in DOMAIN bodies' : BodyHoused(d)
      <4>1. \A d \in DOMAIN bodies : d # k => BodyHoused(d)
            BY <2>2 DEF BodyHoused
      <4>2. QED  BY <2>2, <2>3, <4>1
    <3>2. /\ \A i \in DOMAIN defined' : NodeHoused(i)
          /\ \A f \in DOMAIN functions' : FunctionHoused(f)
          BY <1>2 DEF NodeHoused, FunctionHoused
    <3>3. QED  BY <3>1, <3>2, StepHouses
  <2>5. Flagged'
    <3>1. \A d \in DOMAIN bodies' : /\ d \in DOMAIN bodies
                                    /\ bodies'[d].kind = bodies[d].kind
                                    /\ bodies'[d].flag = bodies[d].flag
          BY <2>2, <2>3
    <3>2. functions' = functions
          BY <1>2
    <3>3. QED  BY <3>1, <3>2 DEF Housed, Flagged
  <2>6. QED  BY <2>4, <2>5 DEF Housed
<1>5. QED  BY <1>2, <1>3, <1>4

\* The end of a struct or union: its body is the last, and the one around it takes
\* a variable combined with it, unless the program ends there.
LEMMA CloseAggregateTakes ==
    ASSUME BaseInv, BaseInv', NEW combined \in BOOLEAN, CloseAggregate(combined)
    PROVE  \E k \in Nat :
              /\ k + 1 = Len(bodies) /\ DOMAIN bodies = 1 .. k + 1
              /\ Body = bodies[k + 1] /\ Body.kind \in Aggregates
              /\ DOMAIN bodies' = 1 .. k
              /\ \A d \in 1 .. k : d # k \/ ~combined \/ ~Parsing' => bodies'[d] = bodies[d]
              /\ k # 0 /\ combined /\ Parsing' =>
                    Takes(k, 1, "combined") /\ Fixes(declared', fixups')
<1> DEFINE n == IF combined THEN 1 ELSE 0
           s == ClosedNode(combined)
           nodes == Append(defined, s)
           outer == SubSeq(bodies, 1, Len(bodies) - 1)
           g == Grown(outer[Len(outer)], nodes, declared', Fresh(n), "combined")
<1>1. Typed /\ Refers /\ Nests(scopes, bodies, declared) /\ Parsing
      BY NestsIs DEF BaseInv, CloseAggregate
<1>2. /\ bodies # <<>> /\ Body.kind \in Aggregates
      /\ defined' = nodes
      /\ Extends(declared, declared') /\ Len(declared') = Len(declared) + n
      /\ fixups' = fixups
      BY <1>1, CloseAggregateDoes
<1>3. \/ /\ combined /\ outer # <<>> /\ ~Dangling(declared', Fresh(n))
         /\ bodies' = [outer EXCEPT ![Len(outer)] = g] /\ Parsing'
      \/ combined /\ outer # <<>> /\ ~Parsing' /\ bodies' = outer
      \/ ~(combined /\ outer # <<>>) /\ bodies' = outer
      BY <1>1, CloseAggregateDoes DEF Parsing
<1> HIDE DEF nodes, s, outer, g
<1>4. PICK k \in Nat : /\ k + 1 = Len(bodies) /\ outer = SubSeq(bodies, 1, k)
                       /\ k \in 0 .. Len(bodies)
  <2>1. PICK l \in Nat \ {0} : l = Len(bodies)
        BY <1>1, <1>2, BodyIs
  <2>2. l - 1 \in Nat /\ (l - 1) + 1 = l /\ l - 1 \in 0 .. l
        OBVIOUS
  <2>3. outer = SubSeq(bodies, 1, l - 1)
        BY <2>1 DEF outer
  <2>4. QED  BY <2>1, <2>2, <2>3
<1>5. bodies \in Seq(BodyNodes) /\ DOMAIN bodies = 1 .. k + 1 /\ 1 .. k \subseteq DOMAIN bodies
      BY <1>1, <1>4 DEF Typed
<1>6. /\ outer \in Seq(BodyNodes) /\ Len(outer) = k /\ DOMAIN outer = 1 .. k
      /\ \A d \in 1 .. k : outer[d] = bodies[d]
      BY <1>4, <1>5, FrontIs
<1>7. Body = bodies[k + 1]
      BY <1>1, <1>2, <1>4, BodyIs
<1>8. CASE bodies' = outer /\ (~(combined /\ outer # <<>>) \/ ~Parsing')
  <2>1. bodies' = outer
        BY <1>8
  <2>2. k = 0 \/ ~combined \/ ~Parsing'
        BY <1>6, <1>8
  <2>3. QED  BY <1>2, <1>4, <1>5, <1>6, <1>7, <2>1, <2>2
<1>9. CASE /\ combined /\ outer # <<>> /\ ~Dangling(declared', Fresh(n))
           /\ bodies' = [outer EXCEPT ![Len(outer)] = g] /\ Parsing'
  <2>1. n = 1 /\ k # 0
        BY <1>6, <1>9
  <2>2. k \in 1 .. k /\ k \in DOMAIN bodies
        BY <1>5, <2>1
  <2>3. bodies' = [outer EXCEPT ![k] = g]
        BY <1>6, <1>9
  <2>4. /\ DOMAIN bodies' = 1 .. k /\ bodies'[k] = g
        /\ \A d \in 1 .. k : d # k => bodies'[d] = bodies[d]
        BY <1>6, <2>2, <2>3
  <2>5. PICK form : form = "combined"
        OBVIOUS
  <2>6. bodies'[k] = Grown(bodies[k], defined', declared', Fresh(n), form)
        BY <1>2, <1>6, <2>2, <2>4, <2>5 DEF g
  <2>7. PICK m \in Nat : m = Len(declared) /\ DOMAIN declared = 1 .. m
        BY <1>1 DEF Typed
  <2>8. \A i \in DOMAIN Fresh(n) : \/ Primitive(declared'[Fresh(n)[i]].type)
                                   \/ declared'[Fresh(n)[i]].type.node # 0
        BY <1>9 DEF Dangling, Range
  <2>9. Fixes(declared', fixups')
    <3>1. \A j \in DOMAIN fixups : fixups[j].variable \in 1 .. m
          BY <1>1, <2>7 DEF Refers, TablesOK, Tables
    <3>2. QED  BY <1>2, <2>7, <3>1 DEF Fixes
  <2>10. Takes(k, n, form)
         BY <1>2, <2>6, <2>8 DEF Takes
  <2>11. Takes(k, 1, "combined")
         BY <2>1, <2>5, <2>10
  <2>12. QED  BY <1>2, <1>4, <1>5, <1>7, <1>9, <2>1, <2>4, <2>9, <2>11
<1>10. QED  BY <1>3, <1>8, <1>9

\* The end of a struct or union: its node holds what its body held, and a
\* variable combined with it goes to the body around it.
LEMMA CloseAggregateHoused ==
    ASSUME BaseInv, BaseInv', Steady, Housed, NEW combined \in BOOLEAN,
           CloseAggregate(combined)
    PROVE  Housed'
<1> DEFINE s == ClosedNode(combined)
           nodes == Append(defined, s)
<1>1. Typed /\ Refers /\ Nests(scopes, bodies, declared)
      BY NestsIs DEF BaseInv, CloseAggregate
<1>2. Body.kind \in Aggregates /\ defined' = nodes /\ fixups' = fixups /\ UNCHANGED functions
      BY <1>1, CloseAggregateDoes
<1>3. /\ Len(nodes) = Len(defined) + 1 /\ nodes[Len(defined) + 1] = s
      /\ nodes \in Seq(StructNodes) /\ Extends(defined, nodes)
      BY <1>1, <1>2, ClosedIs
<1>4. s.holds = Body.holds
      BY DEF ClosedNode
<1> HIDE DEF nodes, s
<1>5. PICK k \in Nat :
              /\ k + 1 = Len(bodies) /\ DOMAIN bodies = 1 .. k + 1
              /\ Body = bodies[k + 1] /\ Body.kind \in Aggregates
              /\ DOMAIN bodies' = 1 .. k
              /\ \A d \in 1 .. k : d # k \/ ~combined \/ ~Parsing' => bodies'[d] = bodies[d]
              /\ k # 0 /\ combined /\ Parsing' =>
                    Takes(k, 1, "combined") /\ Fixes(declared', fixups')
      BY CloseAggregateTakes
<1>6. \A i \in DOMAIN defined' : NodeHoused(i)
  <2>1. PICK c \in Nat : c = Len(defined) /\ DOMAIN defined = 1 .. c
        BY <1>1 DEF Typed
  <2>2. DOMAIN defined' = 1 .. c + 1
        BY <1>2, <1>3, <2>1
  <2>3. ASSUME NEW i \in 1 .. c + 1
        PROVE  NodeHoused(i)
    <3>1. CASE i \in 1 .. c
          BY <1>2, <1>3, <2>1, <3>1 DEF Extends, NodeHoused
    <3>2. CASE i \notin 1 .. c
      <4>1. i = c + 1
            BY <3>2
      <4>2. defined'[i].holds = Body.holds
            BY <1>2, <1>3, <1>4, <2>1, <4>1
      <4>3. Untouched(Body.holds, fixups)
        <5>1. k + 1 \in DOMAIN bodies
              BY <1>5
        <5>2. QED  BY <1>5, <5>1 DEF Housed, Settled
      <4>4. QED  BY <1>2, <4>2, <4>3 DEF NodeHoused
    <3>3. QED  BY <3>1, <3>2
  <2>4. QED  BY <2>2, <2>3
<1>7. \A f \in DOMAIN functions' : FunctionHoused(f)
      BY <1>2 DEF FunctionHoused
<1>8. \A d \in 1 .. k : /\ BodyHoused(d) /\ bodies'[d].kind = bodies[d].kind
                        /\ bodies'[d].flag = bodies[d].flag
  <2>1. \A d \in 1 .. k : d \in DOMAIN bodies
        BY <1>5
  <2>2. ASSUME NEW d \in 1 .. k, d # k \/ ~combined \/ ~Parsing'
        PROVE  BodyHoused(d) /\ bodies'[d] = bodies[d]
        BY <1>5, <2>1, <2>2 DEF BodyHoused
  <2>3. ASSUME k \in 1 .. k, combined, Parsing'
        PROVE  BodyHoused(k) /\ bodies'[k].kind = bodies[k].kind /\ bodies'[k].flag = bodies[k].flag
    <3>1. PICK form : form = "combined"
          OBVIOUS
    <3>2. PICK n \in Nat \ {0} : n = 1
          OBVIOUS
    <3>3. Takes(k, n, form) /\ Fixes(declared', fixups') /\ k \in DOMAIN bodies
          BY <1>5, <2>1, <2>3, <3>1, <3>2
    <3>4. QED  BY <3>3, TakerHoused
  <2>4. QED  BY <2>2, <2>3
<1>9. Settled' /\ Roomy'
      BY <1>5, <1>6, <1>7, <1>8, StepHouses
<1>10. Flagged'
  <2>1. functions' = functions
        BY <1>2
  <2>2. \A d \in 1 .. k : d \in DOMAIN bodies
        BY <1>5
  <2>3. QED  BY <1>5, <1>8, <2>1, <2>2 DEF Housed, Flagged
<1>11. QED  BY <1>9, <1>10 DEF Housed

\* Whatever is read, what is held has room.
LEMMA StepHoused == BaseInv /\ Housed /\ [Next]_vars => Housed'
<1> SUFFICES ASSUME BaseInv, Housed, [Next]_vars
             PROVE  Housed'
    OBVIOUS
<1>1. Steady /\ BaseInv'
      BY StepBase, StepSteady
<1>2. ASSUME UNCHANGED <<bodies, defined, functions>>
      PROVE  Housed'
      BY <1>1, <1>2, OthersHoused
<1>3. CASE Misuse
      BY <1>2, <1>3 DEF Misuse, Abort
<1>4. ASSUME NEW kind \in Aggregates, NEW name \in Names, OpenAggregate(kind, name)
      PROVE  Housed'
      BY <1>1, <1>4, OpenAggregateHoused
<1>5. ASSUME NEW combined \in BOOLEAN, CloseAggregate(combined)
      PROVE  Housed'
      BY <1>1, <1>5, CloseAggregateHoused
<1>6. ASSUME NEW t \in Types, NEW lengths \in Lists, Declare(t[1], t[2], lengths)
      PROVE  Housed'
      BY <1>1, <1>6, DeclareHoused
<1>7. ASSUME NEW types \in Parameters, NEW hasBody \in BOOLEAN, OpenFunction(types, hasBody)
      PROVE  Housed'
      BY <1>1, <1>7, OpenFunctionHoused
<1>8. ASSUME NEW of \in Blocks, OpenBlock(of)
      PROVE  Housed'
      BY <1>1, <1>8, OpenBlockHoused
<1>9. CASE CloseBody
      BY <1>1, <1>9, CloseBodyHoused
<1>10. CASE EndOfText
       BY <1>2, <1>10 DEF EndOfText
<1>11. CASE ResolveFixup
       BY <1>2, <1>11 DEF ResolveFixup
<1>12. CASE FixupsTried
       BY <1>2, <1>12 DEF FixupsTried
<1>13. CASE UNCHANGED vars
       BY <1>2, <1>13 DEF vars
<1>14. QED
       BY <1>3, <1>4, <1>5, <1>6, <1>7, <1>8, <1>9, <1>10, <1>11, <1>12, <1>13 DEF Next, Text

\* So it has at every moment.
THEOREM AllHoused == Spec => []Housed
<1>1. Init => Housed
  <2>1. \A i \in DOMAIN <<>> : FALSE
        OBVIOUS
  <2>2. QED  BY <2>1 DEF Init, Housed, Settled, Roomy, Flagged
<1>2. BaseInv /\ Housed /\ [Next]_vars => Housed'
      BY StepHoused
<1>3. QED  BY <1>1, <1>2, Base, PTL DEF Spec

\* The stack of a function with no else and no plain block has room for every
\* variable of its body and of the bodies of ifs, loops and switches in it, however
\* many and however deep (parse_body).
THEOREM LocalsOnStack == Spec => []StackHoldsLocals
<1>1. BaseInv /\ Housed => StackHoldsLocals
  <2> SUFFICES ASSUME BaseInv, Housed, NEW f \in DOMAIN functions, ~functions[f].detached
               PROVE  functions[f].stack_size >=
                         Total(0, [i \in DOMAIN functions[f].holds |->
                                     datatype_size(declared[functions[f].holds[i]].type)])
      BY DEF StackHoldsLocals
  <2>1. Taken(functions[f].holds, declared) <= functions[f].stack_size
        BY DEF Housed, Roomy
  <2>2. PICK ids \in Seq(Nat) : ids = functions[f].holds /\ Ids(ids, declared)
    <3>1. functions[f] \in FunctionNodes
          BY DEF BaseInv, Typed
    <3>2. functions[f].holds \in Seq(Nat) /\ Ids(functions[f].holds, declared)
          BY <3>1 DEF FunctionNodes, BaseInv, Refers
    <3>3. QED  BY <3>2
  <2>3. Taken(ids, declared) \in Nat
        BY <2>2, TakenIs DEF BaseInv, Typed
  <2>4. functions[f].stack_size \in Nat
    <3>1. functions[f] \in FunctionNodes
          BY DEF BaseInv, Typed
    <3>2. QED  BY <3>1 DEF FunctionNodes
  <2>5. functions[f].stack_size >= Taken(ids, declared)
        BY <2>1, <2>2, <2>3, <2>4
  <2>6. QED  BY <2>2, <2>5 DEF Taken, Sizes
<1>2. QED  BY <1>1, Base, AllHoused, PTL

-----------------------------------------------------------------------------
(* The fields of a struct                                                   *)

Rising(s) == \A k, l \in DOMAIN s : k < l => s[k] < s[l]

\* Combined, among other nodes.
Bound(i, nodes) == \E n \in DOMAIN nodes : nodes[n].var = i

Paddings(ids, vs) == [k \in DOMAIN ids |-> vs[ids[k]].padding]

\* A body of single fields from its start on has room for them all.
Fits(b, vs) ==
    (/\ b.holds = b.statements /\ b.holds # <<>>
     /\ \A k \in DOMAIN b.holds : ~vs[b.holds[k]].type.arrayed
     /\ vs[b.holds[1]].aoffset = 0)
    => EndOf(b.holds[Len(b.holds)], vs) <= Total(b.size, Paddings(b.statements, vs))

\* The body of a struct, with the entities of its scope: these are in order and
\* apart, and what it holds is among them, or combined with a struct in it.
Laid(b, s, vs, nodes) ==
    /\ Rising(s) /\ Spaced(s, vs)
    /\ \A k \in DOMAIN b.holds : b.holds[k] \in Range(s) \/ Bound(b.holds[k], nodes)
    /\ Len(b.statements) <= Len(b.holds)
    /\ b.holds = b.statements => s = b.holds
    /\ Fits(b, vs)

FieldsLaid ==
    Parsing => \A d \in DOMAIN bodies : bodies[d].kind = "struct" =>
                  Laid(bodies[d], scopes[Depth(bodies, d)], declared, defined)

\* A body that is laid out stays so when variables and nodes are added.
LEMMA LaidKept ==
    ASSUME NEW b \in BodyNodes, NEW s \in Seq(Nat), NEW vs, NEW nodes,
           Ids(s, vs), Ids(b.holds, vs), Ids(b.statements, vs), Laid(b, s, vs, nodes),
           NEW ws, Extends(vs, ws), NEW nodes2, Extends(nodes, nodes2)
    PROVE  Laid(b, s, ws, nodes2)
<1>1. \A i \in DOMAIN vs : ws[i] = vs[i]
      BY DEF Extends
<1>2. Spaced(s, ws)
      BY <1>1, SpacedKept DEF Laid
<1>3. \A i : Bound(i, nodes) => Bound(i, nodes2)
      BY DEF Bound, Extends
<1>4. Paddings(b.statements, ws) = Paddings(b.statements, vs)
      BY <1>1 DEF Paddings, Ids
<1>5. \A k \in DOMAIN b.holds : b.holds[k] \in DOMAIN vs /\ ws[b.holds[k]] = vs[b.holds[k]]
      BY <1>1 DEF Ids
<1>6. Fits(b, ws)
  <2>1. SUFFICES ASSUME b.holds = b.statements, b.holds # <<>>,
                        \A k \in DOMAIN b.holds : ~ws[b.holds[k]].type.arrayed,
                        ws[b.holds[1]].aoffset = 0
                 PROVE  EndOf(b.holds[Len(b.holds)], ws)
                           <= Total(b.size, Paddings(b.statements, ws))
        BY DEF Fits
  <2>2. 1 \in DOMAIN b.holds /\ Len(b.holds) \in DOMAIN b.holds
    <3>1. b.holds \in Seq(Nat)
          BY DEF BodyNodes
    <3>2. QED  BY <2>1, <3>1
  <2>3. EndOf(b.holds[Len(b.holds)], ws) = EndOf(b.holds[Len(b.holds)], vs)
        BY <1>5, <2>2 DEF EndOf
  <2>4. /\ \A k \in DOMAIN b.holds : ~vs[b.holds[k]].type.arrayed
        /\ vs[b.holds[1]].aoffset = 0
        BY <1>5, <2>1, <2>2
  <2>5. EndOf(b.holds[Len(b.holds)], vs) <= Total(b.size, Paddings(b.statements, vs))
        BY <2>1, <2>4 DEF Laid, Fits
  <2>6. QED  BY <1>4, <2>3, <2>5
<1>7. \A k \in DOMAIN b.holds : b.holds[k] \in Range(s) \/ Bound(b.holds[k], nodes2)
      BY <1>3 DEF Laid
<1>8. QED  BY <1>2, <1>6, <1>7 DEF Laid

\* A body that holds nothing is laid out.
LEMMA LaidEmpty ==
    ASSUME NEW b, b.holds = <<>>, b.statements = <<>>, NEW s, s = <<>>, NEW vs, NEW nodes
    PROVE  Laid(b, s, vs, nodes)
<1>1. DOMAIN s = {} /\ DOMAIN b.holds = {} /\ Len(b.statements) = 0 /\ Len(b.holds) = 0
      OBVIOUS
<1>2. Rising(s) /\ Spaced(s, vs)
      BY <1>1 DEF Rising, Spaced
<1>3. Fits(b, vs)
      BY DEF Fits
<1>4. QED  BY <1>1, <1>2, <1>3 DEF Laid

\* A single field behind the others: a body that had room for them has room for it.
LEMMA FitsOneMore ==
    ASSUME NEW b \in BodyNodes, NEW nodes \in Seq(StructNodes),
           NEW vs \in Seq(VariableNodes), BodyOK(b, vs),
           NEW id \in DOMAIN vs, NEW ids, ids = <<id>>,
           \A i \in DOMAIN vs : Known(vs[i].type, nodes),
           Primitive(vs[id].type) \/ vs[id].type.node # 0,
           b.holds = b.statements, Fits(b, vs), Spaced(Append(b.holds, id), vs),
           NEW g \in BodyNodes, g.holds = Append(b.holds, id),
           g.statements = Append(b.statements, id),
           g.size = Appended(nodes, vs, ids, b.size)
    PROVE  Fits(g, vs)
<1>1. SUFFICES ASSUME \A k \in DOMAIN g.holds : ~vs[g.holds[k]].type.arrayed,
                      vs[g.holds[1]].aoffset = 0
               PROVE  EndOf(g.holds[Len(g.holds)], vs)
                         <= Total(g.size, Paddings(g.statements, vs))
      BY DEF Fits
<1>2. PICK h \in Seq(Nat) : h = b.holds /\ Ids(h, vs)
  <2>1. b.holds \in Seq(Nat) /\ Ids(b.holds, vs)
        BY DEF BodyNodes, BodyOK
  <2>2. QED  BY <2>1
<1>3. PICK n \in Nat : n = Len(h) /\ DOMAIN h = 1 .. n
      BY <1>2
<1>4. id \in Nat /\ vs[id] \in VariableNodes
      OBVIOUS
<1>5. PICK u \in Seq(Nat) : u = Append(h, id)
  <2>1. Append(h, id) \in Seq(Nat)
        BY <1>4, AppendIs
  <2>2. QED  BY <2>1, Zenon
<1>6. /\ DOMAIN u = 1 .. n + 1 /\ Len(u) = n + 1 /\ u[n + 1] = id
      /\ \A k \in 1 .. n : u[k] = h[k]
      BY <1>3, <1>4, <1>5
<1>7. g.holds = u /\ g.statements = u
      BY <1>2, <1>5
<1>8. PICK x \in Nat : x = vs[id].type.size
      BY <1>4, VariablesAre
<1>9. PICK pad \in Nat : pad = vs[id].padding
      BY <1>4, VariablesAre
<1>10. PICK z \in Nat : z = b.size
       BY DEF BodyNodes
<1>11. PICK p \in Seq(Nat) : p = Paddings(h, vs)
  <2>1. \A k \in DOMAIN h : vs[h[k]] \in VariableNodes
        BY <1>2 DEF Ids
  <2>2. \A k \in 1 .. n : vs[h[k]].padding \in Nat
        BY <1>3, <2>1, VariablesAre
  <2>3. [k \in 1 .. n |-> vs[h[k]].padding] \in Seq(Nat)
        BY <2>2
  <2>4. QED  BY <1>3, <2>3 DEF Paddings
<1>12. PICK T \in Nat : T = Total(z, p)
       BY TotalIsNat
<1>13. Paddings(u, vs) = Append(p, pad)
  <2>1. DOMAIN p = 1 .. n /\ Len(p) = n /\ \A k \in 1 .. n : p[k] = vs[h[k]].padding
        BY <1>3, <1>11 DEF Paddings
  <2>2. PICK q \in Seq(Nat) : q = Append(p, pad)
    <3>1. Append(p, pad) \in Seq(Nat)
          BY AppendIs
    <3>2. QED  BY <3>1, Zenon
  <2>3. /\ DOMAIN q = 1 .. n + 1 /\ Len(q) = n + 1 /\ q[n + 1] = pad
        /\ \A k \in 1 .. n : q[k] = p[k]
        BY <2>1, <2>2
  <2>4. q = [k \in 1 .. n + 1 |-> q[k]]
        BY <2>3
  <2>5. ASSUME NEW k \in 1 .. n + 1
        PROVE  q[k] = vs[u[k]].padding
    <3>1. CASE k \in 1 .. n
      <4>1. q[k] = p[k] /\ p[k] = vs[h[k]].padding /\ u[k] = h[k]
            BY <1>6, <2>1, <2>3, <3>1
      <4>2. QED  BY <4>1
    <3>2. CASE k \notin 1 .. n
      <4>1. k = n + 1
            BY <3>2
      <4>2. QED  BY <1>6, <1>9, <2>3, <4>1
    <3>3. QED  BY <3>1, <3>2
  <2>6. [k \in 1 .. n + 1 |-> q[k]] = [k \in 1 .. n + 1 |-> vs[u[k]].padding]
        BY <2>5
  <2>7. QED  BY <1>6, <2>2, <2>4, <2>6 DEF Paddings
<1>14. PICK d \in Nat : g.size = z + d /\ d >= x
  <2>1. /\ ids \in Seq(Nat) /\ Ids(ids, vs) /\ DOMAIN ids = {1} /\ ids[1] = id
        BY <1>4 DEF Ids
  <2>2. /\ Appended(nodes, vs, ids, z) \in Nat
        /\ Appended(nodes, vs, ids, z) >= Total(z, Sizes(ids, vs))
        BY <2>1, AppendedIs
  <2>3. Total(z, Sizes(ids, vs)) = z + x
    <3>1. datatype_size(vs[id].type) = x
          BY <1>1, <1>3, <1>6, <1>7, <1>8 DEF datatype_size
    <3>2. Sizes(ids, vs) = <<x>>
          BY <2>1, <3>1 DEF Sizes
    <3>3. PICK e \in Seq(Nat) : e = <<>>
      <4>1. <<>> \in Seq(Nat)
            OBVIOUS
      <4>2. QED  BY <4>1, Zenon
    <3>4. <<x>> = Append(e, x)
          BY <3>3
    <3>5. Total(z, Append(e, x)) = Total(z, e) + x
          BY TotalAppended
    <3>6. Total(z, e) = z
          BY <3>3, TotalOfNone
    <3>7. QED  BY <3>2, <3>4, <3>5, <3>6
  <2>4. PICK w \in Nat : w = Appended(nodes, vs, ids, z)
        BY <2>2
  <2>5. w >= z + x
        BY <2>2, <2>3, <2>4
  <2>6. w - z \in Nat /\ w = z + (w - z) /\ w - z >= x
        BY <2>5
  <2>7. g.size = w
        BY <1>10, <2>4
  <2>8. QED  BY <2>6, <2>7
<1>15. Total(g.size, Paddings(g.statements, vs)) = T + d + pad
  <2>1. Total(z + d, p) = Total(z, p) + d
        BY TotalShifted
  <2>2. Total(z + d, Append(p, pad)) = Total(z + d, p) + pad
        BY TotalAppended
  <2>3. QED  BY <1>7, <1>12, <1>13, <1>14, <2>1, <2>2
<1>16. PICK a \in Nat : a = vs[id].aoffset
       BY <1>4, VariablesAre
<1>17. EndOf(g.holds[Len(g.holds)], vs) = a + x
       BY <1>6, <1>7, <1>8, <1>16 DEF EndOf
<1>18. a <= T + pad
  <2>1. CASE n = 0
    <3>1. u[1] = id
          BY <1>6, <2>1
    <3>2. QED  BY <1>1, <1>7, <1>16, <3>1
  <2>2. CASE n # 0
    <3>1. n \in 1 .. n /\ 1 \in 1 .. n /\ h # <<>>
          BY <1>3, <2>2
    <3>2. EndOf(h[n], vs) <= T
      <4>1. ASSUME NEW k \in 1 .. n
            PROVE  ~vs[h[k]].type.arrayed
        <5>1. k \in 1 .. n + 1
              OBVIOUS
        <5>2. ~vs[u[k]].type.arrayed
              BY <1>1, <1>6, <1>7, <5>1
        <5>3. QED  BY <1>6, <5>2
      <4>2. vs[h[1]].aoffset = 0
            BY <1>1, <1>6, <1>7, <3>1
      <4>3. QED  BY <1>2, <1>3, <1>10, <1>11, <1>12, <3>1, <4>1, <4>2 DEF Fits
    <3>3. a = EndOf(h[n], vs) + pad
      <4>1. n + 1 \in DOMAIN u /\ n + 1 > 1 /\ n + 1 - 1 = n
            BY <1>6, <2>2
      <4>2. vs[u[n + 1]].aoffset = EndOf(u[n + 1 - 1], vs) + vs[u[n + 1]].padding
        <5>1. Spaced(u, vs)
              BY <1>2, <1>5
        <5>2. PICK k \in DOMAIN u : k = n + 1 /\ k > 1
              BY <4>1
        <5>3. vs[u[k]].aoffset = EndOf(u[k - 1], vs) + vs[u[k]].padding
              BY <5>1, <5>2 DEF Spaced
        <5>4. QED  BY <5>2, <5>3
      <4>3. QED  BY <1>6, <1>9, <1>16, <3>1, <4>1, <4>2
    <3>4. EndOf(h[n], vs) \in Nat
      <4>1. PICK i \in DOMAIN vs : i = h[n]
            BY <1>2, <1>3, <3>1 DEF Ids
      <4>2. vs[i] \in VariableNodes
            OBVIOUS
      <4>3. PICK v \in VariableNodes : v = vs[i]
            BY <4>2
      <4>4. v.aoffset \in Nat /\ v.type.size \in Nat
            BY VariablesAre
      <4>5. v.aoffset + v.type.size \in Nat
            BY <4>4
      <4>6. EndOf(h[n], vs) = v.aoffset + v.type.size
            BY <4>1, <4>3 DEF EndOf
      <4>7. QED  BY <4>5, <4>6
    <3>5. QED  BY <3>2, <3>3, <3>4
  <2>3. QED  BY <2>1, <2>2
<1>19. QED  BY <1>14, <1>15, <1>17, <1>18

\* A single variable at the end of another sequence.
LEMMA JoinedOne ==
    ASSUME NEW s \in Seq(Nat), NEW i \in Nat
    PROVE  s \o <<i>> = Append(s, i)
OBVIOUS

\* All but the end of a sequence, read off the whole.
LEMMA FrontOf ==
    ASSUME NEW s \in Seq(Nat), NEW i \in Nat, NEW u, u = Append(s, i)
    PROVE  Len(u) = Len(s) + 1 /\ s = [k \in 1 .. Len(u) - 1 |-> u[k]]
<1>1. PICK m \in Nat : m = Len(s) /\ DOMAIN s = 1 .. m
      OBVIOUS
<1>2. Len(u) = m + 1 /\ \A k \in 1 .. m : u[k] = s[k]
      BY <1>1, AppendIs
<1>3. s = [k \in 1 .. m |-> s[k]]
      BY <1>1
<1>4. s = [k \in 1 .. m |-> u[k]]
      BY <1>2, <1>3
<1>5. Len(u) - 1 = m
      BY <1>2
<1>6. QED  BY <1>1, <1>2, <1>4, <1>5

\* What the end is taken off of is the same, if the whole is.
LEMMA AppendedSame ==
    ASSUME NEW s \in Seq(Nat), NEW t \in Seq(Nat), NEW i \in Nat,
           Append(s, i) = Append(t, i)
    PROVE  s = t
<1>1. PICK u : u = Append(s, i)
      OBVIOUS
<1>2. s = [k \in 1 .. Len(u) - 1 |-> u[k]]
      BY <1>1, FrontOf
<1>3. t = [k \in 1 .. Len(u) - 1 |-> u[k]]
      BY <1>1, FrontOf
<1>4. QED  BY <1>2, <1>3

\* The scope s becomes t, with ids in it or combined with structs; a single one
\* goes to the end.
Placed(ids, s, t, vs, nodes, form) ==
    /\ s \in Seq(Nat) /\ t \in Seq(Nat)
    /\ Rising(t) /\ Spaced(t, vs) /\ Range(s) \subseteq Range(t)
    /\ \A k \in DOMAIN ids : ids[k] \in Range(t) \/ Bound(ids[k], nodes)
    /\ form = "single" => Len(ids) = 1 /\ t = s \o ids

\* A body takes in variables: single fields that follow those it has, or others,
\* which are in its scope or combined with a struct.
LEMMA LaidTaken ==
    ASSUME NEW b \in BodyNodes, NEW nodes \in Seq(StructNodes),
           NEW vs \in Seq(VariableNodes), BodyOK(b, vs),
           NEW s, Laid(b, s, vs, nodes),
           NEW ids \in Seq(Nat), ids # <<>>, Ids(ids, vs),
           \A i \in DOMAIN vs : Known(vs[i].type, nodes),
           \A k \in DOMAIN ids : Primitive(vs[ids[k]].type) \/ vs[ids[k]].type.node # 0,
           NEW t, NEW form, Placed(ids, s, t, vs, nodes, form)
    PROVE  Laid(Grown(b, nodes, vs, ids, form), t, vs, nodes)
<1> DEFINE g == Grown(b, nodes, vs, ids, form)
<1>1. /\ g \in BodyNodes /\ BodyOK(g, vs)
      /\ g.size = Appended(nodes, vs, ids, b.size)
      /\ g.holds = b.holds \o ids
      /\ g.statements = IF form = "single" THEN Append(b.statements, ids[1])
                        ELSE b.statements
  <2>1. g \in BodyNodes /\ BodyOK(g, vs)
        BY GrownIs
  <2>2. g.size = Appended(nodes, vs, ids, b.size)
        BY GrownIs
  <2>3. g.holds = b.holds \o ids
        BY GrownIs, SMTT(40)
  <2>4. g.statements = IF form = "single" THEN Append(b.statements, ids[1])
                       ELSE b.statements
        BY GrownIs
  <2>5. QED  BY <2>1, <2>2, <2>3, <2>4
<1> HIDE DEF g
<1>2. PICK h \in Seq(Nat) : h = b.holds
  <2>1. b.holds \in Seq(Nat)
        BY DEF BodyNodes
  <2>2. QED  BY <2>1, Zenon
<1>3. PICK c \in Seq(Nat) : c = b.statements
  <2>1. b.statements \in Seq(Nat)
        BY DEF BodyNodes
  <2>2. QED  BY <2>1, Zenon
<1>4. \A k \in DOMAIN h : h[k] \in Range(s) \/ Bound(h[k], nodes)
      BY <1>2 DEF Laid
<1>5. \A k \in DOMAIN g.holds : g.holds[k] \in Range(t) \/ Bound(g.holds[k], nodes)
  <2>1. g.holds = h \o ids
        BY <1>1, <1>2
  <2>2. Range(g.holds) = Range(h) \cup Range(ids)
        BY <2>1, RangeJoined
  <2>3. \A k \in DOMAIN g.holds : g.holds[k] \in Range(g.holds)
        BY DEF Range
  <2>4. \A i \in Range(h) : i \in Range(t) \/ Bound(i, nodes)
        BY <1>4 DEF Range, Placed
  <2>5. \A i \in Range(ids) : i \in Range(t) \/ Bound(i, nodes)
        BY DEF Range, Placed
  <2>6. QED  BY <2>2, <2>3, <2>4, <2>5
<1>6. PICK m \in Nat : m = Len(h)
      OBVIOUS
<1>7. PICK e \in Nat : e = Len(c)
      OBVIOUS
<1>8. PICK n \in Nat \ {0} : n = Len(ids)
      OBVIOUS
<1>9. e <= m /\ (h = c => s = h) /\ Fits(b, vs)
      BY <1>2, <1>3, <1>6, <1>7 DEF Laid
<1>10. Len(g.holds) = m + n
       BY <1>1, <1>2, <1>6, <1>8
<1>11. CASE form # "single"
  <2>1. g.statements = c
        BY <1>1, <1>3, <1>11
  <2>2. Len(g.statements) <= Len(g.holds) /\ g.holds # g.statements
    <3>1. e <= m + n /\ e # m + n
          BY <1>9
    <3>2. QED  BY <1>7, <1>10, <2>1, <3>1
  <2>3. Fits(g, vs)
        BY <2>2 DEF Fits
  <2>4. QED  BY <1>5, <2>2, <2>3 DEF Laid, Placed, g
<1>12. CASE form = "single"
  <2>1. PICK id \in DOMAIN vs : id = ids[1] /\ id \in Nat
    <3>1. 1 \in DOMAIN ids
          BY <1>8
    <3>2. ids[1] \in DOMAIN vs /\ ids[1] \in Nat
          BY <3>1 DEF Ids
    <3>3. QED  BY <3>2, Zenon
  <2>2. n = 1 /\ ids = <<id>>
        BY <1>8, <1>12, <2>1 DEF Placed
  <2>3. g.holds = Append(h, id)
        BY <1>1, <1>2, <2>1, <2>2, JoinedOne
  <2>4. g.statements = Append(c, id)
        BY <1>1, <1>3, <1>12, <2>1
  <2>5. t = Append(s, id)
    <3>1. s \in Seq(Nat) /\ t = s \o ids
          BY <1>12 DEF Placed
    <3>2. QED  BY <2>1, <2>2, <3>1, JoinedOne
  <2>6. Len(g.statements) <= Len(g.holds)
    <3>1. Len(g.statements) = e + 1
          BY <1>7, <2>1, <2>4, AppendIs
    <3>2. QED  BY <1>9, <1>10, <2>2, <3>1
  <2>7. ASSUME g.holds = g.statements
        PROVE  h = c
        BY <2>1, <2>3, <2>4, <2>7, AppendedSame
  <2>8. g.holds = g.statements => t = g.holds
        BY <1>9, <2>3, <2>5, <2>7
  <2>9. Fits(g, vs)
    <3>1. CASE g.holds # g.statements
          BY <3>1 DEF Fits
    <3>2. CASE g.holds = g.statements
      <4>1. h = c /\ s = h
            BY <1>9, <2>7, <3>2
      <4>2. Spaced(Append(h, id), vs)
            BY <2>5, <4>1 DEF Placed
      <4>3. b.holds = b.statements
            BY <1>2, <1>3, <4>1
      <4>4. Primitive(vs[id].type) \/ vs[id].type.node # 0
            BY <1>8, <2>1, <2>2
      <4>5. g.holds = Append(b.holds, id) /\ g.statements = Append(b.statements, id)
            BY <1>2, <1>3, <2>3, <2>4
      <4>6. Spaced(Append(b.holds, id), vs)
            BY <1>2, <4>2
      <4>7. QED  BY <1>1, <1>9, <2>2, <4>3, <4>4, <4>5, <4>6, FitsOneMore
    <3>3. QED  BY <3>1, <3>2
  <2>10. QED  BY <1>5, <2>6, <2>8, <2>9 DEF Laid, Placed, g
<1>13. QED  BY <1>11, <1>12

\* What FieldsApart and FieldsInside say of a node, with the tables explicit.
PlainIn(n, vs, nodes) ==
    /\ n.kind = "struct"
    /\ \A i \in Range(n.holds) : ~vs[i].type.arrayed /\ ~Bound(i, nodes)
ApartIn(n, vs) ==
    /\ \A i, j \in Range(n.holds) : i < j => EndOf(i, vs) <= vs[j].aoffset
    /\ \A i \in Range(n.holds) :
          Primitive(vs[i].type) => vs[i].aoffset % vs[i].type.size = 0
InsideIn(n, vs) ==
    (n.holds = n.statements /\ n.holds # <<>> /\ vs[n.holds[1]].aoffset = 0)
    => /\ \A i \in Range(n.holds) : EndOf(i, vs) <= n.size
       /\ n.largest # 0 => n.size % n.largest = 0
NodeLaid(n, vs, nodes) == PlainIn(n, vs, nodes) => ApartIn(n, vs) /\ InsideIn(n, vs)
NodesLaid == \A n \in DOMAIN defined : NodeLaid(defined[n], declared, defined)

\* A node that is laid out stays so while its fields stay as they are.
LEMMA NodeLaidKept ==
    ASSUME NEW n, NEW vs, NEW nodes, NodeLaid(n, vs, nodes),
           NEW ws, \A i \in Range(n.holds) : ws[i] = vs[i],
           n.holds # <<>> => n.holds[1] \in Range(n.holds),
           NEW nodes2, Extends(nodes, nodes2)
    PROVE  NodeLaid(n, ws, nodes2)
<1>1. \A i : Bound(i, nodes) => Bound(i, nodes2)
      BY DEF Bound, Extends
<1>2. PlainIn(n, ws, nodes2) => PlainIn(n, vs, nodes)
      BY <1>1 DEF PlainIn
<1>3. \A i \in Range(n.holds) : EndOf(i, ws) = EndOf(i, vs)
      BY DEF EndOf
<1>4. ApartIn(n, vs) => ApartIn(n, ws)
      BY <1>3 DEF ApartIn
<1>5. InsideIn(n, vs) => InsideIn(n, ws)
      BY <1>3 DEF InsideIn
<1>6. QED  BY <1>2, <1>4, <1>5 DEF NodeLaid

\* Fields of a scope are apart, the newer ones behind.
LEMMA ScopeApart ==
    ASSUME NEW vs \in Seq(VariableNodes), NEW s \in Seq(Nat), Ids(s, vs),
           Rising(s), Spaced(s, vs)
    PROVE  /\ \A i, j \in Range(s) : i < j => EndOf(i, vs) <= vs[j].aoffset
           /\ \A i \in Range(s) :
                 Primitive(vs[i].type) => vs[i].aoffset % vs[i].type.size = 0
           /\ \A i \in Range(s) : EndOf(i, vs) <= EndOf(s[Len(s)], vs)
<1>1. PICK n \in Nat : n = Len(s) /\ DOMAIN s = 1 .. n
      OBVIOUS
<1>2. ASSUME NEW i \in Range(s), NEW j \in Range(s), i < j
      PROVE  EndOf(i, vs) <= vs[j].aoffset
  <2>1. PICK k \in 1 .. n : i = s[k]
        BY <1>1 DEF Range
  <2>2. PICK l \in 1 .. n : j = s[l]
        BY <1>1 DEF Range
  <2>3. i \in Nat /\ j \in Nat
        BY <1>1, <2>1, <2>2
  <2>4. k < l
    <3>1. CASE k = l
      <4>1. i = j
            BY <2>1, <2>2, <3>1
      <4>2. QED  BY <1>2, <2>3, <4>1
    <3>2. CASE l < k
      <4>1. j < i
            BY <1>1, <2>1, <2>2, <3>2 DEF Rising
      <4>2. QED  BY <1>2, <2>3, <4>1
    <3>3. QED  BY <3>1, <3>2
  <2>5. EndOf(s[k], vs) <= vs[s[l]].aoffset
        BY <1>1, <2>4 DEF Spaced
  <2>6. QED  BY <2>1, <2>2, <2>5
<1>3. ASSUME NEW i \in Range(s), Primitive(vs[i].type)
      PROVE  vs[i].aoffset % vs[i].type.size = 0
  <2>1. PICK k \in DOMAIN s : i = s[k]
        BY DEF Range
  <2>2. QED  BY <1>3, <2>1 DEF Spaced
<1>4. ASSUME NEW i \in Range(s)
      PROVE  EndOf(i, vs) <= EndOf(s[Len(s)], vs)
  <2>1. PICK k \in 1 .. n : i = s[k]
        BY <1>1 DEF Range
  <2>2. n \in 1 .. n
        OBVIOUS
  <2>3. PICK v \in VariableNodes : v = vs[s[n]]
    <3>1. PICK j \in DOMAIN vs : j = s[n]
          BY <1>1, <2>2 DEF Ids
    <3>2. vs[j] \in VariableNodes
          OBVIOUS
    <3>3. QED  BY <3>1, <3>2
  <2>4. PICK u \in VariableNodes : u = vs[i]
    <3>1. PICK j \in DOMAIN vs : j = i
          BY <1>1, <2>1 DEF Ids
    <3>2. vs[j] \in VariableNodes
          OBVIOUS
    <3>3. QED  BY <3>1, <3>2
  <2>5. PICK a \in Nat : a = v.aoffset
        BY VariablesAre
  <2>6. PICK x \in Nat : x = v.type.size
        BY VariablesAre
  <2>7. PICK e \in Nat : e = EndOf(i, vs)
    <3>1. u.aoffset \in Nat /\ u.type.size \in Nat
          BY VariablesAre
    <3>2. u.aoffset + u.type.size \in Nat
          BY <3>1
    <3>3. EndOf(i, vs) = u.aoffset + u.type.size
          BY <2>4 DEF EndOf
    <3>4. QED  BY <3>2, <3>3
  <2>8. EndOf(s[n], vs) = a + x
        BY <2>3, <2>5, <2>6 DEF EndOf
  <2>9. CASE k = n
    <3>1. e = a + x
          BY <2>1, <2>7, <2>8, <2>9
    <3>2. QED  BY <1>1, <2>7, <2>8, <3>1
  <2>10. CASE k < n
    <3>1. EndOf(s[k], vs) <= vs[s[n]].aoffset
          BY <1>1, <2>2, <2>10 DEF Spaced
    <3>2. e <= a
          BY <2>1, <2>3, <2>5, <2>7, <3>1
    <3>3. QED  BY <1>1, <2>7, <2>8, <3>2
  <2>11. QED  BY <2>9, <2>10
<1>5. QED  BY <1>2, <1>3, <1>4

\* The node of a struct whose body was laid out is laid out.
LEMMA ClosedLaid ==
    ASSUME Typed, Refers, NEW b \in BodyNodes, BodyOK(b, declared), b.kind = "struct",
           NEW s \in Seq(Nat), Ids(s, declared), Laid(b, s, declared, defined),
           NEW nodes, Extends(defined, nodes),
           NEW n, n.kind = b.kind, n.holds = b.holds, n.statements = b.statements,
           n.size = FinalSize(b),
           n.largest = IF b.eligible = 0 THEN 0 ELSE declared[b.eligible].type.size
    PROVE  NodeLaid(n, declared, nodes)
<1>1. SUFFICES ASSUME PlainIn(n, declared, nodes)
               PROVE  ApartIn(n, declared) /\ InsideIn(n, declared)
      BY DEF NodeLaid
<1>2. declared \in Seq(VariableNodes)
      BY DEF Typed
<1>3. /\ \A i, j \in Range(s) : i < j => EndOf(i, declared) <= declared[j].aoffset
      /\ \A i \in Range(s) : Primitive(declared[i].type) =>
                                declared[i].aoffset % declared[i].type.size = 0
      /\ \A i \in Range(s) : EndOf(i, declared) <= EndOf(s[Len(s)], declared)
      BY <1>2, ScopeApart DEF Laid
<1>4. \A i \in Range(n.holds) : i \in Range(s)
  <2>1. \A i : Bound(i, defined) => Bound(i, nodes)
        BY DEF Bound, Extends
  <2>2. ASSUME NEW k \in DOMAIN b.holds
        PROVE  b.holds[k] \in Range(s)
    <3>1. b.holds[k] \in Range(n.holds)
          BY DEF Range
    <3>2. ~Bound(b.holds[k], nodes)
          BY <1>1, <3>1 DEF PlainIn
    <3>3. QED  BY <2>1, <3>2 DEF Laid
  <2>3. QED  BY <2>2 DEF Range
<1>5. ApartIn(n, declared)
      BY <1>3, <1>4 DEF ApartIn
<1>6. ASSUME n.holds = n.statements, n.holds # <<>>, declared[n.holds[1]].aoffset = 0
      PROVE  \A i \in Range(n.holds) : EndOf(i, declared) <= n.size
  <2>1. b.holds = b.statements /\ s = b.holds
        BY <1>6 DEF Laid
  <2>2. \A k \in DOMAIN b.holds : ~declared[b.holds[k]].type.arrayed
        BY <1>1 DEF PlainIn, Range
  <2>3. EndOf(b.holds[Len(b.holds)], declared) <= Total(b.size, Paddings(b.statements, declared))
        BY <1>6, <2>1, <2>2 DEF Laid, Fits
  <2>4. FinalSize(b) \in Nat /\ FinalSize(b) >= Padded(b.statements, b.size)
        BY FinalSizeIs
  <2>5. Padded(b.statements, b.size) = Total(b.size, Paddings(b.statements, declared))
        BY DEF Padded, Paddings
  <2>6. PICK p \in Nat : p = Padded(b.statements, b.size)
    <3>1. b.statements \in Seq(Nat) /\ Ids(b.statements, declared) /\ b.size \in Nat
          BY DEF BodyNodes, BodyOK
    <3>2. Padded(b.statements, b.size) \in Nat
          BY <3>1, PaddedIs
    <3>3. QED  BY <3>2
  <2>7. PICK z \in Nat : z = n.size
        BY <2>4
  <2>8. EndOf(s[Len(s)], declared) <= p /\ p <= z
        BY <2>1, <2>3, <2>4, <2>5, <2>6, <2>7
  <2>9. ASSUME NEW i \in Range(n.holds)
        PROVE  EndOf(i, declared) <= z
    <3>1. PICK k \in DOMAIN s : i = s[k]
          BY <1>4 DEF Range
    <3>2. EndOf(i, declared) <= EndOf(s[Len(s)], declared)
          BY <1>3, <1>4
    <3>3. \A k2 \in DOMAIN s : EndOf(s[k2], declared) \in Nat
      <4>1. \A v \in VariableNodes : v.aoffset \in Nat /\ v.type.size \in Nat
            BY VariablesAre
      <4>2. \A k2 \in DOMAIN s : declared[s[k2]] \in VariableNodes
            BY <1>2 DEF Ids
      <4>3. \A v \in VariableNodes : v.aoffset + v.type.size \in Nat
            BY <4>1
      <4>4. QED  BY <4>2, <4>3 DEF EndOf
    <3>4. Len(s) \in DOMAIN s
          BY <3>1
    <3>5. EndOf(i, declared) \in Nat /\ EndOf(s[Len(s)], declared) \in Nat
          BY <3>1, <3>3, <3>4
    <3>6. QED  BY <2>8, <3>2, <3>5
  <2>10. QED  BY <2>7, <2>9
<1>7. n.largest # 0 => n.size % n.largest = 0
  <2>1. b.eligible # 0 => FinalSize(b) % declared[b.eligible].type.size = 0
        BY FinalSizeIs
  <2>2. QED  BY <2>1
<1>8. InsideIn(n, declared)
      BY <1>6, <1>7 DEF InsideIn
<1>9. QED  BY <1>5, <1>8

-----------------------------------------------------------------------------
(* Fields, step by step                                                    *)

\* A body is as it was, with its scope, or is laid out.
BodyLaid(d) ==
    \/ /\ d \in DOMAIN bodies /\ bodies'[d] = bodies[d]
       /\ scopes'[Depth(bodies', d)] = scopes[Depth(bodies, d)]
    \/ Laid(bodies'[d], scopes'[Depth(bodies', d)], declared', defined')

\* The scope of a body is there, with variables in it.
LEMMA ScopeIs ==
    ASSUME Typed, Refers, Nests(scopes, bodies, declared), NEW d \in DOMAIN bodies
    PROVE  /\ Depth(bodies, d) \in 2 .. Len(scopes) /\ Len(scopes) \in Nat
           /\ d < Len(bodies) => Depth(bodies, d) < Len(scopes)
           /\ scopes[Depth(bodies, d)] \in Seq(Nat)
           /\ Ids(scopes[Depth(bodies, d)], declared)
<1>1. PICK m \in Nat : m = Len(bodies) /\ DOMAIN bodies = 1 .. m
      BY DEF Typed
<1>2. PICK k \in Nat : k = Len(scopes) /\ DOMAIN scopes = 1 .. k
      BY DEF Typed
<1>3. Depth(bodies, m) = k
      BY <1>1, <1>2 DEF Nests
<1>4. Depth(bodies, d) \in 2 .. Depth(bodies, m) /\ (d < m => Depth(bodies, d) < Depth(bodies, m))
      BY <1>1, DepthBelow
<1>5. Depth(bodies, d) \in DOMAIN scopes
      BY <1>2, <1>3, <1>4
<1>6. scopes[Depth(bodies, d)] \in Seq(Nat)
      BY <1>5 DEF Typed
<1>7. Ids(scopes[Depth(bodies, d)], declared)
      BY <1>5 DEF Refers, TablesOK, Tables
<1>8. QED  BY <1>1, <1>2, <1>3, <1>4, <1>6, <1>7

\* Then those that a step keeps, or lays out, are laid out.
LEMMA StepLays ==
    ASSUME BaseInv, FieldsLaid, Parsing,
           Extends(declared, declared'), Extends(defined, defined'),
           \A d \in DOMAIN bodies' : bodies'[d].kind = "struct" => BodyLaid(d)
    PROVE  FieldsLaid'
<1>1. Typed /\ Refers /\ Nests(scopes, bodies, declared)
      BY NestsIs DEF BaseInv
<1>2. ASSUME NEW d \in DOMAIN bodies, bodies[d].kind = "struct"
      PROVE  Laid(bodies[d], scopes[Depth(bodies, d)], declared', defined')
  <2>1. PICK s \in Seq(Nat) : s = scopes[Depth(bodies, d)] /\ Ids(s, declared)
        BY <1>1, ScopeIs
  <2>2. PICK b \in BodyNodes : b = bodies[d] /\ BodyOK(b, declared)
    <3>1. bodies[d] \in BodyNodes /\ BodyOK(bodies[d], declared)
          BY <1>1 DEF Typed, Refers
    <3>2. QED  BY <3>1
  <2>3. Laid(b, s, declared, defined)
        BY <1>2, <2>1, <2>2 DEF FieldsLaid
  <2>4. Ids(b.holds, declared) /\ Ids(b.statements, declared)
        BY <2>2 DEF BodyOK
  <2>5. Laid(b, s, declared', defined')
        BY <2>1, <2>3, <2>4, LaidKept
  <2>6. QED  BY <2>1, <2>2, <2>5
<1>3. ASSUME NEW d \in DOMAIN bodies', bodies'[d].kind = "struct"
      PROVE  Laid(bodies'[d], scopes'[Depth(bodies', d)], declared', defined')
  <2>1. CASE /\ d \in DOMAIN bodies /\ bodies'[d] = bodies[d]
             /\ scopes'[Depth(bodies', d)] = scopes[Depth(bodies, d)]
        BY <1>2, <1>3, <2>1
  <2>2. QED  BY <1>3, <2>1 DEF BodyLaid
<1>4. QED  BY <1>3 DEF FieldsLaid

\* The nodes that were there stay laid out.
LEMMA StepLaysNodes ==
    ASSUME BaseInv, Settled, Steady, NodesLaid, Extends(defined, defined'),
           \A n \in DOMAIN defined' :
               n \in DOMAIN defined \/ NodeLaid(defined'[n], declared', defined')
    PROVE  NodesLaid'
<1>1. ASSUME NEW n \in DOMAIN defined
      PROVE  NodeLaid(defined'[n], declared', defined')
  <2>1. PICK h \in Seq(Nat) : h = defined[n].holds
    <3>1. defined[n] \in StructNodes
          BY DEF BaseInv, Typed
    <3>2. defined[n].holds \in Seq(Nat)
          BY <3>1 DEF StructNodes
    <3>3. QED  BY <3>2, Zenon
  <2>2. Ids(h, declared) /\ Untouched(h, fixups)
        BY <2>1 DEF BaseInv, Refers, NodeOK, Settled
  <2>3. \A k \in DOMAIN h : declared'[h[k]] = declared[h[k]]
        BY <2>2, HeldKept
  <2>4. \A i \in Range(h) : declared'[i] = declared[i]
        BY <2>3 DEF Range
  <2>5. h # <<>> => h[1] \in Range(h)
        BY DEF Range
  <2>6. NodeLaid(defined[n], declared, defined)
        BY DEF NodesLaid
  <2>7. NodeLaid(defined[n], declared', defined')
        BY <2>1, <2>4, <2>5, <2>6, NodeLaidKept
  <2>8. QED  BY <2>7 DEF Extends
<1>2. QED  BY <1>1 DEF NodesLaid

\* A body that begins has no fields yet, and the others stay.
LEMMA OpenedLaid ==
    ASSUME BaseInv, BaseInv', FieldsLaid, Parsing, Parsing',
           NEW b \in BodyNodes, b.holds = <<>>, b.statements = <<>>,
           bodies' = Append(bodies, b),
           \A s \in 1 .. Len(scopes) : scopes'[s] = scopes[s],
           UNCHANGED <<declared, defined>>
    PROVE  FieldsLaid'
<1>1. Typed /\ Refers /\ Nests(scopes, bodies, declared)
      BY NestsIs DEF BaseInv
<1>2. PICK k \in Nat : k = Len(bodies) /\ DOMAIN bodies = 1 .. k
      BY <1>1 DEF Typed
<1>3. /\ DOMAIN bodies' = 1 .. k + 1 /\ bodies'[k + 1] = b
      /\ \A d \in 1 .. k : bodies'[d] = bodies[d]
  <2>1. bodies \in Seq(BodyNodes)
        BY <1>1 DEF Typed
  <2>2. /\ Append(bodies, b) \in Seq(BodyNodes) /\ Len(Append(bodies, b)) = k + 1
        /\ Append(bodies, b)[k + 1] = b
        /\ \A d \in 1 .. k : Append(bodies, b)[d] = bodies[d]
        BY <1>2, <2>1, AppendIs
  <2>3. QED  BY <2>2
<1>4. ASSUME NEW d \in 1 .. k
      PROVE  BodyLaid(d)
  <2>1. Depth(bodies', d) = Depth(bodies, d)
    <3>1. \A i \in 1 .. d : bodies'[i].kind = bodies[i].kind
          BY <1>3
    <3>2. QED  BY <3>1, DepthAlike
  <2>2. Depth(bodies, d) \in 1 .. Len(scopes)
    <3>1. Depth(bodies, d) \in 2 .. Len(scopes) /\ Len(scopes) \in Nat
          BY <1>1, <1>2, ScopeIs
    <3>2. QED  BY <3>1
  <2>3. QED  BY <1>2, <1>3, <2>1, <2>2 DEF BodyLaid
<1>5. BodyLaid(k + 1)
  <2>1. Typed' /\ Refers' /\ Nests(scopes', bodies', declared')
    <3>1. (Parsing => Nests(scopes, bodies, declared))'
          BY DEF BaseInv, ScopesNest, ScopeOf, Nests, Depth
    <3>2. QED  BY <3>1 DEF BaseInv
  <2>2. k + 1 \in DOMAIN bodies'
        BY <1>3
  <2>3. PICK s \in Seq(Nat) : s = scopes'[Depth(bodies', k + 1)]
    <3>1. PICK l \in Nat : l = Len(scopes') /\ DOMAIN scopes' = 1 .. l
          BY <2>1 DEF Typed
    <3>2. PICK m \in Nat : m = Len(bodies') /\ DOMAIN bodies' = 1 .. m
          BY <2>1 DEF Typed
    <3>3. Depth(bodies', m) = l
          BY <2>1, <3>1, <3>2 DEF Nests
    <3>4. Depth(bodies', k + 1) \in 2 .. Depth(bodies', m)
          BY <2>2, <3>2, DepthBelow
    <3>5. Depth(bodies', k + 1) \in DOMAIN scopes'
          BY <3>1, <3>3, <3>4
    <3>6. scopes'[Depth(bodies', k + 1)] \in Seq(Nat)
          BY <2>1, <3>5 DEF Typed
    <3>7. QED  BY <3>6, Zenon
  <2>4. Range(s) \subseteq Range(b.holds)
        BY <1>3, <2>1, <2>2, <2>3 DEF Nests
  <2>5. Range(b.holds) = {}
        BY DEF Range
  <2>6. s = <<>>
    <3>1. \A i \in DOMAIN s : s[i] \in Range(s)
          BY DEF Range
    <3>2. QED  BY <2>4, <2>5, <3>1
  <2>7. Laid(b, s, declared', defined')
        BY <2>6, LaidEmpty
  <2>8. QED  BY <1>3, <2>3, <2>7 DEF BodyLaid
<1>6. \A d \in DOMAIN bodies' : BodyLaid(d)
      BY <1>3, <1>4, <1>5
<1>7. Extends(declared, declared') /\ Extends(defined, defined')
      BY DEF Extends
<1>8. QED  BY <1>6, <1>7, StepLays

\* The bodies around one that ends are as they were, unless one takes in a
\* variable combined with a struct.
LEMMA AroundLaid ==
    ASSUME BaseInv, BaseInv', Parsing, Parsing', NEW k \in Nat, k + 1 = Len(bodies),
           DOMAIN bodies' = 1 .. k, \A d \in 1 .. k : bodies'[d].kind = bodies[d].kind,
           \A s \in 1 .. Len(scopes') : scopes'[s] = scopes[s]
    PROVE  \A d \in 1 .. k : /\ d \in DOMAIN bodies
                             /\ scopes'[Depth(bodies', d)] = scopes[Depth(bodies, d)]
<1>1. Typed /\ Typed' /\ Nests(scopes', bodies', declared')
  <2>1. (Parsing => Nests(scopes, bodies, declared))'
        BY DEF BaseInv, ScopesNest, ScopeOf, Nests, Depth
  <2>2. QED  BY <2>1 DEF BaseInv
<1>2. DOMAIN bodies = 1 .. k + 1
      BY <1>1 DEF Typed
<1>3. Len(bodies') = k
      BY <1>1 DEF Typed
<1>4. Len(scopes') = Depth(bodies', k)
      BY <1>1, <1>3 DEF Nests
<1>5. PICK l \in Nat : l = Len(scopes')
      BY <1>1 DEF Typed
<1>6. ASSUME NEW d \in 1 .. k
      PROVE  d \in 1 .. k + 1 /\ scopes'[Depth(bodies', d)] = scopes[Depth(bodies, d)]
  <2>1. Depth(bodies', d) = Depth(bodies, d)
    <3>1. \A i \in 1 .. d : bodies'[i].kind = bodies[i].kind
          OBVIOUS
    <3>2. QED  BY <3>1, DepthAlike
  <2>2. Depth(bodies', d) \in 2 .. Depth(bodies', k)
        BY DepthBelow
  <2>3. Depth(bodies', d) \in 1 .. l
        BY <1>4, <1>5, <2>2
  <2>4. QED  BY <1>5, <2>1, <2>3
<1>7. QED  BY <1>2, <1>6

\* What a step starts from.
Fielded == FieldsLaid /\ NodesLaid

\* A step that leaves the nodes, and is the last of parsing.
LEMMA EndLays ==
    ASSUME BaseInv, Settled, Steady, Fielded, UNCHANGED defined, ~Parsing'
    PROVE  Fielded'
<1>1. Extends(defined, defined') /\ \A n \in DOMAIN defined' : n \in DOMAIN defined
      BY DEF Extends
<1>2. NodesLaid'
      BY <1>1, StepLaysNodes DEF Fielded
<1>3. QED  BY <1>2 DEF Fielded, FieldsLaid

\* A step that leaves all that is laid out.
LEMMA StillLaid ==
    ASSUME Fielded, UNCHANGED <<scopes, bodies, declared, defined, status>>
    PROVE  Fielded'
<1>1. /\ scopes' = scopes /\ bodies' = bodies /\ declared' = declared
      /\ defined' = defined /\ status' = status
      OBVIOUS
<1>2. FieldsLaid'
      BY <1>1 DEF Fielded, FieldsLaid, Parsing
<1>3. NodesLaid'
      BY <1>1 DEF Fielded, NodesLaid
<1>4. QED  BY <1>2, <1>3 DEF Fielded

\* A struct or union that begins.
LEMMA OpenAggregateLays ==
    ASSUME BaseInv, BaseInv', Settled, Steady, Fielded, NEW kind \in Aggregates,
           NEW name \in Names, OpenAggregate(kind, name)
    PROVE  Fielded'
<1> DEFINE flag == IF kind = "struct" THEN "structure" ELSE "none"
           b == NewBody(kind, name, flag)
<1>1. /\ Typed /\ Refers
      /\ declared \in Seq(VariableNodes) /\ scopes \in Seq(Seq(Nat))
      BY DEF BaseInv, Typed
<1>2. b \in BodyNodes /\ b.holds = <<>> /\ b.statements = <<>>
  <2>1. flag \in {"structure", "none", "function", "global"} /\ (kind = "struct" => flag = "structure")
        OBVIOUS
  <2> HIDE DEF flag
  <2>2. QED  BY <1>1, <2>1, NewBodyIs
<1>3. /\ Parsing /\ Parsing' /\ bodies' = Append(bodies, b)
      /\ scopes' = scopes \o <<<<>>, <<>>>>
      /\ UNCHANGED <<declared, defined>>
      BY DEF OpenAggregate, Reads, Parsing
<1> HIDE DEF b
<1>4. \A s \in 1 .. Len(scopes) : scopes'[s] = scopes[s]
  <2>1. PICK two \in Seq(Seq(Nat)) : two = <<<<>>, <<>>>>
    <3>1. <<<<>>, <<>>>> \in Seq(Seq(Nat))
          OBVIOUS
    <3>2. QED  BY <3>1, Zenon
  <2>2. QED  BY <1>1, <1>3, <2>1
<1>5. FieldsLaid'
      BY <1>2, <1>3, <1>4, OpenedLaid DEF Fielded
<1>6. Extends(defined, defined') /\ \A n \in DOMAIN defined' : n \in DOMAIN defined
      BY <1>3 DEF Extends
<1>7. NodesLaid'
      BY <1>6, StepLaysNodes DEF Fielded
<1>8. QED  BY <1>5, <1>7 DEF Fielded

\* A block that begins: the body of an if, of an else or of a loop, or a plain one.
LEMMA OpenBlockLays ==
    ASSUME BaseInv, BaseInv', Settled, Steady, Fielded, NEW of \in Blocks,
           OpenBlock(of)
    PROVE  Fielded'
<1> DEFINE flag == CASE of = "branch" -> Body.flag
                     [] of = "else"   -> "none"
                     [] of = "plain"  -> "global"
           b == NewBody("block", "unnamed", flag)
<1>1. /\ Typed /\ Refers
      /\ declared \in Seq(VariableNodes) /\ scopes \in Seq(Seq(Nat))
      BY DEF BaseInv, Typed
<1>2. b \in BodyNodes /\ b.holds = <<>> /\ b.statements = <<>>
  <2>1. flag \in {"structure", "none", "function", "global"}
    <3>1. bodies # <<>>
          BY KindHasBody DEF OpenBlock
    <3>2. Body \in BodyNodes
          BY <3>1, BodyIs DEF BaseInv
    <3>3. QED  BY <3>2 DEF BodyNodes, Blocks
  <2> HIDE DEF flag
  <2>2. PICK kind : kind = "block"
        OBVIOUS
  <2>3. kind \in {"function", "block"} /\ kind # "struct"
        BY <2>2
  <2>4. PICK name \in Names \cup {"unnamed"} : name = "unnamed"
        OBVIOUS
  <2>5. LET d == NewBody(kind, name, flag)
        IN  d \in BodyNodes /\ d.holds = <<>> /\ d.statements = <<>>
        BY <1>1, <2>1, <2>3, NewBodyIs
  <2>6. QED  BY <2>2, <2>4, <2>5
<1>3. /\ Parsing /\ Parsing' /\ bodies' = Append(bodies, b)
      /\ scopes' = Append(scopes, <<>>)
      /\ UNCHANGED <<declared, defined>>
      BY DEF OpenBlock, Reads, Parsing
<1> HIDE DEF b
<1>4. \A s \in 1 .. Len(scopes) : scopes'[s] = scopes[s]
  <2>1. PICK e \in Seq(Nat) : e = <<>>
    <3>1. <<>> \in Seq(Nat)
          OBVIOUS
    <3>2. QED  BY <3>1, Zenon
  <2>2. QED  BY <1>1, <1>3, <2>1, AppendIs
<1>5. FieldsLaid'
      BY <1>2, <1>3, <1>4, OpenedLaid DEF Fielded
<1>6. Extends(defined, defined') /\ \A n \in DOMAIN defined' : n \in DOMAIN defined
      BY <1>3 DEF Extends
<1>7. NodesLaid'
      BY <1>6, StepLaysNodes DEF Fielded
<1>8. QED  BY <1>5, <1>7 DEF Fielded

\* A function's head: there is no struct around it, nor in it yet.
LEMMA OpenFunctionLays ==
    ASSUME BaseInv, BaseInv', Settled, Steady, Fielded, NEW types \in Parameters,
           NEW hasBody \in BOOLEAN, OpenFunction(types, hasBody)
    PROVE  Fielded'
<1>1. /\ UNCHANGED defined
      /\ bodies' = IF hasBody THEN <<NewBody("function", "unnamed", "function")>> ELSE <<>>
      BY DEF OpenFunction
<1>2. \A d \in DOMAIN bodies' : bodies'[d].kind # "struct"
  <2>1. CASE hasBody
    <3>1. NewBody("function", "unnamed", "function").kind = "function"
          BY DEF NewBody
    <3>2. QED  BY <1>1, <2>1, <3>1
  <2>2. CASE ~hasBody
        BY <1>1, <2>2
  <2>3. QED  BY <2>1, <2>2
<1>3. FieldsLaid'
      BY <1>2 DEF FieldsLaid
<1>4. Extends(defined, defined') /\ \A n \in DOMAIN defined' : n \in DOMAIN defined
      BY <1>1 DEF Extends
<1>5. NodesLaid'
      BY <1>4, StepLaysNodes DEF Fielded
<1>6. QED  BY <1>3, <1>5 DEF Fielded

\* A block or a function's body that ends.
LEMMA CloseBodyLays ==
    ASSUME BaseInv, BaseInv', Settled, Steady, Fielded, CloseBody
    PROVE  Fielded'
<1> DEFINE n == IF Body.kind = "function" THEN 2 ELSE 1
<1>1. /\ Parsing /\ Parsing' /\ bodies # <<>>
      /\ bodies' = SubSeq(bodies, 1, Len(bodies) - 1)
      /\ scopes' = SubSeq(scopes, 1, Len(scopes) - n)
      /\ UNCHANGED <<declared, defined>>
  <2>1. bodies # <<>>
        BY KindHasBody DEF CloseBody
  <2>2. QED  BY <2>1 DEF CloseBody, Parsing, Enclosing, PopScopes
<1>2. n \in {1, 2}
      OBVIOUS
<1> HIDE DEF n
<1>3. Typed /\ Nests(scopes, bodies, declared) /\ Refers
      BY <1>1, NestsIs DEF BaseInv
<1>4. PICK k \in Nat : k + 1 = Len(bodies) /\ DOMAIN bodies = 1 .. k + 1
  <2>1. PICK l \in Nat \ {0} : l = Len(bodies) /\ DOMAIN bodies = 1 .. l
    <3>1. Len(bodies) \in Nat \ {0}
          BY <1>1, <1>3, BodyIs
    <3>2. DOMAIN bodies = 1 .. Len(bodies)
          BY <1>3 DEF Typed
    <3>3. QED  BY <3>1, <3>2
  <2>2. l - 1 \in Nat /\ (l - 1) + 1 = l
        OBVIOUS
  <2>3. QED  BY <2>1, <2>2
<1>5. DOMAIN bodies' = 1 .. k /\ \A d \in 1 .. k : bodies'[d] = bodies[d]
  <2>1. bodies \in Seq(BodyNodes) /\ k \in 0 .. Len(bodies) /\ Len(bodies) - 1 = k
        BY <1>3, <1>4 DEF Typed
  <2>2. QED  BY <1>1, <2>1, FrontIs
<1>6. \A s \in 1 .. Len(scopes') : scopes'[s] = scopes[s]
  <2>1. PICK l \in Nat : l = Len(scopes)
        BY <1>3 DEF Typed
  <2>2. l >= 2
    <3>1. k + 1 \in DOMAIN bodies
          BY <1>4
    <3>2. Depth(bodies, k + 1) \in 2 .. l
          BY <1>3, <2>1, <3>1, ScopeIs
    <3>3. QED  BY <3>2
  <2>3. scopes \in Seq(Seq(Nat)) /\ l - n \in 0 .. Len(scopes)
        BY <1>2, <1>3, <2>1, <2>2 DEF Typed
  <2>4. /\ Len(SubSeq(scopes, 1, l - n)) = l - n
        /\ \A i \in 1 .. l - n : SubSeq(scopes, 1, l - n)[i] = scopes[i]
        BY <2>3, FrontIs
  <2>5. QED  BY <1>1, <2>1, <2>4
<1>7. \A d \in 1 .. k : bodies'[d].kind = bodies[d].kind
      BY <1>5
<1>8. \A d \in 1 .. k : d \in DOMAIN bodies /\ scopes'[Depth(bodies', d)] = scopes[Depth(bodies, d)]
      BY <1>1, <1>4, <1>5, <1>6, <1>7, AroundLaid
<1>9. \A d \in DOMAIN bodies' : BodyLaid(d)
      BY <1>5, <1>8 DEF BodyLaid
<1>10. /\ Extends(declared, declared') /\ Extends(defined, defined')
       /\ \A i \in DOMAIN defined' : i \in DOMAIN defined
       BY <1>1 DEF Extends
<1>11. FieldsLaid'
       BY <1>1, <1>9, <1>10, StepLays DEF Fielded
<1>12. NodesLaid'
       BY <1>10, StepLaysNodes DEF Fielded
<1>13. QED  BY <1>11, <1>12 DEF Fielded

\* New variables at the end of a scope.
LEMMA FreshPlaced ==
    ASSUME Typed, NEW n \in Nat \ {0}, NEW s \in Seq(Nat), Ids(s, declared), Rising(s),
           NEW t, t = s \o Fresh(n), NEW vs, Spaced(t, vs), NEW nodes,
           NEW form, form = "single" => n = 1
    PROVE  Placed(Fresh(n), s, t, vs, nodes, form)
<1>1. PICK m \in Nat : m = Len(declared) /\ DOMAIN declared = 1 .. m
      BY DEF Typed
<1>2. PICK l \in Nat : l = Len(s) /\ DOMAIN s = 1 .. l
      OBVIOUS
<1>3. PICK ids \in Seq(Nat) : ids = Fresh(n)
  <2>1. \A k \in 1 .. n : m + k \in Nat
        OBVIOUS
  <2>2. [k \in 1 .. n |-> m + k] \in Seq(Nat)
        BY <2>1
  <2>3. QED  BY <1>1, <2>2 DEF Fresh
<1>4. Len(ids) = n /\ DOMAIN ids = 1 .. n /\ \A k \in 1 .. n : ids[k] = m + k
  <2>1. ids = [k \in 1 .. n |-> m + k]
        BY <1>1, <1>3 DEF Fresh
  <2>2. DOMAIN ids = 1 .. n /\ \A k \in 1 .. n : ids[k] = m + k
        BY <2>1
  <2>3. QED  BY <2>2
<1>5. /\ t \in Seq(Nat) /\ DOMAIN t = 1 .. l + n
      /\ \A k \in 1 .. l + n : t[k] = IF k <= l THEN s[k] ELSE ids[k - l]
  <2>1. t = s \o ids
        BY <1>3
  <2>2. n \in Nat /\ n = Len(ids) /\ DOMAIN ids = 1 .. n
        BY <1>4
  <2>3. t \in Seq(Nat)
        BY <2>1
  <2>4. /\ DOMAIN t = 1 .. l + n
        /\ \A k \in 1 .. l + n : t[k] = IF k <= l THEN s[k] ELSE ids[k - l]
        BY <1>2, <2>1, <2>2
  <2>5. QED  BY <2>3, <2>4
<1>6. \A k \in 1 .. l + n : /\ k <= l => k \in 1 .. l /\ t[k] = s[k] /\ t[k] \in 1 .. m
                            /\ k > l => t[k] = m + (k - l)
  <2>1. ASSUME NEW k \in 1 .. l + n, k <= l
        PROVE  k \in 1 .. l /\ t[k] = s[k] /\ t[k] \in 1 .. m
    <3>1. k \in 1 .. l
          BY <2>1
    <3>2. s[k] \in 1 .. m
          BY <1>1, <1>2, <3>1 DEF Ids
    <3>3. QED  BY <1>5, <2>1, <3>1, <3>2
  <2>2. ASSUME NEW k \in 1 .. l + n, k > l
        PROVE  t[k] = m + (k - l)
    <3>1. k - l \in 1 .. n /\ ~(k <= l)
          BY <2>2
    <3>2. QED  BY <1>4, <1>5, <3>1
  <2>3. QED  BY <2>1, <2>2
<1>7. Rising(t)
  <2>1. ASSUME NEW i \in 1 .. l + n, NEW j \in 1 .. l + n, i < j
        PROVE  t[i] < t[j]
    <3>1. CASE j <= l
      <4>1. i <= l
            BY <2>1, <3>1
      <4>2. /\ i \in DOMAIN s /\ j \in DOMAIN s /\ t[i] = s[i] /\ t[j] = s[j]
            BY <1>2, <1>6, <3>1, <4>1
      <4>3. s[i] < s[j]
            BY <2>1, <4>2 DEF Rising
      <4>4. QED  BY <4>2, <4>3
    <3>2. CASE j > l /\ i <= l
      <4>1. t[i] \in 1 .. m /\ t[j] = m + (j - l)
            BY <1>6, <3>2
      <4>2. PICK a \in 1 .. m : a = t[i]
            BY <4>1, Zenon
      <4>3. a < m + (j - l)
            BY <3>2
      <4>4. QED  BY <4>1, <4>2, <4>3
    <3>3. CASE j > l /\ i > l
      <4>1. t[i] = m + (i - l) /\ t[j] = m + (j - l)
            BY <1>6, <3>3
      <4>2. QED  BY <2>1, <4>1
    <3>4. (j <= l \/ j > l) /\ (i <= l \/ i > l)
          OBVIOUS
    <3>5. QED  BY <3>1, <3>2, <3>3, <3>4, Zenon
  <2>2. QED  BY <1>5, <2>1 DEF Rising
<1>8. Range(t) = Range(s) \cup Range(ids)
      BY <1>3, RangeJoined
<1>9. \A k \in DOMAIN ids : ids[k] \in Range(ids)
      BY DEF Range
<1>10. QED  BY <1>3, <1>4, <1>5, <1>7, <1>8, <1>9 DEF Placed

\* The body of a struct that takes in variables is laid out with them.
LEMMA TakerLays ==
    ASSUME BaseInv, BaseInv', NEW k \in DOMAIN bodies, NEW n \in Nat \ {0}, NEW form,
           Takes(k, n, form), Extends(defined, defined'),
           NEW s \in Seq(Nat), Ids(s, declared), Laid(bodies[k], s, declared, defined),
           NEW t, Placed(Fresh(n), s, t, declared', defined', form)
    PROVE  Laid(bodies'[k], t, declared', defined')
<1>1. Typed /\ Refers /\ Typed' /\ Refers'
      BY DEF BaseInv
<1>2. Len(declared') = Len(declared) + n /\ Extends(declared, declared')
      BY DEF Takes
<1>3. /\ declared \in Seq(VariableNodes) /\ declared' \in Seq(VariableNodes)
      /\ defined' \in Seq(StructNodes) /\ bodies \in Seq(BodyNodes)
      BY <1>1 DEF Typed
<1>4. PICK m \in Nat : m = Len(declared) /\ DOMAIN declared = 1 .. m
      BY <1>3
<1>5. PICK b \in BodyNodes : b = bodies[k] /\ BodyOK(b, declared)
      BY <1>1, <1>3 DEF Refers
<1>6. PICK vs \in Seq(VariableNodes) : vs = declared'
      BY <1>3
<1>7. PICK nodes \in Seq(StructNodes) : nodes = defined'
      BY <1>3
<1>8. BodyOK(b, vs)
  <2>1. Len(vs) = m + n /\ m <= m + n
        BY <1>2, <1>4, <1>6
  <2>2. QED  BY <1>2, <1>4, <1>5, <1>6, <2>1, BodyKept
<1>9. Fresh(n) \in Seq(Nat) /\ Ids(Fresh(n), vs) /\ Fresh(n) # <<>>
  <2>1. n \in Nat /\ n # 0 /\ Len(vs) = Len(declared) + n
        BY <1>2, <1>6
  <2>2. QED  BY <1>1, <2>1, FreshIs
<1>10. PICK ids \in Seq(Nat) : ids = Fresh(n)
       BY <1>9
<1>11. ids # <<>> /\ Ids(ids, vs)
       BY <1>9, <1>10
<1>12. \A i \in DOMAIN vs : Known(vs[i].type, nodes)
  <2>1. TablesOK(Tables', defined') /\ Tables'.declared = declared'
        BY <1>1 DEF Refers, Tables
  <2>2. QED  BY <1>6, <1>7, <2>1 DEF TablesOK
<1>13. \A i \in DOMAIN ids : Primitive(vs[ids[i]].type) \/ vs[ids[i]].type.node # 0
       BY <1>6, <1>10 DEF Takes
<1>14. Grown(b, nodes, vs, ids, form) = bodies'[k]
       BY <1>5, <1>6, <1>7, <1>10 DEF Takes
<1>15. Laid(b, s, vs, nodes)
  <2>1. Ids(b.holds, declared) /\ Ids(b.statements, declared)
        BY <1>5 DEF BodyOK
  <2>2. Laid(b, s, declared, defined)
        BY <1>5
  <2>3. Laid(b, s, declared', defined')
        BY <1>2, <2>1, <2>2, LaidKept
  <2>4. QED  BY <1>6, <1>7, <2>3
<1>16. Placed(ids, s, t, vs, nodes, form)
       BY <1>6, <1>7, <1>10
<1>17. Laid(Grown(b, nodes, vs, ids, form), t, vs, nodes)
       BY <1>8, <1>11, <1>12, <1>13, <1>15, <1>16, LaidTaken
<1>18. QED  BY <1>6, <1>7, <1>14, <1>17

\* A declaration of variables: in a struct they follow the fields it has.
LEMMA DeclareLays ==
    ASSUME BaseInv, BaseInv', Settled, Steady, Fielded, NEW t \in Types,
           NEW lengths \in Lists, Declare(t[1], t[2], lengths)
    PROVE  Fielded'
<1> DEFINE n == Len(lengths)
           form == IF n = 1 THEN "single" ELSE "list"
<1>1. Typed /\ Refers /\ Nests(scopes, bodies, declared) /\ Parsing
      BY NestsIs DEF BaseInv, Declare, Reads
<1>2. /\ n \in Nat \ {0} /\ UNCHANGED defined
      /\ More(Tables, Tables', n, Body.flag, Now, defined)
      /\ bodies = <<>> => UNCHANGED bodies
      BY <1>1, DeclareDoes
<1>3. form = "single" => n = 1
      OBVIOUS
<1>4. Extends(defined, defined') /\ \A i \in DOMAIN defined' : i \in DOMAIN defined
      BY <1>2 DEF Extends
<1>5. NodesLaid'
      BY <1>4, StepLaysNodes DEF Fielded
<1>6. CASE bodies = <<>>
  <2>1. DOMAIN bodies' = {}
        BY <1>2, <1>6
  <2>2. FieldsLaid'
        BY <2>1 DEF FieldsLaid
  <2>3. QED  BY <1>5, <2>2 DEF Fielded
<1>7. CASE status' = "crashed"
  <2>1. ~Parsing'
        BY <1>7 DEF Parsing
  <2>2. QED  BY <1>2, <2>1, EndLays
<1>8. CASE bodies # <<>> /\ status' # "crashed"
  <2>1. PICK k \in DOMAIN bodies :
               /\ k = Len(bodies) /\ DOMAIN bodies' = DOMAIN bodies
               /\ \A d \in DOMAIN bodies : d # k => bodies'[d] = bodies[d]
               /\ Takes(k, n, form) /\ Fixes(declared', fixups')
    <3>1. PICK k : k = Len(bodies)
          OBVIOUS
    <3>2. /\ k \in DOMAIN bodies /\ DOMAIN bodies' = DOMAIN bodies
          /\ \A d \in DOMAIN bodies : d # k => bodies'[d] = bodies[d]
          /\ Takes(k, n, form) /\ Fixes(declared', fixups')
          BY <1>8, <3>1, DeclareTakes
    <3>3. QED  BY <3>1, <3>2
  <2> HIDE DEF n, form
  <2>2. Extends(declared, declared')
        BY <2>1 DEF Takes
  <2>3. bodies'[k].kind = bodies[k].kind
        BY <1>2, <2>1, TakesIn
  <2>4. PICK l \in Nat : l = Len(scopes) /\ Depth(bodies, k) = l
        BY <1>1, <2>1 DEF Typed, Nests
  <2>5. /\ \A s \in 1 .. l - 1 : scopes'[s] = scopes[s]
        /\ scopes'[l] = scopes[l] \o Fresh(n)
        BY <1>2, <2>4 DEF More, Tables, Fresh
  <2>6. \A d \in DOMAIN bodies : bodies'[d].kind = bodies[d].kind
        BY <2>1, <2>3
  <2>7. ASSUME NEW d \in DOMAIN bodies
        PROVE  Depth(bodies', d) = Depth(bodies, d)
    <3>1. d \in 1 .. k /\ k \in Nat /\ DOMAIN bodies = 1 .. k
          BY <1>1, <2>1 DEF Typed
    <3>2. \A i \in 1 .. d : i \in 1 .. k
          BY <3>1
    <3>3. \A i \in 1 .. d : bodies'[i].kind = bodies[i].kind
          BY <2>6, <3>1, <3>2
    <3>4. QED  BY <3>3, DepthAlike
  <2>8. ASSUME NEW d \in DOMAIN bodies, d # k
        PROVE  BodyLaid(d)
    <3>1. d < Len(bodies)
          BY <1>1, <2>1, <2>8 DEF Typed
    <3>2. Depth(bodies, d) \in 2 .. l /\ Depth(bodies, d) < l
          BY <1>1, <2>4, <3>1, ScopeIs
    <3>3. Depth(bodies, d) \in 1 .. l - 1
          BY <3>2
    <3>4. QED  BY <2>1, <2>5, <2>7, <2>8, <3>3 DEF BodyLaid
  <2>9. ASSUME bodies[k].kind = "struct"
        PROVE  BodyLaid(k)
    <3>1. PICK s \in Seq(Nat) : s = scopes[l] /\ Ids(s, declared)
          BY <1>1, <2>4, ScopeIs
    <3>2. Laid(bodies[k], s, declared, defined)
          BY <1>1, <2>4, <2>9, <3>1 DEF Fielded, FieldsLaid
    <3>3. Body.flag = "structure"
      <4>1. Body = bodies[k]
            BY <1>1, <1>8, <2>1, BodyIs
      <4>2. BodyOK(bodies[k], declared)
            BY <1>1 DEF Refers
      <4>3. QED  BY <2>9, <4>1, <4>2 DEF BodyOK
    <3>4. PICK e : e = s \o Fresh(n) /\ scopes'[l] = e
          BY <2>5, <3>1
    <3>5. Spaced(s, declared)
          BY <3>2 DEF Laid
    <3>6. Spaced(e, declared')
      <4>1. /\ Tables.scopes = scopes /\ Tables.declared = declared
            /\ Tables'.scopes = scopes' /\ Tables'.declared = declared'
            BY DEF Tables
      <4>2. Spaced(scopes[l], declared) => Spaced(scopes'[l], declared')
            BY <1>2, <2>4, <3>3, <4>1 DEF More
      <4>3. QED  BY <3>1, <3>4, <3>5, <4>2
    <3>7. Rising(s)
          BY <3>2 DEF Laid
    <3>8. Placed(Fresh(n), s, e, declared', defined', form)
          BY <1>1, <1>2, <1>3, <3>1, <3>4, <3>6, <3>7, FreshPlaced
    <3>9. Laid(bodies'[k], e, declared', defined')
          BY <1>2, <1>4, <2>1, <3>1, <3>2, <3>8, TakerLays
    <3>10. scopes'[Depth(bodies', k)] = e
          BY <2>4, <2>7, <3>4
    <3>11. QED  BY <3>9, <3>10 DEF BodyLaid
  <2>10. \A d \in DOMAIN bodies' : bodies'[d].kind = "struct" => BodyLaid(d)
         BY <2>1, <2>3, <2>8, <2>9
  <2>11. FieldsLaid'
         BY <1>1, <1>4, <2>2, <2>10, StepLays DEF Fielded
  <2>12. QED  BY <1>5, <2>11 DEF Fielded
<1>9. QED  BY <1>6, <1>7, <1>8

\* A variable combined with a struct has no place in the scope around it.
LEMMA CombinedPlaced ==
    ASSUME BaseInv, NEW s \in Seq(Nat), Ids(s, declared), Rising(s), Spaced(s, declared),
           NEW vs, Extends(declared, vs),
           NEW nodes, Bound(Len(declared) + 1, nodes)
    PROVE  Placed(Fresh(1), s, s, vs, nodes, "combined")
<1>1. Spaced(s, vs)
  <2>1. \A i \in DOMAIN declared : vs[i] = declared[i]
        BY DEF Extends
  <2>2. QED  BY <2>1, SpacedKept
<1>2. DOMAIN Fresh(1) = 1 .. 1 /\ \A i \in 1 .. 1 : Fresh(1)[i] = Len(declared) + 1
      BY DEF Fresh
<1>3. \A i \in DOMAIN Fresh(1) : Bound(Fresh(1)[i], nodes)
      BY <1>2
<1>4. QED  BY <1>1, <1>3 DEF Placed

\* The end of a struct: its node is laid out as its body was, and one combined with
\* a variable leaves the fields of the struct around it as they are.
LEMMA CloseAggregateLays ==
    ASSUME BaseInv, BaseInv', Settled, Steady, Fielded, NEW combined \in BOOLEAN,
           CloseAggregate(combined)
    PROVE  Fielded'
<1> DEFINE n == ClosedNode(combined)
           nodes == Append(defined, n)
<1>1. Typed /\ Refers /\ Nests(scopes, bodies, declared) /\ Parsing
      BY NestsIs DEF BaseInv, CloseAggregate
<1>2. /\ Body.kind \in Aggregates /\ defined' = nodes
      /\ Len(scopes) >= 3 /\ scopes' = SubSeq(scopes, 1, Len(scopes) - 2)
      /\ Extends(declared, declared')
      BY <1>1, CloseAggregateDoes
<1>3. /\ Len(nodes) = Len(defined) + 1 /\ nodes[Len(defined) + 1] = n
      /\ nodes \in Seq(StructNodes) /\ Extends(defined, nodes) /\ n \in StructNodes
      BY <1>1, <1>2, ClosedIs
<1>4. /\ n.kind = Body.kind /\ n.holds = Body.holds /\ n.statements = Body.statements
      /\ n.size = FinalSize(Body)
      /\ n.largest = IF Body.eligible = 0 THEN 0 ELSE declared[Body.eligible].type.size
      /\ n.var = IF combined THEN Len(declared) + 1 ELSE 0
      BY DEF ClosedNode
<1> HIDE DEF nodes, n
<1>5. PICK k \in Nat :
              /\ k + 1 = Len(bodies) /\ DOMAIN bodies = 1 .. k + 1
              /\ Body = bodies[k + 1] /\ Body.kind \in Aggregates
              /\ DOMAIN bodies' = 1 .. k
              /\ \A d \in 1 .. k : d # k \/ ~combined \/ ~Parsing' => bodies'[d] = bodies[d]
              /\ k # 0 /\ combined /\ Parsing' =>
                    Takes(k, 1, "combined") /\ Fixes(declared', fixups')
      BY CloseAggregateTakes
<1>6. PICK c \in Nat : c = Len(defined) /\ DOMAIN defined = 1 .. c /\ DOMAIN nodes = 1 .. c + 1
  <2>1. PICK c \in Nat : c = Len(defined) /\ DOMAIN defined = 1 .. c
        BY <1>1 DEF Typed
  <2>2. QED  BY <1>3, <2>1
<1>7. \A d \in 1 .. k + 1 : bodies[d].kind = "struct" =>
         \E s \in Seq(Nat) : /\ s = scopes[Depth(bodies, d)] /\ Ids(s, declared)
                             /\ Laid(bodies[d], s, declared, defined)
      BY <1>1, <1>5, ScopeIs DEF Fielded, FieldsLaid
<1>8. NodeLaid(n, declared', nodes)
  <2>1. CASE n.kind # "struct"
        BY <2>1 DEF NodeLaid, PlainIn
  <2>2. CASE n.kind = "struct"
    <3>1. k + 1 \in 1 .. k + 1
          OBVIOUS
    <3>2. PICK b \in BodyNodes : b = Body /\ b = bodies[k + 1] /\ BodyOK(b, declared)
      <4>1. k + 1 \in DOMAIN bodies
            BY <1>5, <3>1
      <4>2. bodies[k + 1] \in BodyNodes
            BY <1>1, <4>1 DEF Typed
      <4>3. BodyOK(bodies[k + 1], declared)
            BY <1>1, <4>1 DEF Refers
      <4>4. QED  BY <1>5, <4>2, <4>3
    <3>3. PICK s \in Seq(Nat) : Ids(s, declared) /\ Laid(b, s, declared, defined)
          BY <1>4, <1>7, <2>2, <3>1, <3>2
    <3>4. NodeLaid(n, declared, nodes)
          BY <1>1, <1>3, <1>4, <2>2, <3>2, <3>3, ClosedLaid
    <3>5. \A i \in Range(n.holds) : declared'[i] = declared[i]
          BY <1>2, <1>4, <3>2 DEF BodyOK, Ids, Extends, Range
    <3>6. n.holds # <<>> => n.holds[1] \in Range(n.holds)
      <4>1. PICK h \in Seq(Nat) : h = n.holds
            BY <1>3 DEF StructNodes
      <4>2. h # <<>> => 1 \in DOMAIN h
            OBVIOUS
      <4>3. QED  BY <4>1, <4>2 DEF Range
    <3>7. Extends(nodes, nodes)
          BY DEF Extends
    <3>8. QED  BY <3>4, <3>5, <3>6, <3>7, NodeLaidKept
  <2>3. QED  BY <2>1, <2>2
<1>9. \A i \in DOMAIN defined' : i \in DOMAIN defined \/ NodeLaid(defined'[i], declared', defined')
  <2>1. \A i \in 1 .. c + 1 : i \in 1 .. c \/ i = c + 1
        OBVIOUS
  <2>2. defined'[c + 1] = n
        BY <1>2, <1>3, <1>6
  <2>3. QED  BY <1>2, <1>6, <1>8, <2>1, <2>2
<1>10. Extends(defined, defined')
       BY <1>2, <1>3
<1>11. NodesLaid'
       BY <1>9, <1>10, StepLaysNodes DEF Fielded
<1>12. CASE ~Parsing'
       BY <1>11, <1>12 DEF Fielded, FieldsLaid
<1> SUFFICES ASSUME Parsing'
             PROVE  Fielded'
    BY <1>12
<1>13. \A d \in 1 .. k : bodies'[d].kind = bodies[d].kind
  <2>1. ASSUME k \in 1 .. k, combined
        PROVE  bodies'[k].kind = bodies[k].kind
    <3>1. PICK form : form = "combined"
          OBVIOUS
    <3>2. PICK i \in Nat \ {0} : i = 1
          OBVIOUS
    <3>3. Takes(k, i, form) /\ Fixes(declared', fixups') /\ k \in DOMAIN bodies
          BY <1>5, <2>1, <3>1, <3>2
    <3>4. QED  BY <3>3, TakesIn
  <2>2. QED  BY <1>5, <2>1
<1>14. \A s \in 1 .. Len(scopes') : scopes'[s] = scopes[s]
  <2>1. PICK l \in Nat : l = Len(scopes)
        BY <1>1 DEF Typed
  <2>2. scopes \in Seq(Seq(Nat)) /\ l - 2 \in 0 .. Len(scopes)
        BY <1>1, <1>2, <2>1 DEF Typed
  <2>3. /\ Len(SubSeq(scopes, 1, l - 2)) = l - 2
        /\ \A i \in 1 .. l - 2 : SubSeq(scopes, 1, l - 2)[i] = scopes[i]
        BY <2>2, FrontIs
  <2>4. QED  BY <1>2, <2>1, <2>3
<1>15. \A d \in 1 .. k : d \in DOMAIN bodies /\ scopes'[Depth(bodies', d)] = scopes[Depth(bodies, d)]
       BY <1>1, <1>5, <1>13, <1>14, AroundLaid
<1>16. ASSUME NEW d \in 1 .. k, d # k \/ ~combined
       PROVE  BodyLaid(d)
       BY <1>5, <1>15, <1>16 DEF BodyLaid
<1>17. ASSUME k \in 1 .. k, combined, bodies[k].kind = "struct"
       PROVE  BodyLaid(k)
  <2>1. k \in 1 .. k + 1 /\ k \in DOMAIN bodies /\ k # 0
        BY <1>5, <1>17
  <2>2. PICK s \in Seq(Nat) : /\ s = scopes[Depth(bodies, k)] /\ Ids(s, declared)
                              /\ Laid(bodies[k], s, declared, defined)
        BY <1>7, <1>17, <2>1
  <2>3. Bound(Len(declared) + 1, defined')
    <3>1. c + 1 \in DOMAIN defined' /\ defined'[c + 1].var = Len(declared) + 1
          BY <1>2, <1>3, <1>4, <1>6, <1>17
    <3>2. QED  BY <3>1 DEF Bound
  <2>4. Rising(s) /\ Spaced(s, declared)
        BY <2>2 DEF Laid
  <2>5. Placed(Fresh(1), s, s, declared', defined', "combined")
        BY <1>2, <2>2, <2>3, <2>4, CombinedPlaced
  <2>6. Takes(k, 1, "combined")
        BY <1>5, <1>17, <2>1
  <2>7. 1 \in Nat \ {0}
        OBVIOUS
  <2>8. Laid(bodies'[k], s, declared', defined')
        BY <1>10, <2>1, <2>2, <2>5, <2>6, <2>7, TakerLays
  <2>9. scopes'[Depth(bodies', k)] = s
        BY <1>15, <1>17, <2>2
  <2>10. QED  BY <2>8, <2>9 DEF BodyLaid
<1>18. \A d \in DOMAIN bodies' : bodies'[d].kind = "struct" => BodyLaid(d)
       BY <1>5, <1>13, <1>16, <1>17
<1>19. FieldsLaid'
       BY <1>1, <1>2, <1>10, <1>18, StepLays DEF Fielded
<1>20. QED  BY <1>11, <1>19 DEF Fielded

\* Whatever is read, fields stay laid out.
LEMMA StepLaid == BaseInv /\ Settled /\ Fielded /\ [Next]_vars => Fielded'
<1> SUFFICES ASSUME BaseInv, Settled, Fielded, [Next]_vars
             PROVE  Fielded'
    OBVIOUS
<1>1. Steady /\ BaseInv'
      BY StepBase, StepSteady
<1>2. ASSUME UNCHANGED <<defined>>, ~Parsing'
      PROVE  Fielded'
      BY <1>1, <1>2, EndLays
<1>3. CASE Misuse
      BY <1>2, <1>3 DEF Misuse, Abort, Parsing
<1>4. ASSUME NEW kind \in Aggregates, NEW name \in Names, OpenAggregate(kind, name)
      PROVE  Fielded'
      BY <1>1, <1>4, OpenAggregateLays
<1>5. ASSUME NEW combined \in BOOLEAN, CloseAggregate(combined)
      PROVE  Fielded'
      BY <1>1, <1>5, CloseAggregateLays
<1>6. ASSUME NEW t \in Types, NEW lengths \in Lists, Declare(t[1], t[2], lengths)
      PROVE  Fielded'
      BY <1>1, <1>6, DeclareLays
<1>7. ASSUME NEW types \in Parameters, NEW hasBody \in BOOLEAN, OpenFunction(types, hasBody)
      PROVE  Fielded'
      BY <1>1, <1>7, OpenFunctionLays
<1>8. ASSUME NEW of \in Blocks, OpenBlock(of)
      PROVE  Fielded'
      BY <1>1, <1>8, OpenBlockLays
<1>9. CASE CloseBody
      BY <1>1, <1>9, CloseBodyLays
<1>10. CASE EndOfText
       BY <1>2, <1>10 DEF EndOfText, Parsing
<1>11. CASE ResolveFixup
       BY <1>2, <1>11 DEF ResolveFixup, Parsing
<1>12. CASE FixupsTried
       BY <1>2, <1>12 DEF FixupsTried, Parsing
<1>13. CASE UNCHANGED vars
       BY <1>13, StillLaid DEF vars
<1>14. QED
       BY <1>3, <1>4, <1>5, <1>6, <1>7, <1>8, <1>9, <1>10, <1>11, <1>12, <1>13 DEF Next, Text

\* At every moment the bodies of structs that are being read, and the nodes of
\* those that were read, are laid out.
THEOREM AllLaid == Spec => []Fielded
<1>1. Init => Fielded
  <2>1. \A i \in DOMAIN <<>> : FALSE
        OBVIOUS
  <2>2. QED  BY <2>1 DEF Init, Fielded, FieldsLaid, NodesLaid
<1>2. Housed => Settled
      BY DEF Housed
<1>3. BaseInv /\ Housed /\ Fielded /\ [Next]_vars => Fielded'
      BY <1>2, StepLaid
<1>4. QED  BY <1>1, <1>3, Base, AllHoused, PTL DEF Spec

\* What is said of a node here is what is said of it there.
LEMMA NodeIs ==
    ASSUME NEW n \in DOMAIN defined, NodesLaid, Plain(defined[n])
    PROVE  ApartIn(defined[n], declared) /\ InsideIn(defined[n], declared)
<1>1. PlainIn(defined[n], declared, defined)
      BY DEF Plain, PlainIn, Combined, Bound
<1>2. QED  BY <1>1 DEF NodesLaid, NodeLaid

\* Fields that are no arrays, nor combined with the definition of their type, follow
\* each other without overlap, and the primitive ones are aligned.
THEOREM FieldsKeptApart == Spec => []FieldsApart
<1>1. Fielded => FieldsApart
  <2> SUFFICES ASSUME Fielded, NEW n \in DOMAIN defined, Plain(defined[n])
               PROVE  /\ \A i, j \in Range(defined[n].holds) :
                            i < j => End(i) <= declared[j].aoffset
                      /\ \A i \in Range(defined[n].holds) :
                            Primitive(declared[i].type) =>
                               declared[i].aoffset % declared[i].type.size = 0
      BY DEF FieldsApart
  <2>1. ApartIn(defined[n], declared)
        BY NodeIs DEF Fielded
  <2>2. QED  BY <2>1 DEF ApartIn, EndOf, End
<1>2. QED  BY <1>1, AllLaid, PTL

\* A struct of single fields from its start on has room for them all, and its size
\* keeps the fields of the next one in an array aligned.
THEOREM FieldsFit == Spec => []FieldsInside
<1>1. Fielded => FieldsInside
  <2> SUFFICES ASSUME Fielded, NEW n \in DOMAIN defined, Plain(defined[n]),
                      defined[n].holds = defined[n].statements, defined[n].holds # <<>>,
                      declared[defined[n].holds[1]].aoffset = 0
               PROVE  /\ \A i \in Range(defined[n].holds) : End(i) <= defined[n].size
                      /\ defined[n].largest # 0 => defined[n].size % defined[n].largest = 0
      BY DEF FieldsInside
  <2>1. InsideIn(defined[n], declared)
        BY NodeIs DEF Fielded
  <2>2. QED  BY <2>1 DEF InsideIn, EndOf, End
<1>2. QED  BY <1>1, AllLaid, PTL

=============================================================================
