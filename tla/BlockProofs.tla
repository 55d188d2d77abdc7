----------------------------- MODULE BlockProofs -----------------------------
(***************************************************************************)
(* Theorems about the blocks Codegen makes                                 *)
(***************************************************************************)
EXTENDS CodegenProofs

-----------------------------------------------------------------------------
(* The builder *)

\* h is g some code later: it has all blocks of g, and beside the block h is
\* in only those of S are open that were not open already beside g's.
Opens(g, h, S) ==
    /\ IsBuilder(h)
    /\ Len(g.block) <= Len(h.block)
    /\ Open(h) \ {h.cur} \subseteq (Open(g) \ {g.cur}) \cup S
Closed(g) == g.cur \notin Open(g)

\* One piece of code after the other.
LEMMA OpensTwice ==
    ASSUME NEW g, NEW h, NEW k, NEW S, NEW T, IsBuilder(g),
           Opens(g, h, S), Opens(h, k, T)
    PROVE  Opens(g, k, (S \ {h.cur}) \cup T)
<1>1. Len(g.block) \in Nat /\ Len(h.block) \in Nat /\ Len(k.block) \in Nat
      BY DEF IsBuilder, IsCode, IsSequence, Opens
<1>2. Len(g.block) <= Len(k.block)
      BY <1>1 DEF Opens
<1>3. Open(k) \ {k.cur} \subseteq (Open(g) \ {g.cur}) \cup ((S \ {h.cur}) \cup T)
      BY DEF Opens
<1>4. QED  BY <1>2, <1>3 DEF Opens

\* Blocks are never removed.
LEMMA MoreBlocks ==
    ASSUME NEW g, IsBuilder(g), NEW h, NEW S, Opens(g, h, S)
    PROVE  DOMAIN g.block \subseteq DOMAIN h.block
<1>1. /\ DOMAIN g.block = 1 .. Len(g.block) /\ Len(g.block) \in Nat
      /\ DOMAIN h.block = 1 .. Len(h.block) /\ Len(h.block) \in Nat
      /\ Len(g.block) <= Len(h.block)
      BY Positions DEF Opens, IsBuilder, IsCode
<1>2. QED  BY <1>1

\* Opening less than is allowed.
LEMMA OpensMore ==
    ASSUME NEW g, NEW h, NEW S, NEW T, Opens(g, h, S), S \ {h.cur} \subseteq T
    PROVE  Opens(g, h, T)
BY DEF Opens

\* A builder with other blocks.
LEMMA WithBlocks ==
    ASSUME NEW g, IsBuilder(g), NEW bs, IsCode(bs), Len(g.block) <= Len(bs)
    PROVE  LET h == [g EXCEPT !.block = bs]
           IN  IsBuilder(h) /\ h.block = bs /\ h.cur = g.cur /\ h.val = g.val
<1> DEFINE h == [g EXCEPT !.block = bs]
<1>1. h = [block |-> bs, cur |-> g.cur, val |-> g.val, scopes |-> g.scopes,
           globals |-> g.globals, functions |-> g.functions]
      BY DEF IsBuilder
<1>2. g.cur \in DOMAIN bs
  <2>1. /\ DOMAIN g.block = 1 .. Len(g.block) /\ DOMAIN bs = 1 .. Len(bs)
        /\ Len(g.block) \in Nat /\ Len(bs) \in Nat
        BY Positions DEF IsBuilder, IsCode
  <2>2. QED  BY <2>1 DEF IsBuilder
<1>3. QED  BY <1>1, <1>2 DEF IsBuilder

\* One block replaced.
LEMMA CodeReplaced ==
    ASSUME NEW bs, IsCode(bs), NEW b, NEW is, IsBlock(is)
    PROVE  LET cs == [bs EXCEPT ![b] = is]
           IN  /\ IsCode(cs) /\ Len(cs) = Len(bs) /\ DOMAIN cs = DOMAIN bs
               /\ \A c \in DOMAIN bs : c # b => cs[c] = bs[c]
               /\ b \in DOMAIN bs => cs[b] = is
<1> DEFINE cs == [bs EXCEPT ![b] = is]
<1>1. /\ IsSequence(cs) /\ Len(cs) = Len(bs) /\ DOMAIN cs = DOMAIN bs
      /\ \A c \in DOMAIN bs : c # b => cs[c] = bs[c]
      /\ b \in DOMAIN bs => cs[b] = is
      BY Replaced DEF IsCode
<1> HIDE DEF cs
<1>2. IsCode(cs)
      BY <1>1 DEF IsCode
<1>3. QED  BY <1>1, <1>2 DEF cs

\* An instruction added to a block.
LEMMA BlockAppended ==
    ASSUME NEW is, IsBlock(is), NEW i, "op" \in DOMAIN i
    PROVE  IsBlock(Append(is, i)) /\ (Terminated(Append(is, i)) <=> IsTerminator(i))
<1> DEFINE js == Append(is, i)
<1>1. /\ IsSequence(js) /\ Len(js) = Len(is) + 1 /\ DOMAIN js = DOMAIN is \cup {Len(is) + 1}
      /\ \A n \in DOMAIN is : js[n] = is[n]
      /\ js[Len(is) + 1] = i /\ js # <<>> /\ Last(js) = i
      BY Appended DEF IsBlock
<1> HIDE DEF js
<1>2. IsBlock(js)
      BY <1>1 DEF IsBlock
<1>3. Terminated(js) <=> IsTerminator(i)
      BY <1>1 DEF Terminated
<1>4. QED  BY <1>2, <1>3 DEF js

\* Put adds to the insertion block, and closes it if it adds a terminator.
LEMMA PutOpens ==
    ASSUME NEW g, IsBuilder(g), NEW i, "op" \in DOMAIN i
    PROVE  LET h == Put(g, i)
           IN  /\ Opens(g, h, {}) /\ h.cur = g.cur /\ h.val = g.val
               /\ Len(h.block) = Len(g.block)
               /\ IsTerminator(i) => Closed(h)
<1> DEFINE is == Append(g.block[g.cur], i)
           bs == [g.block EXCEPT ![g.cur] = is]
           h == [g EXCEPT !.block = bs]
<1>1. IsBlock(is) /\ (Terminated(is) <=> IsTerminator(i))
      BY BlockAppended DEF IsBuilder, IsCode
<1>2. Put(g, i) = h
      BY DEF Put, IsBuilder
<1> HIDE DEF is
<1>3. /\ IsCode(bs) /\ Len(bs) = Len(g.block) /\ DOMAIN bs = DOMAIN g.block
      /\ \A c \in DOMAIN g.block : c # g.cur => bs[c] = g.block[c]
      /\ bs[g.cur] = is
      BY <1>1, CodeReplaced DEF IsBuilder
<1> HIDE DEF bs
<1>4. Len(bs) \in Nat
      BY <1>3 DEF IsCode, IsSequence
<1>5. IsBuilder(h) /\ h.block = bs /\ h.cur = g.cur /\ h.val = g.val
      BY <1>3, <1>4, WithBlocks
<1> HIDE DEF h
<1>6. Open(h) \ {g.cur} = Open(g) \ {g.cur} /\ (IsTerminator(i) => g.cur \notin Open(h))
      BY <1>1, <1>3, <1>5 DEF Open
<1>7. QED  BY <1>2, <1>3, <1>4, <1>5, <1>6 DEF Opens, Closed

\* The insertion point moves from a block that has its terminator.
LEMMA MoveOpens ==
    ASSUME NEW g, IsBuilder(g), NEW b \in DOMAIN g.block
    PROVE  LET h == MoveTo(g, b)
           IN  /\ Opens(g, h, IF Closed(g) THEN {} ELSE {g.cur})
               /\ h.cur = b /\ h.block = g.block /\ h.val = g.val
<1> DEFINE h == MoveTo(g, b)
<1>1. h = [block |-> g.block, cur |-> b, val |-> g.val, scopes |-> g.scopes,
           globals |-> g.globals, functions |-> g.functions]
      BY DEF MoveTo, IsBuilder
<1>2. IsCode(g.block) /\ \A f \in DOMAIN g.functions : IsSequence(g.functions[f].params)
      BY DEF IsBuilder
<1> HIDE DEF h
<1>3. /\ h.block = g.block /\ h.cur = b /\ h.val = g.val /\ h.functions = g.functions
      /\ h.scopes = g.scopes /\ h.globals = g.globals
      BY <1>1
<1>4. IsBuilder(h)
      BY <1>1, <1>2, <1>3 DEF IsBuilder
<1>5. Open(h) = Open(g) /\ Len(g.block) \in Nat
      BY <1>2, <1>3 DEF Open, IsCode, IsSequence
<1>6. QED  BY <1>3, <1>4, <1>5 DEF Opens, Closed, h

\* New blocks are empty.
LEMMA NewBlocksOpens ==
    ASSUME NEW g, IsBuilder(g), NEW n \in Nat
    PROVE  LET h == NewBlocks(g, n)
           IN  /\ Opens(g, h, Len(g.block) + 1 .. Len(g.block) + n)
               /\ h.cur = g.cur /\ h.val = g.val /\ Len(h.block) = Len(g.block) + n
               /\ Closed(g) => Closed(h)
<1> DEFINE ns == [i \in 1 .. n |-> <<>>]
           bs == g.block \o ns
           h == [g EXCEPT !.block = bs]
           S == {g.block[b] : b \in DOMAIN g.block} \cup {<<>>}
<1>1. NewBlocks(g, n) = h
      BY DEF NewBlocks, IsBuilder
<1>2. g.block \in Seq(S)
      BY InSeq DEF IsBuilder, IsCode
<1>3. ns \in Seq(S) /\ Len(ns) = n
  <2>1. ns \in [1 .. n -> S]
        OBVIOUS
  <2> HIDE DEF S, ns
  <2>2. ns \in Seq(S)
        BY <2>1, SeqDef
  <2>3. QED  BY <2>1, <2>2
<1>4. IsBlock(<<>>)
  <2>1. <<>> \in Seq({})
        OBVIOUS
  <2>2. IsSequence(<<>>)
        BY <2>1, FromSeq
  <2>3. DOMAIN <<>> = {}
        OBVIOUS
  <2>4. QED  BY <2>2, <2>3 DEF IsBlock
<1>5. /\ IsSequence(bs) /\ Len(bs) = Len(g.block) + n /\ Len(g.block) \in Nat
      /\ \A b \in 1 .. Len(g.block) : bs[b] = g.block[b]
      /\ \A b \in Len(g.block) + 1 .. Len(g.block) + n : bs[b] = <<>>
  <2>1. \A b \in 1 .. n : ns[b] = <<>>
        OBVIOUS
  <2> HIDE DEF S, ns
  <2>2. bs \in Seq(S) /\ Len(bs) = Len(g.block) + n /\ Len(g.block) \in Nat
        BY <1>2, <1>3
  <2>3. IsSequence(bs)
        BY <2>2, FromSeq
  <2>4. \A b \in 1 .. Len(g.block) : bs[b] = g.block[b]
        BY <1>2, <1>3
  <2>5. \A b \in Len(g.block) + 1 .. Len(g.block) + n : bs[b] = <<>>
    <3>1. \A b \in Len(g.block) + 1 .. Len(g.block) + n :
              b - Len(g.block) \in 1 .. n /\ bs[b] = ns[b - Len(g.block)]
          BY <1>2, <1>3, <2>2
    <3>2. QED  BY <3>1, <2>1
  <2>6. QED  BY <2>2, <2>3, <2>4, <2>5
<1> HIDE DEF bs, ns, S
<1>6. DOMAIN bs = 1 .. Len(g.block) + n /\ DOMAIN g.block = 1 .. Len(g.block)
      BY <1>5, Positions DEF IsBuilder, IsCode
<1>7. IsCode(bs)
  <2>1. ASSUME NEW b \in DOMAIN bs
        PROVE  IsBlock(bs[b])
    <3>1. CASE b \in 1 .. Len(g.block)
          BY <3>1, <1>5, <1>6 DEF IsBuilder, IsCode
    <3>2. CASE b \in Len(g.block) + 1 .. Len(g.block) + n
          BY <3>2, <1>4, <1>5
    <3>3. b \in 1 .. Len(g.block) \/ b \in Len(g.block) + 1 .. Len(g.block) + n
          BY <1>5, <1>6
    <3>4. QED  BY <3>1, <3>2, <3>3
  <2>2. QED  BY <2>1, <1>5 DEF IsCode
<1>8. Len(g.block) <= Len(bs)
      BY <1>5
<1>9. IsBuilder(h) /\ h.block = bs /\ h.cur = g.cur /\ h.val = g.val
      BY <1>7, <1>8, WithBlocks
<1> HIDE DEF h
<1>10. Open(h) \subseteq Open(g) \cup (Len(g.block) + 1 .. Len(g.block) + n)
  <2>1. ASSUME NEW b \in Open(h), b \notin Len(g.block) + 1 .. Len(g.block) + n
        PROVE  b \in Open(g)
    <3>1. b \in 1 .. Len(g.block)
          BY <2>1, <1>5, <1>6, <1>9 DEF Open
    <3>2. QED  BY <2>1, <3>1, <1>5, <1>6, <1>9 DEF Open
  <2>2. QED  BY <2>1
<1>11. Closed(g) => Closed(h)
  <2>1. h.cur \in 1 .. Len(g.block) /\ h.cur = g.cur
        BY <1>6, <1>9 DEF IsBuilder
  <2>2. h.cur \notin Len(g.block) + 1 .. Len(g.block) + n
        BY <1>5, <2>1
  <2>3. QED  BY <2>1, <2>2, <1>10 DEF Closed
<1>12. QED  BY <1>1, <1>5, <1>8, <1>9, <1>10, <1>11 DEF Opens

\* Code in the insertion block only.
Stays(g, h) ==
    Opens(g, h, {}) /\ h.cur = g.cur /\ Len(h.block) = Len(g.block)
\* Code that stays twice stays.
LEMMA StaysTwice ==
    ASSUME NEW g, NEW h, NEW k, IsBuilder(g), Stays(g, h), Stays(h, k)
    PROVE  Stays(g, k)
<1>1. Opens(g, k, ({} \ {h.cur}) \cup {})
      BY OpensTwice DEF Stays
<1>2. QED  BY <1>1, OpensMore DEF Stays

\* Code that stays adds nothing to what the code before it opened.
LEMMA OpensThenStays ==
    ASSUME NEW g, NEW h, NEW k, NEW S, IsBuilder(g), Opens(g, h, S), Stays(h, k)
    PROVE  Opens(g, k, S)
<1>1. Opens(g, k, (S \ {h.cur}) \cup {})
      BY OpensTwice DEF Stays
<1>2. QED  BY <1>1, OpensMore

\* Doing nothing, and giving another value.
LEMMA NothingStays ==
    ASSUME NEW g, IsBuilder(g)
    PROVE  Stays(g, g)
<1>1. Len(g.block) \in Nat
      BY DEF IsBuilder, IsCode, IsSequence
<1>2. QED  BY <1>1 DEF Stays, Opens

\* Nor does giving another value move the builder.
LEMMA GiveStays ==
    ASSUME NEW g, IsBuilder(g), NEW v
    PROVE  Stays(g, [g EXCEPT !.val = v])
<1> DEFINE h == [g EXCEPT !.val = v]
<1>1. h = [block |-> g.block, cur |-> g.cur, val |-> v, scopes |-> g.scopes,
           globals |-> g.globals, functions |-> g.functions]
      BY DEF IsBuilder
<1>2. /\ IsCode(g.block) /\ g.cur \in DOMAIN g.block
      /\ \A f \in DOMAIN g.functions : IsSequence(g.functions[f].params)
      BY DEF IsBuilder
<1> HIDE DEF h
<1>3. /\ h.block = g.block /\ h.cur = g.cur /\ h.val = v /\ h.functions = g.functions
      /\ h.scopes = g.scopes /\ h.globals = g.globals
      BY <1>1
<1>4. IsBuilder(h)
      BY <1>1, <1>2, <1>3 DEF IsBuilder
<1>5. Open(h) = Open(g) /\ Len(g.block) \in Nat
      BY <1>2, <1>3 DEF Open, IsCode, IsSequence
<1>6. QED  BY <1>3, <1>4, <1>5 DEF Stays, Opens, h

\* An instruction emitted, put or folded, and a value stored or converted.
LEMMA PutStays ==
    ASSUME NEW g, IsBuilder(g), NEW i, "op" \in DOMAIN i
    PROVE  Stays(g, Put(g, i))
BY PutOpens DEF Stays

\* An instruction whose value is given on.
LEMMA EmitStays ==
    ASSUME NEW g, IsBuilder(g), NEW i, "op" \in DOMAIN i
    PROVE  Stays(g, Emit(g, i))
<1>1. \A v : Stays(g, [g EXCEPT !.val = v])
      BY GiveStays
<1>2. \A v : Stays(g, [Put(g, i) EXCEPT !.val = v])
  <2>1. Stays(g, Put(g, i)) /\ IsBuilder(Put(g, i))
        BY PutStays DEF Stays, Opens
  <2>2. \A v : Stays(Put(g, i), [Put(g, i) EXCEPT !.val = v])
        BY <2>1, GiveStays
  <2>3. QED  BY <2>1, <2>2, StaysTwice
<1>3. QED  BY <1>1, <1>2 DEF Emit

\* A value made a truth value,
LEMMA TruthStays ==
    ASSUME NEW g, IsBuilder(g)
    PROVE  Stays(g, to_bool(g))
<1> DEFINE i == ICmp("!=", g.val, Const(0, g.val.ty))
<1>1. "op" \in DOMAIN i
      BY DEF ICmp
<1> HIDE DEF i
<1>2. Stays(g, g) /\ Stays(g, Emit(g, i)) /\ Stays(g, Give(g, Const(0, "i1")))
      BY <1>1, NothingStays, EmitStays, GiveStays DEF Give
<1>3. to_bool(g) \in {g, Emit(g, i), Give(g, Const(0, "i1"))}
      BY DEF to_bool, i
<1>4. QED  BY <1>2, <1>3

\* converted to a type,
LEMMA ConvertedStays ==
    ASSUME NEW g, IsBuilder(g), NEW t
    PROVE  Stays(g, coerce(g, t))
<1> DEFINE i == Convert(Conversion(g.val.ty, t), g.val, t)
<1>1. "op" \in DOMAIN i
      BY DEF Convert
<1> HIDE DEF i
<1>2. Stays(g, g) /\ Stays(g, Emit(g, i))
      BY <1>1, NothingStays, EmitStays
<1>3. QED  BY <1>2 DEF coerce, i

\* or stored.
LEMMA StoredStays ==
    ASSUME NEW g, IsBuilder(g), NEW a
    PROVE  Stays(g, Stored(a, g))
<1>1. "op" \in DOMAIN Store(a, g.val)
      BY DEF Store
<1>2. QED  BY <1>1, NothingStays, PutStays DEF Stored

\* Code that ends with a terminator, and the insertion point set elsewhere after it.
Ends(g, h) == Opens(g, h, {}) /\ Closed(h)
\* The insertion point leaves nothing open behind code that ends.
LEMMA EndsMoved ==
    ASSUME NEW g, NEW h, IsBuilder(g), Ends(g, h), NEW b \in DOMAIN h.block
    PROVE  LET k == MoveTo(h, b)
           IN  Opens(g, k, {}) /\ k.cur = b /\ k.block = h.block
<1>1. /\ Opens(h, MoveTo(h, b), {}) /\ MoveTo(h, b).cur = b
      /\ MoveTo(h, b).block = h.block
      BY MoveOpens DEF Ends, Opens
<1>2. Opens(g, MoveTo(h, b), ({} \ {h.cur}) \cup {})
      BY <1>1, OpensTwice DEF Ends
<1>3. QED  BY <1>1, <1>2, OpensMore

\* A terminator ends the code,
LEMMA PutEnds ==
    ASSUME NEW g, IsBuilder(g), NEW i, "op" \in DOMAIN i, IsTerminator(i)
    PROVE  /\ Ends(g, Put(g, i)) /\ Len(Put(g, i).block) = Len(g.block)
           /\ Put(g, i).cur = g.cur
BY PutOpens DEF Ends

\* which the jumps and returns are.
LEMMA Terminators ==
    /\ \A b : "op" \in DOMAIN Br(b) /\ IsTerminator(Br(b))
    /\ \A v, t, f : "op" \in DOMAIN CondBr(v, t, f) /\ IsTerminator(CondBr(v, t, f))
    /\ \A v, d : "op" \in DOMAIN SwitchOn(v, d) /\ IsTerminator(SwitchOn(v, d))
    /\ \A v : "op" \in DOMAIN Ret(v) /\ IsTerminator(Ret(v))
    /\ "op" \in DOMAIN RetVoid /\ IsTerminator(RetVoid)
BY DEF Br, CondBr, SwitchOn, Ret, RetVoid, IsTerminator

\* So does `if (!is_terminated()) CreateBr(b)`.
LEMMA FallthroughEnds ==
    ASSUME NEW g, IsBuilder(g), NEW b
    PROVE  /\ Ends(g, Fallthrough(g, b))
           /\ Len(Fallthrough(g, b).block) = Len(g.block)
<1>1. CASE Terminated(g.block[g.cur])
  <2>1. Fallthrough(g, b) = g
        BY <1>1 DEF Fallthrough
  <2>2. g.cur \notin Open(g)
        BY <1>1 DEF Open
  <2>3. QED  BY <2>1, <2>2, NothingStays DEF Ends, Stays, Closed
<1>2. CASE ~Terminated(g.block[g.cur])
  <2>1. Fallthrough(g, b) = Put(g, Br(b))
        BY <1>2 DEF Fallthrough
  <2>2. QED  BY <2>1, PutEnds, Terminators
<1>3. QED  BY <1>1, <1>2

\* A branch to a block if there is no terminator, and a move.
LEMMA FallsInto ==
    ASSUME NEW g, IsBuilder(g), NEW b, NEW c \in DOMAIN g.block
    PROVE  LET h == MoveTo(Fallthrough(g, b), c)
           IN  Opens(g, h, {}) /\ h.cur = c /\ Len(h.block) = Len(g.block)
<1>1. Ends(g, Fallthrough(g, b)) /\ Len(Fallthrough(g, b).block) = Len(g.block)
      BY FallthroughEnds
<1>2. DOMAIN Fallthrough(g, b).block = DOMAIN g.block
      BY <1>1, Positions DEF Ends, Opens, IsBuilder, IsCode
<1>3. QED  BY <1>1, <1>2, EndsMoved

\* A branch to a block and a move there.
LEMMA IntoOpens ==
    ASSUME NEW g, IsBuilder(g), NEW b \in DOMAIN g.block
    PROVE  LET h == Into(g, b)
           IN  Opens(g, h, {}) /\ h.cur = b /\ Len(h.block) = Len(g.block)
<1>1. Ends(g, Put(g, Br(b))) /\ Len(Put(g, Br(b)).block) = Len(g.block)
      BY PutEnds, Terminators
<1>2. DOMAIN Put(g, Br(b)).block = DOMAIN g.block
      BY <1>1, Positions DEF Ends, Opens, IsBuilder, IsCode
<1>3. QED  BY <1>1, <1>2, EndsMoved DEF Into

\* A condition and the branch on it.
LEMMA BranchOnEnds ==
    ASSUME NEW g, IsBuilder(g), NEW cond, Settled(cond, g), NEW t, NEW f
    PROVE  Ends(g, BranchOn(cond, g, t, f))
<1> DEFINE e == GenExpression(cond, g)
           c == to_bool(e)
           h == Put(c, CondBr(c.val, t, f))
<1>1. Opens(g, e, {}) /\ IsBuilder(e)
      BY DEF Settled, Settles, Opens
<1> HIDE DEF e
<1>2. Stays(e, c) /\ IsBuilder(c)
      BY <1>1, TruthStays DEF Stays, Opens
<1>3. Opens(g, c, {})
      BY <1>1, <1>2, OpensThenStays
<1> HIDE DEF c
<1>4. Stays(c, h) /\ Closed(h)
      BY <1>2, PutStays, PutEnds, Terminators DEF Ends
<1>5. Opens(g, h, {})
      BY <1>3, <1>4, OpensThenStays
<1>6. QED  BY <1>4, <1>5 DEF Ends, BranchOn, c, e

-----------------------------------------------------------------------------
(* What the pending methods keep *)

\* The blocks, lists and nodes a pending method goes on with, of the blocks B.
FrameKept(f, B) ==
    /\ Owned(f) \subseteq B
    /\ f.at = "THEN" => {"els", "merge"} \subseteq DOMAIN f
    /\ f.at = "ELSE" => "merge" \in DOMAIN f
    /\ f.at \in LoopFrames => "after" \in DOMAIN f
    /\ f.at = "DO_WHILE" => "head" \in DOMAIN f
    /\ f.at = "FOR" => "incr" \in DOMAIN f
    /\ f.at = "SWITCH" => /\ {"rest", "open", "default"} \subseteq DOMAIN f
                          /\ f.default \in B /\ f.open \in B \cup {NoBlock}
    /\ f.at = "RUN" => "rest" \in DOMAIN f /\ TopLevels(f.rest)
    /\ f.at = "GLOBALS" => "rest" \in DOMAIN f /\ TypedList(f.rest)
Kept(fs, B) == \A i \in DOMAIN fs : FrameKept(fs[i], B)

\* The blocks they will still make the insertion point.
Held(fs) == UNION {Owned(fs[i]) : i \in DOMAIN fs}

\* Every pending switch has an open block.
AllOpen(fs) == \A i \in DOMAIN fs : fs[i].at = "SWITCH" => fs[i].open # NoBlock

\* Blocks are only added.
LEMMA KeptMore ==
    ASSUME NEW fs, NEW B, NEW C, Kept(fs, B), B \subseteq C
    PROVE  Kept(fs, C)
BY DEF Kept, FrameKept

\* A call adds what its frame holds.
LEMMA KeptAppended ==
    ASSUME NEW fs, IsSequence(fs), NEW f, NEW B
    PROVE  LET gs == Append(fs, f)
           IN  /\ Kept(fs, B) /\ FrameKept(f, B) => Kept(gs, B)
               /\ Held(gs) = Held(fs) \cup Owned(f)
               /\ AllOpen(fs) /\ (f.at = "SWITCH" => f.open # NoBlock) => AllOpen(gs)
<1> DEFINE gs == Append(fs, f)
<1>1. /\ DOMAIN gs = DOMAIN fs \cup {Len(fs) + 1}
      /\ \A i \in DOMAIN fs : gs[i] = fs[i]
      /\ gs[Len(fs) + 1] = f
      BY Appended
<1> HIDE DEF gs
<1>2. Kept(fs, B) /\ FrameKept(f, B) => Kept(gs, B)
      BY <1>1 DEF Kept
<1>3. Held(gs) = Held(fs) \cup Owned(f)
      BY <1>1 DEF Held
<1>4. AllOpen(fs) /\ (f.at = "SWITCH" => f.open # NoBlock) => AllOpen(gs)
      BY <1>1 DEF AllOpen
<1>5. QED  BY <1>2, <1>3, <1>4 DEF gs

\* A return takes it away.
LEMMA KeptShortened ==
    ASSUME NEW fs, IsSequence(fs), fs # <<>>, NEW B, Kept(fs, B)
    PROVE  /\ Kept(Front(fs), B) /\ FrameKept(Last(fs), B)
           /\ Held(fs) = Held(Front(fs)) \cup Owned(Last(fs))
<1>1. /\ DOMAIN fs = 1 .. Len(fs) /\ Len(fs) \in Nat /\ Len(fs) >= 1
      /\ DOMAIN Front(fs) = 1 .. Len(fs) - 1
      /\ \A i \in 1 .. Len(fs) - 1 : Front(fs)[i] = fs[i]
      BY Shortened, Positions
<1>2. DOMAIN fs = DOMAIN Front(fs) \cup {Len(fs)}
      BY <1>1
<1>3. Last(fs) = fs[Len(fs)]
      BY DEF Last
<1>4. Kept(Front(fs), B) /\ FrameKept(Last(fs), B)
      BY <1>1, <1>2, <1>3 DEF Kept
<1>5. Held(fs) = Held(Front(fs)) \cup Owned(Last(fs))
      BY <1>1, <1>2, <1>3 DEF Held
<1>6. QED  BY <1>4, <1>5

\* Locals of the running method change, but none that holds a block it owns.
LEMMA TopKept ==
    ASSUME NEW fs, Stack(fs), NEW e, NEW B, Kept(fs, B), FrameKept(e, B),
           Owned(e) = Owned(Last(fs))
    PROVE  LET gs == [fs EXCEPT ![Len(fs)] = e]
           IN  /\ Kept(gs, B) /\ Held(gs) = Held(fs)
               /\ AllOpen(fs) /\ (e.at = "SWITCH" => e.open # NoBlock) => AllOpen(gs)
<1> DEFINE gs == [fs EXCEPT ![Len(fs)] = e]
<1>1. IsSequence(fs) /\ Len(fs) \in DOMAIN fs /\ Last(fs) = fs[Len(fs)]
      BY Running1 DEF Stack
<1>2. /\ DOMAIN gs = DOMAIN fs /\ gs[Len(fs)] = e
      /\ \A i \in DOMAIN fs : i # Len(fs) => gs[i] = fs[i]
      BY <1>1, Replaced
<1> HIDE DEF gs
<1>3. Kept(gs, B)
      BY <1>2 DEF Kept
<1>4. \A i \in DOMAIN fs : Owned(gs[i]) = Owned(fs[i])
      BY <1>1, <1>2
<1>5. Held(gs) = Held(fs)
      BY <1>2, <1>4 DEF Held
<1>6. AllOpen(fs) /\ (e.at = "SWITCH" => e.open # NoBlock) => AllOpen(gs)
      BY <1>2 DEF AllOpen
<1>7. QED  BY <1>3, <1>5, <1>6 DEF gs

\* Such as the cursor of its list and the open block of a switch.
LEMMA OtherLocals ==
    ASSUME NEW f, NEW B, FrameKept(f, B), NEW x \in {"rest", "open"}, NEW v,
           NEW e, e = [f EXCEPT ![x] = v], "at" \in DOMAIN f,
           x = "rest" => f.at \notin {"RUN", "GLOBALS"},
           x = "open" /\ f.at = "SWITCH" => v \in B \cup {NoBlock}
    PROVE  FrameKept(e, B) /\ Owned(e) = Owned(f) /\ e.at = f.at
<1>1. DOMAIN e = DOMAIN f /\ \A y \in DOMAIN f : y # x => e[y] = f[y]
      OBVIOUS
<1>2. x \in DOMAIN f => e[x] = v
      OBVIOUS
<1>3. e.at = f.at
      BY <1>1
<1>4. Owned(e) = Owned(f)
  <2>1. CASE f.at = "THEN"
        BY <2>1, <1>1, <1>3 DEF Owned, FrameKept
  <2>2. CASE f.at = "ELSE"
        BY <2>2, <1>1, <1>3 DEF Owned, FrameKept
  <2>3. CASE f.at = "DO_WHILE"
        BY <2>3, <1>1, <1>3 DEF Owned, FrameKept, LoopFrames
  <2>4. CASE f.at = "FOR"
        BY <2>4, <1>1, <1>3 DEF Owned, FrameKept, LoopFrames
  <2>5. CASE f.at \in {"WHILE", "SWITCH"}
        BY <2>5, <1>1, <1>3 DEF Owned, FrameKept, LoopFrames
  <2>6. CASE f.at \notin {"THEN", "ELSE", "DO_WHILE", "FOR", "WHILE", "SWITCH"}
        BY <2>6, <1>3 DEF Owned
  <2>7. QED  BY <2>1, <2>2, <2>3, <2>4, <2>5, <2>6
<1>5. f.at = "SWITCH" => e.default \in B /\ e.open \in B \cup {NoBlock}
  <2>1. SUFFICES ASSUME f.at = "SWITCH"
                 PROVE  e.default \in B /\ e.open \in B \cup {NoBlock}
        OBVIOUS
  <2>2. "default" \in DOMAIN f /\ "open" \in DOMAIN f /\ f.default \in B
        /\ f.open \in B \cup {NoBlock}
        BY <2>1 DEF FrameKept
  <2>3. e.default = f.default
        BY <1>1, <2>2
  <2>4. e.open \in B \cup {NoBlock}
        BY <1>1, <1>2, <2>1, <2>2
  <2>5. QED  BY <2>2, <2>3, <2>4
<1>6. f.at \in {"RUN", "GLOBALS"} => ("rest" \in DOMAIN f => e.rest = f.rest)
      BY <1>1
<1>7. FrameKept(e, B)
      BY <1>1, <1>3, <1>4, <1>5, <1>6 DEF FrameKept
<1>8. QED  BY <1>3, <1>4, <1>7

\* The cursor in particular.
LEMMA CursorKept ==
    ASSUME NEW f, NEW B, FrameKept(f, B), "at" \in DOMAIN f, f.at \notin {"RUN", "GLOBALS"},
           NEW v, NEW e, e = [f EXCEPT !.rest = v]
    PROVE  FrameKept(e, B) /\ Owned(e) = Owned(f) /\ e.at = f.at
<1>1. "rest" \in {"rest", "open"} /\ ~("rest" = "open") /\ e = [f EXCEPT !["rest"] = v]
      OBVIOUS
<1>2. QED  BY <1>1, OtherLocals, Zenon

-----------------------------------------------------------------------------
(* The invariants *)

OpenBlocks == {b \in Blocks : ~Terminated(block[b])}

JumpsKept == IsSequence(pending) /\ JumpTargets

\* What the blocks are, and that every block kept somewhere is one.
BlockInv ==
    /\ NestInv
    /\ IsCode(block)
    /\ \A f \in DOMAIN functions : IsSequence(functions[f].params)
    /\ cur \in Blocks \cup {NoBlock}
    /\ InFunction(frames) => cur \in Blocks
    /\ Kept(frames, Blocks)
    /\ JumpsKept

\* An open block is the insertion block or held; a switch without an open block
\* is running, in a block that has its terminator.
OpenInv ==
    /\ InFunction(frames) => OpenBlocks \ {cur} \subseteq Held(frames)
    /\ ~InFunction(frames) => OpenBlocks = {}
    /\ AllOpen(Callers)
    /\ Frame.at = "SWITCH" /\ Frame.open = NoBlock => is_terminated
Preserved == BlockInv' /\ (OpenInv /\ CasesGoOn => OpenInv')

\* The builder a method of a function begins with.
LEMMA HereBuilds ==
    ASSUME BlockInv, InFunction(frames)
    PROVE  /\ IsBuilder(Here) /\ Open(Here) = OpenBlocks
           /\ Here.block = block /\ Here.cur = cur
<1>1. /\ Here.block = block /\ Here.cur = cur /\ Here.functions = functions
      /\ Here.scopes = scopes /\ Here.globals = globals /\ Here.val = NoValue
      BY DEF Here
<1>2. IsBuilder(Here)
      BY <1>1 DEF BlockInv, IsBuilder, Here, Blocks
<1>3. Open(Here) = OpenBlocks
      BY <1>1 DEF Open, OpenBlocks, Blocks
<1>4. QED  BY <1>1, <1>2, <1>3

\* The step leaves open no block that was terminated or in D, S and the
\* insertion block apart.
Emitted(S, D) ==
    /\ IsCode(block')
    /\ \A f \in DOMAIN functions' : IsSequence(functions'[f].params)
    /\ cur' \in DOMAIN block'
    /\ Blocks \subseteq DOMAIN block'
    /\ {b \in DOMAIN block' : ~Terminated(block'[b])} \ {cur'}
          \subseteq ((OpenBlocks \ {cur}) \ D) \cup S

\* Code made by a builder.
LEMMA EmittedBy ==
    ASSUME BlockInv, InFunction(frames), NEW k, Built(k), NEW S, NEW D,
           IsBuilder(k), Len(block) <= Len(k.block),
           Open(k) \ {k.cur} \subseteq ((OpenBlocks \ {cur}) \ D) \cup S
    PROVE  Emitted(S, D)
<1>1. block' = k.block /\ cur' = k.cur /\ functions' = k.functions
      BY DEF Built
<1>2. /\ DOMAIN block = 1 .. Len(block) /\ DOMAIN k.block = 1 .. Len(k.block)
      /\ Len(block) \in Nat /\ Len(k.block) \in Nat
      BY Positions DEF BlockInv, IsBuilder, IsCode
<1>3. DOMAIN block \subseteq DOMAIN k.block
      BY <1>2
<1>4. QED  BY <1>1, <1>3 DEF Emitted, IsBuilder, Open, Blocks

\* Code that opens blocks of S.
LEMMA EmittedOpens ==
    ASSUME BlockInv, InFunction(frames), NEW k, Built(k), NEW S, Opens(Here, k, S)
    PROVE  Emitted(S, {})
BY HereBuilds, EmittedBy DEF Opens

\* Code in two parts: what the first ended in is closed.
LEMMA EmittedPast ==
    ASSUME BlockInv, InFunction(frames), NEW h, NEW k, Built(k), NEW S,
           Opens(Here, h, {}), Opens(h, k, S)
    PROVE  Emitted(S, {h.cur})
<1>1. IsBuilder(Here) /\ Open(Here) = OpenBlocks /\ Here.block = block /\ Here.cur = cur
      BY HereBuilds
<1>2. Opens(Here, k, ({} \ {h.cur}) \cup S)
      BY <1>1, OpensTwice
<1>3. Open(k) \ {k.cur} \subseteq ((OpenBlocks \ {cur}) \ {h.cur}) \cup S
      BY <1>1 DEF Opens
<1>4. QED  BY <1>1, <1>2, <1>3, EmittedBy DEF Opens

\* Jump targets stay when blocks are added.
LEMMA SameJumps ==
    ASSUME BlockInv, Blocks \subseteq DOMAIN block', UNCHANGED <<loops, jumps>>
    PROVE  JumpsKept'
BY DEF BlockInv, JumpsKept, JumpTargets, Blocks, jumps

\* A loop context is pushed, with blocks there are.
LEMMA MoreLoops ==
    ASSUME BlockInv, Blocks \subseteq DOMAIN block', UNCHANGED jumps,
           NEW l, loops' = Append(loops, l),
           l.brk \in DOMAIN block', l.cont \in DOMAIN block' \cup {NoBlock}
    PROVE  JumpsKept'
<1>1. IsSequence(loops)
      BY DEF BlockInv, NestInv, Balanced
<1>2. /\ DOMAIN loops' = DOMAIN loops \cup {Len(loops) + 1}
      /\ \A i \in DOMAIN loops : loops'[i] = loops[i]
      /\ loops'[Len(loops) + 1] = l
      BY <1>1, Appended
<1>3. \A i \in DOMAIN loops' : /\ loops'[i].brk \in DOMAIN block'
                               /\ loops'[i].cont \in DOMAIN block' \cup {NoBlock}
      BY <1>2 DEF BlockInv, JumpsKept, JumpTargets, Blocks
<1>4. QED  BY <1>3 DEF BlockInv, JumpsKept, JumpTargets, Blocks, jumps

\* One is popped.
LEMMA FewerLoops ==
    ASSUME BlockInv, Blocks \subseteq DOMAIN block', UNCHANGED jumps,
           loops # <<>>, loops' = Front(loops)
    PROVE  JumpsKept'
<1>1. IsSequence(loops)
      BY DEF BlockInv, NestInv, Balanced
<1>2. /\ DOMAIN loops = 1 .. Len(loops) /\ Len(loops) \in Nat
      /\ DOMAIN loops' = 1 .. Len(loops) - 1
      /\ \A i \in 1 .. Len(loops) - 1 : loops'[i] = loops[i]
      BY <1>1, Positions, Shortened
<1>3. \A i \in DOMAIN loops' : i \in DOMAIN loops /\ loops'[i] = loops[i]
      BY <1>2
<1>4. QED  BY <1>3 DEF BlockInv, JumpsKept, JumpTargets, Blocks, jumps

-----------------------------------------------------------------------------
(* How a step in a function leaves the stack *)

\* Sequences with the same elements.
LEMMA SameSequence ==
    ASSUME NEW s, IsSequence(s), NEW t, IsSequence(t), Len(s) = Len(t),
           \A i \in 1 .. Len(s) : s[i] = t[i]
    PROVE  s = t
<1>1. s = [i \in 1 .. Len(s) |-> s[i]] /\ t = [i \in 1 .. Len(s) |-> t[i]]
      BY DEF IsSequence
<1>2. [i \in 1 .. Len(s) |-> s[i]] = [i \in 1 .. Len(s) |-> t[i]]
      OBVIOUS
<1>3. QED  BY <1>1, <1>2

\* The stack taken apart.
LEMMA Apart ==
    ASSUME NEW fs, Stack(fs)
    PROVE  /\ IsSequence(Front(fs))
           /\ \A e : [fs EXCEPT ![Len(fs)] = e] = Append(Front(fs), e)
<1>1. IsSequence(fs) /\ fs # <<>>
      BY Running1 DEF Stack
<1>2. DOMAIN fs = 1 .. Len(fs) /\ Len(fs) \in Nat /\ Len(fs) >= 1
      BY <1>1, Positions DEF Stack
<1>3. /\ IsSequence(Front(fs)) /\ Len(Front(fs)) = Len(fs) - 1
      /\ DOMAIN Front(fs) = 1 .. Len(fs) - 1
      /\ \A i \in 1 .. Len(fs) - 1 : Front(fs)[i] = fs[i]
      BY <1>1, Shortened
<1>4. ASSUME NEW e
      PROVE  [fs EXCEPT ![Len(fs)] = e] = Append(Front(fs), e)
  <2> DEFINE s == [fs EXCEPT ![Len(fs)] = e]
             t == Append(Front(fs), e)
  <2>1. /\ IsSequence(s) /\ Len(s) = Len(fs) /\ s[Len(fs)] = e
        /\ \A i \in 1 .. Len(fs) - 1 : s[i] = fs[i]
    <3>1. /\ Len(fs) \in DOMAIN fs
          /\ \A i \in 1 .. Len(fs) - 1 : i \in DOMAIN fs /\ i # Len(fs)
      <4>1. PICK n : n = Len(fs)
            OBVIOUS
      <4>2. n \in Nat /\ n >= 1 /\ DOMAIN fs = 1 .. n
            BY <1>2, <4>1
      <4>3. n \in 1 .. n /\ \A i \in 1 .. n - 1 : i \in 1 .. n /\ i # n
            BY <4>2
      <4>4. QED  BY <4>1, <4>2, <4>3
    <3>2. /\ IsSequence(s) /\ Len(s) = Len(fs)
          /\ \A i \in DOMAIN fs : i # Len(fs) => s[i] = fs[i]
          /\ s[Len(fs)] = e
          BY <1>1, <3>1, Replaced
    <3> HIDE DEF s
    <3>3. QED  BY <3>1, <3>2
  <2>2. /\ IsSequence(t) /\ Len(t) = Len(fs) /\ t[Len(fs)] = e
        /\ \A i \in 1 .. Len(fs) - 1 : t[i] = fs[i]
    <3>1. /\ IsSequence(t) /\ Len(t) = Len(Front(fs)) + 1
          /\ \A i \in DOMAIN Front(fs) : t[i] = Front(fs)[i]
          /\ t[Len(Front(fs)) + 1] = e
          BY <1>3, Appended
    <3> HIDE DEF t
    <3>2. QED  BY <1>2, <1>3, <3>1
  <2> HIDE DEF s, t
  <2>3. \A i \in 1 .. Len(fs) : s[i] = t[i]
        BY <1>2, <2>1, <2>2
  <2>4. s = t
        BY <2>1, <2>2, <2>3, SameSequence
  <2>5. QED  BY <2>4 DEF s, t
<1>5. QED  BY <1>3, <1>4

\* The stack put together.
LEMMA AppendedApart ==
    ASSUME NEW s, IsSequence(s), NEW e
    PROVE  Front(Append(s, e)) = s /\ Last(Append(s, e)) = e
<1> DEFINE t == Append(s, e)
<1>1. /\ IsSequence(t) /\ Len(t) = Len(s) + 1 /\ t # <<>> /\ Last(t) = e
      /\ DOMAIN s = 1 .. Len(s) /\ Len(s) \in Nat
      /\ \A i \in DOMAIN s : t[i] = s[i]
      BY Appended, Positions
<1> HIDE DEF t
<1>2. /\ IsSequence(Front(t)) /\ Len(Front(t)) = Len(t) - 1
      /\ \A i \in 1 .. Len(t) - 1 : Front(t)[i] = t[i]
      BY <1>1, Shortened
<1>3. Len(t) - 1 = Len(s)
      BY <1>1
<1>4. \A i \in 1 .. Len(s) : Front(t)[i] = s[i]
      BY <1>1, <1>2, <1>3
<1>5. Front(t) = s
      BY <1>2, <1>3, <1>4, SameSequence
<1>6. QED  BY <1>1, <1>5 DEF t

\* The running method's frame is now f, above fs.
LEMMA Pushed ==
    ASSUME BlockInv, NestInv', InFunction(frames), NEW S, NEW D, Emitted(S, D),
           NEW fs, IsSequence(fs), NEW f, frames' = Append(fs, f),
           f.at \notin {"RUN", "FUNC", "GLOBALS"} \/ InFunction(frames'),
           Kept(fs, DOMAIN block'), FrameKept(f, DOMAIN block'), JumpsKept',
           OpenInv /\ CasesGoOn =>
               /\ AllOpen(fs)
               /\ Held(frames) \subseteq Held(fs) \cup Owned(f) \cup {cur'} \cup D
               /\ S \subseteq Held(fs) \cup Owned(f) \cup {cur'}
               /\ f.at = "SWITCH" /\ f.open = NoBlock => Terminated(block'[cur'])
    PROVE  Preserved
<1>1. Callers' = fs /\ Frame' = f
      BY AppendedApart DEF Callers, Frame
<1>2. InFunction(frames')
  <2>1. Stack(frames') /\ Last(frames') = f
        BY <1>1 DEF NestInv, Balanced, Frame
  <2>2. QED  BY <2>1, Running1
<1>3. Kept(frames', DOMAIN block') /\ Held(frames') = Held(fs) \cup Owned(f)
      BY KeptAppended
<1>4. BlockInv'
      BY <1>2, <1>3 DEF Emitted, BlockInv, Blocks
<1>5. ASSUME OpenInv, CasesGoOn
      PROVE  OpenInv'
  <2>1. OpenBlocks' = {b \in DOMAIN block' : ~Terminated(block'[b])}
        BY DEF OpenBlocks, Blocks
  <2>2. OpenBlocks' \ {cur'} \subseteq Held(frames')
    <3>1. OpenBlocks \ {cur} \subseteq Held(frames)
          BY <1>5 DEF OpenInv
    <3>2. OpenBlocks' \ {cur'} \subseteq ((OpenBlocks \ {cur}) \ D) \cup S
          BY <2>1 DEF Emitted
    <3>3. /\ Held(frames) \subseteq Held(frames') \cup {cur'} \cup D
          /\ S \subseteq Held(frames') \cup {cur'}
          BY <1>3, <1>5
    <3>4. QED  BY <3>1, <3>2, <3>3
  <2>3. AllOpen(Callers')
        BY <1>1, <1>5
  <2>4. Frame'.at = "SWITCH" /\ Frame'.open = NoBlock => is_terminated'
        BY <1>1, <1>5 DEF is_terminated
  <2>5. QED  BY <1>2, <2>2, <2>3, <2>4 DEF OpenInv
<1>6. QED  BY <1>4, <1>5 DEF Preserved

\* The running method returns to another one of the function.
LEMMA Popped ==
    ASSUME BlockInv, NestInv', InFunction(frames), NEW S, NEW D, Emitted(S, D),
           OpenInv => S = {},
           Len(frames) >= 3, frames' = Callers, JumpsKept',
           Owned(Frame) \subseteq {cur'} \cup D
    PROVE  Preserved
<1>1. Stack(frames) /\ Kept(frames, Blocks)
      BY DEF BlockInv, NestInv, Balanced
<1>2. /\ IsSequence(frames) /\ frames # <<>>
      /\ Stack(Callers) /\ InFunction(Callers)
      BY <1>1, StackShortened DEF Callers
<1>3. Kept(Callers, Blocks) /\ Held(frames) = Held(Callers) \cup Owned(Frame)
      BY <1>1, <1>2, KeptShortened DEF Callers, Frame
<1>4. Kept(Callers, DOMAIN block')
      BY <1>3, KeptMore DEF Emitted
<1>5. BlockInv'
      BY <1>2, <1>4 DEF Emitted, BlockInv, Blocks
<1>6. ASSUME OpenInv
      PROVE  OpenInv'
  <2>1. OpenBlocks' = {b \in DOMAIN block' : ~Terminated(block'[b])}
        BY DEF OpenBlocks, Blocks
  <2>2. OpenBlocks' \ {cur'} \subseteq Held(frames')
        BY <1>3, <1>6, <2>1 DEF Emitted, OpenInv
  <2>3. /\ AllOpen(Front(Callers))
        /\ Last(Callers).at = "SWITCH" => Last(Callers).open # NoBlock
    <3>1. /\ DOMAIN Callers = 1 .. Len(Callers) /\ Len(Callers) \in Nat
          /\ Last(Callers) = Callers[Len(Callers)] /\ Len(Callers) \in DOMAIN Callers
          /\ IsSequence(Callers) /\ Callers # <<>>
          BY <1>2, Running1, Positions DEF Stack
    <3>2. /\ DOMAIN Front(Callers) = 1 .. Len(Callers) - 1
          /\ \A i \in 1 .. Len(Callers) - 1 : Front(Callers)[i] = Callers[i]
          BY <3>1, Shortened
    <3>3. \A i \in DOMAIN Front(Callers) :
              i \in DOMAIN Callers /\ Front(Callers)[i] = Callers[i]
          BY <3>1, <3>2
    <3>4. AllOpen(Callers)
          BY <1>6 DEF OpenInv
    <3>5. QED  BY <3>1, <3>3, <3>4 DEF AllOpen
  <2>4. AllOpen(Callers') /\ (Frame'.at = "SWITCH" => Frame'.open # NoBlock)
        BY <2>3 DEF Callers, Frame
  <2>5. QED  BY <1>2, <2>2, <2>4 DEF OpenInv
<1>7. QED  BY <1>5, <1>6 DEF Preserved

\* The stack below the running method, and what its own frame owns.
LEMMA Taken ==
    ASSUME BlockInv
    PROVE  /\ Stack(frames) /\ IsSequence(Callers) /\ "at" \in DOMAIN Frame
           /\ Kept(Callers, Blocks) /\ FrameKept(Frame, Blocks)
           /\ Held(frames) = Held(Callers) \cup Owned(Frame)
<1>1. Stack(frames) /\ Kept(frames, Blocks)
      BY DEF BlockInv, NestInv, Balanced
<1>2. IsSequence(frames) /\ frames # <<>> /\ "at" \in DOMAIN Frame
      BY <1>1, Running1 DEF Stack, Frame
<1>3. IsSequence(Callers)
      BY <1>1, Apart DEF Callers
<1>4. QED  BY <1>1, <1>2, <1>3, KeptShortened DEF Callers, Frame

\* The methods that gen_func calls are on its stack.
LEMMA InStack ==
    ASSUME BlockInv, Frame.at \notin {"RUN", "FUNC", "GLOBALS"}
    PROVE  InFunction(frames) /\ Len(frames) >= 3
BY Running1 DEF BlockInv, NestInv, Balanced, Frame

\* The stack of a method that goes on with its list.
LEMMA AdvancedKept ==
    ASSUME BlockInv, Frame.at \in {"BODY", "ITEM", "LIST"}
    PROVE  LET top == [Frame EXCEPT !.rest = Tail(@)]
           IN  /\ Advanced = Append(Callers, top) /\ top.at = Frame.at
               /\ FrameKept(top, Blocks) /\ Owned(top) = Owned(Frame)
               /\ IsSequence(Advanced) /\ Kept(Advanced, Blocks)
               /\ Held(Advanced) = Held(frames)
               /\ AllOpen(Callers) => AllOpen(Advanced)
<1> DEFINE top == [Frame EXCEPT !.rest = Tail(@)]
<1>1. /\ Stack(frames) /\ IsSequence(Callers) /\ "at" \in DOMAIN Frame
      /\ Kept(Callers, Blocks) /\ FrameKept(Frame, Blocks)
      /\ Held(frames) = Held(Callers) \cup Owned(Frame)
      BY Taken
<1>2. Advanced = [frames EXCEPT ![Len(frames)] = top]
  <2>1. Len(frames) \in DOMAIN frames /\ Frame = frames[Len(frames)]
        BY <1>1, Running1 DEF Frame
  <2>2. QED  BY <2>1 DEF Advanced
<1>3. FrameKept(top, Blocks) /\ Owned(top) = Owned(Frame) /\ top.at = Frame.at
  <2>1. PICK v : v = Tail(Frame.rest)
        OBVIOUS
  <2>2. top = [Frame EXCEPT !["rest"] = v]
        BY <2>1
  <2>3. FrameKept(Frame, Blocks) /\ "at" \in DOMAIN Frame
        BY <1>1
  <2> HIDE DEF top
  <2>4. QED  BY <2>2, <2>3, OtherLocals, Zenon
<1> HIDE DEF top
<1>4. Advanced = Append(Callers, top)
      BY <1>1, <1>2, Apart DEF Callers
<1>5. /\ IsSequence(Advanced) /\ Kept(Advanced, Blocks)
      /\ Held(Advanced) = Held(frames)
      /\ AllOpen(Callers) => AllOpen(Advanced)
      BY <1>1, <1>3, <1>4, KeptAppended, Appended
<1>6. QED  BY <1>3, <1>4, <1>5 DEF top

\* A statement that ends in itself.
LEMMA GoingOn ==
    ASSUME BlockInv, NestInv', Frame.at \in {"BODY", "ITEM", "LIST"},
           frames' = Advanced, JumpsKept', Emitted({}, {})
    PROVE  Preserved
<1> DEFINE top == [Frame EXCEPT !.rest = Tail(@)]
<1>1. /\ frames' = Append(Callers, top) /\ top.at = Frame.at
      /\ FrameKept(top, Blocks) /\ Owned(top) = Owned(Frame)
      BY AdvancedKept
<1>2. /\ IsSequence(Callers) /\ Kept(Callers, Blocks)
      /\ Held(frames) = Held(Callers) \cup Owned(Frame)
      BY Taken
<1> HIDE DEF top
<1>3. Kept(Callers, DOMAIN block') /\ FrameKept(top, DOMAIN block')
  <2>1. Blocks \subseteq DOMAIN block'
        BY DEF Emitted
  <2>2. Kept(Callers, DOMAIN block')
        BY <1>2, <2>1, KeptMore
  <2>3. FrameKept(top, DOMAIN block')
        BY <1>1, <2>1 DEF FrameKept
  <2>4. QED  BY <2>2, <2>3
<1>4. InFunction(frames)
      BY InStack
<1>5. OpenInv => AllOpen(Callers)
      BY DEF OpenInv
<1>6. QED  BY <1>1, <1>2, <1>3, <1>4, <1>5, Pushed

\* A statement that calls a method f.
LEMMA CallsOne ==
    ASSUME BlockInv, NestInv', Frame.at \in {"BODY", "ITEM", "LIST"}, NEW S, Emitted(S, {}),
           NEW f, frames' = Append(Advanced, f), f.at \notin {"RUN", "FUNC", "GLOBALS"},
           FrameKept(f, DOMAIN block'), JumpsKept', S \subseteq Owned(f) \cup {cur'},
           f.at = "SWITCH" /\ f.open = NoBlock => Terminated(block'[cur'])
    PROVE  Preserved
<1>1. /\ IsSequence(Advanced) /\ Kept(Advanced, Blocks)
      /\ Held(Advanced) = Held(frames)
      /\ AllOpen(Callers) => AllOpen(Advanced)
      BY AdvancedKept
<1>2. Kept(Advanced, DOMAIN block')
      BY <1>1, KeptMore DEF Emitted
<1>3. InFunction(frames)
      BY InStack
<1>4. OpenInv => AllOpen(Callers)
      BY DEF OpenInv
<1>5. QED  BY <1>1, <1>2, <1>3, <1>4, Pushed

\* A method f that ends the body it calls, on the stack fs.
LEMMA WithBody ==
    ASSUME BlockInv, NestInv', InFunction(frames), NEW S, NEW D, Emitted(S, D),
           NEW fs, IsSequence(fs), Kept(fs, Blocks), OpenInv => AllOpen(fs),
           Held(frames) \subseteq Held(fs) \cup {cur'} \cup D,
           NEW f, FrameKept(f, DOMAIN block'), S \subseteq Owned(f) \cup {cur'},
           f.at # "SWITCH", NEW ss, frames' = fs \o <<f, BodyFrame(ss)>>, JumpsKept'
    PROVE  Preserved
<1> DEFINE gs == Append(fs, f)
           b == BodyFrame(ss)
<1>1. frames' = Append(gs, b)
      BY TwoAppended
<1>2. Kept(fs, DOMAIN block')
      BY KeptMore DEF Emitted
<1>3. /\ IsSequence(gs) /\ Kept(gs, DOMAIN block') /\ Held(gs) = Held(fs) \cup Owned(f)
      /\ AllOpen(fs) => AllOpen(gs)
      BY <1>2, KeptAppended, Appended
<1>4. b.at = "BODY" /\ FrameKept(b, DOMAIN block') /\ Owned(b) = {}
      BY DEF BodyFrame, FrameKept, Owned, LoopFrames
<1> HIDE DEF gs, b
<1>5. QED  BY <1>1, <1>3, <1>4, Pushed

-----------------------------------------------------------------------------
(* Statements that leave the insertion block as it is, or add to it *)

\* A step that builds nothing emits nothing.
LEMMA Unbuilt ==
    ASSUME BlockInv, InFunction(frames), UNCHANGED built
    PROVE  Emitted({}, {})
<1>1. IsBuilder(Here) /\ Here.block = block /\ Here.cur = cur
      BY HereBuilds
<1>2. Here.functions = functions
      BY DEF Here
<1>3. Built(Here)
      BY <1>1, <1>2 DEF Built, built
<1>4. QED  BY <1>1, <1>3, NothingStays, EmittedOpens DEF Stays

\* Where gen_stmt is, it is in a function.
LEMMA AtWork ==
    ASSUME BlockInv, InList \/ AtSwitchItem \/ Running("LIST")
    PROVE  InFunction(frames) /\ IsBuilder(Here)
<1>1. InFunction(frames)
      BY InStack DEF InList, AtSwitchItem, Running
<1>2. QED  BY <1>1, HereBuilds

\* gen_stmt returns at once.
LEMMA SkipKeeps ==
    ASSUME BlockInv, NestInv', SkipStatement \/ GenNestedCase
    PROVE  Preserved
<1>1. /\ UNCHANGED built /\ UNCHANGED <<loops, jumps>> /\ frames' = Advanced /\ InList
      BY DEF SkipStatement, GenNestedCase, AtStatement, context
<1>2. Emitted({}, {})
      BY <1>1, AtWork, Unbuilt
<1>3. JumpsKept'
      BY <1>1, <1>2, SameJumps DEF Emitted
<1>4. QED  BY <1>1, <1>2, <1>3, GoingOn DEF InList

\* A list or a body is done.
LEMMA ReturnKeeps ==
    ASSUME BlockInv, NestInv', EndVarList \/ EndBody
    PROVE  Preserved
<1>1. /\ UNCHANGED built /\ UNCHANGED <<loops, jumps>> /\ frames' = Callers
      /\ Frame.at \in {"LIST", "BODY"}
      BY DEF EndVarList, EndBody, Running, context
<1>2. InFunction(frames) /\ Len(frames) >= 3
      BY <1>1, InStack
<1>3. Emitted({}, {})
      BY <1>1, <1>2, Unbuilt
<1>4. JumpsKept'
      BY <1>1, <1>3, SameJumps DEF Emitted
<1>5. Owned(Frame) = {}
      BY <1>1 DEF Owned
<1>6. QED  BY <1>1, <1>2, <1>3, <1>4, <1>5, Popped

\* An expression as a statement.
LEMMA NodeKeeps ==
    ASSUME BlockInv, NestInv', ExpressionsSettle, GenNode
    PROVE  Preserved
<1>1. /\ Built(GenExpression(Statement, Here)) /\ UNCHANGED <<loops, jumps>>
      /\ frames' = Advanced /\ InList
      BY DEF GenNode, context
<1>2. Settled(Statement, Here)
      BY DEF GenNode, ExpressionsSettle
<1>3. InFunction(frames) /\ IsBuilder(Here)
      BY <1>1, AtWork
<1>4. Opens(Here, GenExpression(Statement, Here), {})
      BY <1>2 DEF Settled, Settles, Opens
<1>5. Emitted({}, {})
      BY <1>1, <1>3, <1>4, EmittedOpens
<1>6. JumpsKept'
      BY <1>1, <1>5, SameJumps DEF Emitted
<1>7. QED  BY <1>1, <1>5, <1>6, GoingOn DEF InList

\* A variable with its slot in scope, and the value of its initialiser stored.
LEMMA VariableKeeps ==
    ASSUME BlockInv, NestInv', ExpressionsSettle, GenVarDecl \/ GenListed
    PROVE  Preserved
<1> DEFINE v == Statement
           t == dtype_to_llvm[v.dtype]
           g == WithVariable(v, t)
           e == GenExpression(v.val, g)
           k == Stored(Slot(Len(slots) + 1), coerce(e, t))
<1>1. /\ frames' = Advanced /\ UNCHANGED <<loops, jumps>>
      /\ UNCHANGED built \/ (t # "void" /\ Built(k))
      BY DEF GenVarDecl, GenListed, gen_var_decl
<1>2. Declaring /\ Frame.at \in {"BODY", "ITEM", "LIST"}
      BY DEF GenVarDecl, GenListed, Declaring, AtStatement, InList, Running
<1>3. InFunction(frames) /\ IsBuilder(Here)
      BY <1>2, InStack, HereBuilds
<1>4. CASE UNCHANGED built
  <2>1. Emitted({}, {})
        BY <1>3, <1>4, Unbuilt
  <2>2. JumpsKept'
        BY <1>1, <2>1, SameJumps DEF Emitted
  <2>3. QED  BY <1>1, <1>2, <2>1, <2>2, GoingOn
<1>5. CASE t # "void" /\ Built(k)
  <2>1. Opens(Here, g, {}) /\ IsBuilder(g)
    <3>1. /\ g = [block |-> Here.block, cur |-> Here.cur, val |-> Here.val,
                  scopes |-> Named(v, t), globals |-> Here.globals,
                  functions |-> Here.functions]
          BY DEF WithVariable, Here
    <3>2. /\ IsCode(Here.block) /\ Here.cur \in DOMAIN Here.block
          /\ \A f \in DOMAIN Here.functions : IsSequence(Here.functions[f].params)
          BY <1>3 DEF IsBuilder
    <3> HIDE DEF g
    <3>3. /\ g.block = Here.block /\ g.cur = Here.cur /\ g.functions = Here.functions
          /\ g.scopes = Named(v, t) /\ g.val = Here.val /\ g.globals = Here.globals
          BY <3>1
    <3>4. IsBuilder(g)
          BY <3>1, <3>2, <3>3 DEF IsBuilder
    <3>5. Open(g) = Open(Here) /\ Len(g.block) <= Len(g.block)
          BY <3>2, <3>3 DEF Open, IsCode, IsSequence
    <3>6. QED  BY <3>3, <3>4, <3>5 DEF Opens
  <2>2. Settled(v.val, g)
        BY <1>2, <1>5 DEF ExpressionsSettle, TypeDeclared
  <2> HIDE DEF g, t
  <2>3. Opens(g, e, {})
        BY <2>2 DEF Settled, Settles, Opens
  <2> HIDE DEF e
  <2>4. Stays(e, coerce(e, t)) /\ IsBuilder(coerce(e, t))
        BY <2>3, ConvertedStays DEF Opens, Stays
  <2>5. Stays(coerce(e, t), k)
        BY <2>4, StoredStays
  <2> HIDE DEF k
  <2>6. Opens(g, k, {})
        BY <2>1, <2>3, <2>4, <2>5, OpensThenStays
  <2>7. Opens(Here, k, ({} \ {g.cur}) \cup {})
        BY <1>3, <2>1, <2>6, OpensTwice
  <2>8. Opens(Here, k, {})
        BY <2>7, OpensMore
  <2>9. Emitted({}, {})
        BY <1>3, <1>5, <2>8, EmittedOpens
  <2>10. JumpsKept'
        BY <1>1, <2>9, SameJumps DEF Emitted
  <2>11. QED  BY <1>1, <1>2, <2>9, <2>10, GoingOn
<1>6. QED  BY <1>1, <1>4, <1>5

\* A list or a body begins.
LEMMA ListKeeps ==
    ASSUME BlockInv, NestInv', GenVarList \/ GenBlock
    PROVE  Preserved
<1>1. PICK f : /\ frames' = Append(Advanced, f) /\ f.at \in {"LIST", "BODY"}
      BY DEF GenVarList, GenBlock, BodyFrame
<1>2. UNCHANGED built /\ UNCHANGED <<loops, jumps>> /\ InList
      BY DEF GenVarList, GenBlock, AtStatement, context
<1>3. Emitted({}, {})
      BY <1>2, AtWork, Unbuilt
<1>4. JumpsKept'
      BY <1>2, <1>3, SameJumps DEF Emitted
<1>5. FrameKept(f, DOMAIN block')
      BY <1>1 DEF FrameKept, Owned, LoopFrames
<1>6. QED  BY <1>1, <1>2, <1>3, <1>4, <1>5, CallsOne DEF InList

\* A return closes the insertion block.
LEMMA GenReturnKeeps ==
    ASSUME BlockInv, NestInv', ExpressionsSettle, GenReturn
    PROVE  Preserved
<1> DEFINE t == functions[fn.name].ret
           e == GenExpression(Statement.exp, Here)
           g == IF Statement.exp = Nil \/ t = "void" THEN Here ELSE coerce(e, t)
<1>1. /\ Built(Returned(g)) /\ UNCHANGED <<loops, jumps>>
      /\ frames' = Advanced /\ InList
      BY DEF GenReturn, AtStatement, context
<1>2. InFunction(frames) /\ IsBuilder(Here)
      BY <1>1, AtWork
<1>3. Opens(Here, g, {})
  <2>1. CASE Statement.exp = Nil \/ t = "void"
        BY <2>1, <1>2, NothingStays DEF Stays
  <2>2. CASE ~(Statement.exp = Nil \/ t = "void")
    <3>1. Settled(Statement.exp, Here)
          BY <2>2 DEF GenReturn, ExpressionsSettle
    <3>2. Opens(Here, e, {}) /\ IsBuilder(e)
          BY <3>1 DEF Settled, Settles, Opens
    <3> HIDE DEF e, t
    <3>3. Stays(e, coerce(e, t))
          BY <3>2, ConvertedStays
    <3>4. QED  BY <2>2, <1>2, <3>2, <3>3, OpensThenStays
  <2>3. QED  BY <2>1, <2>2
<1> HIDE DEF g
<1>4. Stays(g, Returned(g))
      BY <1>3, PutStays, Terminators DEF Returned, Opens
<1>5. Emitted({}, {})
      BY <1>1, <1>2, <1>3, <1>4, OpensThenStays, EmittedOpens
<1>6. JumpsKept'
      BY <1>1, <1>5, SameJumps DEF Emitted
<1>7. QED  BY <1>1, <1>5, <1>6, GoingOn DEF InList

\* A break, continue or backward goto closes it, or is dropped.
LEMMA JumpKeeps ==
    ASSUME BlockInv, NestInv', GenBreak \/ GenContinue \/ GenGotoBack
    PROVE  Preserved
<1>1. PICK b : Built(IF b = NoBlock THEN Here ELSE Put(Here, Br(b)))
      BY DEF GenBreak, GenContinue, GenGotoBack, Jump
<1>2. UNCHANGED <<loops, jumps>> /\ frames' = Advanced /\ InList
      BY DEF GenBreak, GenContinue, GenGotoBack, Jump, AtStatement, context
<1>3. InFunction(frames) /\ IsBuilder(Here)
      BY <1>2, AtWork
<1>4. Opens(Here, IF b = NoBlock THEN Here ELSE Put(Here, Br(b)), {})
      BY <1>3, NothingStays, PutStays, Terminators DEF Stays
<1>5. Emitted({}, {})
      BY <1>1, <1>3, <1>4, EmittedOpens
<1>6. JumpsKept'
      BY <1>2, <1>5, SameJumps DEF Emitted
<1>7. QED  BY <1>2, <1>5, <1>6, GoingOn DEF InList

-----------------------------------------------------------------------------
(* Labels and forward gotos *)

\* Of the n blocks after the l of g, block b is entered and the others are open.
Entered(g, h, l, n, b) ==
    /\ Opens(g, h, (l + 1 .. l + n) \ {b})
    /\ h.cur = b
    /\ Len(h.block) = l + n /\ l \in Nat
    /\ DOMAIN h.block = 1 .. l + n

\* New blocks, one of which is entered after a terminator i.
LEMMA NewEntered ==
    ASSUME NEW g, IsBuilder(g), NEW l, l = Len(g.block), NEW n \in Nat,
           NEW b, b \in l + 1 .. l + n, NEW i, "op" \in DOMAIN i, IsTerminator(i),
           NEW h, h = MoveTo(Put(NewBlocks(g, n), i), b)
    PROVE  Entered(g, h, l, n, b)
<1> DEFINE m == NewBlocks(g, n)
           k == Put(m, i)
<1>1. Opens(g, m, l + 1 .. l + n) /\ Len(m.block) = l + n /\ IsBuilder(m)
      BY NewBlocksOpens DEF Opens
<1>2. h = MoveTo(k, b)
      OBVIOUS
<1> HIDE DEF m
<1>3. Ends(m, k) /\ Len(k.block) = l + n
      BY <1>1, PutEnds
<1> HIDE DEF k
<1>4. DOMAIN k.block = 1 .. l + n
      BY <1>3, Positions DEF Ends, Opens, IsBuilder, IsCode
<1>5. l \in Nat
      BY DEF IsBuilder, IsCode, IsSequence
<1>6. b \in DOMAIN k.block
      BY <1>4, <1>5
<1>7. Opens(m, h, {}) /\ h.cur = b /\ h.block = k.block
      BY <1>1, <1>2, <1>3, <1>6, EndsMoved
<1>8. Opens(g, h, ((l + 1 .. l + n) \ {m.cur}) \cup {})
      BY <1>1, <1>7, OpensTwice
<1>9. Opens(g, h, (l + 1 .. l + n) \ {b})
      BY <1>7, <1>8, OpensMore
<1>10. QED  BY <1>3, <1>4, <1>5, <1>7, <1>9 DEF Entered

\* The insertion block is closed by a branch to the new one.
LEMMA LabelKeeps ==
    ASSUME BlockInv, NestInv', GenLabel \/ GenGotoForward
    PROVE  Preserved
<1> DEFINE l == Len(block)
<1>1. Built(InNewBlock) /\ UNCHANGED loops /\ frames' = Advanced /\ InList
      BY DEF GenLabel, GenGotoForward, AtStatement
<1>2. InFunction(frames) /\ IsBuilder(Here) /\ Here.block = block /\ cur \in Blocks
      BY <1>1, AtWork, HereBuilds DEF BlockInv
<1>3. /\ Opens(Here, InNewBlock, (l + 1 .. l + 1) \ {l + 1})
      /\ Len(InNewBlock.block) = l + 1 /\ l \in Nat
  <2> DEFINE b == l + 1
             i == Br(b)
  <2>1. b \in l + 1 .. l + 1 /\ 1 \in Nat /\ l = Len(Here.block)
        BY <1>2 DEF IsBuilder, IsCode, IsSequence
  <2>2. InNewBlock = MoveTo(Put(NewBlocks(Here, 1), i), b)
        BY DEF InNewBlock, Label1
  <2>3. "op" \in DOMAIN i /\ IsTerminator(i)
        BY Terminators
  <2> HIDE DEF l, i, b
  <2>4. Entered(Here, InNewBlock, l, 1, b)
        BY <1>2, <2>1, <2>2, <2>3, NewEntered
  <2>5. QED  BY <2>4 DEF Entered, b
<1>4. (l + 1 .. l + 1) \ {l + 1} = {} /\ l + 1 \in 1 .. l + 1
      BY <1>3
<1>5. Emitted({}, {}) /\ l + 1 \in DOMAIN block'
  <2>1. DOMAIN InNewBlock.block = 1 .. l + 1
        BY <1>3, Positions DEF Opens, IsBuilder, IsCode
  <2>2. QED  BY <1>1, <1>2, <1>3, <1>4, <2>1, EmittedOpens DEF Built
<1>6. Blocks \subseteq DOMAIN block'
      BY <1>5 DEF Emitted
<1>7. CASE GenLabel
  <2>1. labels' = With(labels, Statement.name, l + 1) /\ pending' = pending
        BY <1>7 DEF GenLabel, Label1
  <2>2. \A x \in DOMAIN labels' :
            labels'[x] = l + 1 \/ (x \in DOMAIN labels /\ labels'[x] = labels[x])
        BY <2>1 DEF With
  <2>3. JumpsKept'
        BY <1>1, <1>5, <1>6, <2>1, <2>2 DEF BlockInv, JumpsKept, JumpTargets, Blocks
  <2>4. QED  BY <1>1, <1>5, <2>3, GoingOn DEF InList
<1>8. CASE GenGotoForward
  <2> DEFINE p == [name |-> Statement.name, from |-> cur, at |-> Len(block[cur]) + 1]
  <2>1. labels' = labels /\ pending' = Append(pending, p)
        BY <1>8 DEF GenGotoForward
  <2>2. p.from = cur
        OBVIOUS
  <2> HIDE DEF p
  <2>3. /\ IsSequence(pending') /\ DOMAIN pending' = DOMAIN pending \cup {Len(pending) + 1}
        /\ \A i \in DOMAIN pending : pending'[i] = pending[i]
        /\ pending'[Len(pending) + 1] = p
        BY <2>1, Appended DEF BlockInv, JumpsKept
  <2>4. JumpsKept'
        BY <1>1, <1>2, <1>6, <2>1, <2>2, <2>3 DEF BlockInv, JumpsKept, JumpTargets, Blocks
  <2>5. QED  BY <1>1, <1>5, <2>4, GoingOn DEF InList
<1>9. QED  BY <1>7, <1>8

-----------------------------------------------------------------------------
(* if *)

\* The code of a condition.
LEMMA ConditionOpens ==
    ASSUME NEW g, IsBuilder(g), NEW cond, Settled(cond, g)
    PROVE  Opens(g, to_bool(GenExpression(cond, g)), {})
<1> DEFINE e == GenExpression(cond, g)
<1>1. Opens(g, e, {}) /\ IsBuilder(e)
      BY DEF Settled, Settles, Opens
<1> HIDE DEF e
<1>2. QED  BY <1>1, TruthStays, OpensThenStays DEF e

\* The blocks of an if on a condition c: all but the first are owned.
LEMMA ThenOpens ==
    ASSUME NEW c, IsBuilder(c), NEW s, NEW n, n = Len(c.block), NEW fs,
           EnterThen(s, c, n, fs)
    PROVE  LET k == MoveTo(Put(NewBlocks(c, 3), CondBr(c.val, n + 1, n + 2)), n + 1)
               f == [at |-> "THEN", next |-> s.next, els |-> n + 2, merge |-> n + 3]
           IN  /\ Built(k) /\ Opens(c, k, Owned(f)) /\ FrameKept(f, DOMAIN block')
               /\ frames' = fs \o <<f, BodyFrame(s.body)>>
               /\ UNCHANGED <<loops, jumps>>
<1> DEFINE k == MoveTo(Put(NewBlocks(c, 3), CondBr(c.val, n + 1, n + 2)), n + 1)
           f == [at |-> "THEN", next |-> s.next, els |-> n + 2, merge |-> n + 3]
<1>1. /\ Opens(c, k, (n + 1 .. n + 3) \ {n + 1})
      /\ k.cur = n + 1 /\ Len(k.block) = n + 3 /\ n \in Nat
  <2> DEFINE i == CondBr(c.val, n + 1, n + 2)
             b == n + 1
  <2>1. b \in n + 1 .. n + 3 /\ 3 \in Nat
        BY DEF IsBuilder, IsCode, IsSequence
  <2>2. "op" \in DOMAIN i /\ IsTerminator(i)
        BY Terminators
  <2> HIDE DEF i, b
  <2>3. Entered(c, MoveTo(Put(NewBlocks(c, 3), i), b), n, 3, b)
        BY <2>1, <2>2, NewEntered
  <2>4. QED  BY <2>3 DEF Entered, i, b
<1>2. Built(k) /\ frames' = fs \o <<f, BodyFrame(s.body)>> /\ UNCHANGED <<loops, jumps>>
      BY DEF EnterThen
<1>3. Owned(f) = {n + 2, n + 3}
      BY DEF Owned
<1> HIDE DEF k
<1>4. Opens(c, k, Owned(f))
  <2>1. ((n + 1 .. n + 3) \ {n + 1}) \ {k.cur} \subseteq {n + 2, n + 3}
        BY <1>1
  <2>2. QED  BY <1>1, <1>3, <2>1, OpensMore
<1>5. DOMAIN block' = 1 .. n + 3
      BY <1>1, <1>2, Positions DEF Built, Opens, IsBuilder, IsCode
<1>6. FrameKept(f, DOMAIN block')
      BY <1>1, <1>3, <1>5 DEF FrameKept, LoopFrames
<1>7. QED  BY <1>2, <1>4, <1>6 DEF k

\* The then block is entered, the two others are held.
LEMMA IfKeeps ==
    ASSUME BlockInv, NestInv', ExpressionsSettle, GenIf
    PROVE  Preserved
<1> DEFINE c == to_bool(GenExpression(Statement.cond, Here))
           n == Len(c.block)
           f == [at |-> "THEN", next |-> Statement.next, els |-> n + 2, merge |-> n + 3]
           k == MoveTo(Put(NewBlocks(c, 3), CondBr(c.val, n + 1, n + 2)), n + 1)
<1>1. AtStatement("IF") /\ InList /\ EnterThen(Statement, c, n, Advanced)
      BY DEF GenIf, EnterIf, EnterOn, AtStatement
<1>2. InFunction(frames) /\ IsBuilder(Here)
      BY <1>1, AtWork
<1>3. Opens(Here, c, {}) /\ IsBuilder(c)
      BY <1>1, <1>2, ConditionOpens DEF ExpressionsSettle, Opens
<1> HIDE DEF c
<1>4. /\ Built(k) /\ Opens(c, k, Owned(f)) /\ FrameKept(f, DOMAIN block')
      /\ frames' = Advanced \o <<f, BodyFrame(Statement.body)>>
      /\ UNCHANGED <<loops, jumps>>
      BY <1>1, <1>3, ThenOpens
<1>5. f.at = "THEN"
      OBVIOUS
<1> HIDE DEF n, f, k
<1>6. Opens(Here, k, ({} \ {c.cur}) \cup Owned(f))
      BY <1>2, <1>3, <1>4, OpensTwice
<1>7. Emitted(Owned(f), {})
      BY <1>2, <1>4, <1>6, OpensMore, EmittedOpens
<1>8. /\ IsSequence(Advanced) /\ Kept(Advanced, Blocks) /\ Held(Advanced) = Held(frames)
      /\ OpenInv => AllOpen(Advanced)
      BY <1>1, AdvancedKept DEF OpenInv, InList
<1>9. JumpsKept'
      BY <1>4, <1>7, SameJumps DEF Emitted
<1>10. QED  BY <1>2, <1>4, <1>5, <1>7, <1>8, <1>9, WithBody

\* The else part: its block, and what is still owned after the then part.
LEMMA ElseKept ==
    ASSUME BlockInv, Running("THEN")
    PROVE  LET e == [at |-> "ELSE", merge |-> Frame.merge]
           IN  /\ InFunction(frames) /\ IsBuilder(Here)
               /\ Opens(Here, InElse, {}) /\ InElse.cur = Frame.els
               /\ IsBuilder(InElse)
               /\ AfterThen = Append(Callers, e) /\ FrameKept(e, Blocks)
               /\ IsSequence(AfterThen) /\ Kept(AfterThen, Blocks)
               /\ Held(frames) = Held(Callers) \cup {Frame.els, Frame.merge}
               /\ Held(AfterThen) = Held(Callers) \cup {Frame.merge}
               /\ OpenInv => AllOpen(AfterThen)
<1> DEFINE e == [at |-> "ELSE", merge |-> Frame.merge]
<1>1. Frame.at = "THEN" /\ InFunction(frames)
      BY InStack DEF Running
<1>2. IsBuilder(Here) /\ Here.block = block
      BY <1>1, HereBuilds
<1>3. /\ IsSequence(Callers) /\ Kept(Callers, Blocks) /\ FrameKept(Frame, Blocks)
      /\ Held(frames) = Held(Callers) \cup Owned(Frame)
      BY Taken
<1>4. Owned(Frame) = {Frame.els, Frame.merge} /\ Owned(Frame) \subseteq Blocks
      BY <1>1, <1>3 DEF Owned, FrameKept
<1>5. Opens(Here, InElse, {}) /\ InElse.cur = Frame.els /\ IsBuilder(InElse)
      BY <1>2, <1>4, FallsInto DEF InElse, Blocks, Opens
<1>6. FrameKept(e, Blocks) /\ Owned(e) = {Frame.merge} /\ e.at = "ELSE"
      BY <1>4 DEF Owned, FrameKept, LoopFrames
<1>7. AfterThen = Append(Callers, e)
      BY DEF AfterThen
<1> HIDE DEF e
<1>8. /\ IsSequence(AfterThen) /\ Kept(AfterThen, Blocks)
      /\ Held(AfterThen) = Held(Callers) \cup {Frame.merge}
      /\ OpenInv => AllOpen(AfterThen)
      BY <1>3, <1>6, <1>7, KeptAppended, Appended DEF OpenInv
<1>9. QED  BY <1>1, <1>2, <1>3, <1>4, <1>5, <1>6, <1>7, <1>8 DEF e

\* The else block is entered, and left for the if in it.
LEMMA ElseIfKeeps ==
    ASSUME BlockInv, NestInv', ExpressionsSettle, GenElseIf
    PROVE  Preserved
<1> DEFINE s == Frame.next
           c == to_bool(GenExpression(s.cond, InElse))
           n == Len(c.block)
           f == [at |-> "THEN", next |-> s.next, els |-> n + 2, merge |-> n + 3]
           k == MoveTo(Put(NewBlocks(c, 3), CondBr(c.val, n + 1, n + 2)), n + 1)
<1>1. Running("THEN") /\ s.type = "IF" /\ EnterThen(s, c, n, AfterThen)
      BY DEF GenElseIf, EnterIf, EnterOn
<1>2. /\ InFunction(frames) /\ IsBuilder(Here)
      /\ Opens(Here, InElse, {}) /\ InElse.cur = Frame.els /\ IsBuilder(InElse)
      /\ IsSequence(AfterThen) /\ Kept(AfterThen, Blocks)
      /\ Held(frames) = Held(Callers) \cup {Frame.els, Frame.merge}
      /\ Held(AfterThen) = Held(Callers) \cup {Frame.merge}
      /\ OpenInv => AllOpen(AfterThen)
      BY <1>1, ElseKept
<1>3. Opens(InElse, c, {}) /\ IsBuilder(c)
      BY <1>1, <1>2, ConditionOpens DEF ExpressionsSettle, Opens
<1> HIDE DEF c
<1>4. /\ Built(k) /\ Opens(c, k, Owned(f)) /\ FrameKept(f, DOMAIN block')
      /\ frames' = AfterThen \o <<f, BodyFrame(s.body)>>
      /\ UNCHANGED <<loops, jumps>>
      BY <1>1, <1>3, ThenOpens
<1>5. f.at = "THEN"
      OBVIOUS
<1> HIDE DEF n, f, k
<1>6. Opens(InElse, k, ({} \ {c.cur}) \cup Owned(f))
      BY <1>2, <1>3, <1>4, OpensTwice
<1>7. Emitted(Owned(f), {Frame.els})
      BY <1>2, <1>4, <1>6, OpensMore, EmittedPast
<1>8. JumpsKept'
      BY <1>4, <1>7, SameJumps DEF Emitted
<1>9. Held(frames) \subseteq Held(AfterThen) \cup {cur'} \cup {Frame.els}
      BY <1>2
<1>10. QED  BY <1>2, <1>4, <1>5, <1>7, <1>8, <1>9, WithBody

\* The else block is entered, the one after the if is held.
LEMMA ElseKeeps ==
    ASSUME BlockInv, NestInv', GenElse \/ GenNoElse
    PROVE  Preserved
<1> DEFINE e == [at |-> "ELSE", merge |-> Frame.merge]
           b == BodyFrame(Frame.next.body)
<1>1. Running("THEN") /\ Built(InElse) /\ UNCHANGED <<loops, jumps>>
      BY DEF GenElse, GenNoElse, context
<1>2. /\ InFunction(frames) /\ IsBuilder(Here)
      /\ Opens(Here, InElse, {}) /\ InElse.cur = Frame.els
      /\ AfterThen = Append(Callers, e) /\ FrameKept(e, Blocks)
      /\ IsSequence(AfterThen) /\ Kept(AfterThen, Blocks)
      /\ Held(frames) = Held(Callers) \cup {Frame.els, Frame.merge}
      /\ Held(AfterThen) = Held(Callers) \cup {Frame.merge}
      /\ OpenInv => AllOpen(AfterThen)
      BY <1>1, ElseKept
<1>3. Emitted({}, {}) /\ cur' = Frame.els
      BY <1>1, <1>2, EmittedOpens DEF Built
<1>4. JumpsKept' /\ Blocks \subseteq DOMAIN block'
      BY <1>1, <1>3, SameJumps DEF Emitted
<1>5. CASE GenElse
  <2>1. frames' = Append(AfterThen, b) /\ Kept(AfterThen, DOMAIN block')
        BY <1>2, <1>4, <1>5, KeptMore DEF GenElse
  <2>2. b.at = "BODY" /\ FrameKept(b, DOMAIN block') /\ Owned(b) = {}
        BY DEF BodyFrame, FrameKept, Owned, LoopFrames
  <2> HIDE DEF b
  <2>3. QED  BY <1>2, <1>3, <1>4, <2>1, <2>2, Pushed
<1>6. CASE GenNoElse
  <2>1. frames' = Append(Callers, e) /\ e.at = "ELSE"
        BY <1>2, <1>6 DEF GenNoElse
  <2>2. /\ IsSequence(Callers) /\ Kept(Callers, DOMAIN block')
        /\ FrameKept(e, DOMAIN block') /\ Owned(e) = {Frame.merge}
        BY <1>2, <1>4, Taken, KeptMore DEF FrameKept, Owned
  <2> HIDE DEF e
  <2>3. QED  BY <1>2, <1>3, <1>4, <2>1, <2>2, Pushed DEF OpenInv
<1>7. QED  BY <1>5, <1>6

\* The block after the if is entered.
LEMMA EndIfKeeps ==
    ASSUME BlockInv, NestInv', EndIf
    PROVE  Preserved
<1> DEFINE k == MoveTo(Fallthrough(Here, Frame.merge), Frame.merge)
<1>1. /\ Frame.at = "ELSE" /\ Built(k) /\ frames' = Callers
      /\ UNCHANGED <<loops, jumps>>
      BY DEF EndIf, Running, context
<1>2. InFunction(frames) /\ Len(frames) >= 3
      BY <1>1, InStack
<1>3. IsBuilder(Here) /\ Here.block = block
      BY <1>2, HereBuilds
<1>4. Owned(Frame) = {Frame.merge} /\ Frame.merge \in Blocks
      BY <1>1, Taken DEF Owned, FrameKept
<1>5. Opens(Here, k, {}) /\ k.cur = Frame.merge
      BY <1>3, <1>4, FallsInto DEF Blocks
<1> HIDE DEF k
<1>6. Emitted({}, {}) /\ cur' = Frame.merge
      BY <1>1, <1>2, <1>5, EmittedOpens DEF Built
<1>7. JumpsKept'
      BY <1>1, <1>6, SameJumps DEF Emitted
<1>8. QED  BY <1>1, <1>2, <1>4, <1>6, <1>7, Popped

-----------------------------------------------------------------------------
(* Loops *)

\* A loop pushed around a body, with its blocks built: those it will enter are owned.
LEMMA LoopEntered ==
    ASSUME BlockInv, NestInv', InList, NEW k, Built(k), NEW f, Opens(Here, k, Owned(f)),
           FrameKept(f, DOMAIN k.block), f.at # "SWITCH",
           NEW brk \in DOMAIN k.block, NEW cont \in DOMAIN k.block,
           NEW ss, EnterLoop(brk, cont, f, ss)
    PROVE  Preserved
<1>1. InFunction(frames) /\ IsBuilder(Here)
      BY AtWork
<1>2. Emitted(Owned(f), {}) /\ block' = k.block
      BY <1>1, EmittedOpens DEF Built
<1> DEFINE l == [brk |-> brk, cont |-> cont]
<1>3. /\ loops' = Append(loops, l) /\ UNCHANGED jumps
      /\ frames' = Advanced \o <<f, BodyFrame(ss)>>
      BY DEF EnterLoop
<1>4. l.brk = brk /\ l.cont = cont
      OBVIOUS
<1> HIDE DEF l
<1>5. JumpsKept'
      BY <1>2, <1>3, <1>4, MoreLoops DEF Emitted
<1>6. /\ IsSequence(Advanced) /\ Kept(Advanced, Blocks) /\ Held(Advanced) = Held(frames)
      /\ OpenInv => AllOpen(Advanced)
      BY AdvancedKept DEF OpenInv, InList
<1>7. QED  BY <1>1, <1>2, <1>3, <1>5, <1>6, WithBody

\* A loop left for the block after it.
LEMMA LoopLeft ==
    ASSUME BlockInv, NestInv', InFunction(frames), Len(frames) >= 3,
           Frame.at \in LoopFrames, LeaveLoop,
           NEW S, NEW D, Emitted(S, D),
           OpenInv => S = {},
           Owned(Frame) \subseteq {cur'} \cup D
    PROVE  Preserved
<1>1. loops' = Front(loops) /\ frames' = Callers /\ UNCHANGED jumps
      BY DEF LeaveLoop
<1>2. loops # <<>>
  <2>1. Balanced(frames, loops, scopes)
        BY DEF BlockInv, NestInv
  <2>2. Len(frames) >= 2
        BY <2>1, Positions DEF Balanced, Stack
  <2>3. QED  BY <2>1, <2>2, BalancedShortened DEF Frame
<1>3. JumpsKept'
      BY <1>1, <1>2, FewerLoops DEF Emitted
<1>4. QED  BY <1>1, <1>3, Popped

\* A loop's blocks, the test of its condition and the body it moves to.
LEMMA TestOpens ==
    ASSUME NEW g, IsBuilder(g), NEW l, NEW n \in Nat, NEW b, NEW h, Entered(g, h, l, n, b),
           NEW k, Ends(h, k), NEW body \in DOMAIN h.block, NEW m, m = MoveTo(k, body),
           NEW S, (l + 1 .. l + n) \ {b, body} \subseteq S
    PROVE  Opens(g, m, S)
<1>1. DOMAIN h.block \subseteq DOMAIN k.block
      BY MoreBlocks DEF Ends, Entered, Opens
<1>2. Opens(h, m, {}) /\ m.cur = body
      BY <1>1, EndsMoved DEF Entered, Opens
<1>3. Opens(g, m, (((l + 1 .. l + n) \ {b}) \ {h.cur}) \cup {})
      BY <1>2, OpensTwice DEF Entered
<1>4. h.cur = b
      BY DEF Entered
<1>5. Opens(g, m, S)
      BY <1>2, <1>3, <1>4, OpensMore
<1>6. QED  BY <1>2, <1>5

\* The body is entered, the block after the loop is held.
LEMMA WhileKeeps ==
    ASSUME BlockInv, NestInv', ExpressionsSettle, GenWhile
    PROVE  Preserved
<1> DEFINE l == Len(block)
           head == l + 1
           test == BranchOn(Statement.cond, InWhileTest, head + 1, head + 2)
           k == MoveTo(test, head + 1)
           f == [at |-> "WHILE", head |-> head, after |-> head + 2]
<1>1. /\ AtStatement("WHILE") /\ InList /\ Built(k)
      /\ EnterLoop(head + 2, head, f, Statement.body)
      BY DEF GenWhile, AtStatement
<1>2. IsBuilder(Here) /\ Here.block = block
      BY <1>1, AtWork, HereBuilds
<1>3. l \in Nat
      BY <1>2 DEF IsBuilder, IsCode, IsSequence
<1>4. Owned(f) = {l + 3} /\ f.at = "WHILE"
  <2>1. Owned(f) = {f.after} /\ f.at = "WHILE"
        BY DEF Owned
  <2>2. QED  BY <2>1, <1>3
<1>5. Entered(Here, InWhileTest, l, 3, head)
  <2> DEFINE i == Br(head)
  <2>1. InWhileTest = MoveTo(Put(NewBlocks(Here, 3), i), head)
        BY DEF InWhileTest, Into
  <2>2. head \in l + 1 .. l + 3 /\ 3 \in Nat /\ l = Len(Here.block)
        BY <1>2, <1>3
  <2>3. "op" \in DOMAIN i /\ IsTerminator(i)
        BY Terminators
  <2> HIDE DEF i, l, head
  <2>4. QED  BY <1>2, <2>1, <2>2, <2>3, NewEntered
<1>6. Settled(Statement.cond, InWhileTest)
      BY <1>1 DEF ExpressionsSettle
<1> HIDE DEF f
<1>7. Ends(InWhileTest, test)
      BY <1>5, <1>6, BranchOnEnds DEF Entered, Opens
<1>8. /\ head + 1 \in DOMAIN InWhileTest.block /\ head + 2 \in DOMAIN InWhileTest.block
      /\ head \in DOMAIN InWhileTest.block
      BY <1>3, <1>5 DEF Entered
<1> HIDE DEF test
<1>9. Opens(Here, k, {l + 3}) /\ DOMAIN InWhileTest.block \subseteq DOMAIN k.block
  <2>1. PICK body : body = head + 1
        OBVIOUS
  <2>2. k = MoveTo(test, body) /\ body \in DOMAIN InWhileTest.block
        BY <2>1, <1>8
  <2>3. PICK S : S = {l + 3}
        OBVIOUS
  <2>4. (l + 1 .. l + 3) \ {head, body} \subseteq S /\ 3 \in Nat
        BY <1>3, <2>1, <2>3
  <2> HIDE DEF k, l, head
  <2>5. Opens(Here, k, S)
        BY <1>2, <1>5, <1>7, <2>2, <2>4, TestOpens
  <2>6. DOMAIN InWhileTest.block \subseteq DOMAIN k.block
    <3>1. body \in DOMAIN test.block /\ IsBuilder(InWhileTest)
          BY <1>5, <1>7, <2>2, MoreBlocks DEF Ends, Entered, Opens
    <3>2. k.block = test.block
          BY <1>7, <2>2, <3>1, EndsMoved
    <3>3. QED  BY <1>7, <3>1, <3>2, MoreBlocks DEF Ends
  <2>7. QED  BY <2>3, <2>5, <2>6
<1>10. FrameKept(f, DOMAIN k.block)
      BY <1>3, <1>4, <1>8, <1>9 DEF FrameKept, LoopFrames, f
<1> HIDE DEF k, head, l
<1>11. QED  BY <1>1, <1>4, <1>8, <1>9, <1>10, LoopEntered

\* The block after the loop is entered.
LEMMA EndWhileKeeps ==
    ASSUME BlockInv, NestInv', EndWhile
    PROVE  Preserved
<1> DEFINE k == MoveTo(Fallthrough(Here, Frame.head), Frame.after)
<1>1. Frame.at = "WHILE" /\ Built(k) /\ LeaveLoop
      BY DEF EndWhile, Running
<1>2. InFunction(frames) /\ Len(frames) >= 3 /\ IsBuilder(Here) /\ Here.block = block
      BY <1>1, InStack, HereBuilds
<1>3. Owned(Frame) = {Frame.after} /\ Frame.after \in Blocks
      BY <1>1, Taken DEF Owned, FrameKept
<1>4. Opens(Here, k, {}) /\ k.cur = Frame.after
      BY <1>2, <1>3, FallsInto DEF Blocks
<1> HIDE DEF k
<1>5. Emitted({}, {}) /\ cur' = Frame.after
      BY <1>1, <1>2, <1>4, EmittedOpens DEF Built
<1>6. QED  BY <1>1, <1>2, <1>3, <1>5, LoopLeft DEF LoopFrames

\* The body is entered, the condition and the block after are held.
LEMMA DoWhileKeeps ==
    ASSUME BlockInv, NestInv', GenDoWhile
    PROVE  Preserved
<1> DEFINE l == Len(block)
           first == l + 1
           i == Br(first)
           k == MoveTo(Put(NewBlocks(Here, 3), i), first)
           f == [at |-> "DO_WHILE", cond |-> Statement.cond, first |-> first,
                 head |-> first + 1, after |-> first + 2]
<1>1. InList /\ Built(k) /\ EnterLoop(first + 2, first + 1, f, Statement.body)
      BY DEF GenDoWhile, AtStatement, Into
<1>2. IsBuilder(Here) /\ Here.block = block
      BY <1>1, AtWork, HereBuilds
<1>3. l \in Nat
      BY <1>2 DEF IsBuilder, IsCode, IsSequence
<1>4. Owned(f) = {l + 2, l + 3} /\ f.at = "DO_WHILE"
  <2>1. Owned(f) = {f.head, f.after} /\ f.at = "DO_WHILE"
        BY DEF Owned
  <2>2. QED  BY <2>1, <1>3
<1>5. Entered(Here, k, l, 3, first)
  <2>1. first \in l + 1 .. l + 3 /\ 3 \in Nat /\ l = Len(Here.block)
        BY <1>2, <1>3
  <2>2. "op" \in DOMAIN i /\ IsTerminator(i)
        BY Terminators
  <2> HIDE DEF i, l, first, f
  <2>3. QED  BY <1>2, <2>1, <2>2, NewEntered
<1> HIDE DEF i, k
<1>6. (l + 1 .. l + 3) \ {first} = {l + 2, l + 3}
      BY <1>3
<1>7. Opens(Here, k, Owned(f))
      BY <1>4, <1>5, <1>6 DEF Entered
<1>8. first + 1 \in DOMAIN k.block /\ first + 2 \in DOMAIN k.block
      BY <1>3, <1>5 DEF Entered
<1>9. FrameKept(f, DOMAIN k.block)
  <2>1. Owned(f) \subseteq DOMAIN k.block
        BY <1>3, <1>4, <1>8
  <2>2. QED  BY <2>1 DEF FrameKept, LoopFrames
<1> HIDE DEF f, first, l
<1>10. QED  BY <1>1, <1>4, <1>7, <1>8, <1>9, LoopEntered

\* The condition is entered, and left for the block after the loop.
LEMMA EndDoWhileKeeps ==
    ASSUME BlockInv, NestInv', ExpressionsSettle, EndDoWhile
    PROVE  Preserved
<1> DEFINE test == BranchOn(Frame.cond, InDoWhileTest, Frame.first, Frame.after)
           k == MoveTo(test, Frame.after)
<1>1. Running("DO_WHILE") /\ Frame.at = "DO_WHILE" /\ Built(k) /\ LeaveLoop
      BY DEF EndDoWhile, Running
<1>2. InFunction(frames) /\ Len(frames) >= 3 /\ IsBuilder(Here) /\ Here.block = block
      BY <1>1, InStack, HereBuilds
<1>3. /\ Owned(Frame) = {Frame.head, Frame.after} /\ Frame.after \in Blocks
      /\ Frame.head \in Blocks
      BY <1>1, Taken DEF Owned, FrameKept
<1>4. /\ Opens(Here, InDoWhileTest, {}) /\ InDoWhileTest.cur = Frame.head
      /\ Len(InDoWhileTest.block) = Len(block) /\ IsBuilder(InDoWhileTest)
      BY <1>2, <1>3, FallsInto DEF Blocks, InDoWhileTest, Opens
<1>5. Ends(InDoWhileTest, test)
      BY <1>1, <1>4, BranchOnEnds DEF ExpressionsSettle
<1> HIDE DEF test
<1>6. Frame.after \in DOMAIN test.block
  <2>1. /\ DOMAIN block = 1 .. Len(block) /\ Len(block) \in Nat
        /\ DOMAIN test.block = 1 .. Len(test.block) /\ Len(test.block) \in Nat
        /\ Len(block) <= Len(test.block)
        BY <1>2, <1>4, <1>5, Positions DEF Ends, Opens, IsBuilder, IsCode
  <2>2. QED  BY <1>3, <2>1 DEF Blocks
<1>7. Opens(InDoWhileTest, k, {}) /\ k.cur = Frame.after
      BY <1>4, <1>5, <1>6, EndsMoved
<1> HIDE DEF k
<1>8. Emitted({}, {Frame.head}) /\ cur' = Frame.after
      BY <1>1, <1>2, <1>4, <1>7, EmittedPast DEF Built
<1>9. QED  BY <1>1, <1>2, <1>3, <1>8, LoopLeft DEF LoopFrames

\* The blocks of a for loop are made after its first part.
LEMMA ForKeeps ==
    ASSUME BlockInv, NestInv', ExpressionsSettle, GenFor
    PROVE  Preserved
<1> DEFINE init == GenExpression(Statement.init, Here)
           l == Len(init.block)
           head == l + 1
           g == InForTest(init)
           test == ForTest(Statement.cond, g, head)
           k == MoveTo(test, head + 1)
           f == [at |-> "FOR", loop |-> Statement.loop, head |-> head,
                 incr |-> head + 2, after |-> head + 3]
<1>1. /\ AtStatement("FOR") /\ InList /\ Built(k)
      /\ EnterLoop(head + 3, head + 2, f, Statement.body)
      BY DEF GenFor, ForAfter, EnterFor, AtStatement
<1>2. IsBuilder(Here)
      BY <1>1, AtWork
<1>3. /\ Opens(Here, init, {}) /\ IsBuilder(init)
      /\ Statement.cond # Nil => Settled(Statement.cond, g)
      BY <1>1 DEF ExpressionsSettle, Settled, Settles, Opens
<1> HIDE DEF init
<1>4. l \in Nat
      BY <1>3 DEF IsBuilder, IsCode, IsSequence
<1>5. Owned(f) = {l + 3, l + 4} /\ f.at = "FOR"
  <2>1. Owned(f) = {f.incr, f.after} /\ f.at = "FOR"
        BY DEF Owned
  <2>2. QED  BY <2>1, <1>4
<1>6. Entered(init, g, l, 4, head)
  <2> DEFINE i == Br(head)
  <2>1. g = MoveTo(Put(NewBlocks(init, 4), i), head)
        BY DEF InForTest, Into
  <2>2. head \in l + 1 .. l + 4 /\ 4 \in Nat
        BY <1>4
  <2>3. "op" \in DOMAIN i /\ IsTerminator(i)
        BY Terminators
  <2>4. l = Len(init.block)
        OBVIOUS
  <2> HIDE DEF i, l, head, g
  <2>5. QED  BY <1>3, <2>1, <2>2, <2>3, <2>4, NewEntered
<1> HIDE DEF g, f
<1>7. Ends(g, test)
  <2>1. CASE Statement.cond = Nil
    <3>1. test = Put(g, Br(head + 1))
          BY <2>1 DEF ForTest
    <3>2. QED  BY <1>6, <3>1, PutEnds, Terminators DEF Entered, Opens
  <2>2. CASE Statement.cond # Nil
    <3>1. test = BranchOn(Statement.cond, g, head + 1, head + 3)
          BY <2>2 DEF ForTest
    <3>2. IsBuilder(g)
          BY <1>6 DEF Entered, Opens
    <3> HIDE DEF test, head
    <3>3. QED  BY <1>3, <2>2, <3>1, <3>2, BranchOnEnds
  <2>3. QED  BY <2>1, <2>2
<1> HIDE DEF test
<1>8. {head + 1, head + 2, head + 3} \subseteq DOMAIN g.block
      BY <1>4, <1>6 DEF Entered
<1>9. Opens(Here, k, Owned(f)) /\ DOMAIN g.block \subseteq DOMAIN k.block
  <2>1. PICK body : body = head + 1
        OBVIOUS
  <2>2. k = MoveTo(test, body) /\ body \in DOMAIN g.block
        BY <2>1, <1>8
  <2>3. (l + 1 .. l + 4) \ {head, body} \subseteq Owned(f) /\ 4 \in Nat
        BY <1>4, <1>5, <2>1
  <2> HIDE DEF k, l, head
  <2>4. Opens(init, k, Owned(f))
        BY <1>3, <1>6, <1>7, <2>2, <2>3, TestOpens
  <2>5. Opens(Here, k, ({} \ {init.cur}) \cup Owned(f))
        BY <1>2, <1>3, <2>4, OpensTwice
  <2>6. body \in DOMAIN test.block /\ IsBuilder(g)
        BY <1>6, <1>7, <2>2, MoreBlocks DEF Ends, Entered, Opens
  <2>7. k.block = test.block
        BY <1>7, <2>2, <2>6, EndsMoved
  <2>8. DOMAIN g.block \subseteq DOMAIN k.block
        BY <1>7, <2>6, <2>7, MoreBlocks DEF Ends
  <2>9. QED  BY <2>5, <2>8, OpensMore
<1>10. FrameKept(f, DOMAIN k.block)
  <2>1. Owned(f) \subseteq DOMAIN k.block
        BY <1>4, <1>5, <1>8, <1>9
  <2>2. QED  BY <2>1 DEF FrameKept, LoopFrames, f
<1> HIDE DEF k, head, l
<1>11. QED  BY <1>1, <1>5, <1>8, <1>9, <1>10, LoopEntered

\* The increment is entered, and left for the block after the loop.
LEMMA EndForKeeps ==
    ASSUME BlockInv, NestInv', ExpressionsSettle, EndFor
    PROVE  Preserved
<1> DEFINE e == GenExpression(Frame.loop, InIncrement)
           k == MoveTo(Fallthrough(e, Frame.head), Frame.after)
<1>1. Running("FOR") /\ Frame.at = "FOR" /\ Built(k) /\ LeaveLoop
      BY DEF EndFor, Running
<1>2. InFunction(frames) /\ Len(frames) >= 3 /\ IsBuilder(Here) /\ Here.block = block
      BY <1>1, InStack, HereBuilds
<1>3. /\ Owned(Frame) = {Frame.incr, Frame.after}
      /\ Frame.after \in Blocks /\ Frame.incr \in Blocks
      BY <1>1, Taken DEF Owned, FrameKept
<1>4. /\ Opens(Here, InIncrement, {}) /\ InIncrement.cur = Frame.incr
      /\ Len(InIncrement.block) = Len(block) /\ IsBuilder(InIncrement)
      BY <1>2, <1>3, FallsInto DEF Blocks, InIncrement, Opens
<1>5. Opens(InIncrement, e, {}) /\ IsBuilder(e)
      BY <1>1 DEF ExpressionsSettle, Settled, Settles, Opens
<1> HIDE DEF e
<1>6. Frame.after \in DOMAIN e.block
  <2>1. DOMAIN block \subseteq DOMAIN InIncrement.block
        BY <1>2, <1>4, MoreBlocks
  <2>2. DOMAIN InIncrement.block \subseteq DOMAIN e.block
        BY <1>4, <1>5, MoreBlocks
  <2>3. QED  BY <1>3, <2>1, <2>2 DEF Blocks
<1>7. Opens(e, k, {}) /\ k.cur = Frame.after
      BY <1>5, <1>6, FallsInto
<1> HIDE DEF k
<1>8. Opens(InIncrement, k, {})
  <2>1. Opens(InIncrement, k, ({} \ {e.cur}) \cup {})
        BY <1>4, <1>5, <1>7, OpensTwice
  <2>2. QED  BY <2>1, OpensMore
<1>9. Emitted({}, {Frame.incr}) /\ cur' = Frame.after
      BY <1>1, <1>2, <1>4, <1>7, <1>8, EmittedPast DEF Built
<1>10. QED  BY <1>1, <1>2, <1>3, <1>9, LoopLeft DEF LoopFrames

-----------------------------------------------------------------------------
(* switch *)

\* A block given other instructions stays as open as it was.
LEMMA RewrittenStays ==
    ASSUME NEW g, IsBuilder(g), NEW b, NEW is, IsBlock(is),
           b \in DOMAIN g.block => (Terminated(is) <=> Terminated(g.block[b]))
    PROVE  Stays(g, [g EXCEPT !.block[b] = is])
<1> DEFINE bs == [g.block EXCEPT ![b] = is]
           h == [g EXCEPT !.block = bs]
<1>1. [g EXCEPT !.block[b] = is] = h
      BY DEF IsBuilder
<1>2. /\ IsCode(bs) /\ Len(bs) = Len(g.block) /\ DOMAIN bs = DOMAIN g.block
      /\ \A c \in DOMAIN g.block : c # b => bs[c] = g.block[c]
      /\ b \in DOMAIN g.block => bs[b] = is
      BY CodeReplaced DEF IsBuilder
<1> HIDE DEF bs
<1>3. Len(bs) \in Nat
      BY <1>2 DEF IsCode, IsSequence
<1>4. IsBuilder(h) /\ h.block = bs /\ h.cur = g.cur
      BY <1>2, <1>3, WithBlocks
<1> HIDE DEF h
<1>5. Open(h) = Open(g)
      BY <1>2, <1>4 DEF Open
<1>6. QED  BY <1>1, <1>2, <1>3, <1>4, <1>5 DEF Stays, Opens

\* A case added to a switch.
LEMMA AddCaseStays ==
    ASSUME NEW g, IsBuilder(g), NEW sw, NEW target
    PROVE  Stays(g, AddCase(g, sw, target))
<1> DEFINE is == g.block[sw]
           i == is[Len(is)]
           j == [i EXCEPT !.cases = Append(@, <<g.val.num, target>>)]
           js == [is EXCEPT ![Len(is)] = j]
           h == [g EXCEPT !.block[sw] = js]
<1>1. AddCase(g, sw, target) = g \/ AddCase(g, sw, target) = h
      BY DEF AddCase
<1>2. Stays(g, g)
      BY NothingStays
<1>3. CASE sw \in DOMAIN g.block
  <2>1. IsBlock(is)
        BY <1>3 DEF IsBuilder, IsCode
  <2> HIDE DEF is
  <2>2. Len(is) \in DOMAIN is => "op" \in DOMAIN j /\ j.op = i.op
        BY <2>1 DEF IsBlock
  <2> HIDE DEF j
  <2>3. /\ IsSequence(js) /\ Len(js) = Len(is) /\ DOMAIN js = DOMAIN is
        /\ \A k \in DOMAIN is : k # Len(is) => js[k] = is[k]
        /\ Len(is) \in DOMAIN is => js[Len(is)] = j
        BY <2>1, Replaced DEF IsBlock
  <2> HIDE DEF js
  <2>4. IsBlock(js)
        BY <2>1, <2>2, <2>3 DEF IsBlock
  <2>5. Terminated(js) <=> Terminated(is)
    <3>1. /\ DOMAIN is = 1 .. Len(is) /\ Len(is) \in Nat
          /\ DOMAIN js = 1 .. Len(js)
          BY <2>1, <2>4, Positions DEF IsBlock
    <3>2. CASE is = <<>>
      <4>1. Len(is) = 0 /\ js \in Seq({})
        <5>1. Len(is) = 0
              BY <3>2
        <5>2. js \in [1 .. 0 -> {}]
              BY <2>3, <3>1, <5>1 DEF IsSequence
        <5>3. QED  BY <5>1, <5>2, SeqDef
      <4>2. js = <<>>
            BY <2>3, <4>1
      <4>3. QED  BY <3>2, <4>2
    <3>3. CASE is # <<>>
      <4>1. Len(is) \in DOMAIN is
        <5>1. Len(is) >= 1
              BY <2>1, <3>3, Shortened DEF IsBlock
        <5>2. QED  BY <3>1, <5>1
      <4>2. js # <<>>
        <5>1. DOMAIN <<>> = {}
              OBVIOUS
        <5>2. QED  BY <2>3, <4>1, <5>1
      <4>3. Last(is) = i /\ Last(js) = j
            BY <2>3, <4>1 DEF Last
      <4>4. IsTerminator(i) <=> IsTerminator(j)
            BY <2>2, <4>1 DEF IsTerminator
      <4>5. QED  BY <3>3, <4>2, <4>3, <4>4 DEF Terminated
    <3>4. QED  BY <3>2, <3>3
  <2>6. Stays(g, h)
        BY <2>4, <2>5, RewrittenStays DEF is
  <2>7. QED  BY <1>1, <1>2, <2>6
<1>4. CASE sw \notin DOMAIN g.block
  <2>1. h = g
    <3>1. \A js2 : [g.block EXCEPT ![sw] = js2] = g.block
          BY <1>4 DEF IsBuilder, IsCode, IsSequence
    <3> HIDE DEF js
    <3>2. h = [g EXCEPT !.block = g.block]
          BY <3>1
    <3>3. QED  BY <3>2 DEF IsBuilder
  <2>2. QED  BY <1>1, <1>2, <2>1
<1>5. QED  BY <1>3, <1>4

\* The frame of a switch that goes on, with block b as its open one.
LEMMA SwitchedKept ==
    ASSUME BlockInv, AtSwitchItem, NEW b, NEW B, Blocks \subseteq B, b \in B \cup {NoBlock},
           NEW t, t = [[Frame EXCEPT !.rest = Tail(@)] EXCEPT !.open = b]
    PROVE  /\ Switched(b) = Append(Callers, t) /\ IsSequence(Callers)
           /\ Kept(Callers, B) /\ FrameKept(t, B)
           /\ t.at = "SWITCH" /\ t.open = b
           /\ Held(frames) = Held(Callers) \cup Owned(t)
<1> DEFINE top == [Frame EXCEPT !.rest = Tail(@)]
<1>1. /\ Stack(frames) /\ IsSequence(Callers) /\ "at" \in DOMAIN Frame
      /\ Kept(Callers, Blocks) /\ FrameKept(Frame, Blocks)
      /\ Held(frames) = Held(Callers) \cup Owned(Frame)
      BY Taken
<1>2. Frame.at = "SWITCH" /\ "open" \in DOMAIN Frame
      BY <1>1 DEF AtSwitchItem, Running, FrameKept
<1>3. Switched(b) = [frames EXCEPT ![Len(frames)] = t]
  <2>1. Len(frames) \in DOMAIN frames /\ Frame = frames[Len(frames)]
        BY <1>1, Running1 DEF Frame
  <2>2. QED  BY <2>1 DEF Switched
<1>4. FrameKept(Frame, B) /\ Kept(Callers, B)
  <2>1. Kept(Callers, B)
        BY <1>1, KeptMore
  <2>2. QED  BY <1>1, <2>1 DEF FrameKept
<1>5. /\ FrameKept(top, B) /\ Owned(top) = Owned(Frame)
      /\ top.at = Frame.at /\ "at" \in DOMAIN top
  <2>1. Frame.at \notin {"RUN", "GLOBALS"}
        BY <1>2
  <2>2. "at" \in DOMAIN top
        BY <1>1
  <2>3. FrameKept(top, B) /\ Owned(top) = Owned(Frame) /\ top.at = Frame.at
        BY <1>1, <1>4, <2>1, CursorKept
  <2>4. QED  BY <2>2, <2>3
<1>6. t.open = b
      BY <1>2
<1> HIDE DEF top
<1>7. FrameKept(t, B) /\ Owned(t) = Owned(top) /\ t.at = top.at
  <2>1. t = [top EXCEPT !["open"] = b]
        BY DEF top
  <2>2. QED  BY <1>5, <2>1, OtherLocals
<1>8. Switched(b) = Append(Callers, t)
      BY <1>1, <1>3, Apart DEF Callers
<1>9. QED  BY <1>1, <1>2, <1>4, <1>5, <1>6, <1>7, <1>8

\* A block given instructions that end with a terminator.
LEMMA ClosedGiven ==
    ASSUME NEW g, IsBuilder(g), NEW b, NEW is, IsBlock(is), Terminated(is)
    PROVE  LET h == [g EXCEPT !.block[b] = is]
           IN  /\ Stays(g, h) /\ Open(h) \subseteq Open(g) \ {b}
               /\ DOMAIN h.block = DOMAIN g.block
<1> DEFINE bs == [g.block EXCEPT ![b] = is]
           h == [g EXCEPT !.block = bs]
<1>1. [g EXCEPT !.block[b] = is] = h
      BY DEF IsBuilder
<1>2. /\ IsCode(bs) /\ Len(bs) = Len(g.block) /\ DOMAIN bs = DOMAIN g.block
      /\ \A c \in DOMAIN g.block : c # b => bs[c] = g.block[c]
      /\ b \in DOMAIN g.block => bs[b] = is
      BY CodeReplaced DEF IsBuilder
<1> HIDE DEF bs
<1>3. Len(bs) \in Nat
      BY <1>2 DEF IsCode, IsSequence
<1>4. IsBuilder(h) /\ h.block = bs /\ h.cur = g.cur
      BY <1>2, <1>3, WithBlocks
<1> HIDE DEF h
<1>5. Open(h) \subseteq Open(g) \ {b}
      BY <1>2, <1>4 DEF Open
<1>6. QED  BY <1>1, <1>2, <1>3, <1>4, <1>5 DEF Stays, Opens

\* The block before the first case is entered: it has its branch.
LEMMA SwitchKeeps ==
    ASSUME BlockInv, NestInv', ExpressionsSettle, GenSwitch
    PROVE  Preserved
<1> DEFINE e == GenExpression(Statement.exp, Here)
           v == coerce(e, "i32")
           l == Len(v.block)
           i == SwitchOn(v.val, l + 2)
           h == MoveTo(Put(NewBlocks(v, 3), i), l + 3)
           x == <<Br(l + 1)>>
           g == [h EXCEPT !.block[l + 2] = x]
           k == [g EXCEPT !.block[l + 3] = x]
           f == [at |-> "SWITCH", rest |-> Statement.body, open |-> NoBlock, sw |-> v.cur,
                 default |-> l + 2, after |-> l + 1]
           c == [brk |-> l + 1, cont |-> NoBlock]
<1>1. AtStatement("SWITCH") /\ InList /\ EnterSwitch(v, l + 1)
      BY DEF GenSwitch, SwitchAfter, AtStatement
<1>2. IsBuilder(Here) /\ InFunction(frames)
      BY <1>1, AtWork
<1>3. Opens(Here, v, {}) /\ IsBuilder(v)
  <2>1. Opens(Here, e, {}) /\ IsBuilder(e)
        BY <1>1 DEF ExpressionsSettle, Settled, Settles, Opens
  <2> HIDE DEF e
  <2>2. Stays(e, v) /\ IsBuilder(v)
        BY <2>1, ConvertedStays DEF Stays, Opens
  <2>3. QED  BY <1>2, <2>1, <2>2, OpensThenStays
<1> HIDE DEF v
<1>4. l \in Nat /\ l + 1 + 1 = l + 2 /\ l + 1 + 2 = l + 3
      BY <1>3 DEF IsBuilder, IsCode, IsSequence
<1>5. /\ Built(k) /\ loops' = Append(loops, c) /\ frames' = Append(Advanced, f)
      /\ UNCHANGED jumps
      BY <1>1, <1>4 DEF EnterSwitch
<1>6. Entered(v, h, l, 3, l + 3)
  <2>1. PICK b : b = l + 3
        OBVIOUS
  <2>2. b \in l + 1 .. l + 3 /\ 3 \in Nat
        BY <1>4, <2>1
  <2>3. "op" \in DOMAIN i /\ IsTerminator(i)
        BY Terminators
  <2>4. h = MoveTo(Put(NewBlocks(v, 3), i), b) /\ l = Len(v.block)
        BY <2>1
  <2> HIDE DEF i, h, l
  <2>5. Entered(v, h, l, 3, b)
        BY <1>3, <2>2, <2>3, <2>4, NewEntered
  <2>6. QED  BY <2>1, <2>5
<1> HIDE DEF i, h
<1>7. IsBlock(x) /\ Terminated(x)
  <2>1. IsSequence(<<>>)
    <3>1. <<>> \in Seq({})
          OBVIOUS
    <3>2. QED  BY <3>1, FromSeq
  <2>2. IsBlock(<<>>)
    <3>1. DOMAIN <<>> = {}
          OBVIOUS
    <3>2. QED  BY <2>1, <3>1 DEF IsBlock
  <2>3. x = Append(<<>>, Br(l + 1))
        OBVIOUS
  <2>4. "op" \in DOMAIN Br(l + 1) /\ IsTerminator(Br(l + 1))
        BY Terminators
  <2> HIDE DEF x
  <2>5. QED  BY <2>2, <2>3, <2>4, BlockAppended
<1> HIDE DEF x
<1>8. /\ IsBuilder(h) /\ h.cur = l + 3 /\ DOMAIN h.block = 1 .. l + 3
      BY <1>6 DEF Entered, Opens
<1>9. /\ Stays(h, g) /\ Open(g) \subseteq Open(h) \ {l + 2}
      /\ DOMAIN g.block = DOMAIN h.block
      BY <1>7, <1>8, ClosedGiven
<1> HIDE DEF g
<1>10. /\ Stays(g, k) /\ Open(k) \subseteq Open(g) \ {l + 3}
       /\ DOMAIN k.block = DOMAIN g.block
      BY <1>7, <1>9, ClosedGiven DEF Stays, Opens
<1> HIDE DEF k
<1>11. k.cur = l + 3 /\ Opens(v, k, {l + 1})
  <2>1. k.cur = l + 3
        BY <1>8, <1>9, <1>10 DEF Stays
  <2>2. Opens(v, k, (l + 1 .. l + 3) \ {l + 3})
    <3>1. Opens(v, g, (l + 1 .. l + 3) \ {l + 3})
          BY <1>3, <1>6, <1>9, OpensThenStays DEF Entered
    <3>2. QED  BY <1>3, <1>10, <3>1, OpensThenStays
  <2>3. l + 2 \notin Open(k)
        BY <1>9, <1>10
  <2>4. (l + 1 .. l + 3) \ {l + 2, l + 3} = {l + 1}
        BY <1>4
  <2>5. QED  BY <2>1, <2>2, <2>3, <2>4 DEF Opens
<1>12. Opens(Here, k, {l + 1})
  <2>1. Opens(Here, k, ({} \ {v.cur}) \cup {l + 1})
        BY <1>2, <1>3, <1>11, OpensTwice
  <2>2. QED  BY <2>1, OpensMore
<1>13. Emitted({l + 1}, {}) /\ block' = k.block /\ cur' = l + 3
      BY <1>2, <1>5, <1>11, <1>12, EmittedOpens DEF Built
<1>14. /\ l + 1 \in DOMAIN block' /\ l + 2 \in DOMAIN block' /\ l + 3 \in DOMAIN block'
       /\ Terminated(block'[cur'])
  <2>1. l + 3 \in DOMAIN k.block /\ l + 2 \in DOMAIN k.block /\ l + 1 \in DOMAIN k.block
        BY <1>4, <1>8, <1>9, <1>10
  <2>2. l + 3 \notin Open(k)
        BY <1>10
  <2>3. QED  BY <1>13, <2>1, <2>2 DEF Open
<1>15. Owned(f) = {l + 1} /\ f.at = "SWITCH" /\ f.open = NoBlock
  <2>1. Owned(f) = {f.after} /\ f.at = "SWITCH" /\ f.open = NoBlock
        BY DEF Owned
  <2>2. QED  BY <2>1
<1>16. FrameKept(f, DOMAIN block')
      BY <1>14, <1>15 DEF FrameKept, LoopFrames
<1>17. JumpsKept'
  <2>1. c.brk = l + 1 /\ c.cont = NoBlock
        OBVIOUS
  <2> HIDE DEF c, l
  <2>2. QED  BY <1>5, <1>13, <1>14, <2>1, MoreLoops DEF Emitted
<1> HIDE DEF f, l
<1>18. QED  BY <1>1, <1>5, <1>13, <1>14, <1>15, <1>16, <1>17, CallsOne DEF InList

\* A step in a switch that goes on with the open block b.
LEMMA SwitchGoesOn ==
    ASSUME BlockInv, NestInv', AtSwitchItem, NEW b, frames' = Switched(b),
           NEW S, Emitted(S, {}), JumpsKept', b \in DOMAIN block' \cup {NoBlock},
           OpenInv => S = {} /\ (b = NoBlock => Terminated(block'[cur']))
    PROVE  Preserved
<1> DEFINE t == [[Frame EXCEPT !.rest = Tail(@)] EXCEPT !.open = b]
<1>1. InFunction(frames) /\ Blocks \subseteq DOMAIN block'
      BY AtWork DEF Emitted
<1>2. PICK B : B = DOMAIN block'
      OBVIOUS
<1>3. Blocks \subseteq B /\ b \in B \cup {NoBlock}
      BY <1>1, <1>2
<1>4. /\ frames' = Append(Callers, t) /\ IsSequence(Callers)
      /\ Kept(Callers, B) /\ FrameKept(t, B)
      /\ t.at = "SWITCH" /\ t.open = b
      /\ Held(frames) = Held(Callers) \cup Owned(t)
  <2>1. PICK u : u = t
        OBVIOUS
  <2> HIDE DEF t
  <2>2. u = [[Frame EXCEPT !.rest = Tail(@)] EXCEPT !.open = b]
        BY <2>1 DEF t
  <2>3. FrameKept(u, B)
        BY <1>3, <2>2, SwitchedKept, Zenon
  <2>4. Switched(b) = Append(Callers, u)
        BY <1>3, <2>2, SwitchedKept, Zenon
  <2>5. IsSequence(Callers) /\ Kept(Callers, B)
        BY <1>3, <2>2, SwitchedKept, Zenon
  <2>6. u.at = "SWITCH" /\ u.open = b
        BY <1>3, <2>2, SwitchedKept, Zenon
  <2>7. Held(frames) = Held(Callers) \cup Owned(u)
        BY <1>3, <2>2, SwitchedKept, Zenon
  <2>8. QED  BY <2>1, <2>3, <2>4, <2>5, <2>6, <2>7
<1> HIDE DEF t
<1>5. OpenInv => AllOpen(Callers)
      BY DEF OpenInv
<1>6. QED  BY <1>1, <1>2, <1>4, <1>5, Pushed

\* The block the insertion point leaves when it is open and no open block of the
\* switch is there to be ended.
LeftOpen == IF Frame.open = NoBlock /\ ~is_terminated THEN {cur} ELSE {}
\* The open block of the running switch is the insertion block, or none is open.
LEMMA NoneLeftOpen ==
    ASSUME AtSwitchItem \/ Running("SWITCH"), OpenInv
    PROVE  LeftOpen = {}
BY DEF AtSwitchItem, Running, OpenInv, LeftOpen

\* Without an open block the insertion block has its terminator.
LEMMA HereClosed ==
    ASSUME BlockInv, InFunction(frames)
    PROVE  Closed(Here) <=> is_terminated
<1>1. Open(Here) = OpenBlocks /\ Here.cur = cur /\ cur \in Blocks
      BY HereBuilds DEF BlockInv
<1>2. QED  BY <1>1 DEF Closed, OpenBlocks, is_terminated

\* A label of a switch entered from the open block.
LEMMA OpenToOpens ==
    ASSUME NEW g, IsBuilder(g), NEW b \in DOMAIN g.block,
           NEW h, h = MoveTo(OpenTo(g, b), b),
           NEW S, Frame.open = NoBlock /\ ~Closed(g) => g.cur \in S
    PROVE  Opens(g, h, S) /\ h.cur = b
<1>1. CASE Frame.open = NoBlock
  <2>1. h = MoveTo(g, b)
        BY <1>1 DEF OpenTo
  <2>2. Opens(g, h, IF Closed(g) THEN {} ELSE {g.cur}) /\ h.cur = b
        BY <2>1, MoveOpens
  <2>3. (IF Closed(g) THEN {} ELSE {g.cur}) \subseteq S
        BY <1>1
  <2>4. QED  BY <2>2, <2>3, OpensMore
<1>2. CASE Frame.open # NoBlock
  <2>1. h = Into(g, b)
        BY <1>2 DEF OpenTo, Into
  <2>2. Opens(g, h, {}) /\ h.cur = b
        BY <2>1, IntoOpens
  <2>3. QED  BY <2>2, OpensMore
<1>3. QED  BY <1>1, <1>2

\* The block of the case is entered from the open one.
LEMMA CaseKeeps ==
    ASSUME BlockInv, NestInv', ExpressionsSettle, GenCase
    PROVE  Preserved
<1> DEFINE m == NewBlocks(Here, 1)
           e == GenExpression(Statement.exp, InCase)
           k == AddCase(e, Frame.sw, CaseBlock)
<1>1. /\ AtSwitchItem /\ Statement.type = "CASE" /\ Built(k)
      /\ frames' = Switched(CaseBlock) /\ UNCHANGED <<loops, jumps>>
      BY DEF GenCase, context
<1>2. InFunction(frames) /\ IsBuilder(Here) /\ Here.block = block /\ Here.cur = cur
      BY <1>1, AtWork, HereBuilds
<1>3. /\ Opens(Here, m, {CaseBlock}) /\ m.cur = cur /\ IsBuilder(m)
      /\ Len(m.block) = CaseBlock /\ CaseBlock \in Nat /\ CaseBlock # NoBlock
      /\ is_terminated => Closed(m)
  <2>1. /\ Opens(Here, m, Len(block) + 1 .. Len(block) + 1) /\ m.cur = cur
        /\ Len(m.block) = Len(block) + 1 /\ (Closed(Here) => Closed(m))
        BY <1>2, NewBlocksOpens
  <2>2. Len(block) \in Nat
        BY <1>2 DEF IsBuilder, IsCode, IsSequence
  <2>3. Len(block) + 1 .. Len(block) + 1 = {CaseBlock} /\ Len(block) + 1 = CaseBlock
        /\ CaseBlock \in Nat /\ CaseBlock # NoBlock
        BY <2>2 DEF CaseBlock, NoBlock
  <2> HIDE DEF m
  <2>4. QED  BY <1>2, <2>1, <2>3, HereClosed DEF Opens
<1>4. CaseBlock \in DOMAIN m.block /\ InCase = MoveTo(OpenTo(m, CaseBlock), CaseBlock)
  <2>1. DOMAIN m.block = 1 .. Len(m.block)
        BY <1>3, Positions DEF IsBuilder, IsCode
  <2>2. InCase = MoveTo(OpenTo(m, CaseBlock), CaseBlock)
        BY DEF InCase
  <2> HIDE DEF m
  <2>3. CaseBlock \in 1 .. CaseBlock
        BY <1>3 DEF NoBlock
  <2>4. QED  BY <1>3, <2>1, <2>2, <2>3
<1> HIDE DEF m
<1>5. Opens(m, InCase, LeftOpen) /\ InCase.cur = CaseBlock /\ IsBuilder(InCase)
  <2>1. Frame.open = NoBlock /\ ~Closed(m) => m.cur \in LeftOpen
        BY <1>3 DEF LeftOpen
  <2>2. QED  BY <1>3, <1>4, <2>1, OpenToOpens DEF Opens
<1>6. Opens(Here, InCase, LeftOpen)
  <2>1. Opens(Here, InCase, ({CaseBlock} \ {m.cur}) \cup LeftOpen)
        BY <1>2, <1>3, <1>5, OpensTwice
  <2>2. QED  BY <1>5, <2>1, OpensMore
<1>7. Opens(InCase, e, {}) /\ IsBuilder(e)
      BY <1>1 DEF ExpressionsSettle, Settled, Settles, Opens
<1> HIDE DEF e
<1>8. Stays(e, k)
      BY <1>7, AddCaseStays
<1> HIDE DEF k
<1>9. Opens(InCase, k, {})
      BY <1>5, <1>7, <1>8, OpensThenStays
<1>10. Opens(Here, k, LeftOpen)
  <2>1. Opens(Here, k, (LeftOpen \ {InCase.cur}) \cup {})
        BY <1>2, <1>6, <1>9, OpensTwice
  <2>2. QED  BY <2>1, OpensMore
<1>11. Emitted(LeftOpen, {})
      BY <1>1, <1>2, <1>10, EmittedOpens
<1>12. JumpsKept'
      BY <1>1, <1>11, SameJumps DEF Emitted
<1>13. CaseBlock \in DOMAIN block'
  <2>1. DOMAIN m.block \subseteq DOMAIN InCase.block
        BY <1>3, <1>5, MoreBlocks
  <2>2. DOMAIN InCase.block \subseteq DOMAIN k.block
        BY <1>5, <1>9, MoreBlocks
  <2>3. QED  BY <1>1, <1>4, <2>1, <2>2 DEF Built
<1>14. OpenInv => LeftOpen = {}
      BY <1>1, NoneLeftOpen
<1>15. QED  BY <1>1, <1>3, <1>11, <1>12, <1>13, <1>14, SwitchGoesOn

\* The default block loses its branch and is the insertion block.
LEMMA DefaultKeeps ==
    ASSUME BlockInv, NestInv', GenDefault
    PROVE  Preserved
<1> DEFINE d == Frame.default
           g == MoveTo(OpenTo(Here, d), d)
           is == IF Terminated(g.block[d]) THEN Front(g.block[d]) ELSE g.block[d]
           k == [g EXCEPT !.block[d] = is]
<1>1. AtSwitchItem /\ frames' = Switched(d) /\ UNCHANGED <<loops, jumps>>
      BY DEF GenDefault, context
<1>2. InFunction(frames) /\ IsBuilder(Here) /\ Here.block = block /\ Here.cur = cur
      BY <1>1, AtWork, HereBuilds
<1>3. d \in Blocks
      BY <1>1, Taken DEF FrameKept, AtSwitchItem, Running
<1>4. Opens(Here, g, LeftOpen) /\ g.cur = d /\ IsBuilder(g)
  <2>1. Frame.open = NoBlock /\ ~Closed(Here) => Here.cur \in LeftOpen
        BY <1>2, HereClosed DEF LeftOpen
  <2>2. PICK h : h = g
        OBVIOUS
  <2>3. d \in DOMAIN Here.block /\ h = MoveTo(OpenTo(Here, d), d)
        BY <1>2, <1>3, <2>2 DEF Blocks
  <2> HIDE DEF g, d
  <2>4. Opens(Here, h, LeftOpen) /\ h.cur = d
        BY <1>2, <2>1, <2>3, OpenToOpens
  <2>5. QED  BY <2>2, <2>4 DEF Opens
<1>5. Built(k)
      BY DEF GenDefault
<1> HIDE DEF g
<1>6. IsBlock(is)
  <2>1. IsBlock(g.block[d])
        BY <1>4 DEF IsBuilder, IsCode
  <2>2. CASE ~Terminated(g.block[d])
        BY <2>1, <2>2
  <2>3. CASE Terminated(g.block[d])
    <3>1. PICK bs : bs = g.block[d]
          OBVIOUS
    <3>2. IsBlock(bs) /\ bs # <<>> /\ is = Front(bs)
          BY <2>1, <2>3, <3>1 DEF Terminated
    <3>3. /\ IsSequence(Front(bs)) /\ DOMAIN Front(bs) = 1 .. Len(bs) - 1
          /\ \A i \in 1 .. Len(bs) - 1 : Front(bs)[i] = bs[i]
          BY <3>2, Shortened DEF IsBlock
    <3>4. DOMAIN bs = 1 .. Len(bs) /\ Len(bs) \in Nat
          BY <3>2, Positions DEF IsBlock
    <3>5. \A i \in DOMAIN Front(bs) : i \in DOMAIN bs /\ Front(bs)[i] = bs[i]
          BY <3>3, <3>4
    <3>6. QED  BY <3>2, <3>3, <3>5 DEF IsBlock
  <2>4. QED  BY <2>2, <2>3
<1> HIDE DEF is
<1>7. Opens(g, k, {}) /\ k.cur = d /\ DOMAIN k.block = DOMAIN g.block
  <2> DEFINE bs == [g.block EXCEPT ![d] = is]
  <2>1. k = [g EXCEPT !.block = bs]
        BY <1>4 DEF IsBuilder
  <2>2. /\ IsCode(bs) /\ Len(bs) = Len(g.block) /\ DOMAIN bs = DOMAIN g.block
        /\ \A c \in DOMAIN g.block : c # d => bs[c] = g.block[c]
        BY <1>4, <1>6, CodeReplaced DEF IsBuilder
  <2> HIDE DEF bs, k, d
  <2>3. Len(bs) \in Nat
        BY <2>2 DEF IsCode, IsSequence
  <2>4. IsBuilder(k) /\ k.block = bs /\ k.cur = g.cur
        BY <1>4, <2>1, <2>2, <2>3, WithBlocks
  <2>5. Open(k) \ {d} \subseteq Open(g) \ {d}
        BY <2>2, <2>4 DEF Open
  <2>6. QED  BY <1>4, <2>2, <2>3, <2>4, <2>5 DEF Opens
<1> HIDE DEF k
<1>8. Opens(Here, k, LeftOpen)
  <2>1. Opens(Here, k, (LeftOpen \ {g.cur}) \cup {})
        BY <1>2, <1>4, <1>7, OpensTwice
  <2>2. QED  BY <2>1, OpensMore
<1>9. Emitted(LeftOpen, {})
      BY <1>2, <1>5, <1>8, EmittedOpens
<1>10. JumpsKept' /\ d \in DOMAIN block'
      BY <1>1, <1>3, <1>9, SameJumps DEF Emitted
<1>11. d # NoBlock
  <2>1. DOMAIN block = 1 .. Len(block)
        BY Positions DEF BlockInv, IsCode
  <2>2. QED  BY <1>3, <2>1 DEF Blocks, NoBlock
<1>12. OpenInv => LeftOpen = {}
      BY <1>1, NoneLeftOpen
<1> HIDE DEF d
<1>13. QED  BY <1>1, <1>9, <1>10, <1>11, <1>12, SwitchGoesOn

\* A statement outside the cases is dropped.
LEMMA SkipItemKeeps ==
    ASSUME BlockInv, NestInv', SkipSwitchStatement
    PROVE  Preserved
<1>1. /\ AtSwitchItem /\ frames' = Switched(NoBlock) /\ Frame.open = NoBlock
      /\ UNCHANGED built /\ UNCHANGED <<loops, jumps>>
      BY DEF SkipSwitchStatement, context
<1>2. Emitted({}, {})
      BY <1>1, AtWork, Unbuilt
<1>3. JumpsKept'
      BY <1>1, <1>2, SameJumps DEF Emitted
<1>4. OpenInv => Terminated(block'[cur'])
      BY <1>1 DEF OpenInv, AtSwitchItem, Running, built, is_terminated
<1>5. QED  BY <1>1, <1>2, <1>3, <1>4, SwitchGoesOn

\* The insertion point set back to the open block, where it is already.
LEMMA ItemKeeps ==
    ASSUME BlockInv, NestInv', GenSwitchStatement
    PROVE  Preserved
<1> DEFINE o == Frame.open
           t == [[Frame EXCEPT !.rest = Tail(@)] EXCEPT !.open = o]
           fs == Switched(o)
           f == [at |-> "ITEM", rest |-> <<Statement>>]
<1>1. /\ AtSwitchItem /\ o # NoBlock /\ cur' = o /\ frames' = Append(fs, f)
      /\ UNCHANGED <<block, functions>> /\ UNCHANGED <<loops, jumps>>
      /\ CasesGoOn => cur = o
      BY DEF GenSwitchStatement, context, CasesGoOn
<1>2. InFunction(frames) /\ IsBuilder(Here) /\ Here.block = block /\ Here.cur = cur
      BY <1>1, AtWork, HereBuilds
<1>3. o \in Blocks
      BY <1>1, Taken DEF FrameKept, AtSwitchItem, Running
<1>4. /\ fs = Append(Callers, t) /\ IsSequence(Callers)
      /\ Kept(Callers, Blocks) /\ FrameKept(t, Blocks)
      /\ t.at = "SWITCH" /\ t.open = o
      /\ Held(frames) = Held(Callers) \cup Owned(t)
  <2>1. PICK u : u = t
        OBVIOUS
  <2>2. u = [[Frame EXCEPT !.rest = Tail(@)] EXCEPT !.open = o]
        BY <2>1
  <2>3. o \in Blocks \cup {NoBlock} /\ Blocks \subseteq Blocks
        BY <1>3
  <2> HIDE DEF t, o
  <2>4. fs = Append(Callers, u)
        BY <1>1, <2>2, <2>3, SwitchedKept, Zenon
  <2>5. FrameKept(u, Blocks)
        BY <1>1, <2>2, <2>3, SwitchedKept, Zenon
  <2>6. IsSequence(Callers) /\ Kept(Callers, Blocks)
        BY <1>1, <2>2, <2>3, SwitchedKept, Zenon
  <2>7. u.at = "SWITCH" /\ u.open = o
        BY <1>1, <2>2, <2>3, SwitchedKept, Zenon
  <2>8. Held(frames) = Held(Callers) \cup Owned(u)
        BY <1>1, <2>2, <2>3, SwitchedKept, Zenon
  <2>9. QED  BY <2>1, <2>4, <2>5, <2>6, <2>7, <2>8
<1> HIDE DEF fs, t
<1>5. /\ IsSequence(fs) /\ Kept(fs, Blocks) /\ Held(fs) = Held(Callers) \cup Owned(t)
      /\ AllOpen(Callers) => AllOpen(fs)
      BY <1>1, <1>4, KeptAppended, Appended
<1>6. f.at = "ITEM" /\ FrameKept(f, Blocks) /\ Owned(f) = {}
      BY DEF FrameKept, Owned, LoopFrames
<1> HIDE DEF f
<1>7. Emitted({cur}, {})
  <2>1. IsCode(block) /\ \A g \in DOMAIN functions : IsSequence(functions[g].params)
        BY DEF BlockInv
  <2>2. {b \in Blocks : ~Terminated(block[b])} = OpenBlocks
        BY DEF OpenBlocks
  <2>3. block' = block /\ functions' = functions /\ cur' \in Blocks
        BY <1>1, <1>3
  <2>4. OpenBlocks \ {cur'} \subseteq ((OpenBlocks \ {cur}) \ {}) \cup {cur}
        OBVIOUS
  <2>5. QED  BY <2>1, <2>2, <2>3, <2>4 DEF Emitted, Blocks
<1>8. JumpsKept' /\ DOMAIN block' = Blocks
      BY <1>1, <1>7, SameJumps DEF Emitted, Blocks
<1>9. OpenInv /\ CasesGoOn => AllOpen(fs) /\ {cur} \subseteq {cur'}
      BY <1>1, <1>5 DEF OpenInv
<1>10. QED  BY <1>1, <1>2, <1>4, <1>5, <1>6, <1>7, <1>8, <1>9, Pushed

\* After the statement its switch has no open block if the insertion block is
\* terminated.
LEMMA EndItemKeeps ==
    ASSUME BlockInv, NestInv', EndSwitchStatement
    PROVE  Preserved
<1>1. /\ Frame.at = "ITEM" /\ UNCHANGED built /\ UNCHANGED <<loops, jumps>>
      /\ frames' = IF is_terminated
                   THEN [Callers EXCEPT ![Len(Callers)].open = NoBlock] ELSE Callers
      BY DEF EndSwitchStatement, Running, context
<1>2. InFunction(frames) /\ Len(frames) >= 3
      BY <1>1, InStack
<1>3. Emitted({}, {})
      BY <1>2, <1>1, Unbuilt
<1>4. JumpsKept'
      BY <1>1, <1>3, SameJumps DEF Emitted
<1>5. Owned(Frame) = {}
      BY <1>1 DEF Owned
<1>6. CASE ~is_terminated
      BY <1>1, <1>2, <1>3, <1>4, <1>5, <1>6, Popped
<1>7. CASE is_terminated
  <2> DEFINE e == [Last(Callers) EXCEPT !.open = NoBlock]
             fs == Front(Callers)
  <2>1. /\ Stack(Callers) /\ InFunction(Callers) /\ Kept(Callers, Blocks)
        /\ Held(frames) = Held(Callers) \cup Owned(Frame)
    <3>1. Stack(frames) /\ Kept(Callers, Blocks)
          /\ Held(frames) = Held(Callers) \cup Owned(Frame)
          BY Taken
    <3>2. Len(frames) >= 2
          BY <1>2, <3>1, Running1
    <3>3. QED  BY <1>2, <3>1, <3>2, StackShortened DEF Callers
  <2>2. /\ Len(Callers) \in DOMAIN Callers /\ Last(Callers) = Callers[Len(Callers)]
        /\ "at" \in DOMAIN Last(Callers) /\ Callers # <<>> /\ IsSequence(Callers)
        BY <2>1, Running1 DEF Stack
  <2>3. frames' = [Callers EXCEPT ![Len(Callers)] = e]
        BY <1>1, <1>7, <2>2
  <2>4. FrameKept(Last(Callers), Blocks) /\ Kept(fs, Blocks)
        /\ Held(Callers) = Held(fs) \cup Owned(Last(Callers))
        BY <2>1, <2>2, KeptShortened
  <2>5. FrameKept(e, Blocks) /\ Owned(e) = Owned(Last(Callers)) /\ e.at = Last(Callers).at
    <3>1. e = [Last(Callers) EXCEPT !["open"] = NoBlock]
          OBVIOUS
    <3> HIDE DEF e
    <3>2. QED  BY <2>2, <2>4, <3>1, OtherLocals
  <2>6. InFunction(frames')
    <3>1. "at" \in DOMAIN e
          BY <2>2
    <3> HIDE DEF e
    <3>2. Alike(Callers, frames')
          BY <2>1, <2>3, <2>5, <3>1, TopChanged
    <3>3. Len(Callers) >= 2 /\ DOMAIN Callers = 1 .. Len(Callers) /\ Len(Callers) \in Nat
          BY <2>1, <2>2, Positions DEF InFunction
    <3>4. 2 \in DOMAIN Callers
          BY <3>3
    <3>5. frames'[2].at = "FUNC"
          BY <2>1, <3>2, <3>4 DEF Alike, InFunction
    <3>6. Len(frames') = Len(Callers)
          BY <2>2, <2>3, Replaced
    <3>7. QED  BY <3>3, <3>5, <3>6 DEF InFunction
  <2> HIDE DEF e
  <2>7. frames' = Append(fs, e) /\ IsSequence(fs)
        BY <2>1, <2>3, Apart
  <2>8. Kept(fs, DOMAIN block') /\ FrameKept(e, DOMAIN block')
    <3>1. DOMAIN block' = Blocks
          BY <1>1 DEF Blocks, built
    <3>2. QED  BY <2>4, <2>5, <3>1
  <2>9. OpenInv => AllOpen(fs)
    <3>1. /\ DOMAIN fs = 1 .. Len(Callers) - 1
          /\ \A i \in 1 .. Len(Callers) - 1 : fs[i] = Callers[i]
          BY <2>2, Shortened
    <3>2. DOMAIN Callers = 1 .. Len(Callers) /\ Len(Callers) \in Nat
          BY <2>2, Positions
    <3>3. \A i \in DOMAIN fs : i \in DOMAIN Callers /\ fs[i] = Callers[i]
          BY <3>1, <3>2
    <3>4. QED  BY <3>3 DEF OpenInv, AllOpen
  <2>10. Held(frames) = Held(fs) \cup Owned(e)
         BY <1>5, <2>1, <2>4, <2>5
  <2>11. Terminated(block'[cur'])
         BY <1>1, <1>7 DEF is_terminated, built
  <2> HIDE DEF fs
  <2>12. QED  BY <1>2, <1>3, <1>4, <2>6, <2>7, <2>8, <2>9, <2>10, <2>11, Pushed
<1>8. QED  BY <1>6, <1>7

\* The block after the switch is entered.
LEMMA EndSwitchKeeps ==
    ASSUME BlockInv, NestInv', EndSwitch
    PROVE  Preserved
<1> DEFINE g == IF Frame.open = NoBlock THEN Here ELSE Fallthrough(Here, Frame.after)
           k == MoveTo(g, Frame.after)
<1>1. /\ Running("SWITCH") /\ Frame.at = "SWITCH" /\ Built(k) /\ LeaveLoop
      BY DEF EndSwitch, Running
<1>2. /\ InFunction(frames) /\ Len(frames) >= 3 /\ IsBuilder(Here)
      /\ Here.block = block /\ Here.cur = cur
      BY <1>1, InStack, HereBuilds
<1>3. Owned(Frame) = {Frame.after} /\ Frame.after \in Blocks
      BY <1>1, Taken DEF Owned, FrameKept
<1>4. Opens(Here, k, LeftOpen) /\ k.cur = Frame.after
  <2>1. CASE Frame.open = NoBlock
    <3>1. k = MoveTo(Here, Frame.after) /\ Frame.after \in DOMAIN Here.block
          BY <1>2, <1>3, <2>1 DEF Blocks
    <3> HIDE DEF k
    <3>2. Opens(Here, k, IF Closed(Here) THEN {} ELSE {Here.cur}) /\ k.cur = Frame.after
          BY <1>2, <3>1, MoveOpens
    <3>3. (IF Closed(Here) THEN {} ELSE {Here.cur}) \subseteq LeftOpen
          BY <1>2, <2>1, HereClosed DEF LeftOpen
    <3>4. QED  BY <3>2, <3>3, OpensMore
  <2>2. CASE Frame.open # NoBlock
    <3>1. k = MoveTo(Fallthrough(Here, Frame.after), Frame.after)
          BY <2>2
    <3>2. Opens(Here, k, {}) /\ k.cur = Frame.after
          BY <1>2, <1>3, <3>1, FallsInto DEF Blocks
    <3>3. QED  BY <3>2, OpensMore
  <2>3. QED  BY <2>1, <2>2
<1> HIDE DEF k
<1>5. Emitted(LeftOpen, {}) /\ cur' = Frame.after
      BY <1>1, <1>2, <1>4, EmittedOpens DEF Built
<1>6. OpenInv => LeftOpen = {}
      BY <1>1, NoneLeftOpen
<1>7. QED  BY <1>1, <1>2, <1>3, <1>5, <1>6, LoopLeft DEF LoopFrames

-----------------------------------------------------------------------------
(* run, gen_top and gen_func *)

\* Outside a function no switch is pending.
LEMMA Outside ==
    ASSUME NEW fs, Stack(fs), ~InFunction(fs)
    PROVE  AllOpen(Front(fs)) /\ Last(fs).at \in {"RUN", "GLOBALS"}
<1>1. Last(fs).at \in {"RUN", "GLOBALS"} /\ Len(fs) <= 2 /\ Len(fs) \in Nat
      BY Running1
<1>2. IsSequence(fs) /\ fs # <<>>
      BY Running1 DEF Stack
<1>3. /\ DOMAIN Front(fs) = 1 .. Len(fs) - 1
      /\ \A i \in 1 .. Len(fs) - 1 : Front(fs)[i] = fs[i]
      BY <1>2, Shortened
<1>4. \A i \in DOMAIN Front(fs) : i = 1 /\ Front(fs)[i] = fs[i] /\ i \in DOMAIN fs
  <2>1. DOMAIN fs = 1 .. Len(fs)
        BY <1>2, Positions
  <2>2. QED  BY <1>1, <1>3, <2>1
<1>5. \A i \in DOMAIN Front(fs) : Front(fs)[i].at = "RUN"
      BY <1>4 DEF Stack
<1>6. QED  BY <1>1, <1>5 DEF AllOpen

\* A step that ends outside a function.
LEMMA OutsideKeeps ==
    ASSUME NestInv', ~InFunction(frames'), IsCode(block'),
           \A f \in DOMAIN functions' : IsSequence(functions'[f].params),
           cur' \in DOMAIN block' \cup {NoBlock}, Kept(frames', DOMAIN block'), JumpsKept',
           OpenInv => \A b \in DOMAIN block' : Terminated(block'[b])
    PROVE  Preserved
<1>1. BlockInv'
      BY DEF BlockInv, Blocks
<1>2. AllOpen(Callers') /\ Frame'.at # "SWITCH"
  <2>1. Stack(frames')
        BY DEF NestInv, Balanced
  <2>2. AllOpen(Front(frames')) /\ Last(frames').at \in {"RUN", "GLOBALS"}
        BY <2>1, Outside
  <2>3. QED  BY <2>2 DEF Callers, Frame
<1>3. OpenInv => OpenBlocks' = {}
      BY DEF OpenBlocks, Blocks
<1>4. QED  BY <1>1, <1>2, <1>3 DEF Preserved, OpenInv

\* One that builds nothing.
LEMMA IdleOutside ==
    ASSUME BlockInv, NestInv', ~InFunction(frames), ~InFunction(frames'),
           UNCHANGED <<block, cur>> /\ UNCHANGED <<loops, jumps>>,
           \A f \in DOMAIN functions' : IsSequence(functions'[f].params),
           Kept(frames', Blocks)
    PROVE  Preserved
<1>1. /\ IsCode(block') /\ cur' \in DOMAIN block' \cup {NoBlock}
      /\ Kept(frames', DOMAIN block')
      BY DEF BlockInv, Blocks
<1>2. JumpsKept'
      BY SameJumps DEF Blocks
<1>3. OpenInv => \A b \in DOMAIN block' : Terminated(block'[b])
      BY DEF OpenInv, OpenBlocks, Blocks
<1>4. QED  BY <1>1, <1>2, <1>3, OutsideKeeps

\* What is left of a list of the parser is one.
LEMMA FewerNodes ==
    ASSUME NEW s, s # <<>>
    PROVE  /\ TopLevels(s) => TopLevel(Head(s)) /\ TopLevels(Tail(s))
           /\ TypedList(s) => Typed(Head(s)) /\ TypedList(Tail(s))
<1>1. SUFFICES ASSUME IsSequence(s)
               PROVE  /\ TopLevels(s) => TopLevel(Head(s)) /\ TopLevels(Tail(s))
                      /\ TypedList(s) => Typed(Head(s)) /\ TypedList(Tail(s))
      BY DEF TopLevels, TypedList
<1>2. /\ IsSequence(Tail(s)) /\ DOMAIN Tail(s) = 1 .. Len(s) - 1 /\ Len(s) >= 1
      /\ \A i \in 1 .. Len(s) - 1 : Tail(s)[i] = s[i + 1]
      BY <1>1, Shortened
<1>3. DOMAIN s = 1 .. Len(s) /\ Len(s) \in Nat
      BY <1>1, Positions
<1>4. Head(s) = s[1] /\ 1 \in DOMAIN s
  <2>1. PICK S : s \in Seq(S)
    <3>1. s \in Seq({s[i] : i \in DOMAIN s})
          BY <1>1, InSeq
    <3>2. QED  BY <3>1
  <2>2. QED  BY <1>2, <1>3, <2>1
<1>5. \A i \in DOMAIN Tail(s) : i + 1 \in DOMAIN s /\ Tail(s)[i] = s[i + 1]
      BY <1>2, <1>3
<1>6. QED  BY <1>2, <1>4, <1>5 DEF TopLevels, TypedList

\* The stack of run or of the loop over a list that goes on.
LEMMA AdvancedOutside ==
    ASSUME BlockInv, Frame.at \in {"RUN", "GLOBALS"}, Frame.rest # <<>>
    PROVE  /\ ~InFunction(frames) /\ ~InFunction(Advanced)
           /\ IsSequence(Advanced) /\ Kept(Advanced, Blocks)
           /\ Held(frames) = {} /\ Held(Advanced) = {}
           /\ Frame.at = "RUN" => TopLevel(Statement)
           /\ Frame.at = "GLOBALS" => Typed(Statement)
<1> DEFINE top == [Frame EXCEPT !.rest = Tail(@)]
<1>1. /\ Stack(frames) /\ IsSequence(Callers) /\ "at" \in DOMAIN Frame
      /\ Kept(Callers, Blocks) /\ FrameKept(Frame, Blocks)
      /\ Held(frames) = Held(Callers) \cup Owned(Frame)
      BY Taken
<1>2. Advanced = [frames EXCEPT ![Len(frames)] = top]
  <2>1. Len(frames) \in DOMAIN frames /\ Frame = frames[Len(frames)]
        BY <1>1, Running1 DEF Frame
  <2>2. QED  BY <2>1 DEF Advanced
<1>3. "rest" \in DOMAIN Frame
      BY <1>1 DEF FrameKept
<1>4. top.at = Frame.at /\ top.rest = Tail(Frame.rest) /\ "rest" \in DOMAIN top
      BY <1>1, <1>3
<1> HIDE DEF top
<1>5. /\ Frame.at = "RUN" => TopLevel(Statement) /\ TopLevels(top.rest)
      /\ Frame.at = "GLOBALS" => Typed(Statement) /\ TypedList(top.rest)
      BY <1>1, <1>4, FewerNodes DEF FrameKept, Statement
<1>6. FrameKept(top, Blocks) /\ Owned(top) = {} /\ Owned(Frame) = {}
      BY <1>4, <1>5 DEF FrameKept, Owned, LoopFrames
<1>7. Advanced = Append(Callers, top)
      BY <1>1, <1>2, Apart DEF Callers
<1>8. /\ IsSequence(Advanced) /\ Kept(Advanced, Blocks)
      /\ Held(Advanced) = Held(Callers) \cup Owned(top)
      BY <1>1, <1>6, <1>7, KeptAppended, Appended
<1>9. ~InFunction(frames) /\ ~InFunction(Advanced)
  <2>1. ~InFunction(frames) /\ Len(frames) \in Nat /\ Len(frames) <= 2
        BY <1>1, Running1 DEF Frame, InFunction
  <2>2. Alike(frames, Advanced) /\ Len(Advanced) = Len(frames)
    <3>1. Alike(frames, Advanced)
          BY <1>1, AdvancedAlike
    <3>2. Len(Advanced) = Len(frames)
          BY <1>1, <1>2, Replaced DEF Stack
    <3>3. QED  BY <3>1, <3>2
  <2>3. Len(frames) >= 2 => 2 \in DOMAIN frames
        BY <1>1, <2>1, Positions DEF Stack
  <2>4. QED  BY <2>1, <2>2, <2>3 DEF InFunction, Alike
<1>10. Held(Callers) = {}
  <2>1. /\ DOMAIN Callers = 1 .. Len(frames) - 1 /\ Len(frames) \in Nat /\ Len(frames) <= 2
        /\ \A i \in 1 .. Len(frames) - 1 : Callers[i] = frames[i]
        BY <1>1, <1>9, Running1, Shortened, SMTT(40) DEF Frame, Callers, Stack
  <2>2. \A i \in DOMAIN Callers : i = 1 /\ Callers[i] = frames[i] /\ i \in DOMAIN frames
    <3>1. DOMAIN frames = 1 .. Len(frames)
          BY <1>1, Positions DEF Stack
    <3>2. QED  BY <2>1, <3>1
  <2>3. \A i \in DOMAIN Callers : Callers[i].at = "RUN"
        BY <1>1, <2>2 DEF Stack
  <2>4. \A i \in DOMAIN Callers : Owned(Callers[i]) = {}
        BY <2>3 DEF Owned
  <2>5. QED  BY <2>4 DEF Held
<1>11. QED  BY <1>1, <1>5, <1>6, <1>8, <1>9, <1>10

\* A global variable builds no block,
LEMMA GlobalKeeps ==
    ASSUME BlockInv, NestInv', GenGlobal \/ GenListedGlobal
    PROVE  Preserved
<1>1. /\ Frame.at \in {"RUN", "GLOBALS"} /\ Frame.rest # <<>> /\ frames' = Advanced
      /\ UNCHANGED built /\ UNCHANGED <<loops, jumps>>
      BY DEF GenGlobal, GenListedGlobal, gen_global, AtTop, Running
<1>2. \A f \in DOMAIN functions' : IsSequence(functions'[f].params)
      BY <1>1 DEF BlockInv, built
<1>3. QED  BY <1>1, <1>2, AdvancedOutside, IdleOutside DEF built

\* a list of them none,
LEMMA GlobalListKeeps ==
    ASSUME BlockInv, NestInv', GenGlobalList \/ EndGlobalList
    PROVE  Preserved
<1>1. UNCHANGED built /\ UNCHANGED <<loops, jumps>>
      BY DEF GenGlobalList, EndGlobalList, context
<1>2. \A f \in DOMAIN functions' : IsSequence(functions'[f].params)
      BY <1>1 DEF BlockInv, built
<1>3. CASE GenGlobalList
  <2> DEFINE f == [at |-> "GLOBALS", rest |-> Statement.list]
  <2>1. /\ Frame.at = "RUN" /\ Frame.rest # <<>> /\ Statement.type = "VARIABLE_LIST"
        /\ frames' = Append(Advanced, f)
        BY <1>3 DEF GenGlobalList, AtTop, Running
  <2>2. /\ IsSequence(Advanced) /\ Kept(Advanced, Blocks) /\ ~InFunction(frames)
        /\ TopLevel(Statement)
        BY <2>1, AdvancedOutside
  <2>3. f.at = "GLOBALS" /\ FrameKept(f, Blocks)
        BY <2>1, <2>2 DEF TopLevel, FrameKept, Owned, LoopFrames
  <2> HIDE DEF f
  <2>4. Kept(frames', Blocks) /\ Last(frames') = f
        BY <2>1, <2>2, <2>3, KeptAppended, Appended
  <2>5. ~InFunction(frames')
        BY <2>3, <2>4, Running1 DEF NestInv, Balanced
  <2>6. QED  BY <1>1, <1>2, <2>2, <2>4, <2>5, IdleOutside DEF built
<1>4. CASE EndGlobalList
  <2>1. Frame.at = "GLOBALS" /\ frames' = Callers
        BY <1>4 DEF EndGlobalList, Running
  <2>2. Stack(frames) /\ Kept(Callers, Blocks)
        BY Taken
  <2>3. ~InFunction(frames) /\ Len(frames) = 2
        BY <2>1, <2>2, Running1 DEF Frame
  <2>4. Len(Callers) = 1
    <3>1. Len(frames) >= 2
          BY <2>3
    <3>2. Len(Callers) = Len(frames) - 1
          BY <2>2, <3>1, StackShortened DEF Callers
    <3>3. QED  BY <2>3, <3>2
  <2>5. ~InFunction(frames')
        BY <2>1, <2>4 DEF InFunction
  <2>6. QED  BY <1>1, <1>2, <2>1, <2>2, <2>3, <2>5, IdleOutside DEF built
<1>5. QED  BY <1>3, <1>4

\* The parameters of a function, declared now or before.
LEMMA Parameters ==
    ASSUME BlockInv, IsSequence(Statement.args)
    PROVE  /\ IsSequence(FunctionOf(Statement).params)
           /\ \A x : LET t == With(functions, x, FunctionOf(Statement))
                     IN  \A f \in DOMAIN t : IsSequence(t[f].params)
<1> DEFINE n == Statement
           g == FunctionOf(n)
<1>1. IsSequence(g.params)
  <2>1. CASE n.name \in DOMAIN functions
        BY <2>1 DEF FunctionOf, BlockInv
  <2>2. CASE n.name \notin DOMAIN functions
    <3> DEFINE p == [k \in DOMAIN n.args |-> dtype_to_llvm[n.args[k].dtype]]
               S == {p[k] : k \in DOMAIN n.args}
    <3>1. g.params = p
          BY <2>2 DEF FunctionOf
    <3>2. DOMAIN n.args = 1 .. Len(n.args) /\ Len(n.args) \in Nat
          BY Positions
    <3>3. p \in [1 .. Len(n.args) -> S]
          BY <3>2
    <3> HIDE DEF p, S
    <3>4. p \in Seq(S)
          BY <3>2, <3>3, SeqDef
    <3>5. QED  BY <3>1, <3>4, FromSeq
  <2>3. QED  BY <2>1, <2>2
<1> HIDE DEF g
<1>2. ASSUME NEW x, NEW f \in DOMAIN With(functions, x, g)
      PROVE  IsSequence(With(functions, x, g)[f].params)
      BY <1>1, <1>2 DEF With, BlockInv
<1>3. QED  BY <1>1, <1>2 DEF g

\* and neither does a prototype.
LEMMA PrototypeKeeps ==
    ASSUME BlockInv, NestInv', GenPrototype
    PROVE  Preserved
<1>1. /\ Frame.at = "RUN" /\ Frame.rest # <<>> /\ Statement.type = "FUNCTION"
      /\ frames' = Advanced /\ UNCHANGED <<block, cur>> /\ UNCHANGED <<loops, jumps>>
      /\ functions' = With(functions, Statement.name, FunctionOf(Statement))
      BY DEF GenPrototype, AtTop, Running
<1>2. /\ ~InFunction(frames) /\ ~InFunction(Advanced)
      /\ Kept(Advanced, Blocks) /\ TopLevel(Statement)
      BY <1>1, AdvancedOutside
<1>3. \A f \in DOMAIN functions' : IsSequence(functions'[f].params)
      BY <1>1, <1>2, Parameters DEF TopLevel
<1>4. QED  BY <1>1, <1>2, <1>3, IdleOutside
\* The smaller of two numbers is one.
LEMMA MinOfTwo ==
    ASSUME NEW m \in Nat, NEW n \in Nat
    PROVE  Min({m, n}) \in Nat
<1>1. \E x \in {m, n} : \A y \in {m, n} : x =< y
  <2>1. CASE m =< n
        BY <2>1
  <2>2. CASE n =< m
        BY <2>2
  <2>3. QED  BY <2>1, <2>2
<1>2. Min({m, n}) \in {m, n}
      BY <1>1 DEF Min
<1>3. QED  BY <1>2

\* The first block of a function.
LEMMA FirstBlock ==
    ASSUME NEW n \in Nat, NEW p
    PROVE  LET is == [k \in 1 .. n |-> Store(Slot(k), Param(k, p[k]))]
           IN  IsCode(<<is>>) /\ DOMAIN <<is>> = {1}
<1> DEFINE is == [k \in 1 .. n |-> Store(Slot(k), Param(k, p[k]))]
           S == {is[k] : k \in 1 .. n}
<1>1. is \in [1 .. n -> S]
      OBVIOUS
<1>2. \A k \in 1 .. n : "op" \in DOMAIN is[k]
      BY DEF Store
<1> HIDE DEF is, S
<1>3. is \in Seq(S) /\ DOMAIN is = 1 .. n
      BY <1>1, SeqDef
<1>4. IsBlock(is)
      BY <1>2, <1>3, FromSeq DEF IsBlock
<1>5. <<is>> \in Seq({is}) /\ Len(<<is>>) = 1
      OBVIOUS
<1>6. IsSequence(<<is>>) /\ DOMAIN <<is>> = 1 .. 1
      BY <1>5, FromSeq, Positions
<1>7. DOMAIN <<is>> = {1}
      BY <1>6
<1>8. IsCode(<<is>>)
      BY <1>4, <1>6, <1>7 DEF IsCode
<1>9. QED  BY <1>7, <1>8 DEF is

\* Nothing is kept of the function before.
LEMMA FuncKeeps ==
    ASSUME BlockInv, NestInv', GenFunc
    PROVE  Preserved
<1> DEFINE n == Statement
           g == FunctionOf(n)
           m == Min({Len(g.params), Len(n.args)})
           f == [at |-> "FUNC"]
           b == BodyFrame(n.body.statements)
<1>1. /\ Frame.at = "RUN" /\ Frame.rest # <<>> /\ n.type = "FUNCTION"
      /\ functions' = With(functions, n.name, g)
      /\ block' = <<[k \in 1 .. m |-> Store(Slot(k), Param(k, g.params[k]))]>>
      /\ frames' = Advanced \o <<f, b>> /\ cur' = 1
      /\ labels' = NoNames /\ pending' = <<>> /\ loops' = loops
      BY DEF GenFunc, AtTop, Running
<1>2. /\ IsSequence(Advanced) /\ Kept(Advanced, Blocks) /\ Held(Advanced) = {}
      /\ ~InFunction(frames) /\ ~InFunction(Advanced) /\ TopLevel(n)
      BY <1>1, AdvancedOutside
<1>3. IsSequence(n.args)
      BY <1>1, <1>2 DEF TopLevel
<1>4. IsSequence(g.params) /\ \A x \in DOMAIN functions' : IsSequence(functions'[x].params)
      BY <1>1, <1>3, Parameters
<1>5. IsCode(block') /\ DOMAIN block' = {1}
  <2>1. m \in Nat
    <3>1. Len(g.params) \in Nat /\ Len(n.args) \in Nat
          BY <1>3, <1>4 DEF IsSequence
    <3>2. QED  BY <3>1, MinOfTwo
  <2> HIDE DEF m
  <2>2. QED  BY <1>1, <2>1, FirstBlock
<1> HIDE DEF g, m
<1>6. frames' = Append(Append(Advanced, f), b)
      BY <1>1, <1>2, TwoAppended
<1>7. b.at = "BODY" /\ Owned(b) = {} /\ Owned(f) = {} /\ f.at = "FUNC"
      BY DEF BodyFrame, Owned
<1>8. FrameKept(f, DOMAIN block') /\ FrameKept(b, DOMAIN block')
      BY <1>7 DEF FrameKept, LoopFrames
<1> HIDE DEF f, b
<1>9. /\ IsSequence(Append(Advanced, f)) /\ IsSequence(frames')
      /\ Last(frames') = b /\ Callers' = Append(Advanced, f)
      BY <1>2, <1>6, Appended, AppendedApart DEF Callers
<1>10. InFunction(frames')
       BY <1>7, <1>9, Running1 DEF NestInv, Balanced
<1>11. Stack(frames) /\ Len(frames) = 1 /\ DOMAIN frames = {1}
  <2>1. Stack(frames) /\ Len(frames) = 1
        BY <1>1, Running1 DEF BlockInv, NestInv, Balanced, Frame
  <2>2. DOMAIN frames = 1 .. Len(frames)
        BY <2>1, Positions DEF Stack
  <2>3. QED  BY <2>1, <2>2
<1>12. DOMAIN Advanced = {1} /\ Advanced[1].at = "RUN"
  <2>1. Alike(frames, Advanced)
        BY <1>1, <1>11, Running1, AdvancedAlike, Taken
  <2>2. 1 \in DOMAIN frames /\ frames[1].at = "RUN"
        BY <1>11 DEF Stack
  <2>3. QED  BY <1>11, <2>1, <2>2 DEF Alike
<1>13. Kept(Advanced, DOMAIN block')
  <2>1. FrameKept(Advanced[1], Blocks)
        BY <1>2, <1>12 DEF Kept
  <2>2. FrameKept(Advanced[1], DOMAIN block')
        BY <1>12, <2>1 DEF FrameKept, Owned, LoopFrames
  <2>3. QED  BY <1>12, <2>2 DEF Kept
<1>14. Kept(frames', DOMAIN block')
  <2>1. Kept(Append(Advanced, f), DOMAIN block')
        BY <1>2, <1>8, <1>13, KeptAppended
  <2>2. QED  BY <1>6, <1>8, <1>9, <2>1, KeptAppended
<1>15. loops = <<>>
  <2>1. {i \in DOMAIN frames : frames[i].at \in LoopFrames} = {}
        BY <1>11 DEF Stack, LoopFrames
  <2>2. CountIn(frames, LoopFrames) = 0
        BY <2>1, FS_EmptySet DEF CountIn
  <2>3. IsSequence(loops) /\ Len(loops) = 0
        BY <2>2 DEF BlockInv, NestInv, Balanced
  <2>4. loops \in Seq({loops[i] : i \in DOMAIN loops})
        BY <2>3, InSeq
  <2>5. QED  BY <2>3, <2>4
<1>16. JumpsKept'
  <2>1. IsSequence(<<>>) /\ DOMAIN <<>> = {}
    <3>1. <<>> \in Seq({}) /\ DOMAIN <<>> = {}
          OBVIOUS
    <3>2. IsSequence(<<>>)
          BY <3>1, FromSeq
    <3>3. QED  BY <3>1, <3>2
  <2>2. QED  BY <1>1, <1>15, <2>1 DEF JumpsKept, JumpTargets, NoNames
<1>17. BlockInv'
       BY <1>1, <1>4, <1>5, <1>14, <1>16 DEF BlockInv, Blocks
<1>18. OpenBlocks' \ {cur'} = {}
       BY <1>1, <1>5 DEF OpenBlocks, Blocks
<1>19. AllOpen(Callers')
  <2>1. AllOpen(Advanced)
        BY <1>12 DEF AllOpen
  <2>2. QED  BY <1>2, <1>7, <1>9, <2>1, KeptAppended
<1>20. Frame'.at = "BODY"
       BY <1>7, <1>9 DEF Frame
<1>21. QED  BY <1>10, <1>17, <1>18, <1>19, <1>20 DEF Preserved, OpenInv
\* Gotos are resolved: branches are replaced by branches.
LEMMA ResolvedCode ==
    ASSUME BlockInv
    PROVE  /\ IsCode(Resolved) /\ DOMAIN Resolved = Blocks
           /\ OpenInv => \A b \in Blocks :
                            Terminated(block[b]) => Terminated(Resolved[b])
<1>1. /\ IsCode(block) /\ DOMAIN block = 1 .. Len(block) /\ Len(block) \in Nat
      BY Positions DEF BlockInv, IsCode
<1>2. DOMAIN Resolved = Blocks
      BY DEF Resolved, Blocks
<1>3. ASSUME NEW b \in Blocks
      PROVE  /\ IsBlock(Resolved[b])
             /\ Terminated(block[b]) => Terminated(Resolved[b])
  <2> DEFINE is == block[b]
             Jumps(i) == \E g \in DOMAIN pending : /\ pending[g].from = b
                                                   /\ pending[g].at = i
                                                   /\ pending[g].name \in DOMAIN labels
             New(i) == Br(labels[(CHOOSE p \in {pending[g] : g \in DOMAIN pending} :
                                    p.from = b /\ p.at = i).name])
             js == [i \in DOMAIN is |-> IF Jumps(i) THEN New(i) ELSE is[i]]
             S == {js[i] : i \in DOMAIN is}
  <2>1. Resolved[b] = js
        BY DEF Resolved, Blocks
  <2>2. \A i : "op" \in DOMAIN New(i) /\ IsTerminator(New(i))
        BY Terminators
  <2> HIDE DEF Jumps, New
  <2>3. IsBlock(is)
        BY <1>1 DEF IsCode, Blocks
  <2>4. DOMAIN is = 1 .. Len(is) /\ Len(is) \in Nat /\ IsSequence(is)
        BY <2>3, Positions DEF IsBlock
  <2> HIDE DEF is
  <2>5. js \in Seq(S) /\ DOMAIN js = DOMAIN is
    <3>1. js \in [1 .. Len(is) -> S]
          BY <2>4
    <3> HIDE DEF S, js
    <3>2. js \in Seq(S) /\ DOMAIN js = 1 .. Len(is)
          BY <2>4, <3>1, SeqDef
    <3>3. QED  BY <2>4, <3>2
  <2>6. \A i \in DOMAIN is : js[i] = New(i) \/ js[i] = is[i]
        OBVIOUS
  <2> HIDE DEF S, js
  <2>7. IsSequence(js)
        BY <2>5, FromSeq
  <2>8. IsBlock(js)
        BY <2>2, <2>3, <2>5, <2>6, <2>7 DEF IsBlock
  <2>9. ASSUME Terminated(is)
        PROVE  Terminated(js)
    <3>1. Len(js) = Len(is)
          BY <2>4, <2>5
    <3>2. is # <<>> /\ IsTerminator(is[Len(is)])
          BY <2>9 DEF Terminated, Last
    <3>3. Len(is) \in DOMAIN is
      <4>1. Len(is) >= 1
            BY <2>4, <3>2, Shortened
      <4>2. QED  BY <2>4, <4>1
    <3>4. IsTerminator(js[Len(js)])
          BY <2>2, <2>6, <3>1, <3>2, <3>3
    <3>5. js # <<>>
      <4>1. 1 <= Len(js)
            BY <2>4, <3>1, <3>3
      <4>2. QED  BY <4>1
    <3>6. QED  BY <3>4, <3>5 DEF Terminated, Last
  <2>10. QED  BY <2>1, <2>8, <2>9 DEF is
<1>4. IsSequence(Resolved)
  <2> DEFINE T == {Resolved[b] : b \in Blocks}
  <2>1. Resolved = [b \in 1 .. Len(block) |-> Resolved[b]]
        BY <1>1 DEF Resolved
  <2> HIDE DEF T
  <2>2. Resolved \in [1 .. Len(block) -> T]
        BY <1>1, <1>2, <2>1 DEF T, Blocks
  <2>3. Resolved \in Seq(T)
        BY <1>1, <2>2, SeqDef
  <2>4. QED  BY <2>3, FromSeq
<1>5. IsCode(Resolved)
      BY <1>2, <1>3, <1>4 DEF IsCode
<1>6. QED  BY <1>2, <1>3, <1>5

\* Every block of a function that ends has its terminator.
LEMMA EndFuncKeeps ==
    ASSUME BlockInv, NestInv', EndFunc
    PROVE  Preserved
<1> DEFINE t == dtype_to_llvm[fn.rtype]
           ret == IF t = "void" THEN RetVoid ELSE Ret(Const(0, t))
           is == Append(Resolved[cur], ret)
           bs == [Resolved EXCEPT ![cur] = is]
<1>1. /\ Frame.at = "FUNC" /\ frames' = Callers
      /\ cur' = cur /\ functions' = functions /\ pending' = <<>>
      /\ UNCHANGED <<loops, labels>>
      BY DEF EndFunc, Running
<1>2. "op" \in DOMAIN ret /\ IsTerminator(ret)
      BY Terminators
<1>3. block' = IF is_terminated THEN Resolved ELSE bs
      BY DEF EndFunc
<1> HIDE DEF ret
<1>4. Stack(frames) /\ Len(frames) = 2 /\ InFunction(frames) /\ cur \in Blocks
      BY <1>1, Running1 DEF BlockInv, NestInv, Balanced, Frame
<1>5. /\ IsCode(Resolved) /\ DOMAIN Resolved = Blocks
      /\ OpenInv => \A b \in Blocks : Terminated(block[b]) => Terminated(Resolved[b])
      BY ResolvedCode
<1>6. IsBlock(is) /\ Terminated(is)
      BY <1>2, <1>4, <1>5, BlockAppended DEF IsCode
<1> HIDE DEF is
<1>7. /\ IsCode(bs) /\ DOMAIN bs = Blocks /\ bs[cur] = is
      /\ \A b \in Blocks : b # cur => bs[b] = Resolved[b]
      BY <1>4, <1>5, <1>6, CodeReplaced
<1> HIDE DEF bs
<1>8. IsCode(block') /\ DOMAIN block' = Blocks
      BY <1>3, <1>5, <1>7
<1>9. Stack(Callers) /\ Len(Callers) = 1 /\ ~InFunction(Callers)
  <2>1. Len(frames) >= 2
        BY <1>4
  <2>2. Stack(Callers) /\ Len(Callers) = Len(frames) - 1
        BY <1>4, <2>1, StackShortened DEF Callers
  <2>3. QED  BY <1>4, <2>2 DEF InFunction
<1>10. Kept(frames', DOMAIN block') /\ Held(frames) = Held(Callers) \cup Owned(Frame)
       BY <1>1, <1>8, Taken
<1>11. JumpsKept'
  <2>1. IsSequence(<<>>) /\ DOMAIN <<>> = {}
    <3>1. <<>> \in Seq({}) /\ DOMAIN <<>> = {}
          OBVIOUS
    <3>2. IsSequence(<<>>)
          BY <3>1, FromSeq
    <3>3. QED  BY <3>1, <3>2
  <2>2. QED  BY <1>1, <1>8, <2>1 DEF BlockInv, JumpsKept, JumpTargets, Blocks
<1>12. ASSUME OpenInv
       PROVE  \A b \in DOMAIN block' : Terminated(block'[b])
  <2>1. Held(Callers) = {} /\ Owned(Frame) = {}
    <3>1. DOMAIN Callers = {1} /\ Callers[1].at = "RUN"
      <4>1. DOMAIN Callers = 1 .. Len(Callers)
            BY <1>9, Positions DEF Stack
      <4>2. DOMAIN Callers = {1}
            BY <1>9, <4>1
      <4>3. QED  BY <1>9, <4>2 DEF Stack
    <3>2. QED  BY <1>1, <3>1 DEF Held, Owned
  <2>2. \A b \in Blocks : b # cur => Terminated(block[b])
        BY <1>4, <1>10, <1>12, <2>1 DEF OpenInv, OpenBlocks
  <2>3. CASE is_terminated
        BY <1>3, <1>5, <1>12, <2>2, <2>3 DEF is_terminated
  <2>4. CASE ~is_terminated
        BY <1>3, <1>5, <1>6, <1>7, <1>12, <2>2, <2>4
  <2>5. QED  BY <2>3, <2>4
<1>13. \A f \in DOMAIN functions' : IsSequence(functions'[f].params)
       BY <1>1 DEF BlockInv
<1>14. cur' \in DOMAIN block' \cup {NoBlock}
       BY <1>1, <1>4, <1>8
<1>15. ~InFunction(frames')
       BY <1>1, <1>9
<1>16. QED  BY <1>8, <1>10, <1>11, <1>12, <1>13, <1>14, <1>15, OutsideKeeps

\* Nothing changes.
LEMMA IdleKeeps ==
    ASSUME BlockInv, NestInv', UNCHANGED <<frames, loops, scopes, jumps, built>>
    PROVE  Preserved
<1>1. /\ frames' = frames /\ loops' = loops /\ labels' = labels /\ pending' = pending
      /\ block' = block /\ cur' = cur /\ functions' = functions
      BY DEF jumps, built
<1>2. JumpsKept'
      BY <1>1, SameJumps DEF Blocks, jumps
<1>3. BlockInv'
      BY <1>1, <1>2 DEF BlockInv, Blocks
<1>4. OpenInv => OpenInv'
      BY <1>1 DEF OpenInv, OpenBlocks, Blocks, Callers, Frame, is_terminated
<1>5. QED  BY <1>3, <1>4 DEF Preserved
-----------------------------------------------------------------------------
(* The theorems *)

\* Every method that emits for an expression relies on what the expression's
\* code does, and keeps both invariants.
LEMMA BlockStep ==
    ASSUME BlockInv, ExpressionsSettle, [Next]_vars
    PROVE  Preserved
<1>1. NestInv'
      BY NestStep DEF BlockInv
<1>2. CASE GenGlobal \/ GenListedGlobal
      BY <1>1, <1>2, GlobalKeeps
<1>3. CASE GenGlobalList \/ EndGlobalList
      BY <1>1, <1>3, GlobalListKeeps
<1>4. CASE GenPrototype
      BY <1>1, <1>4, PrototypeKeeps
<1>5. CASE GenFunc
      BY <1>1, <1>5, FuncKeeps
<1>6. CASE EndFunc
      BY <1>1, <1>6, EndFuncKeeps
<1>7. CASE SkipStatement \/ GenNestedCase
      BY <1>1, <1>7, SkipKeeps
<1>8. CASE GenNode
      BY <1>1, <1>8, NodeKeeps
<1>9. CASE GenVarDecl \/ GenListed
      BY <1>1, <1>9, VariableKeeps
<1>10. CASE GenVarList \/ GenBlock
       BY <1>1, <1>10, ListKeeps
<1>11. CASE EndVarList \/ EndBody
       BY <1>1, <1>11, ReturnKeeps
<1>12. CASE GenReturn
       BY <1>1, <1>12, GenReturnKeeps
<1>13. CASE GenBreak \/ GenContinue \/ GenGotoBack
       BY <1>1, <1>13, JumpKeeps
<1>14. CASE GenLabel \/ GenGotoForward
       BY <1>1, <1>14, LabelKeeps
<1>15. CASE GenIf
       BY <1>1, <1>15, IfKeeps
<1>16. CASE GenElseIf
       BY <1>1, <1>16, ElseIfKeeps
<1>17. CASE GenElse \/ GenNoElse
       BY <1>1, <1>17, ElseKeeps
<1>18. CASE EndIf
       BY <1>1, <1>18, EndIfKeeps
<1>19. CASE GenWhile
       BY <1>1, <1>19, WhileKeeps
<1>20. CASE EndWhile
       BY <1>1, <1>20, EndWhileKeeps
<1>21. CASE GenDoWhile
       BY <1>1, <1>21, DoWhileKeeps
<1>22. CASE EndDoWhile
       BY <1>1, <1>22, EndDoWhileKeeps
<1>23. CASE GenFor
       BY <1>1, <1>23, ForKeeps
<1>24. CASE EndFor
       BY <1>1, <1>24, EndForKeeps
<1>25. CASE GenSwitch
       BY <1>1, <1>25, SwitchKeeps
<1>26. CASE GenCase
       BY <1>1, <1>26, CaseKeeps
<1>27. CASE GenDefault
       BY <1>1, <1>27, DefaultKeeps
<1>28. CASE SkipSwitchStatement
       BY <1>1, <1>28, SkipItemKeeps
<1>29. CASE GenSwitchStatement
       BY <1>1, <1>29, ItemKeeps
<1>30. CASE EndSwitchStatement
       BY <1>1, <1>30, EndItemKeeps
<1>31. CASE EndSwitch
       BY <1>1, <1>31, EndSwitchKeeps
<1>32. CASE EndRun \/ GenNestedDefault \/ Stopped \/ UNCHANGED vars
  <2>1. UNCHANGED <<frames, loops, scopes, jumps, built>>
        BY <1>32 DEF EndRun, GenNestedDefault, Stopped, vars, tables
  <2>2. QED  BY <1>1, <2>1, IdleKeeps
<1>33. QED  BY <1>2, <1>3, <1>4, <1>5, <1>6, <1>7, <1>8, <1>9, <1>10, <1>11, <1>12,
               <1>13, <1>14, <1>15, <1>16, <1>17, <1>18, <1>19, <1>20, <1>21, <1>22,
               <1>23, <1>24, <1>25, <1>26, <1>27, <1>28, <1>29, <1>30, <1>31, <1>32
            DEF Next

\* run begins with its own frame and nothing built.
LEMMA BlockInit ==
    ASSUME Init
    PROVE  BlockInv /\ OpenInv
<1>1. NestInv
      BY NestBegins
<1>2. /\ frames = <<[at |-> "RUN", rest |-> program]>> /\ program \in Programs
      /\ loops = <<>> /\ labels = NoNames /\ pending = <<>>
      /\ block = <<>> /\ cur = NoBlock /\ functions = NoNames
      BY DEF Init
<1>3. IsSequence(<<>>) /\ DOMAIN <<>> = {}
  <2>1. <<>> \in Seq({}) /\ DOMAIN <<>> = {}
        OBVIOUS
  <2>2. IsSequence(<<>>)
        BY <2>1, FromSeq
  <2>3. QED  BY <2>1, <2>2
<1>4. DOMAIN frames = {1} /\ frames[1] = [at |-> "RUN", rest |-> program]
      BY <1>2
<1>5. Stack(frames) /\ Len(frames) = 1 /\ ~InFunction(frames)
      BY <1>1, <1>2 DEF NestInv, Balanced, InFunction
<1>6. Kept(frames, Blocks)
  <2>1. TopLevels(program)
        BY <1>2, ProgramsAssumption
  <2>2. QED  BY <1>4, <2>1 DEF Kept, FrameKept, Owned, LoopFrames
<1>7. JumpsKept
      BY <1>2, <1>3 DEF JumpsKept, JumpTargets, NoNames
<1>8. IsCode(block) /\ Blocks = {}
      BY <1>2, <1>3 DEF IsCode, Blocks
<1>9. BlockInv
      BY <1>1, <1>2, <1>5, <1>6, <1>7, <1>8 DEF BlockInv, NoNames
<1>10. AllOpen(Callers) /\ Frame.at # "SWITCH"
       BY <1>5, Outside DEF Callers, Frame
<1>11. OpenInv
       BY <1>5, <1>8, <1>10 DEF OpenInv, OpenBlocks
<1>12. QED  BY <1>9, <1>11

\* A block without a terminator is the insertion block of a function being
\* generated or one that a pending method still moves to, whatever early
\* returns gen_stmt takes.  TLC checks the two hypotheses on the code that
\* gen_node makes: the code of every expression the methods ask for settles,
\* and a case goes on in the block where the statement before ended.
THEOREM BlocksClosed ==
    Spec /\ []ExpressionsSettle /\ []CasesGoOn => []NoOpenBlockAbandoned
<1>1. Init => BlockInv /\ OpenInv
      BY BlockInit
<1>2. (BlockInv /\ OpenInv) /\ ExpressionsSettle /\ CasesGoOn /\ [Next]_vars
          => (BlockInv /\ OpenInv)'
      BY BlockStep DEF Preserved
<1>3. BlockInv /\ OpenInv => NoOpenBlockAbandoned
  <2>1. SUFFICES ASSUME BlockInv, OpenInv, NEW b \in Blocks, ~Terminated(block[b])
                 PROVE  \/ b = cur /\ Frame.at # "RUN"
                        \/ \E i \in DOMAIN frames : b \in Owned(frames[i])
        BY DEF NoOpenBlockAbandoned
  <2>2. b \in OpenBlocks
        BY <2>1 DEF OpenBlocks
  <2>3. InFunction(frames)
        BY <2>1, <2>2 DEF OpenInv
  <2>4. Frame.at # "RUN"
    <3>1. Stack(frames) /\ Len(frames) >= 2
          BY <2>1, <2>3 DEF BlockInv, NestInv, Balanced, InFunction
    <3>2. QED  BY <3>1, Running1 DEF Frame
  <2>5. QED  BY <2>1, <2>2, <2>3, <2>4 DEF OpenInv, Held
<1>4. QED  BY <1>1, <1>2, <1>3, PTL DEF Spec
-----------------------------------------------------------------------------
(* The types *)

\* A set of numbers has a smallest, and one with a bound a largest.
LEMMA Smallest ==
    ASSUME NEW S, S \subseteq Nat, S # {}
    PROVE  \E x \in S : \A y \in S : x =< y
<1> DEFINE R == OpToRel(<, Nat)
<1>1. IsWellFoundedOn(R, Nat)
      BY NatLessThanWellFounded, Zenon
<1>2. \A x, y \in Nat : <<x, y>> \in R <=> x < y
      BY DEF OpToRel
<1> HIDE DEF R
<1>3. PICK x \in S : \A y \in S : ~ (<<y, x>> \in R)
      BY <1>1, WFMin, Zenon
<1>4. ASSUME NEW y \in S
      PROVE  x =< y
  <2>1. x \in Nat /\ y \in Nat /\ ~(<<y, x>> \in R)
        BY <1>3
  <2>2. ~(y < x)
        BY <1>2, <2>1
  <2>3. QED  BY <2>1, <2>2
<1>5. QED  BY <1>4

\* A set of numbers with a bound has a largest.
LEMMA Largest ==
    ASSUME NEW m \in Nat, NEW S, S \subseteq 1 .. m, S # {}
    PROVE  Max(S) \in S
<1> DEFINE T == {m - i : i \in S}
<1>1. T \subseteq Nat
  <2>1. \A i \in 1 .. m : m - i \in Nat
        OBVIOUS
  <2>2. QED  BY <2>1
<1>2. T # {}
  <2>1. PICK i \in S : TRUE
        OBVIOUS
  <2>2. m - i \in T
        BY <2>1
  <2>3. QED  BY <2>2
<1>3. PICK t \in T : \A u \in T : t =< u
      BY <1>1, <1>2, Smallest
<1>4. PICK x \in S : t = m - x
      BY <1>3
<1>5. ASSUME NEW y \in S
      PROVE  x >= y
  <2>1. m - y \in T
        OBVIOUS
  <2>2. x \in 1 .. m /\ y \in 1 .. m /\ m - x =< m - y
        BY <1>3, <1>4, <2>1
  <2>3. QED  BY <2>2
<1>6. QED  BY <1>5 DEF Max

GlobalsTyped == \A x \in DOMAIN globals : globals[x].ty \in DOMAIN Bits
SlotsInv == IsSequence(slots) /\ SlotsInScope
TypesInv == /\ BlockInv
            /\ GlobalsTyped
            /\ SlotsInv
            /\ status \in {"running", "done", "overflow"}

\* A type dtype_to_llvm knows has a size, if it is not void.
LEMMA KnownType ==
    ASSUME NEW v, Typed(v)
    PROVE  dtype_to_llvm[v.dtype] \in DOMAIN Bits \cup {"void"}
BY BitsAssumption DEF Typed, dtype_to_llvm

\* The module's variables are declared with one.
LEMMA GlobalsStep ==
    ASSUME BlockInv, GlobalsTyped, [Next]_vars
    PROVE  GlobalsTyped'
<1>1. CASE GenGlobal \/ GenListedGlobal
  <2> DEFINE t == dtype_to_llvm[Statement.dtype]
  <2>1. globals' = WithGlobal(Statement, t) /\ Typed(Statement)
    <3>1. CASE GenGlobal
      <4>1. /\ Frame.at = "RUN" /\ Frame.rest # <<>> /\ Statement.type = "VARIABLE"
            /\ globals' = WithGlobal(Statement, t)
            BY <3>1 DEF GenGlobal, AtTop, Running, gen_global
      <4>2. QED  BY <4>1, AdvancedOutside DEF TopLevel
    <3>2. CASE GenListedGlobal
      <4>1. /\ Frame.at = "GLOBALS" /\ Frame.rest # <<>>
            /\ globals' = WithGlobal(Statement, t)
            BY <3>2 DEF GenListedGlobal, Running, gen_global
      <4>2. QED  BY <4>1, AdvancedOutside
    <3>3. QED  BY <1>1, <3>1, <3>2
  <2>2. t \in DOMAIN Bits \cup {"void"}
        BY <2>1, KnownType
  <2> HIDE DEF t
  <2>3. CASE t = "void" \/ Statement.name \in DOMAIN globals
        BY <2>1, <2>3 DEF WithGlobal, GlobalsTyped
  <2>4. CASE t # "void" /\ Statement.name \notin DOMAIN globals
        BY <2>1, <2>2, <2>4 DEF WithGlobal, With, GlobalsTyped
  <2>5. QED  BY <2>3, <2>4
<1>2. CASE globals' = globals
      BY <1>2 DEF GlobalsTyped
<1>3. GenGlobal \/ GenListedGlobal \/ globals' = globals
  <2>1. CASE \/ GenGlobalList \/ EndGlobalList \/ GenPrototype \/ GenFunc \/ EndFunc
             \/ EndRun \/ SkipStatement \/ GenNode \/ GenVarDecl \/ GenVarList
             \/ GenListed \/ EndVarList \/ GenNestedCase \/ GenNestedDefault
             \/ GenBlock \/ EndBody
        BY <2>1 DEF GenGlobalList, EndGlobalList, GenPrototype, GenFunc, EndFunc, EndRun,
                    SkipStatement, GenNode, GenVarDecl, gen_var_decl, GenVarList, GenListed,
                    EndVarList, GenNestedCase, GenNestedDefault, GenBlock, EndBody, context
  <2>2. CASE \/ GenReturn \/ GenBreak \/ GenContinue \/ GenLabel \/ GenGotoBack
             \/ GenGotoForward \/ GenIf \/ GenElseIf \/ GenElse \/ GenNoElse \/ EndIf
        BY <2>2 DEF GenReturn, GenBreak, GenContinue, Jump, GenLabel, GenGotoBack,
                    GenGotoForward, GenIf, GenElseIf, EnterIf, EnterOn, EnterThen, GenElse,
                    GenNoElse, EndIf, context
  <2>3. CASE \/ GenWhile \/ EndWhile \/ GenDoWhile \/ EndDoWhile \/ GenFor \/ EndFor
        BY <2>3 DEF GenWhile, EndWhile, GenDoWhile, EndDoWhile, GenFor, ForAfter,
                    EnterFor, EndFor, EnterLoop, LeaveLoop
  <2>4. CASE \/ GenSwitch \/ GenCase \/ GenDefault \/ SkipSwitchStatement
             \/ GenSwitchStatement \/ EndSwitchStatement \/ EndSwitch \/ Stopped
             \/ UNCHANGED vars
        BY <2>4 DEF GenSwitch, SwitchAfter, EnterSwitch, GenCase, GenDefault,
                    SkipSwitchStatement, GenSwitchStatement, EndSwitchStatement,
                    EndSwitch, LeaveLoop, Stopped, context, vars
  <2>5. QED  BY <2>1, <2>2, <2>3, <2>4 DEF Next
<1>4. QED  BY <1>1, <1>2, <1>3
\* A variable declared: a slot of its type, and its name in the last scope.
LEMMA SlotDeclared ==
    ASSUME SlotsInv, IsSequence(scopes), NEW x, NEW t,
           slots' = Append(slots, t), scopes' = Named(x, t)
    PROVE  SlotsInv'
<1> DEFINE e == [addr |-> Slot(Len(slots) + 1), elem |-> t]
           n == Len(scopes)
           top == With(scopes[n], x.name, e)
<1>1. /\ IsSequence(slots') /\ Len(slots) \in Nat
      /\ DOMAIN slots' = DOMAIN slots \cup {Len(slots) + 1}
      /\ \A i \in DOMAIN slots : slots'[i] = slots[i]
      /\ slots'[Len(slots) + 1] = t
      BY Appended DEF SlotsInv, IsSequence
<1>2. e.addr.num = Len(slots) + 1 /\ e.elem = t
      BY DEF Slot
<1> HIDE DEF e
<1>3. /\ DOMAIN scopes' = DOMAIN scopes
      /\ \A i \in DOMAIN scopes : i # n => scopes'[i] = scopes[i]
      /\ n \in DOMAIN scopes => scopes'[n] = top
      BY DEF Named, e
<1>4. ASSUME NEW i \in DOMAIN scopes', NEW y \in DOMAIN scopes'[i]
      PROVE  /\ scopes'[i][y].addr.num \in DOMAIN slots'
             /\ scopes'[i][y].elem = slots'[scopes'[i][y].addr.num]
  <2>1. \/ i \in DOMAIN scopes /\ y \in DOMAIN scopes[i] /\ scopes'[i][y] = scopes[i][y]
        \/ scopes'[i][y] = e
    <3>1. CASE i # n
          BY <1>3, <1>4, <3>1
    <3>2. CASE i = n
      <4>1. scopes'[i] = top /\ i \in DOMAIN scopes
            BY <1>3, <1>4, <3>2
      <4>2. /\ DOMAIN top = DOMAIN scopes[n] \cup {x.name}
            /\ \A z \in DOMAIN top : z # x.name => top[z] = scopes[n][z]
            /\ top[x.name] = e
            BY DEF With
      <4> HIDE DEF top
      <4>3. QED  BY <1>4, <3>2, <4>1, <4>2
    <3>3. QED  BY <3>1, <3>2
  <2>2. CASE scopes'[i][y] = e
        BY <1>1, <1>2, <2>2
  <2>3. CASE i \in DOMAIN scopes /\ y \in DOMAIN scopes[i] /\ scopes'[i][y] = scopes[i][y]
        BY <1>1, <2>3 DEF SlotsInv, SlotsInScope
  <2>4. QED  BY <2>1, <2>2, <2>3
<1>5. QED  BY <1>1, <1>4 DEF SlotsInv, SlotsInScope

\* A scope pushed, or popped.
LEMMA SlotsPushed ==
    ASSUME SlotsInv, IsSequence(scopes), PushScope, slots' = slots
    PROVE  SlotsInv'
<1>1. /\ DOMAIN scopes' = DOMAIN scopes \cup {Len(scopes) + 1}
      /\ \A i \in DOMAIN scopes : scopes'[i] = scopes[i]
      /\ scopes'[Len(scopes) + 1] = NoNames
      BY Appended DEF PushScope
<1>2. DOMAIN NoNames = {}
      BY DEF NoNames
<1>3. QED  BY <1>1, <1>2 DEF SlotsInv, SlotsInScope

\* A scope popped.
LEMMA SlotsPopped ==
    ASSUME SlotsInv, BlockInv, Frame.at \in {"FUNC", "BODY"},
           scopes' = Front(scopes), slots' = slots
    PROVE  SlotsInv'
<1>1. IsSequence(scopes) /\ scopes # <<>>
  <2>1. Balanced(frames, loops, scopes)
        BY DEF BlockInv, NestInv
  <2>2. Len(frames) >= 2
    <3>1. Stack(frames)
          BY <2>1 DEF Balanced
    <3>2. PICK n : n = Len(frames)
          OBVIOUS
    <3>3. n \in Nat /\ n # 1 /\ n >= 1
          BY <3>1, <3>2, Running1 DEF Frame, Stack
    <3>4. n >= 2
          BY <3>3
    <3>5. QED  BY <3>2, <3>4
  <2>3. QED  BY <2>1, <2>2, BalancedShortened DEF Balanced, Frame
<1>2. /\ DOMAIN scopes' = 1 .. Len(scopes) - 1 /\ DOMAIN scopes = 1 .. Len(scopes)
      /\ Len(scopes) \in Nat
      /\ \A i \in 1 .. Len(scopes) - 1 : scopes'[i] = scopes[i]
      BY <1>1, Shortened, Positions
<1>3. \A i \in DOMAIN scopes' : i \in DOMAIN scopes /\ scopes'[i] = scopes[i]
      BY <1>2
<1>4. QED  BY <1>3 DEF SlotsInv, SlotsInScope

\* A parameter has a slot of its own; of two with one name the last counts.
LEMMA SlotsOfParameters ==
    ASSUME BlockInv, GenFunc
    PROVE  SlotsInv'
<1> DEFINE n == Statement
           f == FunctionOf(n)
           m == Min({Len(f.params), Len(n.args)})
           names == {n.args[k].name : k \in 1 .. m}
           Last1(x) == Max({i \in 1 .. m : n.args[i].name = x})
           first == [x \in names |-> [addr |-> Slot(Last1(x)), elem |-> f.params[Last1(x)]]]
<1>1. /\ Frame.at = "RUN" /\ Frame.rest # <<>> /\ n.type = "FUNCTION"
      /\ slots' = [k \in 1 .. m |-> f.params[k]]
      /\ scopes' = <<first, NoNames>>
      BY DEF GenFunc, AtTop, Running
<1>2. IsSequence(n.args)
      BY <1>1, AdvancedOutside DEF TopLevel
<1>3. m \in Nat
  <2>1. IsSequence(f.params)
        BY <1>2, Parameters
  <2>2. Len(f.params) \in Nat /\ Len(n.args) \in Nat
        BY <1>2, <2>1 DEF IsSequence
  <2>3. QED  BY <2>2, MinOfTwo
<1> HIDE DEF m, f
<1>4. IsSequence(slots') /\ DOMAIN slots' = 1 .. m
  <2> DEFINE T == {f.params[k] : k \in 1 .. m}
  <2>1. slots' \in [1 .. m -> T]
        BY <1>1
  <2> HIDE DEF T
  <2>2. slots' \in Seq(T) /\ DOMAIN slots' = 1 .. m
        BY <1>3, <2>1, SeqDef
  <2>3. QED  BY <2>2, FromSeq
<1>5. ASSUME NEW x \in names
      PROVE  Last1(x) \in 1 .. m
  <2> DEFINE I == {i \in 1 .. m : n.args[i].name = x}
  <2>1. I \subseteq 1 .. m /\ I # {}
        OBVIOUS
  <2>2. Max(I) \in I
        BY <1>3, <2>1, Largest
  <2>3. QED  BY <2>1, <2>2
<1>6. ASSUME NEW x \in DOMAIN first
      PROVE  /\ first[x].addr.num \in DOMAIN slots'
             /\ first[x].elem = slots'[first[x].addr.num]
  <2>1. x \in names /\ Last1(x) \in 1 .. m
        BY <1>5
  <2>2. PICK k : k = Last1(x)
        OBVIOUS
  <2>3. first[x].addr.num = k /\ first[x].elem = f.params[k]
        BY <2>1, <2>2 DEF Slot
  <2> HIDE DEF first, Last1
  <2>4. QED  BY <1>1, <1>4, <2>1, <2>2, <2>3
<1> HIDE DEF first
<1>7. DOMAIN scopes' = {1, 2} /\ scopes'[1] = first /\ scopes'[2] = NoNames
      BY <1>1
<1>8. DOMAIN NoNames = {}
      BY DEF NoNames
<1>9. \A i \in DOMAIN scopes' : \A x \in DOMAIN scopes'[i] :
          /\ scopes'[i][x].addr.num \in DOMAIN slots'
          /\ scopes'[i][x].elem = slots'[scopes'[i][x].addr.num]
      BY <1>6, <1>7, <1>8
<1>10. QED  BY <1>4, <1>9 DEF SlotsInv, SlotsInScope

\* Every method keeps the scopes in step with the slots.
LEMMA SlotsStep ==
    ASSUME BlockInv, SlotsInv, [Next]_vars
    PROVE  SlotsInv'
<1>1. IsSequence(scopes)
      BY DEF BlockInv, NestInv, Balanced
<1>2. CASE GenFunc
      BY <1>2, SlotsOfParameters
<1>3. CASE EndFunc
  <2>1. Frame.at = "FUNC" /\ scopes' = Front(scopes) /\ slots' = slots
        BY <1>3 DEF EndFunc, Running
  <2>2. QED  BY <2>1, SlotsPopped
<1>4. CASE EndBody
  <2>1. Frame.at = "BODY" /\ scopes' = Front(scopes) /\ slots' = slots
        BY <1>4 DEF EndBody, Running
  <2>2. QED  BY <2>1, SlotsPopped
<1>5. CASE GenVarDecl \/ GenListed
  <2>1. gen_var_decl(Statement, dtype_to_llvm[Statement.dtype])
        BY <1>5 DEF GenVarDecl, GenListed
  <2>2. PICK t : gen_var_decl(Statement, t)
        BY <2>1
  <2>3. CASE t = "void"
        BY <2>2, <2>3 DEF gen_var_decl, tables, SlotsInv, SlotsInScope
  <2>4. CASE t # "void"
    <3>1. slots' = Append(slots, t) /\ scopes' = Named(Statement, t)
          BY <2>2, <2>4 DEF gen_var_decl
    <3>2. QED  BY <1>1, <3>1, SlotDeclared
  <2>5. QED  BY <2>3, <2>4
<1>6. CASE GenBlock \/ GenIf \/ GenElseIf \/ GenElse \/ GenWhile \/ GenDoWhile \/ GenFor
  <2>1. PushScope /\ slots' = slots
    <3>1. CASE GenBlock \/ GenIf \/ GenElseIf \/ GenElse
          BY <3>1 DEF GenBlock, GenIf, GenElseIf, EnterIf, EnterOn, EnterThen, GenElse
    <3>2. CASE GenWhile \/ GenDoWhile \/ GenFor
          BY <3>2 DEF GenWhile, GenDoWhile, GenFor, ForAfter, EnterFor, EnterLoop
    <3>3. QED  BY <1>6, <3>1, <3>2
  <2>2. QED  BY <1>1, <2>1, SlotsPushed
<1>7. CASE slots' = slots /\ scopes' = scopes
      BY <1>7 DEF SlotsInv, SlotsInScope
<1>8. CASE \/ GenGlobal \/ GenListedGlobal \/ GenGlobalList \/ EndGlobalList \/ GenPrototype
           \/ EndRun \/ SkipStatement \/ GenNode \/ GenVarList \/ EndVarList
           \/ GenNestedCase \/ GenNestedDefault
  <2>1. slots' = slots /\ scopes' = scopes
        BY <1>8 DEF GenGlobal, GenListedGlobal, gen_global, GenGlobalList, EndGlobalList,
                    GenPrototype, EndRun, SkipStatement, GenNode, GenVarList, EndVarList,
                    GenNestedCase, GenNestedDefault, context, tables
  <2>2. QED  BY <1>7, <2>1
<1>9. CASE \/ GenReturn \/ GenBreak \/ GenContinue \/ GenLabel \/ GenGotoBack
           \/ GenGotoForward \/ GenNoElse \/ EndIf \/ EndWhile \/ EndDoWhile \/ EndFor
  <2>1. slots' = slots /\ scopes' = scopes
        BY <1>9 DEF GenReturn, GenBreak, GenContinue, Jump, GenLabel, GenGotoBack,
                    GenGotoForward, GenNoElse, EndIf, EndWhile, EndDoWhile, EndFor,
                    LeaveLoop, context, tables
  <2>2. QED  BY <1>7, <2>1
<1>10. CASE \/ GenSwitch \/ GenCase \/ GenDefault \/ SkipSwitchStatement
            \/ GenSwitchStatement \/ EndSwitchStatement \/ EndSwitch \/ Stopped
            \/ UNCHANGED vars
  <2>1. slots' = slots /\ scopes' = scopes
        BY <1>10 DEF GenSwitch, SwitchAfter, EnterSwitch, GenCase, GenDefault,
                     SkipSwitchStatement, GenSwitchStatement, EndSwitchStatement,
                     EndSwitch, LeaveLoop, Stopped, context, tables, vars
  <2>2. QED  BY <1>7, <2>1
<1>11. QED  BY <1>2, <1>3, <1>4, <1>5, <1>6, <1>8, <1>9, <1>10 DEF Next

\* Every method leaves a status.
LEMMA StatusStep ==
    ASSUME status \in {"running", "done", "overflow"}, [Next]_vars
    PROVE  status' \in {"running", "done", "overflow"}
<1>1. CASE \/ EndRun \/ GenNestedDefault \/ Stopped \/ UNCHANGED vars
      BY <1>1 DEF EndRun, GenNestedDefault, Stopped, vars
<1>2. CASE \/ GenGlobal \/ GenListedGlobal \/ GenGlobalList \/ EndGlobalList \/ GenPrototype
           \/ GenFunc \/ EndFunc \/ SkipStatement \/ GenNode \/ GenVarDecl \/ GenVarList
           \/ GenListed \/ EndVarList \/ GenNestedCase \/ GenBlock \/ EndBody
      BY <1>2 DEF GenGlobal, GenListedGlobal, gen_global, GenGlobalList, EndGlobalList,
                  GenPrototype, GenFunc, EndFunc, SkipStatement, GenNode, GenVarDecl,
                  gen_var_decl, GenVarList, GenListed, EndVarList, GenNestedCase, GenBlock,
                  EndBody, context
<1>3. CASE \/ GenReturn \/ GenBreak \/ GenContinue \/ GenLabel \/ GenGotoBack
           \/ GenGotoForward \/ GenIf \/ GenElseIf \/ GenElse \/ GenNoElse \/ EndIf
      BY <1>3 DEF GenReturn, GenBreak, GenContinue, Jump, GenLabel, GenGotoBack,
                  GenGotoForward, GenIf, GenElseIf, EnterIf, EnterOn, EnterThen, GenElse,
                  GenNoElse, EndIf, context
<1>4. CASE \/ GenWhile \/ EndWhile \/ GenDoWhile \/ EndDoWhile \/ GenFor \/ EndFor
           \/ GenSwitch \/ GenCase \/ GenDefault \/ SkipSwitchStatement
           \/ GenSwitchStatement \/ EndSwitchStatement \/ EndSwitch
      BY <1>4 DEF GenWhile, EndWhile, GenDoWhile, EndDoWhile, GenFor, ForAfter, EnterFor,
                  EndFor, EnterLoop, LeaveLoop, GenSwitch, SwitchAfter, EnterSwitch, GenCase,
                  GenDefault, SkipSwitchStatement, GenSwitchStatement, EndSwitchStatement,
                  EndSwitch, context
<1>5. QED  BY <1>1, <1>2, <1>3, <1>4 DEF Next

\* The contexts, labels and pending gotos hold blocks of the function in hand
\* and the scopes its slots, each at the type it was made with, and no global
\* is of a type without a size: whatever the programs are, if the code of
\* every expression the methods ask for settles.
THEOREM Types == Spec /\ []ExpressionsSettle => []TypeOK
<1>1. Init => TypesInv
  <2>1. SUFFICES ASSUME Init PROVE TypesInv
        OBVIOUS
  <2>2. /\ BlockInv /\ globals = NoNames /\ slots = <<>> /\ scopes = <<>>
        /\ status = "running"
        BY <2>1, BlockInit DEF Init
  <2>3. IsSequence(<<>>) /\ DOMAIN <<>> = {}
    <3>1. <<>> \in Seq({}) /\ DOMAIN <<>> = {}
          OBVIOUS
    <3>2. IsSequence(<<>>)
          BY <3>1, FromSeq
    <3>3. QED  BY <3>1, <3>2
  <2>4. QED  BY <2>2, <2>3 DEF TypesInv, GlobalsTyped, SlotsInv, SlotsInScope, NoNames
<1>2. TypesInv /\ ExpressionsSettle /\ [Next]_vars => TypesInv'
      BY BlockStep, GlobalsStep, SlotsStep, StatusStep DEF TypesInv, Preserved
<1>3. TypesInv => TypeOK
      BY DEF TypesInv, GlobalsTyped, SlotsInv, BlockInv, JumpsKept, TypeOK
<1>4. QED  BY <1>1, <1>2, <1>3, PTL DEF Spec
=============================================================================
