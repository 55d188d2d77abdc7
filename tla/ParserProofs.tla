---------------------------- MODULE ParserProofs ----------------------------
(***************************************************************************)
(* Proofs about StmtParser, and the expression parser under it, for every  *)
(* text and whatever reorder_expression makes of a tree.                   *)
(***************************************************************************)
EXTENDS StmtParser, SequenceTheorems, TLAPS

-----------------------------------------------------------------------------
(* Sequences *)

\* A sequence is one over any set that has its elements.
LEMMA InSeq ==
    ASSUME NEW s, IsSequence(s), NEW S, \A i \in DOMAIN s : s[i] \in S
    PROVE  s \in Seq(S)
<1>1. s \in [1 .. Len(s) -> S] /\ Len(s) \in Nat
      BY DEF IsSequence
<1>2. QED  BY <1>1, SeqDef

\* A member of a set of sequences is one.
LEMMA FromSeq ==
    ASSUME NEW S, NEW s \in Seq(S)
    PROVE  IsSequence(s)
BY DEF IsSequence

\* Its positions.
LEMMA Positions ==
    ASSUME NEW s, IsSequence(s)
    PROVE  DOMAIN s = 1 .. Len(s) /\ Len(s) \in Nat /\ (s # <<>> => Len(s) >= 1)
<1> DEFINE S == {s[i] : i \in DOMAIN s}
<1>1. s \in Seq(S)
      BY InSeq
<1> HIDE DEF S
<1>2. QED  BY <1>1

\* Append adds one element at the end.
LEMMA Appended ==
    ASSUME NEW s, IsSequence(s), NEW e
    PROVE  /\ IsSequence(Append(s, e))
           /\ Append(s, e) # <<>>
           /\ Len(Append(s, e)) = Len(s) + 1
           /\ DOMAIN Append(s, e) = 1 .. Len(s) + 1
           /\ \A i \in 1 .. Len(s) : Append(s, e)[i] = s[i]
           /\ Append(s, e)[Len(s) + 1] = e
<1> DEFINE S == {s[i] : i \in DOMAIN s} \cup {e}
<1>1. s \in Seq(S) /\ e \in S
      BY InSeq
<1> HIDE DEF S
<1>2. Append(s, e) \in Seq(S)
      BY <1>1
<1>3. IsSequence(Append(s, e))
      BY <1>2, FromSeq
<1>4. QED  BY <1>1, <1>2, <1>3

\* Below takes the last one off.
LEMMA Shortened ==
    ASSUME NEW s, IsSequence(s), s # <<>>
    PROVE  /\ IsSequence(Below(s))
           /\ Len(Below(s)) = Len(s) - 1
           /\ DOMAIN Below(s) = 1 .. Len(s) - 1
           /\ \A i \in 1 .. Len(s) - 1 : Below(s)[i] = s[i]
<1> DEFINE S == {s[i] : i \in DOMAIN s}
<1>1. s \in Seq(S) /\ Len(s) >= 1
      BY InSeq, Positions
<1> HIDE DEF S
<1>2. Below(s) \in Seq(S) /\ Len(Below(s)) = Len(s) - 1
  <2>1. Len(s) - 1 \in Int /\ 1 \in Int /\ \A i \in 1 .. Len(s) - 1 : s[i] \in S
        BY <1>1
  <2>2. /\ SubSeq(s, 1, Len(s) - 1) \in Seq(S)
        /\ Len(SubSeq(s, 1, Len(s) - 1))
               = IF 1 <= Len(s) - 1 THEN Len(s) - 1 - 1 + 1 ELSE 0
        BY <2>1, SubSeqProperties
  <2>3. Len(s) \in Nat /\ Len(s) >= 1
        BY Positions
  <2>4. \A n \in Nat : n >= 1 => (IF 1 <= n - 1 THEN n - 1 - 1 + 1 ELSE 0) = n - 1
        OBVIOUS
  <2>5. Below(s) = SubSeq(s, 1, Len(s) - 1)
        BY DEF Below
  <2>6. QED  BY <2>2, <2>3, <2>4, <2>5
<1>3. \A i \in 1 .. Len(s) - 1 : Below(s)[i] = s[i]
      BY <1>1 DEF Below
<1>4. QED  BY <1>1, <1>2, <1>3, FromSeq

\* So does Front.
LEMMA FrontIsBelow ==
    ASSUME NEW s, IsSequence(s), s # <<>>
    PROVE  Front(s) = Below(s)
BY DEF Front, Below

\* One or two elements are added one after the other.
LEMMA Concatenated ==
    ASSUME NEW s, IsSequence(s), NEW e, NEW f
    PROVE  /\ s \o <<e>> = Append(s, e)
           /\ s \o <<e, f>> = Append(Append(s, e), f)
<1> DEFINE S == {s[i] : i \in DOMAIN s} \cup {e, f}
<1>1. s \in Seq(S) /\ e \in S /\ f \in S
      BY InSeq
<1> HIDE DEF S
<1>2. <<e, f>> \in Seq(S) /\ Append(Append(s, e), f) \in Seq(S)
      BY <1>1
<1>3. s \o <<e, f>> \in Seq(S) /\ Len(s \o <<e, f>>) = Len(s) + 2
      BY <1>1, <1>2
<1>4. s \o <<e, f>> = Append(Append(s, e), f)
      BY <1>1, <1>2, <1>3
<1>5. s \o <<e>> = Append(s, e)
      BY <1>1
<1>6. QED  BY <1>4, <1>5

\* Replacing an element, or none, keeps the others.
LEMMA Updated ==
    ASSUME NEW s, IsSequence(s), NEW k, NEW e, NEW t, t = [s EXCEPT ![k] = e]
    PROVE  /\ IsSequence(t) /\ Len(t) = Len(s) /\ DOMAIN t = DOMAIN s
           /\ \A i \in DOMAIN s : i # k => t[i] = s[i]
           /\ k \in DOMAIN s => t[k] = e
<1> DEFINE S == {s[i] : i \in DOMAIN s} \cup {e}
<1>1. DOMAIN t = 1 .. Len(s) /\ Len(s) \in Nat /\ DOMAIN s = 1 .. Len(s)
      BY Positions
<1>2. t \in [1 .. Len(s) -> S]
      BY <1>1
<1>3. t \in Seq(S)
      BY <1>1, <1>2, SeqDef
<1>4. Len(t) = Len(s)
      BY <1>1, <1>3
<1>5. QED  BY <1>1, <1>3, <1>4, FromSeq

-----------------------------------------------------------------------------
(* The invariant *)

\* The names of the frames; ExprParser's are the second set.
FrameNames == StatementFrames \cup
    {"ROOT", "LOOP", "NORMAL", "PAREN", "CAST", "BRACKET", "COMMA", "YES", "NO"}

\* What the steps that update a frame rely on: its fields.
Shaped(f) ==
    /\ f.at \in FrameNames
    /\ f.at \in {"BODY", "ITEM"} => f = [at |-> f.at, statements |-> f.statements]
    /\ f.at = "SWITCH" => f = [at |-> "SWITCH", cases |-> f.cases, saved |-> f.saved]
    /\ f.at = "SWITCH_BODY" =>
           f = [at |-> "SWITCH_BODY", exp |-> f.exp, cases |-> f.cases, saved |-> f.saved]
    /\ f.at \in {"PARAMETERS", "FUNCTION"} => f = [at |-> f.at, node |-> f.node, args |-> f.args]

\* Which method can be pending right above which: a method that takes a token
\* or a list itself calls none, and one that waits for an expression, a body or
\* an if has called what leaves that behind.
Calls(x, y) ==
    /\ x \notin {"KEYWORD", "BODY", "FOR", "PARAMETERS", "DECLARED"}
    /\ x \in AfterExpression => y = "ROOT"
    /\ x \in AfterBody => y \in {"BODY", "ITEM", "SINGLE"}
    /\ x = "ELSE_IF" => y \in {"KEYWORD", "IF", "THEN", "ELSE", "ELSE_IF"}

\* A call stack.
Stack(fs) ==
    /\ IsSequence(fs) /\ fs # <<>>
    /\ fs[1].at \in {"RUN", "ROOT"}
    /\ \A i \in DOMAIN fs : Shaped(fs[i])
    /\ \A i \in DOMAIN fs : i < Len(fs) => Calls(fs[i].at, fs[i + 1].at)

\* parse_keyword is at the "if" when parse_else_or_else_if has called it.
IfAfterElse(p, fs) ==
    fs[Len(fs)].at = "KEYWORD" /\ Len(fs) > 1 /\ fs[Len(fs) - 1].at = "ELSE_IF"
        => At(p) = "if"

\* The parser can go on at token p with these nodes, frames and case list.
Sound(p, ns, fs, sw) ==
    /\ Stack(fs)
    /\ OwnList(fs, sw)
    /\ Found(ns, fs[Len(fs)])
    /\ IfAfterElse(p, fs)

\* Whatever the parser has come to: its variables are what they are taken for.
Heights(t) == \A i \in DOMAIN t : t[i].height \in Nat
Stopped == {"ok", "error", "abort", "crash"}
Steady ==
    /\ IsSequence(toks) /\ pos \in 1 .. Len(toks) + 1
    /\ IsSequence(nodes)
    /\ IsSequence(tree) /\ Heights(tree)
    /\ status \in Stopped \cup {"running"}
    /\ Stack(frames)

\* The inductive invariant.
ParserInv == Steady /\ (status = "running" => Sound(pos, nodes, frames, switch))

-----------------------------------------------------------------------------
(* The call stack *)

\* A call stack whose case lists are in order.
Framed(fs, sw) == Stack(fs) /\ OwnList(fs, sw)

\* A method is called that is no parse_switch.
LEMMA Pushed ==
    ASSUME NEW fs, NEW sw, Framed(fs, sw), NEW f, Shaped(f), f.at \notin SwitchFrames,
           Calls(fs[Len(fs)].at, f.at)
    PROVE  /\ Framed(Append(fs, f), sw)
           /\ Len(Append(fs, f)) = Len(fs) + 1
           /\ Append(fs, f)[Len(fs) + 1] = f
           /\ Append(fs, f)[Len(fs)] = fs[Len(fs)]
<1> DEFINE gs == Append(fs, f)
           n == Len(fs)
<1>1. IsSequence(fs) /\ n \in Nat /\ n >= 1 /\ DOMAIN fs = 1 .. n
      BY Positions DEF Framed, Stack
<1>2. /\ IsSequence(gs) /\ gs # <<>> /\ Len(gs) = n + 1 /\ DOMAIN gs = 1 .. n + 1
      /\ \A i \in 1 .. n : gs[i] = fs[i]
      /\ gs[n + 1] = f
      BY <1>1, Appended
<1>3. Stack(gs)
  <2>1. gs[1].at \in {"RUN", "ROOT"}
        BY <1>1, <1>2 DEF Framed, Stack
  <2>2. ASSUME NEW i \in DOMAIN gs
        PROVE  Shaped(gs[i])
        BY <1>1, <1>2 DEF Framed, Stack
  <2>3. ASSUME NEW i \in DOMAIN gs, i < Len(gs)
        PROVE  Calls(gs[i].at, gs[i + 1].at)
    <3>1. CASE i = n
          BY <1>1, <1>2, <3>1
    <3>2. CASE i < n
      <4>1. gs[i] = fs[i] /\ gs[i + 1] = fs[i + 1] /\ i \in DOMAIN fs
            BY <1>1, <1>2, <3>2
      <4>2. QED  BY <3>2, <4>1 DEF Framed, Stack
    <3>3. QED  BY <1>1, <1>2, <2>3, <3>1, <3>2
  <2>4. QED  BY <1>2, <2>1, <2>2, <2>3 DEF Stack
<1>4. PendingSwitches(gs) = PendingSwitches(fs)
      BY <1>1, <1>2 DEF PendingSwitches
<1>5. OwnList(gs, sw)
  <2>1. \A i \in PendingSwitches(fs) : i \in 1 .. n /\ gs[i] = fs[i]
        BY <1>1, <1>2 DEF PendingSwitches
  <2>2. Innermost(fs, sw, n + 1)
        BY DEF Framed, OwnList
  <2>3. Innermost(gs, sw, Len(gs) + 1)
        BY <1>1, <1>2, <1>4, <2>1, <2>2 DEF Innermost
  <2>4. ASSUME NEW i \in PendingSwitches(gs)
        PROVE  Innermost(gs, gs[i].saved, i)
    <3>1. Innermost(fs, fs[i].saved, i) /\ gs[i] = fs[i]
          BY <1>4, <2>1 DEF Framed, OwnList
    <3>2. QED  BY <1>4, <3>1 DEF Innermost
  <2>5. QED  BY <2>3, <2>4 DEF OwnList
<1>6. QED  BY <1>1, <1>2, <1>3, <1>5 DEF Framed

\* A method that is no parse_switch returns to the one that called it.
LEMMA Popped ==
    ASSUME NEW fs, NEW sw, Framed(fs, sw), fs[Len(fs)].at \notin SwitchFrames, Len(fs) > 1
    PROVE  /\ Framed(Below(fs), sw)
           /\ Len(Below(fs)) = Len(fs) - 1
           /\ Below(fs)[Len(fs) - 1] = fs[Len(fs) - 1]
           /\ Calls(fs[Len(fs) - 1].at, fs[Len(fs)].at)
           /\ Shaped(fs[Len(fs)])
<1> DEFINE gs == Below(fs)
           n == Len(fs)
<1>1. IsSequence(fs) /\ n \in Nat /\ n > 1 /\ DOMAIN fs = 1 .. n /\ fs # <<>>
      BY Positions DEF Framed, Stack
<1>2. /\ IsSequence(gs) /\ Len(gs) = n - 1 /\ DOMAIN gs = 1 .. n - 1
      /\ \A i \in 1 .. n - 1 : gs[i] = fs[i]
      BY <1>1, Shortened
<1>3. Stack(gs)
  <2>1. gs # <<>> /\ gs[1].at \in {"RUN", "ROOT"}
        BY <1>1, <1>2 DEF Framed, Stack
  <2>2. ASSUME NEW i \in DOMAIN gs
        PROVE  Shaped(gs[i])
        BY <1>1, <1>2 DEF Framed, Stack
  <2>3. ASSUME NEW i \in DOMAIN gs, i < Len(gs)
        PROVE  Calls(gs[i].at, gs[i + 1].at)
    <3>1. gs[i] = fs[i] /\ gs[i + 1] = fs[i + 1] /\ i \in DOMAIN fs /\ i < n
          BY <1>1, <1>2, <2>3
    <3>2. QED  BY <3>1 DEF Framed, Stack
  <2>4. QED  BY <1>2, <2>1, <2>2, <2>3 DEF Stack
<1>4. PendingSwitches(gs) = PendingSwitches(fs)
      BY <1>1, <1>2 DEF PendingSwitches
<1>5. OwnList(gs, sw)
  <2>1. \A i \in PendingSwitches(fs) : i \in 1 .. n - 1 /\ gs[i] = fs[i]
    <3>1. \A i \in PendingSwitches(fs) : i \in 1 .. n /\ i # n
          BY <1>1 DEF PendingSwitches
    <3>2. QED  BY <1>1, <1>2, <3>1
  <2>2. Innermost(fs, sw, n + 1)
        BY DEF Framed, OwnList
  <2>3. sw \in PendingSwitches(fs) \cup {0}
        BY <2>2 DEF Innermost
  <2>4. Innermost(gs, sw, Len(gs) + 1)
        BY <1>1, <1>2, <1>4, <2>1, <2>2, <2>3 DEF Innermost
  <2>5. ASSUME NEW i \in PendingSwitches(gs)
        PROVE  Innermost(gs, gs[i].saved, i)
    <3>1. Innermost(fs, fs[i].saved, i) /\ gs[i] = fs[i]
          BY <1>4, <2>1 DEF Framed, OwnList
    <3>2. QED  BY <1>4, <3>1 DEF Innermost
  <2>6. QED  BY <2>4, <2>5 DEF OwnList
<1>6. Calls(fs[n - 1].at, fs[n].at) /\ Shaped(fs[n])
  <2>1. n - 1 \in DOMAIN fs /\ n \in DOMAIN fs /\ n - 1 < n /\ (n - 1) + 1 = n
        BY <1>1
  <2>2. QED  BY <2>1 DEF Framed, Stack
<1>7. gs[n - 1] = fs[n - 1]
      BY <1>1, <1>2
<1>8. QED  BY <1>2, <1>3, <1>5, <1>6, <1>7 DEF Framed

\* parse_switch is called: the case list is its own, and it keeps the one before.
LEMMA SwitchPushed ==
    ASSUME NEW fs, NEW sw, Framed(fs, sw), NEW f, Shaped(f), f.at \in SwitchFrames,
           f.saved = sw, Calls(fs[Len(fs)].at, f.at)
    PROVE  /\ Framed(Append(fs, f), Len(fs) + 1)
           /\ Len(Append(fs, f)) = Len(fs) + 1
           /\ Append(fs, f)[Len(fs) + 1] = f
           /\ Append(fs, f)[Len(fs)] = fs[Len(fs)]
<1> DEFINE gs == Append(fs, f)
           n == Len(fs)
<1>1. IsSequence(fs) /\ n \in Nat /\ n >= 1 /\ DOMAIN fs = 1 .. n
      BY Positions DEF Framed, Stack
<1>2. /\ IsSequence(gs) /\ gs # <<>> /\ Len(gs) = n + 1 /\ DOMAIN gs = 1 .. n + 1
      /\ \A i \in 1 .. n : gs[i] = fs[i]
      /\ gs[n + 1] = f
      BY <1>1, Appended
<1>3. Stack(gs)
  <2>1. gs[1].at \in {"RUN", "ROOT"}
        BY <1>1, <1>2 DEF Framed, Stack
  <2>2. ASSUME NEW i \in DOMAIN gs
        PROVE  Shaped(gs[i])
        BY <1>1, <1>2 DEF Framed, Stack
  <2>3. ASSUME NEW i \in DOMAIN gs, i < Len(gs)
        PROVE  Calls(gs[i].at, gs[i + 1].at)
    <3>1. CASE i = n
          BY <1>1, <1>2, <3>1
    <3>2. CASE i < n
      <4>1. gs[i] = fs[i] /\ gs[i + 1] = fs[i + 1] /\ i \in DOMAIN fs
            BY <1>1, <1>2, <3>2
      <4>2. QED  BY <3>2, <4>1 DEF Framed, Stack
    <3>3. QED  BY <1>1, <1>2, <2>3, <3>1, <3>2
  <2>4. QED  BY <1>2, <2>1, <2>2, <2>3 DEF Stack
<1>4. PendingSwitches(gs) = PendingSwitches(fs) \cup {n + 1}
      BY <1>1, <1>2 DEF PendingSwitches
<1>5. OwnList(gs, n + 1)
  <2>1. \A i \in PendingSwitches(fs) : i \in 1 .. n /\ gs[i] = fs[i]
        BY <1>1, <1>2 DEF PendingSwitches
  <2>2. Innermost(fs, sw, n + 1)
        BY DEF Framed, OwnList
  <2>3. Innermost(gs, n + 1, Len(gs) + 1)
        BY <1>1, <1>2, <1>4, <2>1 DEF Innermost
  <2>4. ASSUME NEW i \in PendingSwitches(gs)
        PROVE  Innermost(gs, gs[i].saved, i)
    <3>1. CASE i = n + 1
          BY <1>1, <1>2, <1>4, <2>2, <3>1 DEF Innermost
    <3>2. CASE i \in PendingSwitches(fs)
      <4>1. Innermost(fs, fs[i].saved, i) /\ gs[i] = fs[i] /\ i \in 1 .. n
            BY <2>1, <3>2 DEF Framed, OwnList
      <4>2. QED  BY <1>1, <1>4, <4>1 DEF Innermost
    <3>3. QED  BY <1>4, <3>1, <3>2
  <2>5. QED  BY <2>3, <2>4 DEF OwnList
<1>6. QED  BY <1>1, <1>2, <1>3, <1>5 DEF Framed

\* parse_switch returns, or goes on in a frame of its own: the case list is its
\* own, and without it the one it kept is the innermost.
LEMMA SwitchPopped ==
    ASSUME NEW fs, NEW sw, Framed(fs, sw), fs[Len(fs)].at \in SwitchFrames, Len(fs) > 1
    PROVE  /\ sw = Len(fs)
           /\ Framed(Below(fs), fs[Len(fs)].saved)
           /\ Len(Below(fs)) = Len(fs) - 1
           /\ Below(fs)[Len(fs) - 1] = fs[Len(fs) - 1]
           /\ Calls(fs[Len(fs) - 1].at, fs[Len(fs)].at)
           /\ Shaped(fs[Len(fs)])
<1> DEFINE gs == Below(fs)
           n == Len(fs)
           kept == fs[n].saved
<1>1. IsSequence(fs) /\ n \in Nat /\ n > 1 /\ DOMAIN fs = 1 .. n /\ fs # <<>>
      BY Positions DEF Framed, Stack
<1>2. /\ IsSequence(gs) /\ Len(gs) = n - 1 /\ DOMAIN gs = 1 .. n - 1
      /\ \A i \in 1 .. n - 1 : gs[i] = fs[i]
      BY <1>1, Shortened
<1>3. Stack(gs)
  <2>1. gs # <<>> /\ gs[1].at \in {"RUN", "ROOT"}
        BY <1>1, <1>2 DEF Framed, Stack
  <2>2. ASSUME NEW i \in DOMAIN gs
        PROVE  Shaped(gs[i])
        BY <1>1, <1>2 DEF Framed, Stack
  <2>3. ASSUME NEW i \in DOMAIN gs, i < Len(gs)
        PROVE  Calls(gs[i].at, gs[i + 1].at)
    <3>1. gs[i] = fs[i] /\ gs[i + 1] = fs[i + 1] /\ i \in DOMAIN fs /\ i < n
          BY <1>1, <1>2, <2>3
    <3>2. QED  BY <3>1 DEF Framed, Stack
  <2>4. QED  BY <1>2, <2>1, <2>2, <2>3 DEF Stack
<1>4. n \in PendingSwitches(fs) /\ PendingSwitches(gs) = PendingSwitches(fs) \ {n}
      BY <1>1, <1>2 DEF PendingSwitches
<1>5. \A i \in PendingSwitches(fs) : i \in 1 .. n
      BY <1>1 DEF PendingSwitches
<1>6. sw = n
  <2>1. Innermost(fs, sw, n + 1)
        BY DEF Framed, OwnList
  <2>2. QED  BY <1>1, <1>4, <1>5, <2>1 DEF Innermost
<1>7. OwnList(gs, kept)
  <2>1. Innermost(fs, kept, n)
        BY <1>4 DEF Framed, OwnList
  <2>2. kept \in PendingSwitches(fs) \cup {0} /\ kept < n
        BY <2>1 DEF Innermost
  <2>3. Innermost(gs, kept, Len(gs) + 1)
        BY <1>1, <1>2, <1>4, <1>5, <2>1, <2>2 DEF Innermost
  <2>4. ASSUME NEW i \in PendingSwitches(gs)
        PROVE  Innermost(gs, gs[i].saved, i)
    <3>1. /\ i \in PendingSwitches(fs) /\ i \in 1 .. n - 1 /\ gs[i] = fs[i]
          /\ Innermost(fs, fs[i].saved, i)
          BY <1>1, <1>2, <1>4, <1>5 DEF Framed, OwnList
    <3>2. fs[i].saved \in PendingSwitches(gs) \cup {0}
      <4>1. fs[i].saved \in PendingSwitches(fs) \cup {0} /\ fs[i].saved < i
            BY <3>1 DEF Innermost
      <4> DEFINE k == fs[i].saved
      <4>2. k \in PendingSwitches(fs) \cup {0} /\ k < i /\ i \in 1 .. n - 1 /\ n \in Nat
            BY <1>1, <3>1, <4>1
      <4> HIDE DEF k
      <4>3. k # n
            BY <1>5, <4>2
      <4>4. k \in PendingSwitches(gs) \cup {0}
            BY <1>4, <4>2, <4>3
      <4>5. QED  BY <4>4 DEF k
    <3>3. QED  BY <1>4, <3>1, <3>2 DEF Innermost
  <2>5. QED  BY <2>3, <2>4 DEF OwnList
<1>8. Calls(fs[n - 1].at, fs[n].at) /\ Shaped(fs[n])
  <2>1. n - 1 \in DOMAIN fs /\ n \in DOMAIN fs /\ n - 1 < n /\ (n - 1) + 1 = n
        BY <1>1
  <2>2. QED  BY <2>1 DEF Framed, Stack
<1>9. gs[n - 1] = fs[n - 1]
      BY <1>1, <1>2
<1>10. QED  BY <1>2, <1>3, <1>6, <1>7, <1>8, <1>9 DEF Framed

\* Three elements, too.
LEMMA ConcatenatedThree ==
    ASSUME NEW s, IsSequence(s), NEW e, NEW f, NEW g
    PROVE  s \o (<<e>> \o <<f, g>>) = Append(Append(Append(s, e), f), g)
<1> DEFINE S == {s[i] : i \in DOMAIN s} \cup {e, f, g}
<1>1. s \in Seq(S) /\ e \in S /\ f \in S /\ g \in S
      BY InSeq
<1> HIDE DEF S
<1>2. <<e>> \in Seq(S) /\ <<f, g>> \in Seq(S) /\ Append(s, e) \in Seq(S)
      BY <1>1
<1>3. s \o (<<e>> \o <<f, g>>) = (s \o <<e>>) \o <<f, g>>
      BY <1>1, <1>2, ConcatAssociative
<1>4. s \o <<e>> = Append(s, e) /\ IsSequence(Append(s, e))
      BY Appended, Concatenated
<1>5. QED  BY <1>3, <1>4, Concatenated

\* What the method named y leaves on the nodes ns when it returns.
Delivered(ns, y) ==
    LET top == ns[Len(ns)] IN
    /\ y \in {"ROOT", "BODY", "ITEM", "SINGLE", "IF", "THEN", "ELSE", "ELSE_IF"} => ns # <<>>
    /\ y \in {"BODY", "ITEM", "SINGLE"} => top.type = "BODY" /\ top = Body(top.statements)
    /\ y \in {"IF", "THEN", "ELSE", "ELSE_IF"} => top.type = "IF"

\* A method whose call of y returns finds what it waits for; parse_keyword leaves
\* an IF only at an "if".
LEMMA BackIn ==
    ASSUME NEW p, NEW ns, NEW fs, NEW sw, NEW y, Framed(fs, sw),
           Calls(fs[Len(fs)].at, y), Delivered(ns, y),
           y = "KEYWORD" => fs[Len(fs)].at # "ELSE_IF"
    PROVE  Sound(p, ns, fs, sw)
<1> DEFINE x == fs[Len(fs)]
<1>1. x.at \notin {"KEYWORD", "PARAMETERS"}
      BY DEF Calls
<1>2. /\ x.at \in AfterExpression => y = "ROOT"
      /\ x.at \in AfterBody => y \in {"BODY", "ITEM", "SINGLE"}
      /\ x.at = "ELSE_IF" => y \in {"IF", "THEN", "ELSE", "ELSE_IF"}
      BY DEF Calls
<1>3. Found(ns, x)
      BY <1>1, <1>2 DEF Found, Delivered
<1>4. IfAfterElse(p, fs)
      BY <1>1 DEF IfAfterElse
<1>5. QED  BY <1>3, <1>4 DEF Sound, Framed

\* The method called last has nothing to find yet, or finds it.
LEMMA Called ==
    ASSUME NEW p, NEW ns, NEW fs, NEW sw, Framed(fs, sw), NEW f, Shaped(f),
           f.at \notin SwitchFrames, Calls(fs[Len(fs)].at, f.at), Found(ns, f),
           f.at = "KEYWORD" /\ fs[Len(fs)].at = "ELSE_IF" => At(p) = "if"
    PROVE  Sound(p, ns, Append(fs, f), sw)
<1>1. /\ Framed(Append(fs, f), sw)
      /\ Len(Append(fs, f)) = Len(fs) + 1 /\ Append(fs, f)[Len(fs) + 1] = f
      /\ Append(fs, f)[Len(fs)] = fs[Len(fs)]
      BY Pushed
<1>2. Len(fs) \in Nat /\ Len(fs) + 1 - 1 = Len(fs)
      BY Positions DEF Framed, Stack
<1> DEFINE gs == Append(fs, f)
<1>3. gs[Len(gs)] = f /\ gs[Len(gs) - 1] = fs[Len(fs)]
  <2>1. gs[Len(fs) + 1] = f /\ gs[Len(fs)] = fs[Len(fs)] /\ Len(gs) = Len(fs) + 1
        BY <1>1
  <2> HIDE DEF gs
  <2>2. QED  BY <1>2, <2>1
<1>4. Framed(gs, sw)
      BY <1>1
<1> HIDE DEF gs
<1>5. IfAfterElse(p, gs)
      BY <1>3 DEF IfAfterElse
<1>6. Sound(p, ns, gs, sw)
      BY <1>3, <1>4, <1>5 DEF Sound, Framed
<1>7. QED  BY <1>6 DEF gs

\* The frames whose fields no step relies on.
Plain(f) == /\ f.at \in FrameNames
            /\ f.at \notin SwitchFrames \cup {"BODY", "ITEM", "PARAMETERS", "FUNCTION"}

\* They have the shape of a frame, and are not parse_switch's.
LEMMA PlainFrame ==
    ASSUME NEW f, Plain(f)
    PROVE  Shaped(f) /\ f.at \notin SwitchFrames
BY DEF Plain, Shaped, SwitchFrames

\* Most methods look at no node when they go on.
LEMMA NothingToFind ==
    ASSUME NEW ns, NEW f, f.at \notin AfterExpression \cup AfterBody \cup {"ELSE_IF", "PARAMETERS"}
    PROVE  Found(ns, f)
BY DEF Found

\* A method calls parse_expressionable.
LEMMA LoopCalled ==
    ASSUME NEW p, NEW ns, NEW fs, NEW sw, Framed(fs, sw), Calls(fs[Len(fs)].at, "LOOP")
    PROVE  Sound(p, ns, Append(fs, [at |-> "LOOP"]), sw)
<1> DEFINE f == [at |-> "LOOP"]
<1>1. Plain(f) /\ f.at = "LOOP"
      BY DEF Plain, FrameNames, SwitchFrames
<1>2. Shaped(f) /\ f.at \notin SwitchFrames
      BY <1>1, PlainFrame
<1>3. Found(ns, f)
      BY <1>1, NothingToFind DEF AfterExpression, AfterBody
<1> HIDE DEF f
<1>4. Sound(p, ns, Append(fs, f), sw)
      BY <1>1, <1>2, <1>3, Called
<1>5. QED  BY <1>4 DEF f

\* ... through a method of the expression parser that waits for it, ...
LEMMA OperandCalled ==
    ASSUME NEW p, NEW ns, NEW fs, NEW sw, Framed(fs, sw), NEW f,
           f.at \in {"NORMAL", "PAREN", "CAST", "BRACKET", "COMMA", "YES", "NO", "TOP", "ROOT"},
           Calls(fs[Len(fs)].at, f.at)
    PROVE  Sound(p, ns, fs \o <<f, [at |-> "LOOP"]>>, sw)
<1>1. Plain(f)
      BY DEF Plain, FrameNames, SwitchFrames, StatementFrames
<1>2. Framed(Append(fs, f), sw) /\ Append(fs, f)[Len(Append(fs, f))] = f
      BY <1>1, PlainFrame, Pushed
<1>3. Calls(f.at, "LOOP")
      BY DEF Calls, AfterExpression, AfterBody
<1>4. Sound(p, ns, Append(Append(fs, f), [at |-> "LOOP"]), sw)
      BY <1>2, <1>3, LoopCalled
<1>5. IsSequence(fs)
      BY DEF Framed, Stack
<1> DEFINE g == [at |-> "LOOP"]
<1>6. fs \o <<f, g>> = Append(Append(fs, f), g)
  <2> HIDE DEF g
  <2>1. QED  BY <1>5, Concatenated
<1>7. QED  BY <1>4, <1>6

\* ... and through parse_expressionable_root.
LEMMA RootCalled ==
    ASSUME NEW p, NEW ns, NEW fs, NEW sw, Framed(fs, sw), Calls(fs[Len(fs)].at, "ROOT")
    PROVE  Sound(p, ns, fs \o Root, sw)
<1> DEFINE f == [at |-> "ROOT"]
<1>1. f.at = "ROOT"
      OBVIOUS
<1>2. Root = <<f, [at |-> "LOOP"]>>
      BY DEF Root
<1> HIDE DEF f
<1>3. Sound(p, ns, fs \o <<f, [at |-> "LOOP"]>>, sw)
      BY <1>1, OperandCalled
<1>4. QED  BY <1>2, <1>3

-----------------------------------------------------------------------------
(* One step *)

\* A step from a running parser that leaves the tokens, and a tree of nodes.
Step == /\ ParserInv /\ status = "running"
        /\ toks' = toks
        /\ IsSequence(tree') /\ Heights(tree')

\* node_pop takes at most the last node off the tree.
LEMMA TreeKept ==
    ASSUME IsSequence(tree), Heights(tree), tree' = tree \/ (tree # <<>> /\ tree' = Front(tree))
    PROVE  IsSequence(tree') /\ Heights(tree')
<1>1. CASE tree' = tree
      BY <1>1 DEF Heights
<1>2. CASE tree # <<>> /\ tree' = Front(tree)
  <2>1. /\ IsSequence(tree') /\ DOMAIN tree' = 1 .. Len(tree) - 1
        /\ \A i \in 1 .. Len(tree) - 1 : tree'[i] = tree[i]
        BY <1>2, FrontIsBelow, Shortened
  <2>2. DOMAIN tree = 1 .. Len(tree) /\ Len(tree) \in Nat
        BY Positions
  <2>3. QED  BY <2>1, <2>2 DEF Heights
<1>3. QED  BY <1>1, <1>2

\* What every method may rely on.
LEMMA Running ==
    ASSUME Step
    PROVE  /\ IsSequence(nodes) /\ Len(toks) \in Nat /\ pos \in 1 .. Len(toks) + 1
           /\ Framed(frames, switch) /\ Found(nodes, Frame) /\ IfAfterElse(pos, frames)
           /\ IsSequence(frames) /\ Len(frames) \in Nat /\ Frame = frames[Len(frames)]
           /\ Shaped(Frame)
           /\ Frame.at \notin {"RUN", "ROOT"} => Len(frames) > 1
<1>1. /\ IsSequence(nodes) /\ IsSequence(toks) /\ pos \in 1 .. Len(toks) + 1
      /\ Framed(frames, switch) /\ Found(nodes, Frame) /\ IfAfterElse(pos, frames)
      BY DEF Step, ParserInv, Steady, Sound, Framed, Frame
<1>2. Stack(frames)
      BY <1>1 DEF Framed
<1>3. IsSequence(frames) /\ DOMAIN frames = 1 .. Len(frames) /\ Len(frames) \in Nat /\ Len(frames) >= 1
      BY <1>2, Positions DEF Stack
<1>4. frames[1].at \in {"RUN", "ROOT"} /\ Shaped(frames[Len(frames)])
      BY <1>2, <1>3 DEF Stack
<1>5. QED  BY <1>1, <1>3, <1>4, Positions DEF Frame

\* There is a position behind every token.
LEMMA Behind ==
    ASSUME Step, NEW p \in 1 .. Len(toks) + 1, At(p) # End
    PROVE  p + 1 \in 1 .. Len(toks) + 1
<1>1. DOMAIN toks = 1 .. Len(toks) /\ Len(toks) \in Nat
      BY Positions DEF Step, ParserInv, Steady
<1>2. QED  BY <1>1 DEF At

\* The parser goes on, ...
LEMMA GoesOn ==
    ASSUME Step, IsSequence(nodes'), pos' \in 1 .. Len(toks) + 1, status' = status,
           Sound(pos', nodes', frames', switch')
    PROVE  ParserInv'
<1>1. Sound(pos, nodes, frames, switch)'
      BY DEF Step, Sound, IfAfterElse, At, Stack, Shaped, OwnList, Innermost,
             PendingSwitches, Found
<1>2. Stack(frames)'
      BY DEF Sound, Stack, Shaped
<1>3. Steady'
      BY <1>2 DEF Step, ParserInv, Steady, Heights
<1>4. QED  BY <1>1, <1>3 DEF ParserInv

\* ... or stops where it is.
LEMMA Stops ==
    ASSUME Step, IsSequence(nodes'), pos' \in 1 .. Len(toks) + 1, status' \in Stopped,
           Stack(frames')
    PROVE  ParserInv'
<1>1. Stack(frames)'
      BY DEF Stack, Shaped
<1>2. Steady'
      BY <1>1 DEF Step, ParserInv, Steady, Heights
<1>3. QED  BY <1>2 DEF ParserInv, Stopped

\* ... in the frame it is in.
LEMMA HaltsHere ==
    ASSUME Step, IsSequence(nodes'), NEW how \in Stopped, Halt(how)
    PROVE  ParserInv'
BY Stops, Running DEF Halt, Framed

\* A method returns.
LEMMA Returns ==
    ASSUME Step, switch' = switch, Len(frames) > 1, Frame.at \notin SwitchFrames,
           NEW p \in 1 .. Len(toks) + 1, Go(p, Below(frames)), IsSequence(nodes'),
           Delivered(nodes', Frame.at), Frame.at = "KEYWORD" => Tok # "if"
    PROVE  ParserInv'
<1> DEFINE fs == Below(frames)
<1>1. Framed(frames, switch) /\ IfAfterElse(pos, frames) /\ Frame = frames[Len(frames)]
      BY Running
<1>2. /\ Framed(fs, switch)
      /\ Len(fs) = Len(frames) - 1
      /\ fs[Len(frames) - 1] = frames[Len(frames) - 1]
      /\ Calls(frames[Len(frames) - 1].at, Frame.at)
      BY <1>1, Popped
<1>3. Calls(fs[Len(fs)].at, Frame.at) /\ fs[Len(fs)] = frames[Len(frames) - 1]
      BY <1>2
<1>4. Frame.at = "KEYWORD" => fs[Len(fs)].at # "ELSE_IF"
      BY <1>1, <1>3 DEF IfAfterElse, Tok
<1>5. Sound(p, nodes', fs, switch)
  <2> HIDE DEF fs
  <2>1. QED  BY <1>2, <1>3, <1>4, BackIn
<1>6. QED  BY <1>5, GoesOn DEF Go

\* A method goes on in another frame.
LEMMA Turned ==
    ASSUME Step, Len(frames) > 1, Frame.at \notin SwitchFrames \cup {"ROOT"},
           NEW f, Shaped(f), f.at \notin SwitchFrames,
           Frame.at \in {"BODY", "ITEM", "SINGLE"} => f.at \in {"BODY", "ITEM", "SINGLE"},
           Frame.at \in {"IF", "THEN", "ELSE", "ELSE_IF"} => f.at \in {"THEN", "ELSE", "ELSE_IF"},
           Frame.at = "KEYWORD" => Tok # "if" \/ f.at = "IF"
    PROVE  LET fs == Append(Below(frames), f)
           IN  Framed(fs, switch) /\ fs[Len(fs)] = f
<1> DEFINE gs == Below(frames)
           x == gs[Len(gs)].at
<1>1. Framed(frames, switch) /\ IfAfterElse(pos, frames) /\ Frame = frames[Len(frames)]
      BY Running
<1>2. /\ Framed(gs, switch)
      /\ Len(gs) = Len(frames) - 1
      /\ gs[Len(frames) - 1] = frames[Len(frames) - 1]
      /\ Calls(frames[Len(frames) - 1].at, Frame.at)
      BY <1>1, Popped
<1>3. Calls(x, Frame.at) /\ gs[Len(gs)] = frames[Len(frames) - 1]
      BY <1>2
<1>4. Frame.at = "KEYWORD" /\ x = "ELSE_IF" => Tok = "if"
      BY <1>1, <1>3 DEF IfAfterElse, Tok
<1>5. Calls(x, f.at)
  <2> HIDE DEF x
  <2>1. QED  BY <1>3, <1>4 DEF Calls
<1>6. QED
  <2> HIDE DEF gs
  <2>1. /\ Framed(Append(gs, f), switch) /\ Len(Append(gs, f)) = Len(gs) + 1
        /\ Append(gs, f)[Len(gs) + 1] = f
        BY <1>2, <1>5, Pushed
  <2>2. QED  BY <2>1 DEF gs

\* A method goes on, or another that it calls, with an expression.
LEMMA Waits ==
    ASSUME Step, NEW fs, Framed(fs, switch'), Calls(fs[Len(fs)].at, "ROOT"),
           NEW p \in 1 .. Len(toks) + 1, Go(p, fs \o Root), IsSequence(nodes')
    PROVE  ParserInv'
<1>1. Sound(p, nodes', fs \o Root, switch')
      BY RootCalled
<1>2. QED  BY <1>1, GoesOn DEF Go

\* parse_statement is called.
LEMMA StatementEntered ==
    ASSUME Step, NEW fs, Framed(fs, switch'), fs[Len(fs)].at \in {"ITEM", "SINGLE"},
           NEW p \in 1 .. Len(toks) + 1, EnterStatement(p, fs), IsSequence(nodes')
    PROVE  ParserInv'
<1>1. CASE At(p) = End
      BY <1>1, HaltsHere DEF EnterStatement, Stopped
<1>2. CASE At(p) # End /\ At(p) \in Keywords
  <2> DEFINE f == [at |-> "KEYWORD"]
  <2>1. Plain(f) /\ f.at = "KEYWORD"
        BY DEF Plain, FrameNames, StatementFrames, SwitchFrames
  <2>2. Go(p, fs \o <<f>>)
        BY <1>2 DEF EnterStatement
  <2> HIDE DEF f
  <2>3. Found(nodes', f) /\ Shaped(f) /\ f.at \notin SwitchFrames
        BY <2>1, PlainFrame, NothingToFind DEF AfterExpression, AfterBody
  <2>4. Calls(fs[Len(fs)].at, f.at)
        BY <2>1 DEF Calls, AfterExpression, AfterBody
  <2>5. Sound(p, nodes', Append(fs, f), switch')
        BY <2>1, <2>3, <2>4, Called
  <2>6. fs \o <<f>> = Append(fs, f)
        BY Concatenated DEF Framed, Stack
  <2>7. QED  BY <2>2, <2>5, <2>6, GoesOn DEF Go
<1>3. CASE At(p) # End /\ At(p) \notin Keywords
  <2> DEFINE f == [at |-> "STATEMENT"]
             r == [at |-> "ROOT"]
             l == [at |-> "LOOP"]
  <2>1. Plain(f) /\ f.at = "STATEMENT"
        BY DEF Plain, FrameNames, StatementFrames, SwitchFrames
  <2>2. Go(p, fs \o (<<f>> \o <<r, l>>)) /\ Root = <<r, l>>
        BY <1>3 DEF EnterStatement, Root
  <2> HIDE DEF f, r, l
  <2>3. Shaped(f) /\ f.at \notin SwitchFrames
        BY <2>1, PlainFrame
  <2>4. Calls(fs[Len(fs)].at, f.at) /\ Calls(f.at, "ROOT")
        BY <2>1 DEF Calls, AfterExpression, AfterBody
  <2>5. Framed(Append(fs, f), switch') /\ Append(fs, f)[Len(Append(fs, f))] = f
        BY <2>3, <2>4, Pushed
  <2>6. IsSequence(fs) /\ IsSequence(Append(fs, f))
        BY <2>5 DEF Framed, Stack
  <2>7. fs \o (<<f>> \o <<r, l>>) = Append(fs, f) \o Root
        BY <2>2, <2>6, Concatenated, ConcatenatedThree
  <2>8. QED  BY <2>2, <2>4, <2>5, <2>7, Waits
<1>4. QED  BY <1>1, <1>2, <1>3

\* parse_body is called.
LEMMA BodyEntered ==
    ASSUME Step, NEW fs, Framed(fs, switch'),
           Calls(fs[Len(fs)].at, "BODY"), Calls(fs[Len(fs)].at, "SINGLE"),
           NEW p \in 1 .. Len(toks) + 1, EnterBody(p, fs), IsSequence(nodes')
    PROVE  ParserInv'
<1>1. CASE At(p) = "{"
  <2> DEFINE f == [at |-> "BODY", statements |-> <<>>]
  <2>1. Shaped(f) /\ f.at = "BODY"
        BY DEF Shaped, FrameNames, StatementFrames
  <2>2. Go(p + 1, Append(fs, f))
        BY <1>1 DEF EnterBody
  <2> HIDE DEF f
  <2>3. Sound(p + 1, nodes', Append(fs, f), switch')
        BY <2>1, NothingToFind, Called DEF SwitchFrames, AfterExpression, AfterBody
  <2>4. p + 1 \in 1 .. Len(toks) + 1
        BY <1>1, Behind DEF End
  <2>5. QED  BY <2>2, <2>3, <2>4, GoesOn DEF Go
<1>2. CASE At(p) # "{"
  <2> DEFINE f == [at |-> "SINGLE"]
  <2>1. Plain(f) /\ f.at = "SINGLE"
        BY DEF Plain, FrameNames, StatementFrames, SwitchFrames
  <2>2. EnterStatement(p, Append(fs, f))
        BY <1>2 DEF EnterBody
  <2> HIDE DEF f
  <2>3. Framed(Append(fs, f), switch') /\ Append(fs, f)[Len(Append(fs, f))] = f
        BY <2>1, PlainFrame, Pushed
  <2>4. QED  BY <2>1, <2>2, <2>3, StatementEntered
<1>3. QED  BY <1>1, <1>2

-----------------------------------------------------------------------------
(* The expression parser *)

\* No operator is a keyword, a symbol or the end of the tokens.
LEMMA NoOperators == Operators \cap (Keywords \cup Symbols \cup {End}) = {}
<1> DEFINE t == op_precedence
           X == Keywords \cup Symbols \cup {End}
<1>1. /\ DOMAIN t = 1 .. 14
      /\ t[1] \cap X \subseteq {":"}
      /\ t[2] \cap X \subseteq {":"}
      /\ t[3] \cap X \subseteq {":"}
      /\ t[4] \cap X \subseteq {":"}
      /\ t[5] \cap X \subseteq {":"}
      /\ t[6] \cap X \subseteq {":"}
      /\ t[7] \cap X \subseteq {":"}
      /\ t[8] \cap X \subseteq {":"}
      /\ t[9] \cap X \subseteq {":"}
      /\ t[10] \cap X \subseteq {":"}
      /\ t[11] \cap X \subseteq {":"}
      /\ t[12] \cap X \subseteq {":"}
      /\ t[13] \cap X \subseteq {":"}
      /\ t[14] \cap X \subseteq {":"}
      BY DEF op_precedence, Keywords, DataTypes, Symbols, End
<1>2. \A i \in 1 .. 14 : \/ i = 1 \/ i = 2 \/ i = 3 \/ i = 4 \/ i = 5 \/ i = 6 \/ i = 7
                         \/ i = 8 \/ i = 9 \/ i = 10 \/ i = 11 \/ i = 12 \/ i = 13 \/ i = 14
      OBVIOUS
<1>3. {"!", "~"} \cap X = {}
      BY DEF Keywords, DataTypes, Symbols, End
<1>4. Operators = ((UNION {t[i] : i \in DOMAIN t}) \ {":", "()", "[]"}) \cup {"!", "~"}
      BY DEF Operators
<1> HIDE DEF t, X
<1>5. \A i \in DOMAIN t : t[i] \cap X \subseteq {":"}
      BY <1>1, <1>2
<1>6. ASSUME NEW o \in Operators
      PROVE  o \notin X
  <2>1. CASE o \in {"!", "~"}
        BY <1>3, <2>1
  <2>2. CASE o \notin {"!", "~"}
    <3>1. PICK i \in DOMAIN t : o \in t[i] /\ o # ":"
          BY <1>4, <2>2
    <3>2. QED  BY <1>5, <3>1
  <2>3. QED  BY <2>1, <2>2
<1>7. QED  BY <1>6 DEF X

\* The node stack once one node, or none, was taken and one put there.
LEMMA NodePushed ==
    ASSUME NEW ns, IsSequence(ns), NEW e
    PROVE  /\ IsSequence(Append(ns, e)) /\ Append(ns, e) # <<>>
           /\ Len(Append(ns, e)) = Len(ns) + 1 /\ Len(ns) \in Nat
           /\ Append(ns, e)[Len(Append(ns, e))] = e
           /\ ns # <<>> => /\ IsSequence(Below(ns))
                           /\ IsSequence(Append(Below(ns), e)) /\ Append(Below(ns), e) # <<>>
                           /\ Append(Below(ns), e)[Len(Append(Below(ns), e))] = e
<1>1. /\ IsSequence(Append(ns, e)) /\ Append(ns, e) # <<>>
      /\ Len(Append(ns, e)) = Len(ns) + 1 /\ Len(ns) \in Nat
      /\ Append(ns, e)[Len(Append(ns, e))] = e
      BY Appended, Positions
<1>2. ASSUME ns # <<>>
      PROVE  /\ IsSequence(Below(ns))
             /\ IsSequence(Append(Below(ns), e)) /\ Append(Below(ns), e) # <<>>
             /\ Append(Below(ns), e)[Len(Append(Below(ns), e))] = e
  <2> DEFINE gs == Below(ns)
  <2>1. IsSequence(gs)
        BY <1>2, Shortened
  <2> HIDE DEF gs
  <2>2. IsSequence(Append(gs, e)) /\ Append(gs, e) # <<>> /\ Append(gs, e)[Len(Append(gs, e))] = e
        BY <2>1, Appended
  <2>3. QED  BY <2>1, <2>2 DEF gs
<1>3. QED  BY <1>1, <1>2

\* The methods of parser_expr.cpp that wait for an operand.
OperandFrames == {"NORMAL", "PAREN", "CAST", "BRACKET", "COMMA", "YES", "NO"}

\* One of them is called by the loop, and calls it.
LEMMA OperandAwaited ==
    ASSUME Step, switch' = switch, Frame.at = "LOOP", NEW f, f.at \in OperandFrames,
           Call(f), status' = status, pos' \in 1 .. Len(toks) + 1, IsSequence(nodes')
    PROVE  ParserInv'
<1> DEFINE g == [at |-> "LOOP"]
<1>1. Framed(frames, switch) /\ Frame = frames[Len(frames)] /\ IsSequence(frames)
      BY Running
<1>2. Calls(frames[Len(frames)].at, f.at)
      BY <1>1 DEF Calls, OperandFrames, AfterExpression, AfterBody
<1>3. Sound(pos', nodes', frames \o <<f, g>>, switch)
  <2>1. QED  BY <1>1, <1>2, OperandCalled DEF OperandFrames
<1>4. frames' = Append(frames, f) \o <<g>>
      BY DEF Call
<1> HIDE DEF g
<1>5. IsSequence(Append(frames, f))
      BY <1>1, Appended
<1>6. frames' = frames \o <<f, g>>
      BY <1>1, <1>4, <1>5, Concatenated
<1>7. QED  BY <1>3, <1>6, GoesOn

\* It returns, with a result.
LEMMA OperandTaken ==
    ASSUME Step, switch' = switch, Frame.at \in OperandFrames \cup {"LOOP"},
           frames' = Below(frames), status' = status, pos' \in 1 .. Len(toks) + 1,
           IsSequence(nodes')
    PROVE  ParserInv'
<1>1. Frame.at \notin SwitchFrames /\ Len(frames) > 1 /\ Delivered(nodes', Frame.at)
      BY Running DEF OperandFrames, SwitchFrames, Delivered
<1>2. Frame.at # "KEYWORD"
      BY DEF OperandFrames
<1>3. Go(pos', Below(frames))
      BY DEF Go
<1>4. QED  BY <1>1, <1>2, <1>3, Returns

\* The parser stops in the frame it is in.
LEMMA StopsHere ==
    ASSUME Step, NEW how \in Stopped, Stop(how)
    PROVE  ParserInv'
BY Stops, Running DEF Stop, Framed

\* parse_additional_exp goes on with the loop, or returns to the loop or the
\* method that is waiting.
LEMMA Additional ==
    ASSUME Step, switch' = switch, NEW fs, Framed(fs, switch),
           \/ fs = frames /\ Frame.at = "LOOP"
           \/ fs = Below(frames) /\ Frame.at = "PAREN",
           AdditionalExp(pos', fs), pos' \in 1 .. Len(toks) + 1, IsSequence(nodes')
    PROVE  ParserInv'
<1> DEFINE g == [at |-> "LOOP"]
<1>1. /\ Framed(frames, switch) /\ Frame = frames[Len(frames)] /\ IsSequence(frames)
      /\ Frame.at \notin {"RUN", "ROOT"} => Len(frames) > 1
      BY Running
<1>2. \/ fs = frames /\ fs[Len(fs)].at = "LOOP"
      \/ fs = Below(frames) /\ Calls(fs[Len(fs)].at, "PAREN")
  <2>1. CASE fs = frames /\ Frame.at = "LOOP"
        BY <1>1, <2>1
  <2>2. CASE fs = Below(frames) /\ Frame.at = "PAREN"
    <3>1. Frame.at \notin SwitchFrames /\ Len(frames) > 1
          BY <1>1, <2>2 DEF SwitchFrames
    <3>2. /\ Len(Below(frames)) = Len(frames) - 1
          /\ Below(frames)[Len(frames) - 1] = frames[Len(frames) - 1]
          /\ Calls(frames[Len(frames) - 1].at, Frame.at)
          BY <1>1, <3>1, Popped
    <3>3. QED  BY <2>2, <3>2
  <2>3. QED  BY <2>1, <2>2
<1>3. Calls(fs[Len(fs)].at, "LOOP")
      BY <1>2 DEF Calls, AfterExpression, AfterBody
<1>4. Sound(pos', nodes', fs, switch)
      BY <1>2, BackIn, NothingToFind DEF Sound, Framed, Delivered, IfAfterElse,
         AfterExpression, AfterBody
<1>5. Sound(pos', nodes', Append(fs, g), switch)
      BY <1>3, LoopCalled
<1>6. Sound(pos', nodes', frames', switch')
      BY <1>4, <1>5 DEF AdditionalExp
<1>7. CASE status' = status
      BY <1>6, <1>7, GoesOn
<1>8. CASE status' = "crash"
      BY <1>6, <1>8, Stops DEF Sound, Stopped
<1>9. QED  BY <1>7, <1>8 DEF AdditionalExp

\* Each step of parser_expr.cpp leaves the parser in order.
LEMMA ExpressionSteps ==
    ASSUME Step, switch' = switch, Next
    PROVE  ParserInv'
<1> DEFINE P == 1 .. Len(toks) + 1
<1>1. /\ IsSequence(nodes) /\ Len(toks) \in Nat /\ pos \in P
      /\ Framed(frames, switch) /\ Found(nodes, Frame) /\ IfAfterElse(pos, frames)
      /\ IsSequence(frames) /\ Frame = frames[Len(frames)]
      /\ Frame.at \notin {"RUN", "ROOT"} => Len(frames) > 1
      BY Running
<1>2. Tok # End => pos + 1 \in P
      BY <1>1, Behind DEF Tok
<1>3. \A e : /\ IsSequence(Append(nodes, e))
             /\ nodes # <<>> => IsSequence(Below(nodes)) /\ IsSequence(Append(Below(nodes), e))
      BY <1>1, NodePushed
<1>4. CASE ParseSingleToken
  <2>1. Tok # End
        BY <1>4 DEF ParseSingleToken, IsOperand
  <2>2. Sound(pos', nodes', frames', switch')
        BY <1>1, <1>4, NothingToFind DEF ParseSingleToken, Looping, Sound, Framed, IfAfterElse,
           AfterExpression, AfterBody
  <2>3. pos' \in P /\ IsSequence(nodes') /\ status' = status
        BY <1>2, <1>3, <1>4, <2>1 DEF ParseSingleToken
  <2>4. QED  BY <2>2, <2>3, GoesOn
<1>5. CASE LeaveLoop
      BY <1>1, <1>5, OperandTaken DEF LeaveLoop, Looping
<1>6. CASE ParseExpNormal
  <2>1. Frame.at = "LOOP" /\ Tok # End
        BY <1>6, NoOperators DEF ParseExpNormal, Looping
  <2>2. CASE nodes = <<>>
        BY <1>6, <2>2, StopsHere DEF ParseExpNormal, Stopped
  <2>3. CASE UNCHANGED vars
        BY <1>1, <2>3, GoesOn DEF vars, Sound, Framed
  <2>4. CASE nodes # <<>> /\ ~UNCHANGED vars
    <3>1. /\ pos' = pos + 1 /\ nodes' = Below(nodes) /\ status' = status
          /\ Call([at |-> "NORMAL", left |-> Top, op |-> Tok])
          BY <1>6, <2>4 DEF ParseExpNormal
    <3>2. QED  BY <1>2, <1>3, <2>1, <2>4, <3>1, OperandAwaited DEF OperandFrames
  <2>5. QED  BY <2>2, <2>3, <2>4
<1>7. CASE FinishExpNormal
  <2> DEFINE exp == ReorderExpression(Exp(Frame.left, Frame.op, Top))
  <2>1. CASE ~Popping \/ exp = AssertFailed
        BY <1>7, <2>1, StopsHere DEF FinishExpNormal, Stopped
  <2>2. CASE Popping /\ exp # AssertFailed
    <3>1. /\ nodes' = Append(Below(nodes), exp) /\ frames' = Below(frames)
          /\ pos' = pos /\ status' = status /\ Frame.at = "NORMAL"
          BY <1>7, <2>2 DEF FinishExpNormal, Returned
    <3>2. QED  BY <1>1, <1>3, <2>2, <3>1, OperandTaken DEF Popping, OperandFrames
  <2>3. QED  BY <2>1, <2>2
<1>8. CASE ParseParenthesized
  <2> DEFINE called == nodes # <<>> /\ IsValueType(Top)
             left == IF called THEN Top ELSE Nil
             rest == IF called THEN Below(nodes) ELSE nodes
  <2>1. Frame.at = "LOOP" /\ Tok # End
        BY <1>8 DEF ParseParenthesized, Looping, End
  <2>2. IsSequence(rest)
        BY <1>1, <1>3
  <2>3. CASE At(pos + 1) = ")"
    <3>1. /\ pos' = pos + 2 /\ nodes' = Append(rest, WithCallee(left, Parens(Blank)))
          /\ AdditionalExp(pos + 2, frames)
          BY <1>8, <2>3 DEF ParseParenthesized
    <3>2. pos + 1 + 1 \in P
          BY <1>2, <2>1, <2>3, Behind DEF End
    <3>3. pos' \in P
          BY <1>1, <3>1, <3>2
    <3>4. IsSequence(nodes')
          BY <2>2, <3>1, NodePushed
    <3>5. QED  BY <1>1, <2>1, <3>1, <3>3, <3>4, Additional
  <2>4. CASE At(pos + 1) # ")"
    <3>1. /\ pos' = pos + 1 /\ nodes' = rest /\ Call([at |-> "PAREN", left |-> left])
          /\ status' = status
          BY <1>8, <2>4 DEF ParseParenthesized
    <3>2. QED  BY <1>2, <2>1, <2>2, <3>1, OperandAwaited DEF OperandFrames
  <2>5. QED  BY <2>3, <2>4
<1>9. CASE ParseParenthesisAtEnd
      BY <1>9, StopsHere DEF ParseParenthesisAtEnd, Stopped
<1>10. CASE FinishParenthesized
  <2>1. Frame.at = "PAREN"
        BY <1>10 DEF FinishParenthesized, Returned
  <2>2. CASE ~Popping \/ Tok # ")"
        BY <1>10, <2>2, StopsHere DEF FinishParenthesized, Stopped
  <2>3. CASE Popping /\ Tok = ")"
    <3>1. /\ pos' = pos + 1 /\ nodes' = Append(Below(nodes), WithCallee(Frame.left, Parens(Top)))
          /\ AdditionalExp(pos + 1, Below(frames))
          BY <1>10, <2>3 DEF FinishParenthesized
    <3>2. pos' \in P /\ IsSequence(nodes')
          BY <1>2, <1>3, <2>3, <3>1 DEF Popping, End
    <3>3. Framed(Below(frames), switch)
          BY <1>1, <2>1, Popped DEF SwitchFrames
    <3>4. QED  BY <2>1, <3>1, <3>2, <3>3, Additional
  <2>4. QED  BY <2>2, <2>3
<1>11. CASE ParseCast
  <2>1. Frame.at = "LOOP"
        BY <1>11 DEF ParseCast, Looping
  <2>2. CASE At(pos + 1) \notin DataTypes \/ At(pos + 2) # ")"
        BY <1>11, <2>2, StopsHere DEF ParseCast, Stopped
  <2>3. CASE At(pos + 1) \in DataTypes /\ At(pos + 2) = ")"
    <3>1. pos' = pos + 3 /\ Call([at |-> "CAST"]) /\ nodes' = nodes /\ status' = status
          BY <1>11, <2>3 DEF ParseCast
    <3>2. pos + 1 \in P
          BY <1>2, <1>11 DEF ParseCast, End
    <3>3. pos + 1 + 1 \in P
          BY <2>3, <3>2, Behind DEF DataTypes, End
    <3>4. pos + 2 \in P
          BY <1>1, <3>3
    <3>5. pos + 2 + 1 \in P
          BY <2>3, <3>4, Behind DEF End
    <3>6. pos' \in P
          BY <1>1, <3>1, <3>5
    <3>7. QED  BY <1>1, <2>1, <3>1, <3>6, OperandAwaited DEF OperandFrames
  <2>4. QED  BY <2>2, <2>3
<1>12. CASE FinishCast
  <2>1. CASE ~Popping
        BY <1>12, <2>1, StopsHere DEF FinishCast, Stopped
  <2>2. CASE Popping
        BY <1>1, <1>3, <1>12, <2>2, OperandTaken DEF FinishCast, Returned, Popping, OperandFrames
  <2>3. QED  BY <2>1, <2>2
<1>13. CASE ParseArrayAccess
  <2>1. Frame.at = "LOOP" /\ Tok # End /\ status' = status /\ pos' = pos + 1
        BY <1>13 DEF ParseArrayAccess, Looping, End
  <2>2. Call([at |-> "BRACKET", left |-> IF nodes = <<>> THEN Nil ELSE Top])
        BY <1>13 DEF ParseArrayAccess
  <2>3. IsSequence(nodes')
        BY <1>1, <1>3, <1>13 DEF ParseArrayAccess
  <2>4. QED  BY <1>2, <2>1, <2>2, <2>3, OperandAwaited DEF OperandFrames
<1>14. CASE FinishArrayAccess
  <2>1. CASE ~Popping \/ Tok # "]"
        BY <1>14, <2>1, StopsHere DEF FinishArrayAccess, Stopped
  <2>2. CASE Popping /\ Tok = "]"
    <3>1. pos' = pos + 1 /\ frames' = Below(frames) /\ status' = status /\ Frame.at = "BRACKET"
          BY <1>14, <2>2 DEF FinishArrayAccess, Returned
    <3>2. IsSequence(nodes') /\ pos' \in P
          BY <1>2, <1>3, <1>14, <2>2 DEF FinishArrayAccess, Popping, End
    <3>3. QED  BY <3>1, <3>2, OperandTaken DEF OperandFrames
  <2>3. QED  BY <2>1, <2>2
<1>15. CASE ParseComma
  <2>1. CASE ~Popping
        BY <1>15, <2>1, StopsHere DEF ParseComma, Stopped
  <2>2. CASE Popping
    <3>1. /\ Frame.at = "LOOP" /\ pos' = pos + 1 /\ nodes' = Below(nodes) /\ status' = status
          /\ Call([at |-> "COMMA", left |-> Top]) /\ Tok # End
          BY <1>15, <2>2 DEF ParseComma, Looping, End
    <3>2. QED  BY <1>2, <1>3, <2>2, <3>1, OperandAwaited DEF Popping, OperandFrames
  <2>3. QED  BY <2>1, <2>2
<1>16. CASE FinishComma
  <2>1. CASE ~Popping
        BY <1>16, <2>1, StopsHere DEF FinishComma, Stopped
  <2>2. CASE Popping
        BY <1>1, <1>3, <1>16, <2>2, OperandTaken DEF FinishComma, Returned, Popping, OperandFrames
  <2>3. QED  BY <2>1, <2>2
<1>17. CASE ParseTernary
  <2>1. CASE ~Popping
        BY <1>17, <2>1, StopsHere DEF ParseTernary, Stopped
  <2>2. CASE Popping
    <3>1. /\ Frame.at = "LOOP" /\ pos' = pos + 1 /\ nodes' = Below(nodes) /\ status' = status
          /\ Call([at |-> "YES", cond |-> Top]) /\ Tok # End
          BY <1>17, <2>2 DEF ParseTernary, Looping, End
    <3>2. QED  BY <1>2, <1>3, <2>2, <3>1, OperandAwaited DEF Popping, OperandFrames
  <2>3. QED  BY <2>1, <2>2
<1>18. CASE FinishTernaryTrue
  <2>1. CASE ~Popping \/ Tok # ":"
        BY <1>18, <2>1, StopsHere DEF FinishTernaryTrue, Stopped
  <2>2. CASE Popping /\ Tok = ":"
    <3> DEFINE f == [at |-> "NO", cond |-> Frame.cond, yes |-> Top]
               g == [at |-> "LOOP"]
    <3>1. /\ Frame.at = "YES" /\ pos' = pos + 1 /\ nodes' = Below(nodes) /\ status' = status
          /\ frames' = Below(frames) \o <<f, g>> /\ Tok # End
          BY <1>18, <2>2 DEF FinishTernaryTrue, Returned, End
    <3>2. f.at = "NO"
          OBVIOUS
    <3> HIDE DEF f
    <3>3. /\ Framed(Below(frames), switch) /\ Len(Below(frames)) = Len(frames) - 1
          /\ Below(frames)[Len(frames) - 1] = frames[Len(frames) - 1]
          /\ Calls(frames[Len(frames) - 1].at, Frame.at)
          BY <1>1, <3>1, Popped DEF SwitchFrames
    <3>4. Calls(Below(frames)[Len(Below(frames))].at, f.at)
          BY <3>1, <3>2, <3>3 DEF Calls
    <3>5. Sound(pos', nodes', Below(frames) \o <<f, g>>, switch)
          BY <3>2, <3>3, <3>4, OperandCalled
    <3>6. pos' \in P /\ IsSequence(nodes')
          BY <1>2, <1>3, <2>2, <3>1 DEF Popping
    <3>7. QED  BY <3>1, <3>5, <3>6, GoesOn
  <2>3. QED  BY <2>1, <2>2
<1>19. CASE FinishTernaryFalse
  <2>1. CASE ~Popping
        BY <1>19, <2>1, StopsHere DEF FinishTernaryFalse, Stopped
  <2>2. CASE Popping
        BY <1>1, <1>3, <1>19, <2>2, OperandTaken DEF FinishTernaryFalse, Returned, Popping, OperandFrames
  <2>3. QED  BY <2>1, <2>2
<1>20. CASE Finish
      BY <1>20, StopsHere DEF Finish, Stopped
<1>21. QED
      BY <1>4, <1>5, <1>6, <1>7, <1>8, <1>9, <1>10, <1>11, <1>12, <1>13, <1>14, <1>15,
         <1>16, <1>17, <1>18, <1>19, <1>20 DEF Next

-----------------------------------------------------------------------------
(* Statements *)

\* The cursor may pass the tokens that are there.
LEMMA Ahead ==
    ASSUME Step
    PROVE  LET P == 1 .. Len(toks) + 1
           IN  /\ pos \in P
               /\ Tok # End => pos + 1 \in P
               /\ Tok # End /\ At(pos + 1) # End => pos + 2 \in P
               /\ Tok # End /\ At(pos + 1) # End /\ At(pos + 2) # End => pos + 3 \in P
<1>1. pos \in 1 .. Len(toks) + 1 /\ Len(toks) \in Nat
      BY Running
<1>2. Tok # End => pos + 1 \in 1 .. Len(toks) + 1
      BY <1>1, Behind DEF Tok
<1>3. Tok # End /\ At(pos + 1) # End => pos + 1 + 1 \in 1 .. Len(toks) + 1
      BY <1>2, Behind
<1>4. pos + 1 + 1 = pos + 2 /\ pos + 2 + 1 = pos + 3
      BY <1>1
<1>5. Tok # End /\ At(pos + 1) # End /\ At(pos + 2) # End => pos + 2 + 1 \in 1 .. Len(toks) + 1
      BY <1>3, <1>4, Behind
<1>6. QED  BY <1>1, <1>2, <1>3, <1>4, <1>5

\* A keyword or an identifier is a token.
LEMMA Tokens ==
    /\ End \notin Keywords /\ End \notin Symbols /\ End \notin DataTypes /\ ~IsIdentifier(End)
    /\ DataTypes \subseteq Keywords /\ "if" \notin DataTypes
BY DEF Keywords, Symbols, DataTypes, IsIdentifier, IsOperand, End

\* A method returns that leaves nothing its caller would have to look at.
LEMMA Left ==
    ASSUME Step, switch' = switch,
           Frame.at \in {"KEYWORD", "STATEMENT", "RETURN", "WHILE_BODY", "DO_WHILE", "FOR_BODY",
                         "CASE", "DECLARED", "PARAMETERS", "FUNCTION", "TOP", "GLOBAL"},
           Frame.at = "KEYWORD" => Tok # "if",
           NEW p \in 1 .. Len(toks) + 1, NEW ns, IsSequence(ns), Leave(p, ns)
    PROVE  ParserInv'
<1>1. Frame.at \notin SwitchFrames /\ Len(frames) > 1 /\ Delivered(nodes', Frame.at)
      BY Running DEF SwitchFrames, Delivered
<1>2. QED  BY <1>1, Returns DEF Leave

\* A method goes on with an expression.
LEMMA Awaited ==
    ASSUME Step, switch' = switch, Frame.at \in {"KEYWORD", "DO", "FOR", "DECLARED"},
           NEW f, f.at \in AfterExpression \ {"SWITCH"},
           Frame.at = "KEYWORD" => Tok # "if" \/ f.at = "IF",
           NEW p \in 1 .. Len(toks) + 1, Await(p, f), IsSequence(nodes')
    PROVE  ParserInv'
<1>1. Shaped(f) /\ f.at \notin SwitchFrames
      BY PlainFrame DEF Plain, FrameNames, StatementFrames, SwitchFrames, AfterExpression
<1>2. Len(frames) > 1 /\ Frame.at \notin SwitchFrames \cup {"ROOT"}
      BY Running DEF SwitchFrames
<1> DEFINE fs == Append(Below(frames), f)
<1>3. Framed(fs, switch) /\ fs[Len(fs)] = f
      BY <1>1, <1>2, Turned
<1>4. Go(p, fs \o Root)
      BY DEF Await
<1> HIDE DEF fs
<1>5. Calls(f.at, "ROOT")
      BY DEF Calls, AfterExpression, AfterBody
<1>6. QED  BY <1>3, <1>4, <1>5, Waits

\* A method goes on with a body.
LEMMA BodyAwaited ==
    ASSUME Step, switch' = switch,
           Frame.at \in {"KEYWORD", "IF", "THEN", "WHILE", "FOR", "PARAMETERS"},
           NEW f, Shaped(f), f.at \in AfterBody \ {"SWITCH_BODY"},
           Frame.at = "KEYWORD" => Tok # "if",
           Frame.at \in {"IF", "THEN"} => f.at \in {"THEN", "ELSE"},
           NEW p \in 1 .. Len(toks) + 1, EnterBody(p, Append(Below(frames), f)),
           IsSequence(nodes')
    PROVE  ParserInv'
<1>1. Len(frames) > 1 /\ Frame.at \notin SwitchFrames \cup {"ROOT"} /\ f.at \notin SwitchFrames
      BY Running DEF SwitchFrames, AfterBody
<1> DEFINE fs == Append(Below(frames), f)
<1>2. Framed(fs, switch) /\ fs[Len(fs)] = f
      BY <1>1, Turned
<1>3. EnterBody(p, fs)
      OBVIOUS
<1> HIDE DEF fs
<1>4. Calls(f.at, "BODY") /\ Calls(f.at, "SINGLE")
      BY DEF Calls, AfterExpression, AfterBody
<1>5. QED  BY <1>2, <1>3, <1>4, BodyEntered

\* A method goes on by itself.
LEMMA Moved ==
    ASSUME Step, switch' = switch,
           Frame.at \in {"KEYWORD", "ITEM", "FOR", "FOR_PART", "VALUE", "DECLARED", "PARAMETERS"},
           NEW f, Shaped(f), f.at \in {"BODY", "FOR", "DECLARED", "PARAMETERS"},
           Frame.at = "KEYWORD" => Tok # "if", Frame.at = "ITEM" => f.at = "BODY",
           Found(nodes', f),
           NEW p \in 1 .. Len(toks) + 1, Go(p, Append(Below(frames), f)), IsSequence(nodes')
    PROVE  ParserInv'
<1>1. Len(frames) > 1 /\ Frame.at \notin SwitchFrames \cup {"ROOT"} /\ f.at \notin SwitchFrames
      BY Running DEF SwitchFrames
<1> DEFINE fs == Append(Below(frames), f)
<1>2. Framed(fs, switch) /\ fs[Len(fs)] = f
      BY <1>1, Turned
<1>3. Sound(p, nodes', fs, switch)
  <2> HIDE DEF fs
  <2>1. QED  BY <1>2 DEF Sound, Framed, IfAfterElse
<1>4. QED  BY <1>3, GoesOn DEF Go

\* The nodes the running method may rely on.
LEMMA FoundThere ==
    ASSUME Step
    PROVE  /\ Frame.at \in AfterExpression \cup AfterBody \cup {"ELSE_IF", "PARAMETERS"}
              => nodes # <<>>
           /\ Frame.at = "PARAMETERS" => Frame.node = Len(nodes) /\ Top.type = "FUNCTION"
BY Running DEF Found, Top

\* parse_symbol_token, called below a statement or at the top.
LEMMA SymbolTaken ==
    ASSUME Step, switch' = switch, NEW fs, Framed(fs, switch),
           Calls(fs[Len(fs)].at, "BODY"), Calls(fs[Len(fs)].at, "SINGLE"),
           fs[Len(fs)].at \notin AfterExpression \cup AfterBody \cup {"ELSE_IF"},
           ParseSymbolToken(fs)
    PROVE  ParserInv' /\ (Tok # "{" => IsSequence(nodes'))
<1>1. IsSequence(nodes) /\ pos \in 1 .. Len(toks) + 1
      BY Running
<1>2. CASE Tok = "{"
      BY <1>1, <1>2, BodyEntered DEF ParseSymbolToken
<1>3. CASE Tok = ":"
  <2>1. ParseLabel(fs)
        BY <1>3 DEF ParseSymbolToken
  <2>2. CASE nodes' = nodes /\ (Halt("abort") \/ Halt("error"))
        BY <1>1, <1>3, <2>2, HaltsHere DEF Stopped
  <2>3. CASE nodes # <<>> /\ Go(pos + 1, fs) /\ nodes' = Replaced(Label(Top.tok))
    <3>1. IsSequence(nodes') /\ pos + 1 \in 1 .. Len(toks) + 1
          BY <1>1, <1>3, <2>3, NodePushed, Ahead DEF Replaced, End
    <3>2. Found(nodes', fs[Len(fs)])
          BY NothingToFind DEF Calls
    <3>3. Sound(pos + 1, nodes', fs, switch)
          BY <3>2 DEF Sound, Framed, Calls, IfAfterElse
    <3>4. QED  BY <2>3, <3>1, <3>3, GoesOn DEF Go
  <2>4. QED  BY <2>1, <2>2, <2>3 DEF ParseLabel
<1>4. CASE Tok \notin {"{", ":"}
      BY <1>1, <1>4, HaltsHere DEF ParseSymbolToken, Stopped
<1>5. QED  BY <1>2, <1>3, <1>4

\* The frames of bodies and statements.
LEMMA BodySteps ==
    ASSUME Step, switch' = switch,
           EndStatement \/ NextStatement \/ AddStatement \/ EndBody \/ EndSingleStatement
             \/ KeywordInExpression
    PROVE  ParserInv'
<1> DEFINE P == 1 .. Len(toks) + 1
<1>1. /\ IsSequence(nodes) /\ Len(toks) \in Nat /\ pos \in P
      /\ Framed(frames, switch) /\ Found(nodes, Frame) /\ Shaped(Frame)
      /\ IsSequence(frames) /\ Len(frames) \in Nat /\ Frame = frames[Len(frames)]
      /\ Frame.at \notin {"RUN", "ROOT"} => Len(frames) > 1
      BY Running
<1>2. Tok # End => pos + 1 \in P
      BY Ahead
<1>3. \A e : /\ IsSequence(Append(nodes, e)) /\ Append(nodes, e) # <<>>
             /\ Append(nodes, e)[Len(Append(nodes, e))] = e
             /\ nodes # <<>> => /\ IsSequence(Below(nodes)) /\ IsSequence(Replaced(e))
                                /\ Replaced(e) # <<>> /\ Replaced(e)[Len(Replaced(e))] = e
      BY <1>1, NodePushed DEF Replaced
<1>4. CASE EndStatement
  <2>1. Frame.at = "STATEMENT"
        BY <1>4 DEF EndStatement, Returned
  <2>2. /\ Framed(Below(frames), switch) /\ Len(Below(frames)) = Len(frames) - 1
        /\ Below(frames)[Len(frames) - 1] = frames[Len(frames) - 1]
        /\ Calls(frames[Len(frames) - 1].at, Frame.at)
        BY <1>1, <2>1, Popped DEF SwitchFrames
  <2> DEFINE fs == Below(frames)
  <2>3. Calls(fs[Len(fs)].at, "STATEMENT") /\ Framed(fs, switch)
        BY <2>1, <2>2
  <2> HIDE DEF fs
  <2>4. /\ Calls(fs[Len(fs)].at, "BODY") /\ Calls(fs[Len(fs)].at, "SINGLE")
        /\ fs[Len(fs)].at \notin AfterExpression \cup AfterBody \cup {"ELSE_IF"}
        BY <2>3 DEF Calls
  <2>5. CASE Tok \in Symbols \ {";"}
    <3>1. ParseSymbolToken(fs)
          BY <1>4, <2>5 DEF EndStatement, fs
    <3>2. QED  BY <2>3, <2>4, <3>1, SymbolTaken
  <2>6. CASE Tok = ";"
    <3>1. Leave(pos + 1, nodes)
          BY <1>4, <2>6 DEF EndStatement
    <3>2. QED  BY <1>1, <1>2, <2>1, <2>6, <3>1, Left DEF End
  <2>7. CASE Tok \notin Symbols
    <3>1. nodes' = nodes /\ Halt(IF Tok = End THEN "crash" ELSE "error")
          BY <1>4, <2>7 DEF EndStatement, Symbols
    <3>2. QED  BY <1>1, <3>1, HaltsHere DEF Stopped
  <2>8. QED  BY <2>5, <2>6, <2>7
<1>5. CASE NextStatement
  <2> DEFINE f == [Frame EXCEPT !.at = "ITEM"]
             fs == Append(Below(frames), f)
  <2>1. Frame.at = "BODY" /\ EnterStatement(pos, fs) /\ nodes' = nodes
        BY <1>5 DEF NextStatement, Returned
  <2>2. Frame = [at |-> "BODY", statements |-> Frame.statements]
        BY <1>1, <2>1 DEF Shaped
  <2>3. f = [at |-> "ITEM", statements |-> Frame.statements]
        BY <2>2
  <2>4. Shaped(f) /\ f.at = "ITEM"
        BY <2>3 DEF Shaped, FrameNames, StatementFrames
  <2> HIDE DEF f
  <2>5. Framed(fs, switch) /\ fs[Len(fs)] = f
        BY <1>1, <2>1, <2>4, Turned DEF SwitchFrames
  <2> HIDE DEF fs
  <2>6. QED  BY <1>1, <2>1, <2>4, <2>5, StatementEntered
<1>6. CASE AddStatement
  <2>1. Frame.at = "ITEM"
        BY <1>6 DEF AddStatement, Returned
  <2>2. CASE ~Popping
        BY <1>1, <1>6, <2>2, HaltsHere DEF AddStatement, Stopped
  <2>3. CASE Popping
    <3> DEFINE f == [at |-> "BODY", statements |-> Append(Frame.statements, Top)]
    <3>1. Go(pos, Append(Below(frames), f)) /\ nodes' = Below(nodes)
          BY <1>6, <2>3 DEF AddStatement
    <3>2. Shaped(f) /\ f.at = "BODY"
          BY DEF Shaped, FrameNames, StatementFrames
    <3> HIDE DEF f
    <3>3. Found(nodes', f)
          BY <3>2, NothingToFind DEF AfterExpression, AfterBody
    <3>4. QED  BY <1>1, <1>3, <2>1, <2>3, <3>1, <3>2, <3>3, Moved DEF Popping
  <2>4. QED  BY <2>2, <2>3
<1>7. CASE EndBody
  <2> DEFINE b == Body(Frame.statements)
  <2>1. Frame.at = "BODY" /\ Tok # End /\ Leave(pos + 1, Append(nodes, b))
        BY <1>7 DEF EndBody, Returned, End
  <2>2. b.type = "BODY" /\ b = Body(b.statements)
        BY DEF Body
  <2> HIDE DEF b
  <2>3. Delivered(Append(nodes, b), Frame.at)
        BY <1>3, <2>1, <2>2 DEF Delivered
  <2>4. Go(pos + 1, Below(frames)) /\ nodes' = Append(nodes, b)
        BY <2>1 DEF Leave
  <2>5. Frame.at \notin SwitchFrames /\ Len(frames) > 1 /\ pos + 1 \in P /\ IsSequence(nodes')
        BY <1>1, <1>2, <1>3, <2>1, <2>4 DEF SwitchFrames
  <2>6. QED  BY <2>1, <2>3, <2>4, <2>5, Returns
<1>8. CASE EndSingleStatement
  <2>1. CASE ~Popping
        BY <1>1, <1>8, <2>1, HaltsHere DEF EndSingleStatement, Stopped
  <2>2. CASE Popping
    <3> DEFINE b == Body(<<Top>>)
    <3>1. Frame.at = "SINGLE" /\ Leave(pos, Replaced(b))
          BY <1>8, <2>2 DEF EndSingleStatement, Returned
    <3>2. b.type = "BODY" /\ b = Body(b.statements)
          BY DEF Body
    <3> HIDE DEF b
    <3>3. Delivered(Replaced(b), Frame.at)
          BY <1>3, <2>2, <3>1, <3>2 DEF Delivered, Popping
    <3>4. Go(pos, Below(frames)) /\ nodes' = Replaced(b)
          BY <3>1 DEF Leave
    <3>5. Frame.at \notin SwitchFrames /\ Len(frames) > 1 /\ IsSequence(nodes')
          BY <1>1, <1>3, <2>2, <3>1, <3>4 DEF SwitchFrames, Popping
    <3>6. QED  BY <1>1, <3>1, <3>3, <3>4, <3>5, Returns
  <2>3. QED  BY <2>1, <2>2
<1>9. CASE KeywordInExpression
  <2> DEFINE f == [at |-> "KEYWORD"]
  <2>1. Frame.at = "LOOP" /\ Go(pos, Append(frames, f)) /\ nodes' = nodes
        BY <1>9 DEF KeywordInExpression, Looping
  <2>2. Plain(f) /\ f.at = "KEYWORD"
        BY DEF Plain, FrameNames, StatementFrames, SwitchFrames
  <2> HIDE DEF f
  <2>3. Shaped(f) /\ f.at \notin SwitchFrames /\ Found(nodes', f)
        BY <2>2, PlainFrame, NothingToFind DEF AfterExpression, AfterBody
  <2>4. Calls(frames[Len(frames)].at, f.at) /\ frames[Len(frames)].at = "LOOP"
        BY <1>1, <2>1, <2>2 DEF Calls, AfterExpression, AfterBody
  <2>5. Sound(pos, nodes', Append(frames, f), switch)
        BY <1>1, <2>2, <2>3, <2>4, Called
  <2>6. QED  BY <1>1, <2>1, <2>5, GoesOn DEF Go
<1>10. QED  BY <1>4, <1>5, <1>6, <1>7, <1>8, <1>9

\* A declarator: with a value, or without.
LEMMA VariableEntered ==
    ASSUME Step, switch' = switch, Frame.at \in {"KEYWORD", "DECLARED"},
           Frame.at = "KEYWORD" => Tok # "if",
           NEW p \in 1 .. Len(toks) + 1, NEW name, NEW list, EnterVariable(p, name, list),
           nodes' = nodes
    PROVE  ParserInv'
<1>1. IsSequence(nodes)
      BY Running
<1>2. CASE At(p) = "="
  <2>1. Await(p + 1, [at |-> "VALUE", name |-> name, list |-> list])
        BY <1>2 DEF EnterVariable
  <2>2. p + 1 \in 1 .. Len(toks) + 1
        BY <1>2, Behind DEF End
  <2>3. QED  BY <1>1, <2>1, <2>2, Awaited DEF AfterExpression
<1>3. CASE At(p) # "="
  <2> DEFINE f == [at |-> "DECLARED", list |-> Append(list, Variable("int", name, Nil))]
  <2>1. Go(p, Append(Below(frames), f))
        BY <1>3 DEF EnterVariable
  <2>2. Plain(f) /\ f.at = "DECLARED"
        BY DEF Plain, FrameNames, StatementFrames, SwitchFrames
  <2> HIDE DEF f
  <2>3. Shaped(f) /\ Found(nodes', f)
        BY <2>2, PlainFrame, NothingToFind DEF AfterExpression, AfterBody
  <2>4. QED  BY <1>1, <2>1, <2>2, <2>3, Moved
<1>4. QED  BY <1>2, <1>3

\* The keywords that begin a statement of their own, up to what they wait for.
LEMMA KeywordSteps ==
    ASSUME Step, switch' = switch,
           \/ ParseBreak \/ ParseContinue \/ ParseDefault \/ ParseUnknown \/ ParseGoto
           \/ ParseReturn \/ ParseIf \/ ParseWhile \/ ParseDo \/ ParseFor \/ ParseCase
           \/ ParseDeclaration
    PROVE  ParserInv'
<1> DEFINE P == 1 .. Len(toks) + 1
<1>1. IsSequence(nodes) /\ Len(toks) \in Nat /\ pos \in P
      BY Running
<1>2. /\ Tok # End => pos + 1 \in P
      /\ Tok # End /\ At(pos + 1) # End => pos + 2 \in P
      /\ Tok # End /\ At(pos + 1) # End /\ At(pos + 2) # End => pos + 3 \in P
      BY Ahead
<1>3. \A e : IsSequence(Append(nodes, e))
      BY <1>1, NodePushed
<1>4. Frame.at = "KEYWORD" /\ Tok # End
      BY Tokens DEF ParseBreak, ParseContinue, ParseDefault, ParseUnknown, ParseGoto, ParseReturn,
         ParseIf, ParseWhile, ParseDo, ParseFor, ParseCase, ParseDeclaration, Simple, AtKeyword,
         Returned, End
<1>5. ASSUME NEW name, name # "if", NEW symbol, symbol # End, NEW node, Simple(name, symbol, node)
      PROVE  ParserInv'
  <2>1. CASE At(pos + 1) = symbol
    <3>1. Leave(pos + 2, Append(nodes, node)) /\ Tok # "if"
          BY <1>5, <2>1 DEF Simple, AtKeyword
    <3>2. pos + 2 \in P
          BY <1>2, <1>4, <1>5, <2>1
    <3>3. QED  BY <1>3, <1>4, <3>1, <3>2, Left
  <2>2. CASE At(pos + 1) # symbol
        BY <1>1, <1>5, <2>2, HaltsHere DEF Simple, Stopped
  <2>3. QED  BY <2>1, <2>2
<1>6. ASSUME NEW f, f.at \in AfterExpression \ {"SWITCH"}, Tok # "if" \/ f.at = "IF",
             Condition(f), nodes' = nodes
      PROVE  ParserInv'
  <2>1. CASE At(pos + 1) = "("
    <3>1. Await(pos + 2, f) /\ pos + 2 \in P
          BY <1>2, <1>4, <1>6, <2>1 DEF Condition, End
    <3>2. QED  BY <1>1, <1>4, <1>6, <3>1, Awaited
  <2>2. CASE At(pos + 1) # "("
        BY <1>1, <1>6, <2>2, HaltsHere DEF Condition, Stopped
  <2>3. QED  BY <2>1, <2>2
<1>7. CASE ParseBreak
      BY <1>5, <1>7 DEF ParseBreak, End
<1>8. CASE ParseContinue
      BY <1>5, <1>8 DEF ParseContinue, End
<1>9. CASE ParseDefault
      BY <1>5, <1>9 DEF ParseDefault, End
<1>10. CASE ParseUnknown
      BY <1>1, <1>10, HaltsHere DEF ParseUnknown, Stopped
<1>11. CASE ParseGoto
  <2>1. Tok # "if"
        BY <1>11 DEF ParseGoto, AtKeyword
  <2>2. \/ At(pos + 1) = End
        \/ At(pos + 1) # End /\ ~IsIdentifier(At(pos + 1))
        \/ IsIdentifier(At(pos + 1)) /\ At(pos + 1) # End
        BY Tokens
  <2>3. \/ nodes' = nodes /\ (Halt("crash") \/ Halt("abort") \/ Halt("error"))
        \/ /\ At(pos + 1) # End /\ At(pos + 2) = ";"
           /\ Leave(pos + 3, Append(nodes, Goto(At(pos + 1))))
    <3>1. CASE At(pos + 1) = End
          BY <1>11, <3>1, Tokens DEF ParseGoto
    <3>2. CASE At(pos + 1) # End /\ ~IsIdentifier(At(pos + 1))
          BY <1>11, <3>2 DEF ParseGoto
    <3>3. CASE IsIdentifier(At(pos + 1)) /\ At(pos + 1) # End
          BY <1>11, <3>3 DEF ParseGoto
    <3>4. QED  BY <2>2, <3>1, <3>2, <3>3
  <2>4. CASE nodes' = nodes /\ (Halt("crash") \/ Halt("abort") \/ Halt("error"))
        BY <1>1, <2>4, HaltsHere DEF Stopped
  <2>5. CASE /\ At(pos + 1) # End /\ At(pos + 2) = ";"
             /\ Leave(pos + 3, Append(nodes, Goto(At(pos + 1))))
    <3>1. pos + 3 \in P
          BY <1>2, <1>4, <2>5 DEF End
    <3>2. QED  BY <1>3, <1>4, <2>1, <2>5, <3>1, Left
  <2>6. QED  BY <2>3, <2>4, <2>5
<1>12. CASE ParseReturn
  <2>1. Tok # "if"
        BY <1>12 DEF ParseReturn, AtKeyword
  <2>2. CASE At(pos + 1) = ";"
    <3>1. Leave(pos + 2, Append(nodes, Return(Nil))) /\ pos + 2 \in P
          BY <1>2, <1>4, <1>12, <2>2 DEF ParseReturn, End
    <3>2. QED  BY <1>3, <1>4, <2>1, <3>1, Left
  <2>3. CASE At(pos + 1) # ";"
    <3>1. Await(pos + 1, [at |-> "RETURN"]) /\ nodes' = nodes
          BY <1>12, <2>3 DEF ParseReturn
    <3>2. QED  BY <1>1, <1>2, <1>4, <2>1, <3>1, Awaited DEF AfterExpression
  <2>4. QED  BY <2>2, <2>3
<1>13. CASE ParseIf
      BY <1>6, <1>13 DEF ParseIf, AfterExpression
<1>14. CASE ParseWhile
      BY <1>6, <1>14 DEF ParseWhile, AtKeyword, AfterExpression
<1>15. CASE ParseDo
  <2> DEFINE f == [at |-> "DO"]
  <2>1. /\ EnterBody(pos + 1, Append(Below(frames), f)) /\ nodes' = nodes /\ Tok # "if"
        BY <1>15 DEF ParseDo, AtKeyword
  <2>2. Plain(f) /\ f.at = "DO"
        BY DEF Plain, FrameNames, StatementFrames, SwitchFrames
  <2> HIDE DEF f
  <2>3. f.at \in AfterBody \ {"SWITCH_BODY"} /\ Shaped(f)
        BY <2>2, PlainFrame DEF AfterBody
  <2>4. QED  BY <1>1, <1>2, <1>4, <2>1, <2>3, BodyAwaited
<1>16. CASE ParseFor
  <2>1. Tok # "if" /\ nodes' = nodes
        BY <1>16 DEF ParseFor, AtKeyword
  <2>2. CASE At(pos + 1) = "("
    <3> DEFINE f == [at |-> "FOR", parts |-> <<>>]
    <3>1. Go(pos + 2, Append(Below(frames), f)) /\ pos + 2 \in P
          BY <1>2, <1>4, <1>16, <2>2 DEF ParseFor, End
    <3>2. Plain(f) /\ f.at = "FOR"
          BY DEF Plain, FrameNames, StatementFrames, SwitchFrames
    <3> HIDE DEF f
    <3>3. Shaped(f) /\ Found(nodes', f)
          BY <3>2, PlainFrame, NothingToFind DEF AfterExpression, AfterBody
    <3>4. QED  BY <1>1, <1>4, <2>1, <3>1, <3>2, <3>3, Moved
  <2>3. CASE At(pos + 1) # "("
        BY <1>1, <1>16, <2>1, <2>3, HaltsHere DEF ParseFor, Stopped
  <2>4. QED  BY <2>2, <2>3
<1>17. CASE ParseCase
  <2>1. Await(pos + 1, [at |-> "CASE"]) /\ nodes' = nodes /\ Tok # "if"
        BY <1>17 DEF ParseCase, AtKeyword
  <2>2. QED  BY <1>1, <1>2, <1>4, <2>1, Awaited DEF AfterExpression
<1>18. CASE ParseDeclaration
  <2> DEFINE name == At(pos + 1)
             f == [at |-> "PARAMETERS", node |-> Len(nodes) + 1, args |-> <<>>]
  <2>1. Tok # "if"
        BY <1>18, Tokens DEF ParseDeclaration
  <2>2. IsIdentifier(name) => name \notin {";", End}
        BY Tokens DEF IsIdentifier, IsOperand, Symbols
  <2>3. \/ name = ";" /\ Leave(pos + 2, Append(nodes, [type |-> "STRUCT"]))
        \/ nodes' = nodes /\ (Halt("crash") \/ Halt("error"))
        \/ name # End /\ EnterVariable(pos + 2, name, <<>>) /\ nodes' = nodes
        \/ /\ name # End /\ At(pos + 2) = "(" /\ Go(pos + 3, Append(Below(frames), f))
           /\ nodes' = Append(nodes, Function("int", name, <<>>, Nil))
    <3>1. CASE name = ";"
          BY <1>18, <2>2, <3>1 DEF ParseDeclaration, End
    <3>2. CASE name = End
          BY <1>18, <2>2, <3>2 DEF ParseDeclaration, End
    <3>3. CASE name \notin {";", End} /\ ~IsIdentifier(name)
          BY <1>18, <3>3 DEF ParseDeclaration
    <3>4. CASE IsIdentifier(name)
          BY <1>18, <2>2, <3>4 DEF ParseDeclaration
    <3>5. QED  BY <3>1, <3>2, <3>3, <3>4
  <2>4. CASE name = ";" /\ Leave(pos + 2, Append(nodes, [type |-> "STRUCT"]))
    <3>1. pos + 2 \in P
          BY <1>2, <1>4, <2>4 DEF End
    <3>2. QED  BY <1>3, <1>4, <2>1, <2>4, <3>1, Left
  <2>5. CASE nodes' = nodes /\ (Halt("crash") \/ Halt("error"))
        BY <1>1, <2>5, HaltsHere DEF Stopped
  <2>6. CASE name # End /\ EnterVariable(pos + 2, name, <<>>) /\ nodes' = nodes
        BY <1>1, <1>2, <1>4, <2>1, <2>6, VariableEntered
  <2>7. CASE /\ name # End /\ At(pos + 2) = "(" /\ Go(pos + 3, Append(Below(frames), f))
             /\ nodes' = Append(nodes, Function("int", name, <<>>, Nil))
    <3>1. pos + 3 \in P
          BY <1>2, <1>4, <2>7 DEF End
    <3>2. Shaped(f) /\ f.at = "PARAMETERS" /\ f.node = Len(nodes) + 1
          BY DEF Shaped, FrameNames, StatementFrames
    <3> HIDE DEF f
    <3>3. /\ nodes' # <<>> /\ Len(nodes') = Len(nodes) + 1 /\ IsSequence(nodes')
          /\ nodes'[Len(nodes')] = Function("int", name, <<>>, Nil)
          BY <1>1, <2>7, NodePushed
    <3>4. Found(nodes', f)
          BY <3>2, <3>3 DEF Found, AfterExpression, AfterBody, Function
    <3>5. QED  BY <1>4, <2>1, <2>7, <3>1, <3>2, <3>3, <3>4, Moved
  <2>8. QED  BY <2>3, <2>4, <2>5, <2>6, <2>7
<1>19. QED
      BY <1>7, <1>8, <1>9, <1>10, <1>11, <1>12, <1>13, <1>14, <1>15, <1>16, <1>17, <1>18

\* The ")" behind a condition, and the body.
LEMMA ConditionEnded ==
    ASSUME Step, switch' = switch, NEW name \in {"IF", "WHILE"}, NEW f, Plain(f),
           f.at \in AfterBody \ {"SWITCH_BODY"}, name = "IF" => f.at = "THEN",
           EndCondition(name, f)
    PROVE  ParserInv'
<1>1. Frame.at = name
      BY DEF EndCondition, Returned
<1>2. IsSequence(nodes) /\ nodes # <<>> /\ IsSequence(Below(nodes))
      BY <1>1, Running, FoundThere, NodePushed DEF AfterExpression
<1>3. CASE Tok # ")"
      BY <1>2, <1>3, HaltsHere DEF EndCondition, Stopped
<1>4. CASE Tok = ")"
  <2>1. EnterBody(pos + 1, Append(Below(frames), f)) /\ nodes' = Below(nodes)
        BY <1>4 DEF EndCondition
  <2>2. pos + 1 \in 1 .. Len(toks) + 1
        BY <1>4, Ahead DEF End
  <2>3. QED  BY <1>1, <1>2, <2>1, <2>2, PlainFrame, BodyAwaited
<1>5. QED  BY <1>3, <1>4

\* The methods of if, while, do and return, once an expression or a body is there.
LEMMA ControlSteps ==
    ASSUME Step, switch' = switch,
           \/ EndReturn \/ EndIfCondition \/ EndThen \/ EndElseIf \/ EndElse
           \/ EndWhileCondition \/ EndWhile \/ EndDoBody \/ EndDoWhile
    PROVE  ParserInv'
<1> DEFINE P == 1 .. Len(toks) + 1
<1>1. /\ IsSequence(nodes) /\ Len(toks) \in Nat /\ pos \in P
      /\ Framed(frames, switch) /\ Frame = frames[Len(frames)]
      /\ Frame.at \notin {"RUN", "ROOT"} => Len(frames) > 1
      BY Running
<1>2. /\ Tok # End => pos + 1 \in P
      /\ Tok # End /\ At(pos + 1) # End => pos + 2 \in P
      BY Ahead
<1>3. nodes # <<>>
      BY FoundThere DEF EndReturn, EndIfCondition, EndThen, EndElseIf, EndElse, EndCondition,
         EndWhileCondition, EndWhile, EndDoBody, EndDoWhile, Returned, AfterExpression, AfterBody
<1>4. /\ IsSequence(Below(nodes))
      /\ \A e : /\ IsSequence(Replaced(e)) /\ Replaced(e) # <<>>
                /\ Replaced(e)[Len(Replaced(e))] = e
      BY <1>1, <1>3, NodePushed DEF Replaced
<1>5. ASSUME NEW p \in P, NEW node, Frame.at \in {"THEN", "ELSE", "ELSE_IF"},
             node.type = "IF", Leave(p, Replaced(node))
      PROVE  ParserInv'
  <2>1. Delivered(Replaced(node), Frame.at)
        BY <1>4, <1>5 DEF Delivered
  <2>2. Go(p, Below(frames)) /\ nodes' = Replaced(node)
        BY <1>5 DEF Leave
  <2>3. Frame.at \notin SwitchFrames \cup {"KEYWORD"} /\ Len(frames) > 1 /\ IsSequence(nodes')
        BY <1>1, <1>4, <1>5, <2>2 DEF SwitchFrames
  <2>4. QED  BY <2>1, <2>2, <2>3, Returns
<1>6. CASE EndReturn
  <2>1. CASE Tok = ";"
    <3>1. Leave(pos + 1, Replaced(Return(Top))) /\ Frame.at = "RETURN" /\ pos + 1 \in P
          BY <1>2, <1>6, <2>1 DEF EndReturn, Returned, End
    <3>2. QED  BY <1>4, <3>1, Left
  <2>2. CASE Tok # ";"
        BY <1>1, <1>6, <2>2, HaltsHere DEF EndReturn, Stopped
  <2>3. QED  BY <2>1, <2>2
<1>7. CASE EndIfCondition
  <2> DEFINE f == [at |-> "THEN", cond |-> Top]
  <2>1. Plain(f) /\ f.at = "THEN"
        BY DEF Plain, FrameNames, StatementFrames, SwitchFrames
  <2>2. EndCondition("IF", f)
        BY <1>7 DEF EndIfCondition
  <2> HIDE DEF f
  <2>3. QED  BY <2>1, <2>2, ConditionEnded DEF AfterBody
<1>8. CASE EndWhileCondition
  <2> DEFINE f == [at |-> "WHILE_BODY", cond |-> Top]
  <2>1. Plain(f) /\ f.at = "WHILE_BODY"
        BY DEF Plain, FrameNames, StatementFrames, SwitchFrames
  <2>2. EndCondition("WHILE", f)
        BY <1>8 DEF EndWhileCondition
  <2> HIDE DEF f
  <2>3. QED  BY <2>1, <2>2, ConditionEnded DEF AfterBody
<1>9. CASE EndThen
  <2> DEFINE node == [cond |-> Frame.cond, body |-> Top.statements]
             e == [at |-> "ELSE", if |-> node]
             f == [at |-> "ELSE_IF", if |-> node]
             k == [at |-> "KEYWORD"]
  <2>1. Frame.at = "THEN"
        BY <1>9 DEF EndThen, Returned
  <2>2. CASE Tok # "else"
    <3>1. Leave(pos, Replaced(If(node.cond, node.body, Nil)))
          BY <1>9, <2>2 DEF EndThen
    <3>2. If(node.cond, node.body, Nil).type = "IF"
          BY DEF If
    <3>3. QED  BY <1>1, <1>5, <2>1, <3>1, <3>2
  <2>3. CASE Tok = "else" /\ At(pos + 1) # "if"
    <3>1. EnterBody(pos + 1, Append(Below(frames), e)) /\ nodes' = Below(nodes)
          BY <1>9, <2>3 DEF EndThen
    <3>2. Plain(e) /\ e.at = "ELSE"
          BY DEF Plain, FrameNames, StatementFrames, SwitchFrames
    <3> HIDE DEF e
    <3>3. Shaped(e) /\ e.at \in AfterBody \ {"SWITCH_BODY"} /\ pos + 1 \in P
          BY <1>2, <2>3, <3>2, PlainFrame DEF AfterBody, End
    <3>4. QED  BY <1>4, <2>1, <3>1, <3>2, <3>3, BodyAwaited
  <2>4. CASE Tok = "else" /\ At(pos + 1) = "if"
    <3>1. Go(pos + 1, Append(Append(Below(frames), f), k)) /\ nodes' = Below(nodes)
          BY <1>9, <2>4 DEF EndThen
    <3>2. Plain(f) /\ f.at = "ELSE_IF" /\ Plain(k) /\ k.at = "KEYWORD"
          BY DEF Plain, FrameNames, StatementFrames, SwitchFrames
    <3> HIDE DEF f, k
    <3>3. /\ Shaped(f) /\ f.at \notin SwitchFrames /\ Shaped(k) /\ k.at \notin SwitchFrames
          /\ Found(nodes', k)
          BY <3>2, PlainFrame, NothingToFind DEF AfterExpression, AfterBody
    <3> DEFINE fs == Append(Below(frames), f)
    <3>4. Framed(fs, switch) /\ fs[Len(fs)] = f
          BY <1>1, <2>1, <3>2, <3>3, Turned DEF SwitchFrames
    <3>5. Go(pos + 1, Append(fs, k))
          BY <3>1
    <3> HIDE DEF fs
    <3>6. Calls(fs[Len(fs)].at, k.at)
          BY <3>2, <3>4 DEF Calls, AfterExpression, AfterBody
    <3>7. Sound(pos + 1, nodes', Append(fs, k), switch)
          BY <2>4, <3>3, <3>4, <3>6, Called
    <3>8. pos + 1 \in P /\ IsSequence(nodes')
          BY <1>2, <1>4, <2>4, <3>1 DEF End
    <3>9. QED  BY <3>5, <3>7, <3>8, GoesOn DEF Go
  <2>5. QED  BY <2>2, <2>3, <2>4
<1>10. CASE EndElseIf
      BY <1>1, <1>5, <1>10 DEF EndElseIf, Returned, WithElse, If
<1>11. CASE EndElse
      BY <1>1, <1>5, <1>11 DEF EndElse, Returned, WithElse, If
<1>12. CASE EndWhile
      BY <1>1, <1>4, <1>12, Left DEF EndWhile, Returned
<1>13. CASE EndDoBody
  <2>1. CASE Tok = "while" /\ At(pos + 1) = "("
    <3>1. /\ Await(pos + 2, [at |-> "DO_WHILE", body |-> Top.statements]) /\ nodes' = Below(nodes)
          /\ Frame.at = "DO" /\ pos + 2 \in P
          BY <1>2, <1>13, <2>1 DEF EndDoBody, Returned, End
    <3>2. QED  BY <1>4, <3>1, Awaited DEF AfterExpression
  <2>2. CASE ~(Tok = "while" /\ At(pos + 1) = "(")
        BY <1>1, <1>13, <2>2, HaltsHere DEF EndDoBody, Stopped
  <2>3. QED  BY <2>1, <2>2
<1>14. CASE EndDoWhile
  <2>1. CASE Tok = ")" /\ At(pos + 1) = ";"
    <3>1. /\ Leave(pos + 2, Replaced(DoWhile(Frame.body, Top)))
          /\ Frame.at = "DO_WHILE" /\ pos + 2 \in P
          BY <1>2, <1>14, <2>1 DEF EndDoWhile, Returned, End
    <3>2. QED  BY <1>4, <3>1, Left
  <2>2. CASE ~(Tok = ")" /\ At(pos + 1) = ";")
        BY <1>1, <1>14, <2>2, HaltsHere DEF EndDoWhile, Stopped
  <2>3. QED  BY <2>1, <2>2
<1>15. QED
      BY <1>6, <1>7, <1>8, <1>9, <1>10, <1>11, <1>12, <1>13, <1>14

\* The header of for, and its body.
LEMMA ForSteps ==
    ASSUME Step, switch' = switch, ParseForPart \/ EndForPart \/ EndForHeader \/ EndFor
    PROVE  ParserInv'
<1> DEFINE P == 1 .. Len(toks) + 1
<1>1. IsSequence(nodes) /\ Len(toks) \in Nat /\ pos \in P
      BY Running
<1>2. Tok # End => pos + 1 \in P
      BY Ahead
<1>3. ASSUME nodes # <<>>
      PROVE  IsSequence(Below(nodes)) /\ \A e : IsSequence(Replaced(e))
      BY <1>1, <1>3, NodePushed DEF Replaced
<1>4. ASSUME NEW parts, NEW more, Frame.at \in {"FOR", "FOR_PART"}, IsSequence(nodes'),
             Go(pos + Taken(parts), Append(Below(frames), ForPart("FOR", more))),
             Len(parts) < 2 => Tok # End
      PROVE  ParserInv'
  <2> DEFINE f == ForPart("FOR", more)
  <2>1. Plain(f) /\ f.at = "FOR"
        BY DEF ForPart, Plain, FrameNames, StatementFrames, SwitchFrames
  <2>2. Go(pos + Taken(parts), Append(Below(frames), f))
        BY <1>4
  <2> HIDE DEF f
  <2>3. Shaped(f) /\ Found(nodes', f)
        BY <2>1, PlainFrame, NothingToFind DEF AfterExpression, AfterBody
  <2>4. pos + Taken(parts) \in P
        BY <1>1, <1>2, <1>4 DEF Taken
  <2>5. QED  BY <1>4, <2>1, <2>2, <2>3, <2>4, Moved
<1>5. CASE ParseForPart
  <2>1. Frame.at = "FOR" /\ nodes' = nodes
        BY <1>5 DEF ParseForPart, Returned
  <2>2. CASE Tok = Closing(Frame.parts)
    <3>1. Tok # End
          BY <2>2 DEF Closing, End
    <3>2. Go(pos + Taken(Frame.parts),
             Append(Below(frames), ForPart("FOR", Append(Frame.parts, Nil))))
          BY <1>5, <2>2 DEF ParseForPart
    <3>3. QED  BY <1>1, <1>4, <2>1, <3>1, <3>2
  <2>3. CASE Tok # Closing(Frame.parts)
    <3>1. Await(pos, ForPart("FOR_PART", Frame.parts))
          BY <1>5, <2>3 DEF ParseForPart
    <3>2. ForPart("FOR_PART", Frame.parts).at \in AfterExpression \ {"SWITCH"}
          BY DEF ForPart, AfterExpression
    <3>3. QED  BY <1>1, <2>1, <3>1, <3>2, Awaited
  <2>4. QED  BY <2>2, <2>3
<1>6. CASE EndForPart
  <2>1. Frame.at = "FOR_PART" /\ nodes # <<>>
        BY <1>6, FoundThere DEF EndForPart, Returned, AfterExpression
  <2>2. CASE Len(Frame.parts) < 2 /\ Tok # ";"
        BY <1>1, <1>6, <2>2, HaltsHere DEF EndForPart, Stopped
  <2>3. CASE ~(Len(Frame.parts) < 2 /\ Tok # ";")
    <3>1. /\ nodes' = Below(nodes)
          /\ Go(pos + Taken(Frame.parts),
                Append(Below(frames), ForPart("FOR", Append(Frame.parts, Top))))
          BY <1>6, <2>3 DEF EndForPart
    <3>2. Len(Frame.parts) < 2 => Tok # End
          BY <2>3 DEF End
    <3>3. QED  BY <1>3, <1>4, <2>1, <3>1, <3>2
  <2>4. QED  BY <2>2, <2>3
<1>7. CASE EndForHeader
  <2>1. Frame.at = "FOR" /\ nodes' = nodes
        BY <1>7 DEF EndForHeader, Returned
  <2>2. CASE Tok # ")"
        BY <1>1, <1>7, <2>1, <2>2, HaltsHere DEF EndForHeader, Stopped
  <2>3. CASE Tok = ")"
    <3> DEFINE f == ForPart("FOR_BODY", Frame.parts)
    <3>1. EnterBody(pos + 1, Append(Below(frames), f)) /\ pos + 1 \in P
          BY <1>2, <1>7, <2>3 DEF EndForHeader, End
    <3>2. Plain(f) /\ f.at = "FOR_BODY"
          BY DEF ForPart, Plain, FrameNames, StatementFrames, SwitchFrames
    <3> HIDE DEF f
    <3>3. Shaped(f) /\ f.at \in AfterBody \ {"SWITCH_BODY"}
          BY <3>2, PlainFrame DEF AfterBody
    <3>4. QED  BY <1>1, <2>1, <3>1, <3>3, BodyAwaited
  <2>4. QED  BY <2>2, <2>3
<1>8. CASE EndFor
  <2>1. Frame.at = "FOR_BODY" /\ nodes # <<>>
        BY <1>8, FoundThere DEF EndFor, Returned, AfterBody
  <2>2. \E e : Leave(pos, Replaced(e))
        BY <1>8 DEF EndFor
  <2>3. QED  BY <1>1, <1>3, <2>1, <2>2, Left
<1>9. QED  BY <1>5, <1>6, <1>7, <1>8

\* parse_switch goes on, or returns, in a frame of its own.
LEMMA SwitchOpen ==
    ASSUME Step, Frame.at \in SwitchFrames
    PROVE  LET fs == Below(frames)
           IN  /\ switch = Len(frames) /\ Framed(fs, Frame.saved) /\ Len(fs) = Len(frames) - 1
               /\ Calls(fs[Len(fs)].at, Frame.at)
<1>1. Framed(frames, switch) /\ Frame = frames[Len(frames)] /\ Len(frames) > 1
      BY Running DEF SwitchFrames
<1>2. /\ switch = Len(frames) /\ Framed(Below(frames), Frame.saved)
      /\ Len(Below(frames)) = Len(frames) - 1
      /\ Below(frames)[Len(frames) - 1] = frames[Len(frames) - 1]
      /\ Calls(frames[Len(frames) - 1].at, Frame.at)
      BY <1>1, SwitchPopped
<1>3. QED  BY <1>2

\* A frame of parse_switch on top of fs, which keeps the case list before it.
LEMMA SwitchEntered ==
    ASSUME NEW fs, NEW sw, Framed(fs, sw), NEW f, Shaped(f), f.at \in SwitchFrames,
           f.saved = sw, Calls(fs[Len(fs)].at, f.at)
    PROVE  LET gs == Append(fs, f)
           IN  Framed(gs, Len(fs) + 1) /\ gs[Len(gs)] = f
<1>1. /\ Framed(Append(fs, f), Len(fs) + 1) /\ Len(Append(fs, f)) = Len(fs) + 1
      /\ Append(fs, f)[Len(fs) + 1] = f
      BY SwitchPushed
<1>2. QED  BY <1>1

\* A frame of parse_switch stays one with a longer list.
LEMMA ListGrown ==
    ASSUME NEW f, Shaped(f), f.at \in SwitchFrames, NEW c, NEW g, g = [f EXCEPT !.cases = c]
    PROVE  Shaped(g) /\ g.at = f.at /\ g.saved = f.saved
<1>1. CASE f.at = "SWITCH"
  <2>1. f = [at |-> "SWITCH", cases |-> f.cases, saved |-> f.saved]
        BY <1>1 DEF Shaped
  <2>2. g = [at |-> "SWITCH", cases |-> c, saved |-> f.saved]
        BY <2>1
  <2>3. QED  BY <1>1, <2>2 DEF Shaped, FrameNames, StatementFrames
<1>2. CASE f.at = "SWITCH_BODY"
  <2>1. f = [at |-> "SWITCH_BODY", exp |-> f.exp, cases |-> f.cases, saved |-> f.saved]
        BY <1>2 DEF Shaped
  <2>2. g = [at |-> "SWITCH_BODY", exp |-> f.exp, cases |-> c, saved |-> f.saved]
        BY <2>1
  <2>3. QED  BY <1>2, <2>2 DEF Shaped, FrameNames, StatementFrames
<1>3. QED  BY <1>1, <1>2 DEF SwitchFrames

\* Frames that keep their names, and what parse_switch put aside, stay in order.
LEMMA Renewed ==
    ASSUME NEW fs, NEW sw, Framed(fs, sw), NEW gs, IsSequence(gs), Len(gs) = Len(fs),
           \A i \in DOMAIN fs : /\ gs[i].at = fs[i].at /\ Shaped(gs[i])
                                /\ fs[i].at \in SwitchFrames => gs[i].saved = fs[i].saved
    PROVE  Framed(gs, sw)
<1>1. IsSequence(fs) /\ Len(fs) \in Nat /\ DOMAIN fs = 1 .. Len(fs) /\ fs # <<>> /\ Len(fs) >= 1
      BY Positions DEF Framed, Stack
<1>2. DOMAIN gs = DOMAIN fs
      BY <1>1, Positions
<1>3. \A i \in DOMAIN fs : /\ gs[i].at = fs[i].at /\ Shaped(gs[i])
                           /\ fs[i].at \in SwitchFrames => gs[i].saved = fs[i].saved
      OBVIOUS
<1>4. Stack(gs)
  <2>1. 1 \in DOMAIN fs /\ fs[1].at \in {"RUN", "ROOT"}
        BY <1>1 DEF Framed, Stack
  <2>2. ASSUME NEW i \in DOMAIN gs, i < Len(gs)
        PROVE  Calls(gs[i].at, gs[i + 1].at)
    <3>1. i \in DOMAIN fs /\ i + 1 \in DOMAIN fs /\ Calls(fs[i].at, fs[i + 1].at)
          BY <1>1, <1>2, <2>2 DEF Framed, Stack
    <3>2. QED  BY <1>3, <3>1
  <2>3. gs # <<>>
        BY <1>1, <1>2
  <2>4. QED  BY <1>2, <1>3, <2>1, <2>2, <2>3 DEF Stack
<1>5. PendingSwitches(gs) = PendingSwitches(fs)
      BY <1>2, <1>3 DEF PendingSwitches
<1>6. OwnList(gs, sw)
  <2>1. Innermost(gs, sw, Len(gs) + 1)
        BY <1>2, <1>5 DEF Framed, OwnList, Innermost
  <2>2. ASSUME NEW i \in PendingSwitches(gs)
        PROVE  Innermost(gs, gs[i].saved, i)
    <3>1. Innermost(fs, fs[i].saved, i) /\ gs[i].saved = fs[i].saved
          BY <1>3, <1>5 DEF Framed, OwnList, PendingSwitches
    <3>2. QED  BY <1>5, <3>1 DEF Innermost
  <2>3. QED  BY <2>1, <2>2 DEF OwnList
<1>7. QED  BY <1>4, <1>6 DEF Framed

\* The condition of a switch, and its cases.
LEMMA CaseSteps ==
    ASSUME Step, switch' = switch, EndSwitchCondition \/ EndCase
    PROVE  ParserInv'
<1>1. /\ IsSequence(nodes) /\ pos \in 1 .. Len(toks) + 1
      /\ Framed(frames, switch) /\ Frame = frames[Len(frames)]
      /\ Frame.at \notin {"RUN", "ROOT"} => Len(frames) > 1
      BY Running
<1>2. nodes # <<>>
      BY FoundThere DEF EndSwitchCondition, EndCondition, EndCase, Returned, AfterExpression
<1>3. IsSequence(Below(nodes)) /\ \A e : IsSequence(Replaced(e))
      BY <1>1, <1>2, NodePushed DEF Replaced
<1>4. CASE EndSwitchCondition
  <2> DEFINE f == [at |-> "SWITCH_BODY", exp |-> Top, cases |-> Frame.cases,
                   saved |-> Frame.saved]
             fs == Below(frames)
  <2>1. Frame.at = "SWITCH" /\ EndCondition("SWITCH", f)
        BY <1>4 DEF EndSwitchCondition, EndCondition, Returned
  <2>2. CASE Tok # ")"
        BY <1>1, <2>1, <2>2, HaltsHere DEF EndCondition, Stopped
  <2>3. CASE Tok = ")"
    <3>1. EnterBody(pos + 1, Append(fs, f)) /\ nodes' = Below(nodes)
          BY <2>1, <2>3 DEF EndCondition
    <3>2. pos + 1 \in 1 .. Len(toks) + 1
          BY <2>3, Ahead DEF End
    <3>3. Shaped(f) /\ f.at = "SWITCH_BODY" /\ f.saved = Frame.saved
          BY DEF Shaped, FrameNames, StatementFrames
    <3> HIDE DEF f
    <3>4. /\ switch = Len(frames) /\ Framed(fs, Frame.saved) /\ Len(fs) = Len(frames) - 1
          /\ Calls(fs[Len(fs)].at, "SWITCH")
          BY <2>1, SwitchOpen DEF SwitchFrames
    <3> HIDE DEF fs
    <3>5. Calls(fs[Len(fs)].at, f.at) /\ f.at \in SwitchFrames
          BY <3>3, <3>4 DEF Calls, SwitchFrames
    <3>6. Len(fs) + 1 = switch
          BY <1>1, <3>4, Running
    <3> DEFINE gs == Append(fs, f)
    <3>7. Framed(gs, switch) /\ gs[Len(gs)] = f
          BY <3>3, <3>4, <3>5, <3>6, SwitchEntered
    <3>8. EnterBody(pos + 1, gs)
          BY <3>1
    <3> HIDE DEF gs
    <3>9. Calls(f.at, "BODY") /\ Calls(f.at, "SINGLE")
          BY <3>3 DEF Calls, AfterExpression, AfterBody
    <3>10. QED  BY <1>3, <3>1, <3>2, <3>7, <3>8, <3>9, BodyEntered
  <2>4. QED  BY <2>2, <2>3
<1>5. CASE EndCase
  <2> DEFINE rest == Below(frames)
             gs == IF switch = 0 THEN rest
                   ELSE [rest EXCEPT ![switch].cases = Append(@, Top.tok)]
             bad == Tok # ":" \/ Top.type # "LEAF" \/ Top.tok \notin Numbers
  <2>1. Frame.at = "CASE"
        BY <1>5 DEF EndCase, Returned
  <2>2. CASE bad
        BY <1>1, <1>5, <2>2, HaltsHere DEF EndCase, Stopped
  <2>3. CASE ~bad
    <3>1. Go(pos + 1, gs) /\ nodes' = Replaced(Case(Top)) /\ Tok = ":"
          BY <1>5, <2>3 DEF EndCase
    <3>2. /\ Framed(rest, switch) /\ Len(rest) = Len(frames) - 1
          /\ rest[Len(frames) - 1] = frames[Len(frames) - 1]
          /\ Calls(frames[Len(frames) - 1].at, Frame.at)
          BY <1>1, <2>1, Popped DEF SwitchFrames
    <3>3. Calls(rest[Len(rest)].at, "CASE") /\ Len(rest) \in DOMAIN rest
          BY <2>1, <3>2, Positions DEF Framed, Stack
    <3>4. Framed(gs, switch) /\ Len(gs) = Len(rest) /\ gs[Len(rest)].at = rest[Len(rest)].at
      <4>1. CASE switch = 0
            BY <3>2, <4>1
      <4>2. CASE switch # 0
        <5> DEFINE g == [rest[switch] EXCEPT !.cases = Append(rest[switch].cases, Top.tok)]
        <5>1. gs = [rest EXCEPT ![switch] = g]
              BY <4>2
        <5> HIDE DEF rest, gs
        <5>2. rest[switch].at \in SwitchFrames /\ Shaped(rest[switch])
              BY <3>2, <4>2 DEF Framed, OwnList, Innermost, PendingSwitches, Stack
        <5>3. Shaped(g) /\ g.at = rest[switch].at /\ g.saved = rest[switch].saved
              BY <5>2, ListGrown
        <5> HIDE DEF g
        <5>4. /\ IsSequence(gs) /\ Len(gs) = Len(rest)
              /\ \A i \in DOMAIN rest : i # switch => gs[i] = rest[i]
              /\ switch \in DOMAIN rest => gs[switch] = g
          <6>1. IsSequence(rest)
                BY <3>2 DEF Framed, Stack
          <6>2. QED  BY <5>1, <6>1, Updated
        <5>5. \A i \in DOMAIN rest : Shaped(rest[i])
              BY <3>2 DEF Framed, Stack
        <5>6. \A i \in DOMAIN rest :
                 /\ gs[i].at = rest[i].at /\ Shaped(gs[i])
                 /\ rest[i].at \in SwitchFrames => gs[i].saved = rest[i].saved
              BY <5>3, <5>4, <5>5
        <5>7. Framed(gs, switch)
              BY <3>2, <5>4, <5>6, Renewed
        <5>8. QED  BY <3>3, <5>4, <5>6, <5>7
      <4>3. QED  BY <4>1, <4>2
    <3> HIDE DEF rest, gs
    <3>5. Calls(gs[Len(gs)].at, "CASE")
          BY <3>3, <3>4
    <3>6. Sound(pos + 1, nodes', gs, switch)
          BY <3>4, <3>5, BackIn DEF Delivered
    <3>7. pos + 1 \in 1 .. Len(toks) + 1 /\ IsSequence(nodes')
          BY <1>3, <3>1, Ahead DEF End
    <3>8. QED  BY <3>1, <3>6, <3>7, GoesOn DEF Go
  <2>4. QED  BY <2>2, <2>3
<1>6. QED  BY <1>4, <1>5

\* parse_switch begins, and ends.
LEMMA SwitchSteps ==
    ASSUME Step, ParseSwitch \/ EndSwitch
    PROVE  ParserInv'
<1> DEFINE fs == Below(frames)
<1>1. /\ IsSequence(nodes) /\ pos \in 1 .. Len(toks) + 1
      /\ Framed(frames, switch) /\ Frame = frames[Len(frames)] /\ Len(frames) \in Nat
      /\ IfAfterElse(pos, frames)
      /\ Frame.at \notin {"RUN", "ROOT"} => Len(frames) > 1
      BY Running
<1>2. CASE ParseSwitch
  <2> DEFINE f == [at |-> "SWITCH", cases |-> <<>>, saved |-> switch]
             gs == Append(fs, f)
  <2>1. /\ Frame.at = "KEYWORD" /\ Tok = "switch" /\ Condition(f)
        /\ switch' = Len(frames) /\ nodes' = nodes
        BY <1>2 DEF ParseSwitch, AtKeyword, Returned
  <2>2. CASE At(pos + 1) # "("
        BY <1>1, <2>1, <2>2, HaltsHere DEF Condition, Stopped
  <2>3. CASE At(pos + 1) = "("
    <3>1. Go(pos + 2, gs \o Root) /\ pos + 2 \in 1 .. Len(toks) + 1
          BY <2>1, <2>3, Ahead DEF Condition, Await, End
    <3>2. /\ Framed(fs, switch) /\ Len(fs) = Len(frames) - 1
          /\ fs[Len(frames) - 1] = frames[Len(frames) - 1]
          /\ Calls(frames[Len(frames) - 1].at, Frame.at)
          BY <1>1, <2>1, Popped DEF SwitchFrames
    <3>3. Shaped(f) /\ f.at = "SWITCH" /\ f.saved = switch
          BY DEF Shaped, FrameNames, StatementFrames
    <3>4. fs[Len(fs)].at # "ELSE_IF" /\ Calls(fs[Len(fs)].at, "KEYWORD")
          BY <1>1, <2>1, <3>2 DEF IfAfterElse, Tok
    <3> HIDE DEF f, fs
    <3>5. Calls(fs[Len(fs)].at, f.at) /\ f.at \in SwitchFrames
          BY <3>3, <3>4 DEF Calls, SwitchFrames
    <3>6. Framed(gs, Len(fs) + 1) /\ gs[Len(gs)] = f
          BY <3>2, <3>3, <3>5, SwitchEntered
    <3>7. Len(fs) + 1 = switch'
          BY <1>1, <2>1, <3>2
    <3> HIDE DEF gs
    <3>8. Calls(gs[Len(gs)].at, "ROOT")
          BY <3>3, <3>6 DEF Calls, AfterExpression, AfterBody
    <3>9. QED  BY <1>1, <2>1, <3>1, <3>6, <3>7, <3>8, Waits
  <2>4. QED  BY <2>2, <2>3
<1>3. CASE EndSwitch
  <2>1. /\ Frame.at = "SWITCH_BODY" /\ switch' = Frame.saved
        /\ Leave(pos, Replaced(SwitchWith(Frame.exp, Top.statements, Frame.cases)))
        BY <1>3 DEF EndSwitch, Returned
  <2>2. IsSequence(nodes')
    <3>1. nodes # <<>>
          BY <2>1, FoundThere DEF AfterBody
    <3>2. QED  BY <1>1, <2>1, <3>1, NodePushed DEF Leave, Replaced
  <2>3. Framed(fs, switch') /\ Calls(fs[Len(fs)].at, "SWITCH_BODY")
        BY <2>1, SwitchOpen DEF SwitchFrames
  <2> HIDE DEF fs
  <2>4. Sound(pos, nodes', fs, switch')
        BY <2>3, BackIn DEF Delivered
  <2>5. QED  BY <1>1, <2>1, <2>2, <2>4, GoesOn DEF Leave, Go, fs
<1>4. QED  BY <1>2, <1>3

\* The function's node, if it is still there, is completed.
LEMMA NodeCompleted ==
    ASSUME IsSequence(nodes), NEW args, NEW body
    PROVE  IsSequence(Completed(args, body)) /\ Len(Completed(args, body)) = Len(nodes)
<1> DEFINE k == Frame.node
           e == [nodes[k] EXCEPT !.args = args, !.body = body]
           ns == [nodes EXCEPT ![k] = e]
<1>1. Completed(args, body) \in {nodes, ns}
      BY DEF Completed
<1>2. IsSequence(ns) /\ Len(ns) = Len(nodes)
  <2> HIDE DEF k, e
  <2>1. QED  BY Updated
<1>3. QED  BY <1>1, <1>2

\* Declarations of variables and functions.
LEMMA DeclarationSteps ==
    ASSUME Step, switch' = switch,
           EndValue \/ NextDeclarator \/ EndDeclaration \/ ParseParameter \/ EndParameters
             \/ EndFunction
    PROVE  ParserInv'
<1> DEFINE P == 1 .. Len(toks) + 1
<1>1. IsSequence(nodes) /\ Len(toks) \in Nat /\ pos \in P /\ Found(nodes, Frame) /\ Shaped(Frame)
      BY Running
<1>2. /\ Tok # End => pos + 1 \in P
      /\ Tok # End /\ At(pos + 1) # End => pos + 2 \in P
      /\ Tok # End /\ At(pos + 1) # End /\ At(pos + 2) # End => pos + 3 \in P
      BY Ahead
<1>3. \A e : IsSequence(Append(nodes, e))
      BY <1>1, NodePushed
<1>4. nodes # <<>> => IsSequence(Below(nodes))
      BY <1>1, Shortened
<1>5. CASE EndValue
  <2> DEFINE f == [at |-> "DECLARED",
                   list |-> Append(Frame.list, Variable("int", Frame.name, Top))]
  <2>1. Frame.at = "VALUE" /\ Go(pos, Append(Below(frames), f)) /\ nodes' = Below(nodes)
        BY <1>5 DEF EndValue, Returned
  <2>2. Plain(f) /\ f.at = "DECLARED"
        BY DEF Plain, FrameNames, StatementFrames, SwitchFrames
  <2> HIDE DEF f
  <2>3. Shaped(f) /\ Found(nodes', f)
        BY <2>2, PlainFrame, NothingToFind DEF AfterExpression, AfterBody
  <2>4. IsSequence(nodes')
        BY <1>4, <2>1, FoundThere DEF AfterExpression
  <2>5. QED  BY <1>1, <2>1, <2>2, <2>3, <2>4, Moved
<1>6. CASE NextDeclarator
  <2> DEFINE p == pos + (IF At(pos + 1) = End THEN 1 ELSE 2)
  <2>1. /\ Frame.at = "DECLARED" /\ Tok # End /\ nodes' = nodes
        /\ EnterVariable(p, At(pos + 1), Frame.list)
        BY <1>6 DEF NextDeclarator, Returned, End
  <2>2. p \in P
        BY <1>2, <2>1
  <2>3. QED  BY <2>1, <2>2, VariableEntered
<1>7. CASE EndDeclaration
  <2>1. Frame.at = "DECLARED"
        BY <1>7 DEF EndDeclaration, Returned
  <2>2. CASE Tok # ";"
        BY <1>1, <1>7, <2>2, HaltsHere DEF EndDeclaration, Stopped
  <2>3. CASE Tok = ";"
    <3>1. \E e : Leave(pos + 1, Append(nodes, e))
          BY <1>7, <2>3 DEF EndDeclaration
    <3>2. QED  BY <1>2, <1>3, <2>1, <2>3, <3>1, Left DEF End
  <2>4. QED  BY <2>2, <2>3
<1>8. CASE ParseParameter
  <2> DEFINE named == IsIdentifier(At(pos + 1))
             next == pos + (IF named THEN 2 ELSE 1)
             arg == Variable("int", IF named THEN At(pos + 1) ELSE "", Nil)
             p == IF At(next) = "," THEN next + 1 ELSE next
             f == [Frame EXCEPT !.args = Append(@, arg)]
             early == Tok \in Untyped \/ (Tok \in DataTypes /\ At(pos + 1) = End)
             wrong == Tok \notin DataTypes \/ At(next) \notin {",", ")"}
  <2>1. Frame.at = "PARAMETERS" /\ nodes' = nodes
        BY <1>8 DEF ParseParameter, Returned
  <2>2. CASE early \/ wrong
        BY <1>1, <1>8, <2>1, <2>2, HaltsHere DEF ParseParameter, Stopped
  <2>3. CASE ~early /\ ~wrong
    <3>1. Go(p, Append(Below(frames), f))
          BY <1>8, <2>3 DEF ParseParameter
    <3>2. Tok # End
          BY <2>3, Tokens
    <3>3. next \in P
      <4>1. CASE named
        <5>1. At(pos + 1) # End
              BY <4>1, Tokens
        <5>2. QED  BY <1>2, <3>2, <4>1, <5>1
      <4>2. CASE ~named
            BY <1>2, <3>2, <4>2
      <4>3. QED  BY <4>1, <4>2
    <3>4. p \in P
          BY <3>3, Behind DEF End
    <3>5. Frame = [at |-> "PARAMETERS", node |-> Frame.node, args |-> Frame.args]
          BY <1>1, <2>1 DEF Shaped
    <3> HIDE DEF arg
    <3>6. f = [at |-> "PARAMETERS", node |-> Frame.node, args |-> Append(Frame.args, arg)]
          BY <3>5
    <3>7. Shaped(f) /\ f.at = "PARAMETERS" /\ f.node = Frame.node
          BY <3>6 DEF Shaped, FrameNames, StatementFrames
    <3> HIDE DEF f, p
    <3>8. Found(nodes', f)
          BY <1>1, <2>1, <3>7 DEF Found, AfterExpression, AfterBody
    <3>9. QED  BY <1>1, <2>1, <3>1, <3>4, <3>7, <3>8, Moved
  <2>4. QED  BY <2>2, <2>3
<1>9. CASE EndParameters
  <2> DEFINE f == [Frame EXCEPT !.at = "FUNCTION"]
  <2>1. Frame.at = "PARAMETERS" /\ Tok # End
        BY <1>9 DEF EndParameters, Returned, End
  <2>2. CASE At(pos + 1) = "{"
    <3>1. EnterBody(pos + 1, Append(Below(frames), f)) /\ nodes' = nodes
          BY <1>9, <2>2 DEF EndParameters
    <3>2. Frame = [at |-> "PARAMETERS", node |-> Frame.node, args |-> Frame.args]
          BY <1>1, <2>1 DEF Shaped
    <3>3. f = [at |-> "FUNCTION", node |-> Frame.node, args |-> Frame.args]
          BY <3>2
    <3>4. Shaped(f) /\ f.at \in AfterBody \ {"SWITCH_BODY"}
          BY <3>3 DEF Shaped, FrameNames, StatementFrames, AfterBody
    <3> HIDE DEF f
    <3>5. QED  BY <1>1, <1>2, <2>1, <3>1, <3>4, BodyAwaited
  <2>3. CASE At(pos + 1) = ";"
    <3>1. Leave(pos + 2, Completed(Frame.args, Nil)) /\ pos + 2 \in P
          BY <1>2, <1>9, <2>1, <2>3 DEF EndParameters, End
    <3>2. IsSequence(Completed(Frame.args, Nil))
          BY <1>1, NodeCompleted
    <3>3. QED  BY <2>1, <3>1, <3>2, Left
  <2>4. CASE At(pos + 1) \notin {"{", ";"}
        BY <1>1, <1>9, <2>4, HaltsHere DEF EndParameters, Stopped
  <2>5. QED  BY <2>2, <2>3, <2>4
<1>10. CASE EndFunction
  <2> DEFINE ns == IF Len(nodes) > Frame.node THEN Completed(Frame.args, Top) ELSE nodes
  <2>1. Frame.at = "FUNCTION" /\ Leave(pos, Below(ns))
        BY <1>10 DEF EndFunction, Returned
  <2>2. IsSequence(ns) /\ Len(ns) = Len(nodes)
        BY <1>1, NodeCompleted
  <2>3. nodes # <<>>
        BY <2>1, FoundThere DEF AfterBody
  <2>4. Len(nodes) >= 1
        BY <1>1, <2>3, Positions
  <2> HIDE DEF ns
  <2>5. ns # <<>>
        BY <2>2, <2>4
  <2>6. IsSequence(Below(ns))
        BY <2>2, <2>5, Shortened
  <2>7. QED  BY <1>1, <2>1, <2>6, Left
<1>11. QED  BY <1>5, <1>6, <1>7, <1>8, <1>9, <1>10

\* Each step of the methods of statements leaves the parser in order.
LEMMA StatementSteps ==
    ASSUME Step, switch' = switch, StatementNext
    PROVE  ParserInv'
BY BodySteps, KeywordSteps, ControlSteps, ForSteps, CaseSteps, DeclarationSteps DEF StatementNext

-----------------------------------------------------------------------------
(* The top level *)

\* parse_next calls a method, and below it the one that adds the result.
LEMMA TopCalled ==
    ASSUME Step, switch' = switch, Frame.at = "RUN", nodes' = nodes,
           NEW f, f.at \in {"TOP", "GLOBAL"}, NEW g, g.at \in {"LOOP", "KEYWORD"},
           Go(pos, frames \o <<f, g>>)
    PROVE  ParserInv'
<1>1. /\ IsSequence(nodes) /\ pos \in 1 .. Len(toks) + 1
      /\ Framed(frames, switch) /\ Frame = frames[Len(frames)] /\ IsSequence(frames)
      BY Running
<1>2. Plain(f) /\ Plain(g)
      BY DEF Plain, FrameNames, StatementFrames, SwitchFrames
<1>3. Calls("RUN", f.at) /\ Calls(f.at, g.at)
      BY DEF Calls, AfterExpression, AfterBody
<1> DEFINE fs == Append(frames, f)
<1>4. Framed(fs, switch) /\ fs[Len(fs)] = f
      BY <1>1, <1>2, <1>3, PlainFrame, Pushed
<1> HIDE DEF fs
<1>5. Shaped(g) /\ g.at \notin SwitchFrames /\ Found(nodes, g)
      BY <1>2, PlainFrame, NothingToFind DEF AfterExpression, AfterBody
<1>6. Sound(pos, nodes, Append(fs, g), switch)
      BY <1>3, <1>4, <1>5, Called
<1>7. frames \o <<f, g>> = Append(fs, g)
      BY <1>1, Concatenated DEF fs
<1>8. QED  BY <1>1, <1>6, <1>7, GoesOn DEF Go

\* What parse_next tells apart is disjoint.
LEMMA Apart ==
    /\ Keywords \cap Symbols = {} /\ End \notin Keywords \cup Symbols
    /\ Operators \cap (Keywords \cup Symbols \cup {End}) = {}
    /\ \A t : IsOperand(t) <=> t \notin Keywords \cup Symbols \cup Operators \cup {End}
BY NoOperators DEF IsOperand, Keywords, DataTypes, Symbols, End

\* parse_next calls a method, or stops.
LEMMA NextSteps ==
    ASSUME Step, ParseNext
    PROVE  ParserInv'
<1>1. /\ IsSequence(nodes) /\ pos \in 1 .. Len(toks) + 1
      /\ Framed(frames, switch) /\ Frame = frames[Len(frames)] /\ IsSequence(frames)
      /\ Found(nodes, Frame) /\ IfAfterElse(pos, frames)
      BY Running
<1>2. Frame.at = "RUN" /\ switch' = switch
      BY DEF ParseNext, Returned
<1>3. CASE Tok = End
  <2>1. Halt("ok") /\ nodes' = nodes
        BY <1>3, Apart DEF ParseNext
  <2>2. QED  BY <1>1, <2>1, HaltsHere DEF Stopped
<1>4. CASE Tok \in Keywords
  <2>1. Go(pos, frames \o <<[at |-> "GLOBAL"], [at |-> "KEYWORD"]>>) /\ nodes' = nodes
        BY <1>4, Apart DEF ParseNext
  <2>2. QED  BY <1>2, <2>1, TopCalled
<1>5. CASE Tok \in Symbols
  <2> DEFINE f == [at |-> "TOP"]
             fs == Append(frames, f)
  <2>1. ParseSymbolToken(fs)
        BY <1>5, Apart DEF ParseNext
  <2>2. Plain(f) /\ f.at = "TOP"
        BY DEF Plain, FrameNames, StatementFrames, SwitchFrames
  <2>3. Calls("RUN", "TOP") /\ Calls("TOP", "BODY") /\ Calls("TOP", "SINGLE")
        BY DEF Calls, AfterExpression, AfterBody
  <2> HIDE DEF f
  <2>4. Framed(fs, switch) /\ fs[Len(fs)] = f
        BY <1>1, <1>2, <2>2, <2>3, PlainFrame, Pushed
  <2> HIDE DEF fs
  <2>5. fs[Len(fs)].at \notin AfterExpression \cup AfterBody \cup {"ELSE_IF"}
        BY <2>2, <2>4 DEF AfterExpression, AfterBody
  <2>6. QED  BY <1>2, <2>1, <2>2, <2>3, <2>4, <2>5, SymbolTaken
<1>6. CASE IsOperand(Tok)
  <2>1. Go(pos, frames \o <<[at |-> "TOP"], [at |-> "LOOP"]>>) /\ nodes' = nodes
        BY <1>6, Apart DEF ParseNext
  <2>2. QED  BY <1>2, <2>1, TopCalled
<1>7. CASE Tok \in Operators /\ Tok \notin Keywords \cup Symbols \cup {End}
  <2>1. \/ Halt("abort") /\ nodes' = nodes
        \/ pos' = pos /\ nodes' = nodes /\ frames' = frames /\ status' = status
        BY <1>7, Apart DEF ParseNext
  <2>2. CASE Halt("abort") /\ nodes' = nodes
        BY <1>1, <2>2, HaltsHere DEF Stopped
  <2>3. CASE pos' = pos /\ nodes' = nodes /\ frames' = frames /\ status' = status
    <3>1. Sound(pos, nodes, frames, switch)
          BY <1>1 DEF Sound, Framed
    <3>2. QED  BY <1>1, <1>2, <2>3, <3>1, GoesOn
  <2>4. QED  BY <2>1, <2>2, <2>3
<1>8. QED  BY <1>3, <1>4, <1>5, <1>6, <1>7 DEF IsOperand

\* What run waits for returns to it.
LEMMA EndSteps ==
    ASSUME Step, EndTop \/ EndGlobal \/ ReturnRoot
    PROVE  ParserInv'
<1>1. /\ IsSequence(nodes) /\ pos \in 1 .. Len(toks) + 1
      /\ Frame.at \notin {"RUN", "ROOT"} => Len(frames) > 1
      BY Running
<1>2. /\ nodes' = nodes /\ switch' = switch /\ Frame.at \in {"TOP", "GLOBAL", "ROOT"}
      /\ Len(frames) > 1 /\ Frame.at \notin SwitchFrames \cup {"KEYWORD"}
      BY <1>1 DEF EndTop, EndGlobal, ReturnRoot, Returned, SwitchFrames
<1>3. \/ Halt("abort")
      \/ nodes # <<>> /\ Go(pos, Below(frames))
      BY DEF EndTop, EndGlobal, ReturnRoot, Popping
<1>4. CASE Halt("abort")
      BY <1>1, <1>2, <1>4, HaltsHere DEF Stopped
<1>5. CASE nodes # <<>> /\ Go(pos, Below(frames))
  <2>1. Delivered(nodes', Frame.at)
        BY <1>2, <1>5 DEF Delivered
  <2>2. QED  BY <1>1, <1>2, <1>5, <2>1, Returns
<1>6. QED  BY <1>3, <1>4, <1>5

\* What the parser does with the tree leaves it one.
LEMMA TreeStays ==
    ASSUME ParserInv, ParserNext
    PROVE  IsSequence(tree') /\ Heights(tree')
<1>1. IsSequence(tree) /\ Heights(tree) /\ Len(nodes) \in Nat
      BY Positions DEF ParserInv, Steady
<1>2. ASSUME NEW ts, IsSequence(ts), Heights(ts), tree' = Grown(ts)
      PROVE  IsSequence(tree') /\ Heights(tree')
  <2> DEFINE e == [node |-> Top, height |-> Len(nodes)]
  <2>1. e.height \in Nat
        BY <1>1
  <2>2. tree' = Append(ts, e)
        BY <1>2 DEF Grown
  <2> HIDE DEF e
  <2>3. /\ IsSequence(tree') /\ DOMAIN tree' = 1 .. Len(ts) + 1
        /\ \A i \in 1 .. Len(ts) : tree'[i] = ts[i]
        /\ tree'[Len(ts) + 1] = e
        BY <1>2, <2>2, Appended
  <2>4. DOMAIN ts = 1 .. Len(ts) /\ Len(ts) \in Nat
        BY <1>2, Positions
  <2>5. QED  BY <1>2, <2>1, <2>3, <2>4 DEF Heights
<1>3. tree # <<>> => IsSequence(Front(tree)) /\ Heights(Front(tree))
  <2>1. SUFFICES ASSUME tree # <<>>
                 PROVE  IsSequence(Front(tree)) /\ Heights(Front(tree))
        OBVIOUS
  <2>2. /\ IsSequence(Front(tree)) /\ DOMAIN Front(tree) = 1 .. Len(tree) - 1
        /\ \A i \in 1 .. Len(tree) - 1 : Front(tree)[i] = tree[i]
        BY <1>1, <2>1, FrontIsBelow, Shortened
  <2>3. DOMAIN tree = 1 .. Len(tree) /\ Len(tree) \in Nat
        BY <1>1, Positions
  <2>4. QED  BY <1>1, <2>2, <2>3 DEF Heights
<1>4. CASE tree' = tree
      BY <1>1, <1>4
<1>5. CASE tree # <<>> /\ tree' = Front(tree)
      BY <1>3, <1>5
<1>6. CASE tree' = Grown(tree)
      BY <1>1, <1>2, <1>6
<1>7. CASE tree # <<>> /\ tree' = Grown(Front(tree))
      BY <1>2, <1>3, <1>7
<1>8. tree' = Mirrored(nodes') => tree' = tree \/ (tree # <<>> /\ tree' = Front(tree))
      BY DEF Mirrored
<1>9. ParseNext => tree' \in {tree, Mirrored(nodes'), Grown(tree)}
      BY DEF ParseNext, IsOperand
<1>10. QED
       BY <1>4, <1>5, <1>6, <1>7, <1>8, <1>9
       DEF ParserNext, ReturnRoot, ParseSwitch, EndSwitch, EndTop, EndGlobal

-----------------------------------------------------------------------------
(* Theorems *)

\* Every step is one of the above; a parser that stopped takes none.
LEMMA Preserved ==
    ASSUME ParserInv, ParserNext
    PROVE  ParserInv'
<1>1. status = "running"
      BY DEF ParserNext, Next, StatementNext, ParseSingleToken, LeaveLoop, ParseExpNormal,
         FinishExpNormal, ParseParenthesized, ParseParenthesisAtEnd, FinishParenthesized,
         ParseCast, FinishCast, ParseArrayAccess, FinishArrayAccess, ParseComma, FinishComma,
         ParseTernary, FinishTernaryTrue, FinishTernaryFalse, Finish, EndStatement,
         NextStatement, AddStatement, EndBody, EndSingleStatement, ParseBreak, ParseContinue,
         ParseDefault, ParseUnknown, ParseGoto, ParseReturn, EndReturn, ParseIf,
         EndIfCondition, EndThen, EndElseIf, EndElse, ParseWhile, EndWhileCondition, EndWhile,
         ParseDo, EndDoBody, EndDoWhile, ParseFor, ParseForPart, EndForPart, EndForHeader,
         EndFor, EndSwitchCondition, ParseCase, EndCase, ParseDeclaration, EndValue,
         NextDeclarator, EndDeclaration, ParseParameter, EndParameters, EndFunction,
         KeywordInExpression, EndCondition, Simple, AtKeyword, Looping, Returned, ReturnRoot,
         ParseSwitch, EndSwitch, ParseNext, EndTop, EndGlobal
<1>2. Step
      BY <1>1, TreeStays DEF Step, ParserNext, input
<1>3. QED
      BY <1>2, ExpressionSteps, StatementSteps, SwitchSteps, NextSteps, EndSteps DEF ParserNext

\* A step that changes nothing disturbs nothing.
LEMMA Stuttering ==
    ASSUME ParserInv, UNCHANGED parserVars
    PROVE  ParserInv'
BY DEF parserVars, vars, ParserInv, Steady, Sound, Stack, Shaped, OwnList, Innermost,
       PendingSwitches, Found, IfAfterElse, At, Heights

\* The parse begins in order.
LEMMA Initial == ParserInit => ParserInv
<1> SUFFICES ASSUME ParserInit
             PROVE  ParserInv
    OBVIOUS
<1>1. IsSequence(<<>>) /\ Heights(<<>>) /\ Len(<<>>) = 0
      BY DEF IsSequence, Heights
<1>2. IsSequence(toks) /\ IsSequence(nodes) /\ pos = 1 /\ tree = <<>> /\ switch = 0
      BY <1>1, InputsAssumption, TextsAssumption DEF ParserInit, Init
<1>3. status = "running" /\ frames \in {<<[at |-> "ROOT"], [at |-> "LOOP"]>>, <<[at |-> "RUN"]>>}
      BY DEF ParserInit, Init
<1>4. /\ IsSequence(frames) /\ frames # <<>> /\ Len(frames) \in {1, 2}
      /\ DOMAIN frames = 1 .. Len(frames)
      /\ frames[1].at \in {"RUN", "ROOT"} /\ frames[Len(frames)].at \in {"RUN", "LOOP"}
      /\ \A i \in DOMAIN frames : frames[i].at \in {"RUN", "ROOT", "LOOP"}
      BY <1>3 DEF IsSequence
<1>5. Stack(frames)
  <2>1. \A i \in DOMAIN frames : Plain(frames[i])
        BY <1>4 DEF Plain, FrameNames, StatementFrames, SwitchFrames
  <2>2. \A x, y \in {"RUN", "ROOT", "LOOP"} : Calls(x, y)
        BY DEF Calls, AfterExpression, AfterBody
  <2>3. QED  BY <1>4, <2>1, <2>2, PlainFrame DEF Stack
<1>6. OwnList(frames, switch)
  <2>1. PendingSwitches(frames) = {}
        BY <1>4 DEF PendingSwitches, SwitchFrames
  <2>2. QED  BY <1>2, <1>4, <2>1 DEF OwnList, Innermost
<1>7. Found(nodes, frames[Len(frames)]) /\ IfAfterElse(pos, frames)
      BY <1>4, NothingToFind DEF IfAfterElse, AfterExpression, AfterBody
<1>8. pos \in 1 .. Len(toks) + 1
      BY <1>2, Positions
<1>9. QED  BY <1>1, <1>2, <1>3, <1>5, <1>6, <1>7, <1>8 DEF ParserInv, Steady, Sound, Stopped

\* The invariant that carries all the others, for every text, whatever
\* reorder_expression answers: the call stack is one of the methods' calls, each
\* pending method will find what it waits for, and the case list is that of the
\* innermost switch.
THEOREM Invariance == ParserSpec => []ParserInv
<1>1. ParserInv /\ [ParserNext]_parserVars => ParserInv'
      BY Preserved, Stuttering
<1>2. QED  BY <1>1, Initial, PTL DEF ParserSpec

\* m_switch_cases_ptr of src/cpp/parser_stmt.cpp never dangles: it points to the
\* list of the innermost parse_switch that has not returned.
THEOREM CaseListStaysOpen == ParserSpec => []CaseListOpen
<1>1. ParserInv => CaseListOpen
      BY DEF ParserInv, Sound, CaseListOpen
<1>2. QED  BY <1>1, Invariance, PTL

\* What the methods of parser_body.cpp, parser_stmt.cpp and parser_decl.cpp take
\* from the shared stack is there, and of the kind they take it for.
THEOREM ResultsAreFound == ParserSpec => []ResultFound
<1>1. ParserInv => ResultFound
      BY DEF ParserInv, Sound, ResultFound, Frame
<1>2. QED  BY <1>1, Invariance, PTL

\* The cursor, the call stack, the tree and the status are what the parser's
\* methods take them for, and so are the node stack and the case list.
THEOREM ParserTypes == ParserSpec => []ParserTypeOK
<1>1. ParserInv => ParserTypeOK
  <2> SUFFICES ASSUME ParserInv
               PROVE  ParserTypeOK
      OBVIOUS
  <2>1. CaseListOpen /\ ResultFound
        BY DEF ParserInv, Sound, CaseListOpen, ResultFound, Frame
  <2>2. Stack(frames)
        BY DEF ParserInv, Steady
  <2>3. /\ \A i \in DOMAIN frames : frames[i].at \in FrameNames
        /\ frames[1].at \in {"RUN", "ROOT"}
        BY <2>2 DEF Stack, Shaped
  <2>4. QED  BY <2>1, <2>3 DEF ParserTypeOK, ParserInv, Steady, Heights, FrameNames, Stopped
<1>2. QED  BY <1>1, Invariance, PTL

-----------------------------------------------------------------------------
(* The case labels *)

\* The frames fs are those of gs with others on top.
On(gs, fs) == /\ IsSequence(fs) /\ Len(fs) >= Len(gs)
              /\ \A i \in 1 .. Len(gs) : fs[i] = gs[i]
OnCallers(fs) == On(Below(frames), fs)

\* However methods are called.
LEMMA OnTop ==
    ASSUME NEW gs, IsSequence(gs)
    PROVE  /\ On(gs, gs)
           /\ \A fs, f : On(gs, fs) => On(gs, Append(fs, f))
           /\ \A fs, f : On(gs, fs) => On(gs, fs \o <<f>>)
           /\ \A fs, f, g : On(gs, fs) => On(gs, fs \o <<f, g>>)
           /\ \A fs, f : On(gs, fs) => On(gs, fs \o (<<f>> \o Root))
           /\ \A fs : On(gs, fs) => On(gs, fs \o Root)
<1>1. Len(gs) \in Nat
      BY Positions
<1>2. On(gs, gs)
      BY <1>1 DEF On
<1>3. ASSUME NEW fs, NEW f, On(gs, fs)
      PROVE  On(gs, Append(fs, f))
  <2>1. /\ IsSequence(Append(fs, f)) /\ Len(Append(fs, f)) = Len(fs) + 1
        /\ \A i \in 1 .. Len(fs) : Append(fs, f)[i] = fs[i]
        BY <1>3, Appended DEF On
  <2>2. Len(fs) \in Nat
        BY <1>3, Positions DEF On
  <2>3. QED  BY <1>1, <1>3, <2>1, <2>2 DEF On
<1>4. ASSUME NEW fs, NEW f, NEW g, On(gs, fs)
      PROVE  On(gs, fs \o <<f>>) /\ On(gs, fs \o <<f, g>>)
  <2>1. fs \o <<f>> = Append(fs, f) /\ fs \o <<f, g>> = Append(Append(fs, f), g)
        BY <1>4, Concatenated DEF On
  <2>2. On(gs, Append(fs, f)) /\ On(gs, Append(Append(fs, f), g))
        BY <1>3, <1>4
  <2>3. QED  BY <2>1, <2>2
<1>5. ASSUME NEW fs, NEW f, On(gs, fs)
      PROVE  On(gs, fs \o Root) /\ On(gs, fs \o (<<f>> \o Root))
  <2> DEFINE r == [at |-> "ROOT"]
             l == [at |-> "LOOP"]
  <2>1. Root = <<r, l>>
        BY DEF Root
  <2> HIDE DEF r, l
  <2>2. On(gs, fs \o Root)
        BY <1>4, <1>5, <2>1
  <2>3. fs \o (<<f>> \o Root) = Append(Append(Append(fs, f), r), l)
        BY <1>5, <2>1, ConcatenatedThree DEF On
  <2>4. On(gs, Append(Append(Append(fs, f), r), l))
        BY <1>3, <1>5
  <2>5. QED  BY <2>2, <2>3, <2>4
<1>6. QED  BY <1>2, <1>3, <1>4, <1>5

\* The running method's frame is on those of its callers, or gone.
LEMMA CallersBelow ==
    ASSUME IsSequence(frames), frames # <<>>
    PROVE  IsSequence(Below(frames)) /\ OnCallers(frames) /\ OnCallers(Below(frames))
<1>1. /\ IsSequence(Below(frames)) /\ Len(Below(frames)) = Len(frames) - 1
      /\ \A i \in 1 .. Len(frames) - 1 : Below(frames)[i] = frames[i]
      /\ Len(frames) \in Nat
      BY Shortened, Positions
<1>2. QED  BY <1>1 DEF OnCallers, On

\* A statement or a body is entered on top, or the parser stops.
LEMMA EnteredOnTop ==
    ASSUME NEW gs, IsSequence(gs), NEW fs, On(gs, fs), NEW p,
           EnterStatement(p, fs) \/ EnterBody(p, fs)
    PROVE  On(gs, frames') \/ frames' = frames
<1> USE OnTop
<1>1. ASSUME NEW hs, On(gs, hs), EnterStatement(p, hs)
      PROVE  On(gs, frames') \/ frames' = frames
  <2>1. frames' \in {frames, hs \o <<[at |-> "KEYWORD"]>>, hs \o (<<[at |-> "STATEMENT"]>> \o Root)}
        BY <1>1 DEF EnterStatement, Halt, Go
  <2>2. QED  BY <1>1, <2>1
<1>2. CASE EnterBody(p, fs)
  <2>1. CASE At(p) = "{"
        BY <1>2, <2>1 DEF EnterBody, Go
  <2>2. CASE At(p) # "{"
        BY <1>1, <1>2, <2>2 DEF EnterBody
  <2>3. QED  BY <2>1, <2>2
<1>3. QED  BY <1>1, <1>2

\* The methods of expressions leave their callers alone.
LEMMA ExpressionOnTop ==
    ASSUME IsSequence(frames), frames # <<>>, Next
    PROVE  OnCallers(frames')
<1> USE CallersBelow, OnTop DEF OnCallers
<1>1. CASE ParseSingleToken \/ LeaveLoop \/ ParseExpNormal \/ FinishExpNormal
      BY <1>1 DEF ParseSingleToken, LeaveLoop, ParseExpNormal, FinishExpNormal, Stop, Call, vars
<1>2. CASE ParseParenthesized
      BY <1>2 DEF ParseParenthesized, AdditionalExp, Call
<1>3. CASE ParseParenthesisAtEnd \/ FinishParenthesized
      BY <1>3 DEF ParseParenthesisAtEnd, FinishParenthesized, AdditionalExp, Stop
<1>4. CASE ParseCast \/ FinishCast \/ ParseArrayAccess \/ FinishArrayAccess
      BY <1>4 DEF ParseCast, FinishCast, ParseArrayAccess, FinishArrayAccess, Stop, Call
<1>5. CASE ParseComma \/ FinishComma \/ ParseTernary
      BY <1>5 DEF ParseComma, FinishComma, ParseTernary, Stop, Call
<1>6. CASE FinishTernaryTrue \/ FinishTernaryFalse \/ Finish
      BY <1>6 DEF FinishTernaryTrue, FinishTernaryFalse, Finish, Stop
<1>7. QED  BY <1>1, <1>2, <1>3, <1>4, <1>5, <1>6 DEF Next

\* So do those of statements and declarations, but for a case.
LEMMA StatementOnTop ==
    ASSUME IsSequence(frames), frames # <<>>, StatementNext, ~EndCase
    PROVE  OnCallers(frames')
<1> USE CallersBelow, OnTop DEF OnCallers
<1>1. CASE EndStatement \/ NextStatement \/ AddStatement \/ EndBody \/ EndSingleStatement
      BY <1>1, EnteredOnTop
      DEF EndStatement, NextStatement, AddStatement, EndBody, EndSingleStatement,
          ParseSymbolToken, ParseLabel, Leave, Go, Halt
<1>2. CASE ParseBreak \/ ParseContinue \/ ParseDefault \/ ParseUnknown \/ ParseGoto
      BY <1>2 DEF ParseBreak, ParseContinue, ParseDefault, ParseUnknown, ParseGoto, Simple,
          Leave, Go, Halt
<1>3. CASE ParseReturn \/ EndReturn \/ ParseIf \/ ParseWhile \/ ParseCase
      BY <1>3 DEF ParseReturn, EndReturn, ParseIf, ParseWhile, ParseCase, Condition, Await,
          Leave, Go, Halt
<1>4. CASE EndIfCondition \/ EndWhileCondition \/ EndSwitchCondition
      BY <1>4, EnteredOnTop
      DEF EndIfCondition, EndWhileCondition, EndSwitchCondition, EndCondition, Halt
<1>5. CASE EndThen
  <2>1. \/ Leave(pos, Replaced(If(Frame.cond, Top.statements, Nil)))
        \/ \E f, g : Go(pos + 1, Append(Append(Below(frames), f), g))
        \/ \E f : EnterBody(pos + 1, Append(Below(frames), f))
        BY <1>5 DEF EndThen
  <2>2. QED  BY <2>1, EnteredOnTop DEF Leave, Go
<1>6. CASE EndElseIf \/ EndElse \/ EndWhile \/ EndFor
      BY <1>6 DEF EndElseIf, EndElse, EndWhile, EndFor, Leave, Go
<1>7. CASE ParseDo \/ EndDoBody \/ EndDoWhile
      BY <1>7, EnteredOnTop DEF ParseDo, EndDoBody, EndDoWhile, Await, Leave, Go, Halt
<1>8. CASE ParseFor \/ ParseForPart \/ EndForPart
      BY <1>8 DEF ParseFor, ParseForPart, EndForPart, Await, Go, Halt
<1>9. CASE EndForHeader
      BY <1>9, EnteredOnTop DEF EndForHeader, Halt
<1>10. CASE ParseDeclaration \/ NextDeclarator
      BY <1>10 DEF ParseDeclaration, NextDeclarator, EnterVariable, Await, Leave, Go, Halt
<1>11. CASE EndValue \/ EndDeclaration \/ ParseParameter \/ EndFunction
      BY <1>11 DEF EndValue, EndDeclaration, ParseParameter, EndFunction, Leave, Go, Halt
<1>12. CASE EndParameters
      BY <1>12, EnteredOnTop DEF EndParameters, Leave, Go, Halt
<1>13. CASE KeywordInExpression
      BY <1>13 DEF KeywordInExpression, Go
<1>14. QED
       BY <1>1, <1>2, <1>3, <1>4, <1>5, <1>6, <1>7, <1>8, <1>9, <1>10, <1>11, <1>12, <1>13
       DEF StatementNext

\* And those of the top level and of a switch.
LEMMA TopOnTop ==
    ASSUME IsSequence(frames), frames # <<>>,
           ReturnRoot \/ ParseSwitch \/ EndSwitch \/ ParseNext \/ EndTop \/ EndGlobal
    PROVE  OnCallers(frames')
<1> USE CallersBelow, OnTop DEF OnCallers
<1>1. CASE ReturnRoot \/ EndTop \/ EndGlobal \/ ParseSwitch \/ EndSwitch
      BY <1>1 DEF ReturnRoot, EndTop, EndGlobal, ParseSwitch, EndSwitch, Condition, Await,
          Leave, Go, Halt
<1>2. CASE ParseNext
  <2>1. \/ frames' = frames
        \/ \E f, g : frames' = frames \o <<f, g>>
        \/ ParseSymbolToken(Append(frames, [at |-> "TOP"]))
        BY <1>2 DEF ParseNext, Go, Halt, IsOperand
  <2>2. QED  BY <2>1, EnteredOnTop DEF ParseSymbolToken, ParseLabel, Go, Halt
<1>3. QED  BY <1>1, <1>2

\* Which action goes on in a frame of a case or a switch.
LEMMA OneMethod ==
    ASSUME ParserNext
    PROVE  /\ status = "running"
           /\ Frame.at = "CASE" => EndCase
           /\ Frame.at = "SWITCH" => EndSwitchCondition
           /\ Frame.at = "SWITCH_BODY" => EndSwitch
BY DEF ParserNext, Next, StatementNext, ParseSingleToken, LeaveLoop, ParseExpNormal,
   FinishExpNormal, ParseParenthesized, ParseParenthesisAtEnd, FinishParenthesized,
   ParseCast, FinishCast, ParseArrayAccess, FinishArrayAccess, ParseComma, FinishComma,
   ParseTernary, FinishTernaryTrue, FinishTernaryFalse, Finish, EndStatement,
   NextStatement, AddStatement, EndBody, EndSingleStatement, ParseBreak, ParseContinue,
   ParseDefault, ParseUnknown, ParseGoto, ParseReturn, EndReturn, ParseIf,
   EndIfCondition, EndThen, EndElseIf, EndElse, ParseWhile, EndWhileCondition, EndWhile,
   ParseDo, EndDoBody, EndDoWhile, ParseFor, ParseForPart, EndForPart, EndForHeader,
   EndFor, EndSwitchCondition, ParseCase, EndCase, ParseDeclaration, EndValue,
   NextDeclarator, EndDeclaration, ParseParameter, EndParameters, EndFunction,
   KeywordInExpression, EndCondition, Simple, AtKeyword, Looping, Returned, ReturnRoot,
   ParseSwitch, EndSwitch, ParseNext, EndTop, EndGlobal

\* A case goes to the list of the innermost switch, through the pointer.
LEMMA CaseStep ==
    ASSUME Step, EndCase
    PROVE  CaseRecorded
<1> DEFINE rest == Below(frames)
           e == Top.tok
           gs == [rest EXCEPT ![switch].cases = Append(@, e)]
<1>1. /\ Framed(frames, switch) /\ Frame.at = "CASE" /\ status = "running"
      /\ Frame = frames[Len(frames)] /\ IsSequence(frames) /\ Len(frames) \in Nat
      /\ Len(frames) > 1 /\ DOMAIN frames = 1 .. Len(frames)
      BY Running, Positions DEF EndCase, Returned
<1>2. CASE status' # status
  <2>1. frames' = frames
        BY <1>2 DEF EndCase, Halt, Go
  <2>2. QED  BY <1>2, <2>1 DEF CaseRecorded, CaseTaken
<1>3. CASE status' = status
  <2>1. CaseTaken /\ frames' = IF switch = 0 THEN rest ELSE gs
        BY <1>1, <1>3 DEF EndCase, Halt, Go, CaseTaken
  <2>2. /\ switch \in PendingSwitches(frames) \cup {0}
        /\ \A i \in PendingSwitches(frames) : i \in 1 .. Len(frames) - 1 /\ i <= switch
        BY <1>1 DEF Framed, OwnList, Innermost, PendingSwitches, SwitchFrames
  <2>3. /\ IsSequence(rest) /\ DOMAIN rest = 1 .. Len(frames) - 1
        /\ \A i \in 1 .. Len(frames) - 1 : rest[i] = frames[i]
        BY <1>1, Shortened
  <2>4. CASE switch = 0
        BY <2>2, <2>4 DEF CaseRecorded
  <2>5. CASE switch # 0
    <3> DEFINE f == rest[switch]
               g == [f EXCEPT !.cases = Append(f.cases, e)]
    <3>1. switch \in PendingSwitches(frames) /\ f = frames[switch] /\ switch \in DOMAIN rest
          BY <2>2, <2>3, <2>5
    <3>2. gs = [rest EXCEPT ![switch] = g]
          OBVIOUS
    <3>3. g.cases = Append(f.cases, e)
      <4>1. Shaped(f) /\ f.at \in SwitchFrames
            BY <1>1, <3>1 DEF Framed, Stack, PendingSwitches
      <4>2. "cases" \in DOMAIN f
        <5>1. CASE f.at = "SWITCH"
          <6>1. f = [at |-> "SWITCH", cases |-> f.cases, saved |-> f.saved]
                BY <4>1, <5>1 DEF Shaped
          <6>2. QED  BY <6>1
        <5>2. CASE f.at = "SWITCH_BODY"
          <6>1. f = [at |-> "SWITCH_BODY", exp |-> f.exp, cases |-> f.cases, saved |-> f.saved]
                BY <4>1, <5>2 DEF Shaped
          <6>2. QED  BY <6>1
        <5>3. QED  BY <4>1, <5>1, <5>2 DEF SwitchFrames
      <4> HIDE DEF f
      <4>3. QED  BY <4>2
    <3> HIDE DEF rest, e, f, g, gs
    <3>4. /\ \A i \in DOMAIN rest : i # switch => gs[i] = rest[i]
          /\ gs[switch] = g
          BY <2>3, <3>1, <3>2, Updated
    <3>5. frames' = gs /\ InnermostSwitch(switch)
          BY <2>1, <2>2, <2>5 DEF InnermostSwitch
    <3>6. ASSUME NEW i \in PendingSwitches(frames)
          PROVE  frames'[i].cases = IF CaseTaken /\ InnermostSwitch(i)
                                    THEN Append(frames[i].cases, e) ELSE frames[i].cases
      <4>1. CASE i = switch
            BY <2>1, <3>1, <3>3, <3>4, <3>5, <4>1
      <4>2. CASE i # switch
        <5>1. ~InnermostSwitch(i)
              BY <1>1, <2>2, <3>1, <4>2 DEF InnermostSwitch
        <5>2. frames'[i] = frames[i]
              BY <2>2, <2>3, <3>4, <3>5, <4>2
        <5>3. QED  BY <5>1, <5>2
      <4>3. QED  BY <4>1, <4>2
    <3>7. QED  BY <3>6 DEF CaseRecorded, e
  <2>6. QED  BY <2>4, <2>5
<1>4. QED  BY <1>2, <1>3

\* The body of a switch begins with the list it has.
LEMMA ConditionKeepsList ==
    ASSUME Step, EndSwitchCondition, Len(frames) \in PendingSwitches(frames')
    PROVE  frames'[Len(frames)].cases = Frame.cases
<1> DEFINE f == [at |-> "SWITCH_BODY", exp |-> Top, cases |-> Frame.cases, saved |-> Frame.saved]
           gs == Append(Below(frames), f)
<1>1. EndCondition("SWITCH", f)
      BY DEF EndSwitchCondition
<1>2. f.cases = Frame.cases
      OBVIOUS
<1> HIDE DEF f
<1>3. /\ IsSequence(gs) /\ Len(gs) = Len(frames) /\ gs[Len(frames)] = f
      /\ Frame = frames[Len(frames)] /\ Len(frames) \in Nat /\ Len(frames) >= 1
  <2>1. IsSequence(frames) /\ Frame = frames[Len(frames)] /\ frames # <<>>
        BY Running DEF Framed, Stack
  <2>2. IsSequence(Below(frames)) /\ Len(Below(frames)) = Len(frames) - 1
        BY <2>1, Shortened
  <2>3. Len(frames) \in Nat /\ Len(frames) >= 1
        BY <2>1, Positions
  <2> DEFINE b == Below(frames)
  <2> HIDE DEF b
  <2>4. IsSequence(b) /\ Len(b) = Len(frames) - 1
        BY <2>2 DEF b
  <2>5. /\ IsSequence(Append(b, f)) /\ Len(Append(b, f)) = Len(b) + 1
        /\ Append(b, f)[Len(b) + 1] = f
        BY <2>4, Appended
  <2>6. QED  BY <2>1, <2>3, <2>4, <2>5 DEF b
<1> HIDE DEF gs
<1>4. On(gs, frames') \/ frames' = frames
  <2>1. Halt("error") \/ EnterBody(pos + 1, gs)
        BY <1>1 DEF EndCondition, gs
  <2>2. On(gs, gs)
        BY <1>3, OnTop
  <2>3. QED  BY <1>3, <2>1, <2>2, EnteredOnTop DEF Halt
<1>5. QED  BY <1>2, <1>3, <1>4 DEF On

\* Every step leaves the lists of the pending switches as they are, save that.
LEMMA StepRecords ==
    ASSUME Step, ParserNext
    PROVE  CaseRecorded
<1>1. /\ IsSequence(frames) /\ frames # <<>> /\ Frame = frames[Len(frames)]
      /\ Len(frames) \in Nat /\ DOMAIN frames = 1 .. Len(frames)
      BY Running, Positions DEF Framed, Stack
<1>2. CASE EndCase
      BY <1>2, CaseStep
<1>3. CASE ~EndCase
  <2>1. OnCallers(frames')
        BY <1>1, <1>3, ExpressionOnTop, StatementOnTop, TopOnTop DEF ParserNext
  <2>2. /\ IsSequence(frames')
        /\ \A i \in 1 .. Len(frames) - 1 : frames'[i] = frames[i]
    <3>1. /\ Len(Below(frames)) = Len(frames) - 1
          /\ \A i \in 1 .. Len(frames) - 1 : Below(frames)[i] = frames[i]
          BY <1>1, Shortened
    <3>2. QED  BY <2>1, <3>1 DEF OnCallers, On
  <2>3. ~CaseTaken
        BY <1>3, OneMethod DEF CaseTaken, Returned
  <2>4. ASSUME NEW i \in PendingSwitches(frames) \cap PendingSwitches(frames')
        PROVE  frames'[i].cases = frames[i].cases
    <3>1. i \in 1 .. Len(frames) /\ frames[i].at \in SwitchFrames /\ i \in DOMAIN frames'
          BY <1>1 DEF PendingSwitches
    <3>2. CASE i # Len(frames)
          BY <1>1, <2>2, <3>1, <3>2
    <3>3. CASE i = Len(frames)
      <4>1. CASE Frame.at = "SWITCH"
        <5>1. EndSwitchCondition
              BY <4>1, OneMethod
        <5>2. QED  BY <1>1, <3>3, <5>1, ConditionKeepsList
      <4>2. CASE Frame.at = "SWITCH_BODY"
        <5>1. frames' = Below(frames)
              BY <4>2, OneMethod DEF EndSwitch, Leave, Go
        <5>2. DOMAIN Below(frames) = 1 .. Len(frames) - 1
              BY <1>1, Shortened
        <5>3. QED  BY <1>1, <3>1, <3>3, <5>1, <5>2
      <4>3. QED  BY <1>1, <3>1, <3>3, <4>1, <4>2 DEF SwitchFrames
    <3>4. QED  BY <3>2, <3>3
  <2>5. QED  BY <2>3, <2>4 DEF CaseRecorded
<1>4. QED  BY <1>2, <1>3

\* The constant of an accepted case goes to the list of the innermost switch
\* being parsed, and no other step changes the list of a switch before it is
\* complete: what parse_case of src/cpp/parser_stmt.cpp writes through the
\* pointer is right for every nesting of switches.
THEOREM CasesRecorded == ParserSpec => [][CaseRecorded]_parserVars
<1>1. ParserInv /\ ParserNext => CaseRecorded
  <2> SUFFICES ASSUME ParserInv, ParserNext
               PROVE  CaseRecorded
      OBVIOUS
  <2>1. Step
        BY OneMethod, TreeStays DEF Step, ParserNext, input
  <2>2. QED  BY <2>1, StepRecords
<1>2. ParserInv /\ [ParserNext]_parserVars => [CaseRecorded]_parserVars
      BY <1>1
<1>3. QED  BY <1>2, Invariance, PTL DEF ParserSpec
=============================================================================
