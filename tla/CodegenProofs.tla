---------------------------- MODULE CodegenProofs ----------------------------
(***************************************************************************)
(* Theorems about Codegen                                                  *)
(***************************************************************************)
EXTENDS Codegen, FiniteSetTheorems, SequenceTheorems, TLAPS

-----------------------------------------------------------------------------
(* Sequences *)

\* A sequence is one over any set that has its elements.
LEMMA InSeq ==
    ASSUME NEW s, IsSequence(s), NEW S, \A i \in DOMAIN s : s[i] \in S
    PROVE  s \in Seq(S)
<1>1. s \in [1 .. Len(s) -> S] /\ Len(s) \in Nat
      BY DEF IsSequence
<1>2. QED  BY <1>1, SeqDef

\* Its positions.
LEMMA Positions ==
    ASSUME NEW s, IsSequence(s)
    PROVE  DOMAIN s = 1 .. Len(s) /\ Len(s) \in Nat
BY DEF IsSequence

\* A member of a set of sequences is one.
LEMMA FromSeq ==
    ASSUME NEW S, NEW s \in Seq(S)
    PROVE  IsSequence(s)
BY DEF IsSequence

\* Append adds one element at the end.
LEMMA Appended ==
    ASSUME NEW s, IsSequence(s), NEW e
    PROVE  /\ IsSequence(Append(s, e))
           /\ Len(Append(s, e)) = Len(s) + 1
           /\ DOMAIN Append(s, e) = DOMAIN s \cup {Len(s) + 1}
           /\ \A i \in DOMAIN s : Append(s, e)[i] = s[i]
           /\ Append(s, e)[Len(s) + 1] = e
           /\ Append(s, e) # <<>>
           /\ Last(Append(s, e)) = e
<1> DEFINE S == {s[i] : i \in DOMAIN s} \cup {e}
<1>1. s \in Seq(S) /\ e \in S
      BY InSeq
<1> HIDE DEF S
<1>2. Append(s, e) \in Seq(S)
      BY <1>1
<1>3. IsSequence(Append(s, e))
      BY <1>2, FromSeq
<1>4. QED  BY <1>1, <1>2, <1>3 DEF Last

\* What Front and Tail leave of a sequence that is not empty.
LEMMA Shortened ==
    ASSUME NEW s, IsSequence(s), s # <<>>
    PROVE  /\ IsSequence(Front(s)) /\ IsSequence(Tail(s))
           /\ Len(s) >= 1
           /\ Len(Front(s)) = Len(s) - 1 /\ Len(Tail(s)) = Len(s) - 1
           /\ DOMAIN Front(s) = 1 .. Len(s) - 1 /\ DOMAIN Tail(s) = 1 .. Len(s) - 1
           /\ \A i \in 1 .. Len(s) - 1 : Front(s)[i] = s[i] /\ Tail(s)[i] = s[i + 1]
<1> DEFINE S == {s[i] : i \in DOMAIN s}
<1>1. s \in Seq(S)
      BY InSeq
<1> HIDE DEF S
<1>2. Len(s) >= 1
      BY <1>1
<1>3. /\ Front(s) \in Seq(S) /\ Len(Front(s)) = Len(s) - 1
      /\ \A i \in 1 .. Len(s) - 1 : Front(s)[i] = s[i]
  <2>1. Len(s) \in Nat /\ \A i \in 1 .. Len(s) - 1 : s[i] \in S
        BY <1>1
  <2>2. Front(s) = [i \in 1 .. Len(s) - 1 |-> s[i]]
        BY <1>1, <1>2, <2>1 DEF Front
  <2>3. QED  BY <2>1, <2>2, <1>2, SeqDef
<1>4. /\ Tail(s) \in Seq(S) /\ Len(Tail(s)) = Len(s) - 1
      /\ \A i \in 1 .. Len(s) - 1 : Tail(s)[i] = s[i + 1]
      BY <1>1, <1>2
<1>5. IsSequence(Front(s)) /\ IsSequence(Tail(s))
      BY <1>3, <1>4, FromSeq
<1>6. DOMAIN Front(s) = 1 .. Len(s) - 1 /\ DOMAIN Tail(s) = 1 .. Len(s) - 1
      BY <1>3, <1>4, <1>5, Positions
<1>7. QED  BY <1>2, <1>3, <1>4, <1>5, <1>6

\* Two elements are added one after the other.
LEMMA TwoAppended ==
    ASSUME NEW s, IsSequence(s), NEW e, NEW f
    PROVE  s \o <<e, f>> = Append(Append(s, e), f)
<1> DEFINE S == {s[i] : i \in DOMAIN s} \cup {e, f}
<1>1. s \in Seq(S) /\ e \in S /\ f \in S
      BY InSeq
<1> HIDE DEF S
<1>2. <<e, f>> \in Seq(S) /\ Append(Append(s, e), f) \in Seq(S)
      BY <1>1
<1>3. s \o <<e, f>> \in Seq(S) /\ Len(s \o <<e, f>>) = Len(s) + 2
      BY <1>1, <1>2
<1>4. QED  BY <1>1, <1>2, <1>3

\* Replacing an element, or none, keeps the others.
LEMMA Replaced ==
    ASSUME NEW s, IsSequence(s), NEW k, NEW e
    PROVE  LET t == [s EXCEPT ![k] = e]
           IN  /\ IsSequence(t) /\ Len(t) = Len(s) /\ DOMAIN t = DOMAIN s
               /\ \A i \in DOMAIN s : i # k => t[i] = s[i]
               /\ k \in DOMAIN s => t[k] = e
<1> DEFINE t == [s EXCEPT ![k] = e]
           S == {s[i] : i \in DOMAIN s} \cup {e}
<1>1. DOMAIN t = 1 .. Len(s) /\ Len(s) \in Nat /\ DOMAIN s = 1 .. Len(s)
      BY Positions
<1>2. t \in [1 .. Len(s) -> S]
      BY <1>1
<1>3. t \in Seq(S)
      BY <1>1, <1>2, SeqDef
<1>4. Len(t) = Len(s)
      BY <1>1, <1>3
<1>5. QED  BY <1>1, <1>3, <1>4, FromSeq

-----------------------------------------------------------------------------
(* The call stack *)

\* How many pending methods have a name of S.
CountIn(fs, S) == Cardinality({i \in DOMAIN fs : fs[i].at \in S})
Of(f, S) == IF f.at \in S THEN 1 ELSE 0

\* A count is a number.
LEMMA CountIsNat ==
    ASSUME NEW fs, IsSequence(fs), NEW S
    PROVE  CountIn(fs, S) \in Nat /\ IsFiniteSet({i \in DOMAIN fs : fs[i].at \in S})
<1>1. IsFiniteSet(DOMAIN fs)
      BY Positions, FS_Interval
<1>2. IsFiniteSet({i \in DOMAIN fs : fs[i].at \in S})
      BY <1>1, FS_Subset
<1>3. QED  BY <1>2, FS_CardinalityType DEF CountIn

\* A call counts if its name does.
LEMMA CountAppended ==
    ASSUME NEW fs, IsSequence(fs), NEW f, NEW S
    PROVE  CountIn(Append(fs, f), S) = CountIn(fs, S) + Of(f, S)
<1> DEFINE I == {i \in DOMAIN fs : fs[i].at \in S}
           J == {i \in DOMAIN Append(fs, f) : Append(fs, f)[i].at \in S}
           n == Len(fs) + 1
<1>1. n \notin DOMAIN fs /\ IsFiniteSet(I) /\ Cardinality(I) \in Nat
      BY Positions, CountIsNat DEF CountIn
<1>2. J = IF f.at \in S THEN I \cup {n} ELSE I
      BY <1>1, Appended
<1>3. Cardinality(I \cup {n}) = Cardinality(I) + 1
      BY <1>1, FS_AddElement
<1>4. CountIn(fs, S) = Cardinality(I) /\ CountIn(Append(fs, f), S) = Cardinality(J)
      BY DEF CountIn
<1> HIDE DEF I, J
<1>5. CASE f.at \in S
      BY <1>2, <1>3, <1>4, <1>5 DEF Of
<1>6. CASE f.at \notin S
      BY <1>1, <1>2, <1>4, <1>6 DEF Of
<1>7. QED  BY <1>5, <1>6

\* Only the names count.
Alike(fs, gs) ==
    /\ IsSequence(gs) /\ DOMAIN gs = DOMAIN fs
    /\ \A i \in DOMAIN fs : "at" \in DOMAIN gs[i] /\ gs[i].at = fs[i].at
\* Frames with the same names count the same.
LEMMA CountAlike ==
    ASSUME NEW fs, NEW gs, Alike(fs, gs), NEW S
    PROVE  CountIn(gs, S) = CountIn(fs, S)
<1> DEFINE I == {i \in DOMAIN fs : fs[i].at \in S}
           J == {i \in DOMAIN gs : gs[i].at \in S}
<1>1. J = I
      BY DEF Alike
<1>2. CountIn(fs, S) = Cardinality(I) /\ CountIn(gs, S) = Cardinality(J)
      BY DEF CountIn
<1> HIDE DEF I, J
<1>3. QED  BY <1>1, <1>2

\* A return takes its own call away.
LEMMA CountShortened ==
    ASSUME NEW fs, IsSequence(fs), fs # <<>>, NEW S
    PROVE  CountIn(fs, S) = CountIn(Front(fs), S) + Of(Last(fs), S)
<1> DEFINE gs == Append(Front(fs), Last(fs))
<1>1. IsSequence(Front(fs)) /\ Len(Front(fs)) = Len(fs) - 1
      /\ DOMAIN Front(fs) = 1 .. Len(fs) - 1 /\ Len(fs) >= 1 /\ Len(fs) \in Nat
      /\ \A i \in 1 .. Len(fs) - 1 : Front(fs)[i] = fs[i]
      BY Shortened, Positions
<1>2. DOMAIN gs = 1 .. Len(fs) /\ DOMAIN fs = 1 .. Len(fs)
      BY <1>1, Appended, Positions
<1>3. \A i \in 1 .. Len(fs) : gs[i] = fs[i]
      BY <1>1, Appended DEF Last
<1>4. CountIn(gs, S) = CountIn(fs, S)
  <2> DEFINE I == {i \in DOMAIN fs : fs[i].at \in S}
             J == {i \in DOMAIN gs : gs[i].at \in S}
  <2> HIDE DEF gs
  <2>1. J = I
        BY <1>2, <1>3
  <2>2. CountIn(fs, S) = Cardinality(I) /\ CountIn(gs, S) = Cardinality(J)
        BY DEF CountIn
  <2> HIDE DEF I, J
  <2>3. QED  BY <2>1, <2>2
<1>5. QED  BY <1>1, <1>4, CountAppended

\* run is at the bottom, then one of gen_func and the loop of gen_top over a
\* list, and statements are generated in gen_func only.
InFunction(fs) == Len(fs) >= 2 /\ fs[2].at = "FUNC"
Stack(fs) ==
    /\ IsSequence(fs)
    /\ Len(fs) >= 1
    /\ \A i \in DOMAIN fs : "at" \in DOMAIN fs[i]
    /\ \A i \in DOMAIN fs : fs[i].at = "RUN" <=> i = 1
    /\ \A i \in DOMAIN fs : fs[i].at \in {"FUNC", "GLOBALS"} <=> i = 2
    /\ Len(fs) >= 3 => fs[2].at = "FUNC"

\* What the contexts ls and the scopes ss have to do with the calls.
Balanced(fs, ls, ss) ==
    /\ Stack(fs) /\ IsSequence(ls) /\ IsSequence(ss)
    /\ Len(ls) = CountIn(fs, LoopFrames)
    /\ Len(ss) = CountIn(fs, {"FUNC", "BODY"})

\* Where the running method is on the stack.
LEMMA Running1 ==
    ASSUME NEW fs, Stack(fs)
    PROVE  /\ fs # <<>> /\ Len(fs) \in Nat /\ Len(fs) \in DOMAIN fs
           /\ Last(fs) = fs[Len(fs)]
           /\ "at" \in DOMAIN Last(fs)
           /\ Last(fs).at = "RUN" <=> Len(fs) = 1
           /\ Last(fs).at = "FUNC" => Len(fs) = 2 /\ InFunction(fs)
           /\ Last(fs).at \notin {"RUN", "FUNC", "GLOBALS"} =>
                Len(fs) >= 3 /\ InFunction(fs)
           /\ Last(fs).at = "GLOBALS" => Len(fs) = 2 /\ ~InFunction(fs)
<1>1. DOMAIN fs = 1 .. Len(fs) /\ Len(fs) \in Nat /\ Len(fs) >= 1
      BY Positions DEF Stack
<1>2. fs # <<>> /\ Len(fs) \in DOMAIN fs
      BY <1>1
<1>3. QED  BY <1>1, <1>2 DEF Stack, Last, InFunction

\* A method that goes on.
LEMMA BalancedAlike ==
    ASSUME NEW fs, NEW ls, NEW ss, Balanced(fs, ls, ss), NEW gs, Alike(fs, gs)
    PROVE  Balanced(gs, ls, ss) /\ (InFunction(fs) <=> InFunction(gs)) /\ Len(gs) = Len(fs)
<1>1. /\ Len(gs) = Len(fs) /\ DOMAIN fs = 1 .. Len(fs) /\ Len(fs) \in Nat
      /\ DOMAIN gs = 1 .. Len(gs) /\ Len(gs) \in Nat
  <2>1. DOMAIN fs = 1 .. Len(fs) /\ Len(fs) \in Nat /\ DOMAIN gs = 1 .. Len(gs)
        /\ Len(gs) \in Nat /\ 1 .. Len(gs) = 1 .. Len(fs)
        BY Positions DEF Alike, Balanced, Stack
  <2>2. ~(Len(gs) < Len(fs)) /\ ~(Len(fs) < Len(gs))
    <3>1. \A m, n \in Nat : 1 .. m = 1 .. n => ~(m < n)
      <4>1. SUFFICES ASSUME NEW m \in Nat, NEW n \in Nat, 1 .. m = 1 .. n, m < n
                     PROVE  FALSE
            OBVIOUS
      <4>2. n \in 1 .. n /\ n \notin 1 .. m
            BY <4>1
      <4>3. QED  BY <4>1, <4>2
    <3>2. QED  BY <2>1, <3>1
  <2>3. Len(gs) = Len(fs)
    <3>1. Len(gs) \in Nat /\ Len(fs) \in Nat
          BY <2>1
    <3>2. QED  BY <3>1, <2>2
  <2>4. QED  BY <2>1, <2>3
<1>2. Stack(gs) /\ (InFunction(fs) <=> InFunction(gs))
      BY <1>1 DEF Stack, Alike, InFunction, Balanced
<1>3. QED  BY <1>1, <1>2, CountAlike DEF Balanced

\* A method of a function calls another one.
LEMMA StackAppended ==
    ASSUME NEW fs, Stack(fs), InFunction(fs),
           NEW f, "at" \in DOMAIN f, f.at \notin {"RUN", "FUNC", "GLOBALS"}
    PROVE  Stack(Append(fs, f)) /\ InFunction(Append(fs, f))
<1>1. DOMAIN fs = 1 .. Len(fs) /\ Len(fs) \in Nat /\ Len(fs) >= 2
      BY Positions DEF Stack, InFunction
<1>2. /\ IsSequence(Append(fs, f))
      /\ Len(Append(fs, f)) = Len(fs) + 1
      /\ DOMAIN Append(fs, f) = DOMAIN fs \cup {Len(fs) + 1}
      /\ \A i \in DOMAIN fs : Append(fs, f)[i] = fs[i]
      /\ Append(fs, f)[Len(fs) + 1] = f
      BY Appended DEF Stack
<1>3. QED  BY <1>1, <1>2 DEF Stack, InFunction

\* The calls of a loop or switch, of gen_body, and others.
LEMMA BalancedLoop ==
    ASSUME NEW fs, NEW ls, NEW ss, Balanced(fs, ls, ss), InFunction(fs),
           NEW f, "at" \in DOMAIN f, f.at \in LoopFrames, NEW l
    PROVE  Balanced(Append(fs, f), Append(ls, l), ss) /\ InFunction(Append(fs, f))
<1>1. Stack(Append(fs, f)) /\ InFunction(Append(fs, f))
      BY StackAppended DEF Balanced, LoopFrames
<1>2. Of(f, LoopFrames) = 1 /\ Of(f, {"FUNC", "BODY"}) = 0
      BY DEF Of, LoopFrames
<1>3. CountIn(fs, {"FUNC", "BODY"}) \in Nat
      BY CountIsNat DEF Balanced, Stack
<1>4. QED  BY <1>1, <1>2, <1>3, CountAppended, Appended DEF Balanced, Stack

\* The call of gen_body pushes a scope.
LEMMA BalancedBody ==
    ASSUME NEW fs, NEW ls, NEW ss, Balanced(fs, ls, ss), InFunction(fs),
           NEW f, "at" \in DOMAIN f, f.at = "BODY", NEW x
    PROVE  Balanced(Append(fs, f), ls, Append(ss, x)) /\ InFunction(Append(fs, f))
<1>1. Stack(Append(fs, f)) /\ InFunction(Append(fs, f))
      BY StackAppended DEF Balanced
<1>2. Of(f, LoopFrames) = 0 /\ Of(f, {"FUNC", "BODY"}) = 1
      BY DEF Of, LoopFrames
<1>3. CountIn(fs, LoopFrames) \in Nat
      BY CountIsNat DEF Balanced, Stack
<1>4. QED  BY <1>1, <1>2, <1>3, CountAppended, Appended DEF Balanced, Stack

\* Other calls push nothing.
LEMMA BalancedOther ==
    ASSUME NEW fs, NEW ls, NEW ss, Balanced(fs, ls, ss), InFunction(fs),
           NEW f, "at" \in DOMAIN f,
           f.at \notin LoopFrames \cup {"RUN", "FUNC", "GLOBALS", "BODY"}
    PROVE  Balanced(Append(fs, f), ls, ss) /\ InFunction(Append(fs, f))
<1>1. Stack(Append(fs, f)) /\ InFunction(Append(fs, f))
      BY StackAppended DEF Balanced
<1>2. Of(f, LoopFrames) = 0 /\ Of(f, {"FUNC", "BODY"}) = 0
      BY DEF Of
<1>3. CountIn(fs, LoopFrames) \in Nat /\ CountIn(fs, {"FUNC", "BODY"}) \in Nat
      BY CountIsNat DEF Balanced, Stack
<1>4. QED  BY <1>1, <1>2, <1>3, CountAppended DEF Balanced, Stack

\* A method other than run returns.
LEMMA StackShortened ==
    ASSUME NEW fs, Stack(fs), Len(fs) >= 2
    PROVE  /\ Stack(Front(fs)) /\ IsSequence(fs) /\ fs # <<>> /\ Len(fs) \in Nat
           /\ Len(Front(fs)) = Len(fs) - 1
           /\ Len(fs) >= 3 => (InFunction(Front(fs)) <=> InFunction(fs))
<1>1. DOMAIN fs = 1 .. Len(fs) /\ Len(fs) \in Nat /\ IsSequence(fs)
      BY Positions DEF Stack
<1>2. fs # <<>>
      BY <1>1
<1>3. /\ IsSequence(Front(fs)) /\ Len(Front(fs)) = Len(fs) - 1
      /\ DOMAIN Front(fs) = 1 .. Len(fs) - 1
      /\ \A i \in 1 .. Len(fs) - 1 : Front(fs)[i] = fs[i]
      BY <1>1, <1>2, Shortened
<1>4. QED  BY <1>1, <1>2, <1>3 DEF Stack, InFunction

\* What a return pops was pushed by the call.
LEMMA BalancedShortened ==
    ASSUME NEW fs, NEW ls, NEW ss, Balanced(fs, ls, ss), Len(fs) >= 2
    PROVE  /\ Last(fs).at \in LoopFrames =>
                Balanced(Front(fs), Front(ls), ss) /\ ls # <<>>
           /\ Last(fs).at \in {"FUNC", "BODY"} =>
                Balanced(Front(fs), ls, Front(ss)) /\ ss # <<>>
           /\ Last(fs).at \notin LoopFrames \cup {"FUNC", "BODY"} =>
                Balanced(Front(fs), ls, ss)
<1>1. Stack(Front(fs)) /\ IsSequence(fs) /\ fs # <<>>
      BY StackShortened DEF Balanced
<1> DEFINE C(S) == CountIn(Front(fs), S)
<1>2. /\ CountIn(fs, LoopFrames) = C(LoopFrames) + Of(Last(fs), LoopFrames)
      /\ CountIn(fs, {"FUNC", "BODY"}) = C({"FUNC", "BODY"}) + Of(Last(fs), {"FUNC", "BODY"})
      /\ C(LoopFrames) \in Nat /\ C({"FUNC", "BODY"}) \in Nat
      BY <1>1, CountShortened, CountIsNat DEF Stack
<1> HIDE DEF C
<1>3. CASE Last(fs).at \in LoopFrames
  <2>1. Of(Last(fs), LoopFrames) = 1 /\ Of(Last(fs), {"FUNC", "BODY"}) = 0
        BY <1>3 DEF Of, LoopFrames
  <2>2. Len(ls) = C(LoopFrames) + 1 /\ Len(ss) = C({"FUNC", "BODY"})
        BY <1>2, <2>1 DEF Balanced
  <2>3. ls # <<>> /\ IsSequence(ls) /\ IsSequence(ss)
        BY <1>2, <2>2 DEF Balanced
  <2>4. IsSequence(Front(ls)) /\ Len(Front(ls)) = C(LoopFrames)
        BY <1>2, <2>2, <2>3, Shortened
  <2>5. QED  BY <1>1, <1>3, <2>2, <2>3, <2>4 DEF Balanced, C, LoopFrames
<1>4. CASE Last(fs).at \in {"FUNC", "BODY"}
  <2>1. Of(Last(fs), LoopFrames) = 0 /\ Of(Last(fs), {"FUNC", "BODY"}) = 1
        BY <1>4 DEF Of, LoopFrames
  <2>2. Len(ls) = C(LoopFrames) /\ Len(ss) = C({"FUNC", "BODY"}) + 1
        BY <1>2, <2>1 DEF Balanced
  <2>3. ss # <<>> /\ IsSequence(ls) /\ IsSequence(ss)
        BY <1>2, <2>2 DEF Balanced
  <2>4. IsSequence(Front(ss)) /\ Len(Front(ss)) = C({"FUNC", "BODY"})
        BY <1>2, <2>2, <2>3, Shortened
  <2>5. QED  BY <1>1, <1>4, <2>2, <2>3, <2>4 DEF Balanced, C, LoopFrames
<1>5. CASE Last(fs).at \notin LoopFrames \cup {"FUNC", "BODY"}
  <2>1. Of(Last(fs), LoopFrames) = 0 /\ Of(Last(fs), {"FUNC", "BODY"}) = 0
        BY <1>5 DEF Of
  <2>2. Len(ls) = C(LoopFrames) /\ Len(ss) = C({"FUNC", "BODY"})
        BY <1>2, <2>1 DEF Balanced
  <2>3. QED  BY <1>1, <1>5, <2>2 DEF Balanced, C, LoopFrames
<1>6. QED  BY <1>3, <1>4, <1>5

\* Moving the cursor of the running method's list, or another local of it.
LEMMA TopChanged ==
    ASSUME NEW fs, Stack(fs), NEW e, "at" \in DOMAIN e, e.at = Last(fs).at
    PROVE  Alike(fs, [fs EXCEPT ![Len(fs)] = e])
<1>1. Len(fs) \in DOMAIN fs /\ Last(fs) = fs[Len(fs)] /\ IsSequence(fs)
      BY Running1 DEF Stack
<1>2. LET t == [fs EXCEPT ![Len(fs)] = e]
      IN  /\ IsSequence(t) /\ DOMAIN t = DOMAIN fs
          /\ \A i \in DOMAIN fs : i # Len(fs) => t[i] = fs[i]
          /\ t[Len(fs)] = e
      BY <1>1, Replaced
<1>3. QED  BY <1>1, <1>2 DEF Alike, Stack

\* The stack when the running method goes on with its list.
LEMMA AdvancedTop ==
    ASSUME Stack(frames)
    PROVE  LET top == [Frame EXCEPT !.rest = Tail(@)]
           IN  /\ Advanced = [frames EXCEPT ![Len(frames)] = top]
               /\ "at" \in DOMAIN top /\ top.at = Frame.at
               /\ \A open : LET t == [top EXCEPT !.open = open]
                            IN  /\ Switched(open) = [frames EXCEPT ![Len(frames)] = t]
                                /\ "at" \in DOMAIN t /\ t.at = Frame.at
<1>1. Len(frames) \in DOMAIN frames /\ "at" \in DOMAIN Frame /\ Frame = frames[Len(frames)]
      BY Running1 DEF Frame
<1> DEFINE top == [Frame EXCEPT !.rest = Tail(@)]
<1>2. "at" \in DOMAIN top /\ top.at = Frame.at
      BY <1>1
<1>3. Advanced = [frames EXCEPT ![Len(frames)] = top]
      BY <1>1 DEF Advanced
<1>4. ASSUME NEW open
      PROVE  LET t == [top EXCEPT !.open = open]
             IN  /\ Switched(open) = [frames EXCEPT ![Len(frames)] = t]
                 /\ "at" \in DOMAIN t /\ t.at = Frame.at
  <2> DEFINE t == [top EXCEPT !.open = open]
  <2>1. "at" \in DOMAIN t /\ t.at = Frame.at
        BY <1>2
  <2>2. Switched(open) = [Advanced EXCEPT ![Len(frames)].open = open]
        BY DEF Switched, Advanced
  <2>3. Switched(open) = [frames EXCEPT ![Len(frames)] = t]
        BY <1>1, <1>3, <2>2
  <2>4. QED  BY <2>1, <2>3
<1> HIDE DEF top
<1>5. QED  BY <1>2, <1>3, <1>4 DEF top

\* A cursor moved, and an open block changed, leave the names alone.
LEMMA AdvancedAlike ==
    ASSUME Stack(frames)
    PROVE  Alike(frames, Advanced) /\ \A open : Alike(frames, Switched(open))
<1> DEFINE top == [Frame EXCEPT !.rest = Tail(@)]
           t(open) == [top EXCEPT !.open = open]
<1>1. /\ Advanced = [frames EXCEPT ![Len(frames)] = top]
      /\ "at" \in DOMAIN top /\ top.at = Frame.at
      /\ \A open : /\ Switched(open) = [frames EXCEPT ![Len(frames)] = t(open)]
                   /\ "at" \in DOMAIN t(open) /\ t(open).at = Frame.at
      BY AdvancedTop
<1> HIDE DEF top, t
<1>2. Alike(frames, [frames EXCEPT ![Len(frames)] = top])
      BY <1>1, TopChanged DEF Frame
<1>3. \A open : Alike(frames, [frames EXCEPT ![Len(frames)] = t(open)])
      BY <1>1, TopChanged DEF Frame
<1>4. QED  BY <1>1, <1>2, <1>3

\* The loop of gen_top over a list, and gen_func with its body, called by run.
LEMMA StackAboveRun ==
    ASSUME NEW fs, Stack(fs), Len(fs) = 1,
           NEW f, "at" \in DOMAIN f, f.at \in {"FUNC", "GLOBALS"}
    PROVE  /\ Stack(Append(fs, f)) /\ IsSequence(fs)
           /\ InFunction(Append(fs, f)) <=> f.at = "FUNC"
<1>1. /\ IsSequence(fs) /\ DOMAIN fs = 1 .. 1 /\ fs[1].at = "RUN" /\ "at" \in DOMAIN fs[1]
      BY Positions DEF Stack
<1> DEFINE gs == Append(fs, f)
<1>2. /\ IsSequence(gs) /\ Len(gs) = 2 /\ DOMAIN gs = {1, 2}
      /\ gs[1] = fs[1] /\ gs[2] = f
  <2>1. /\ IsSequence(gs) /\ Len(gs) = Len(fs) + 1 /\ DOMAIN gs = DOMAIN fs \cup {Len(fs) + 1}
        /\ \A i \in DOMAIN fs : gs[i] = fs[i]
        /\ gs[Len(fs) + 1] = f
        BY <1>1, Appended
  <2> HIDE DEF gs
  <2>2. QED  BY <1>1, <2>1
<1> HIDE DEF gs
<1>3. Stack(gs) /\ (InFunction(gs) <=> f.at = "FUNC")
      BY <1>1, <1>2 DEF Stack, InFunction
<1>4. QED  BY <1>1, <1>3 DEF gs

\* The loop over a list of globals pushes nothing.
LEMMA BalancedGlobals ==
    ASSUME NEW fs, NEW ls, NEW ss, Balanced(fs, ls, ss), Len(fs) = 1,
           NEW f, "at" \in DOMAIN f, f.at = "GLOBALS"
    PROVE  Balanced(Append(fs, f), ls, ss) /\ ~InFunction(Append(fs, f))
<1>1. Stack(Append(fs, f)) /\ ~InFunction(Append(fs, f)) /\ IsSequence(fs)
      BY StackAboveRun DEF Balanced
<1>2. Of(f, LoopFrames) = 0 /\ Of(f, {"FUNC", "BODY"}) = 0
      BY DEF Of, LoopFrames
<1>3. CountIn(fs, LoopFrames) \in Nat /\ CountIn(fs, {"FUNC", "BODY"}) \in Nat
      BY <1>1, CountIsNat
<1>4. /\ CountIn(Append(fs, f), LoopFrames) = CountIn(fs, LoopFrames)
      /\ CountIn(Append(fs, f), {"FUNC", "BODY"}) = CountIn(fs, {"FUNC", "BODY"})
      BY <1>1, <1>2, <1>3, CountAppended
<1>5. QED  BY <1>1, <1>4 DEF Balanced

\* gen_func pushes the scope of the parameters.
LEMMA BalancedFunction ==
    ASSUME NEW fs, NEW ls, NEW ss, Balanced(fs, ls, ss), Len(fs) = 1,
           NEW f, "at" \in DOMAIN f, f.at = "FUNC",
           NEW b, "at" \in DOMAIN b, b.at = "BODY", NEW x, NEW y
    PROVE  Balanced(fs \o <<f, b>>, ls, <<x, y>>) /\ InFunction(fs \o <<f, b>>)
<1> DEFINE gs == Append(fs, f)
<1>1. Stack(gs) /\ InFunction(gs) /\ IsSequence(fs)
      BY StackAboveRun DEF Balanced
<1>2. CountIn(fs, {"FUNC", "BODY"}) = 0
  <2> DEFINE I == {i \in DOMAIN fs : fs[i].at \in {"FUNC", "BODY"}}
  <2>1. DOMAIN fs = 1 .. 1 /\ fs[1].at = "RUN"
        BY Positions DEF Balanced, Stack
  <2>2. I = {}
        BY <2>1
  <2>3. CountIn(fs, {"FUNC", "BODY"}) = Cardinality(I)
        BY DEF CountIn
  <2> HIDE DEF I
  <2>4. QED  BY <2>2, <2>3, FS_EmptySet
<1>3. Of(f, LoopFrames) = 0 /\ Of(f, {"FUNC", "BODY"}) = 1
      BY DEF Of, LoopFrames
<1>4. CountIn(fs, LoopFrames) \in Nat
      BY <1>1, CountIsNat
<1>5. /\ CountIn(gs, LoopFrames) = CountIn(fs, LoopFrames)
      /\ CountIn(gs, {"FUNC", "BODY"}) = 1
      BY <1>1, <1>2, <1>3, <1>4, CountAppended
<1>6. IsSequence(<<x>>) /\ Len(<<x>>) = 1 /\ <<x, y>> = Append(<<x>>, y)
  <2>1. <<x>> \in Seq({x})
        OBVIOUS
  <2>2. IsSequence(<<x>>)
        BY <2>1, FromSeq
  <2>3. QED  BY <2>2
<1> HIDE DEF gs
<1>7. Balanced(gs, ls, <<x>>)
      BY <1>1, <1>5, <1>6 DEF Balanced
<1>8. Balanced(Append(gs, b), ls, Append(<<x>>, y)) /\ InFunction(Append(gs, b))
      BY <1>1, <1>7, BalancedBody
<1>9. fs \o <<f, b>> = Append(gs, b)
      BY <1>1, TwoAppended DEF gs
<1>10. QED  BY <1>6, <1>8, <1>9

-----------------------------------------------------------------------------
(* Loop contexts and scopes follow the nesting *)

NestInv == /\ Balanced(frames, loops, scopes)
           /\ ~InFunction(frames) => pending = <<>>

\* The running method goes on with its list.
Continues == /\ frames' = Advanced \/ \E open : frames' = Switched(open)
             /\ loops' = loops
             /\ IsSequence(scopes') /\ Len(scopes') = Len(scopes)
             /\ pending' = pending \/ InFunction(frames)
\* Which keeps the contexts in step.
LEMMA ContinuesNested ==
    ASSUME NestInv, Continues
    PROVE  NestInv'
<1>1. Stack(frames)
      BY DEF NestInv, Balanced
<1>2. Alike(frames, frames')
      BY <1>1, AdvancedAlike DEF Continues
<1>3. /\ Balanced(frames', loops, scopes)
      /\ InFunction(frames) <=> InFunction(frames')
      BY <1>2, BalancedAlike DEF NestInv
<1>4. QED  BY <1>3 DEF NestInv, Continues, Balanced

\* A statement goes on, calls a method f, or pushes a loop or a scope with it.
Calls(f) == /\ \/ frames' = Append(Advanced, f)
               \/ \E open : frames' = Append(Switched(open), f)
            /\ "at" \in DOMAIN f
            /\ pending' = pending
\* So does a call.
LEMMA CallsNested ==
    ASSUME NestInv, InFunction(frames), NEW f, Calls(f)
    PROVE  /\ f.at \in LoopFrames /\ (\E l : loops' = Append(loops, l)) /\ scopes' = scopes
                => NestInv'
           /\ f.at = "BODY" /\ (\E x : scopes' = Append(scopes, x)) /\ loops' = loops
                => NestInv'
           /\ f.at \in {"LIST", "ITEM"} /\ UNCHANGED <<loops, scopes>> => NestInv'
<1>1. Stack(frames)
      BY DEF NestInv, Balanced
<1>2. PICK fs : Alike(frames, fs) /\ frames' = Append(fs, f)
      BY <1>1, AdvancedAlike DEF Calls
<1>3. Balanced(fs, loops, scopes) /\ InFunction(fs)
      BY <1>2, BalancedAlike DEF NestInv
<1>4. CASE /\ f.at \in LoopFrames
           /\ \E l : loops' = Append(loops, l)
           /\ scopes' = scopes
  <2>1. PICK l : loops' = Append(loops, l)
        BY <1>4
  <2>2. Balanced(frames', loops', scopes') /\ InFunction(frames')
        BY <1>2, <1>3, <1>4, <2>1, BalancedLoop DEF Calls
  <2>3. QED  BY <2>2, <1>4 DEF NestInv, LoopFrames
<1>5. CASE /\ f.at = "BODY"
           /\ \E x : scopes' = Append(scopes, x)
           /\ loops' = loops
  <2>1. PICK x : scopes' = Append(scopes, x)
        BY <1>5
  <2>2. Balanced(frames', loops', scopes') /\ InFunction(frames')
        BY <1>2, <1>3, <1>5, <2>1, BalancedBody DEF Calls
  <2>3. QED  BY <2>2, <1>5 DEF NestInv, LoopFrames
<1>6. CASE f.at \in {"LIST", "ITEM"} /\ UNCHANGED <<loops, scopes>>
  <2>1. Balanced(frames', loops', scopes') /\ InFunction(frames')
        BY <1>2, <1>3, <1>6, BalancedOther DEF Calls, LoopFrames
  <2>2. QED  BY <2>1, <1>6 DEF NestInv, LoopFrames
<1>7. QED  BY <1>4, <1>5, <1>6

\* A body pushed with the method f that ends it.
CallsWithBody(fs, f, b) ==
    /\ frames' = fs \o <<f, b>>
    /\ "at" \in DOMAIN f /\ "at" \in DOMAIN b /\ b.at = "BODY"
    /\ \E x : scopes' = Append(scopes, x)
    /\ pending' = pending
\* And a call with the body it generates.
LEMMA WithBodyNested ==
    ASSUME NestInv, NEW fs, Balanced(fs, loops, scopes), InFunction(fs), NEW f, NEW b,
           CallsWithBody(fs, f, b)
    PROVE  /\ f.at \in LoopFrames /\ (\E l : loops' = Append(loops, l)) => NestInv'
           /\ f.at \in {"THEN", "ELSE"} /\ loops' = loops => NestInv'
<1>1. PICK x : scopes' = Append(scopes, x)
      BY DEF CallsWithBody
<1>2. frames' = Append(Append(fs, f), b)
      BY TwoAppended DEF CallsWithBody, Balanced, Stack
<1>3. CASE f.at \in LoopFrames /\ (\E l : loops' = Append(loops, l))
  <2>1. PICK l : loops' = Append(loops, l)
        BY <1>3
  <2>2. Balanced(Append(fs, f), loops', scopes) /\ InFunction(Append(fs, f))
        BY <1>3, <2>1, BalancedLoop DEF CallsWithBody
  <2>3. Balanced(frames', loops', scopes') /\ InFunction(frames')
        BY <1>1, <1>2, <2>2, BalancedBody DEF CallsWithBody
  <2>4. QED  BY <2>3 DEF NestInv
<1>4. CASE f.at \in {"THEN", "ELSE"} /\ loops' = loops
  <2>1. Balanced(Append(fs, f), loops, scopes) /\ InFunction(Append(fs, f))
        BY <1>4, BalancedOther DEF CallsWithBody, LoopFrames
  <2>2. Balanced(frames', loops', scopes') /\ InFunction(frames')
        BY <1>1, <1>2, <1>4, <2>1, BalancedBody DEF CallsWithBody
  <2>3. QED  BY <2>2 DEF NestInv
<1>5. QED  BY <1>3, <1>4

\* Every step keeps the contexts in step with the calls.
LEMMA NestStep == NestInv /\ [Next]_vars => NestInv'
<1> SUFFICES ASSUME NestInv, [Next]_vars PROVE NestInv'
    OBVIOUS
<1>1. /\ Stack(frames) /\ Balanced(frames, loops, scopes)
      /\ IsSequence(scopes) /\ IsSequence(loops) /\ IsSequence(frames)
      BY DEF NestInv, Balanced, Stack
<1>2. /\ Alike(frames, Advanced) /\ \A open : Alike(frames, Switched(open))
      /\ Balanced(Advanced, loops, scopes) /\ Len(Advanced) = Len(frames)
      /\ InFunction(frames) <=> InFunction(Advanced)
      BY <1>1, AdvancedAlike, BalancedAlike
<1>3. /\ Frame.at \notin {"RUN", "FUNC", "GLOBALS"} =>
            Len(frames) >= 3 /\ InFunction(frames)
      /\ Frame.at = "FUNC" => Len(frames) = 2 /\ InFunction(frames)
      /\ Frame.at = "GLOBALS" => Len(frames) = 2 /\ ~InFunction(frames)
      /\ Frame.at = "RUN" => Len(frames) = 1
      /\ "at" \in DOMAIN Frame /\ Len(frames) \in Nat
      BY <1>1, Running1 DEF Frame
<1>4. InList \/ AtSwitchItem => InFunction(frames)
      BY <1>3 DEF InList, AtSwitchItem, Running
<1>5. Len(frames) >= 3 => (InFunction(Callers) <=> InFunction(frames))
      BY <1>1, StackShortened DEF Callers
<1>6. Len(frames) >= 2 =>
      /\ Frame.at \in LoopFrames => Balanced(Callers, Front(loops), scopes)
      /\ Frame.at \in {"FUNC", "BODY"} => Balanced(Callers, loops, Front(scopes))
      /\ Frame.at \notin LoopFrames \cup {"FUNC", "BODY"} => Balanced(Callers, loops, scopes)
      BY <1>1, BalancedShortened DEF Callers, Frame
<1>7. CASE \/ GenGlobal \/ GenListedGlobal \/ GenPrototype \/ SkipStatement \/ GenNode
            \/ GenNestedCase \/ GenReturn \/ GenBreak \/ GenContinue \/ GenLabel
            \/ GenGotoBack \/ GenGotoForward \/ GenCase \/ GenDefault
            \/ SkipSwitchStatement
  <2>1. /\ frames' = Advanced \/ \E open : frames' = Switched(open)
        /\ loops' = loops /\ scopes' = scopes
        /\ pending' = pending \/ InList
        BY <1>7 DEF GenGlobal, GenListedGlobal, gen_global, GenPrototype, SkipStatement,
               GenNode, GenNestedCase, GenReturn, GenBreak, GenContinue, Jump, GenLabel,
               GenGotoBack, GenGotoForward, GenCase, GenDefault, SkipSwitchStatement,
               AtStatement, context, tables, jumps
  <2>2. Continues
        BY <2>1, <1>1, <1>4 DEF Continues
  <2>3. QED  BY <2>2, ContinuesNested
<1>8. CASE GenVarDecl
  <2>1. \E x, k : scopes' = scopes \/ scopes' = [scopes EXCEPT ![k] = x]
        BY <1>8 DEF GenVarDecl, gen_var_decl, Named, tables
  <2>2. IsSequence(scopes') /\ Len(scopes') = Len(scopes)
        BY <1>1, <2>1, Replaced
  <2>3. frames' = Advanced /\ loops' = loops /\ pending' = pending
        BY <1>8 DEF GenVarDecl, gen_var_decl, jumps
  <2>4. QED  BY <2>2, <2>3, ContinuesNested DEF Continues
<1>9. CASE GenListed
  <2>1. \E x, k : scopes' = scopes \/ scopes' = [scopes EXCEPT ![k] = x]
        BY <1>9 DEF GenListed, gen_var_decl, Named, tables
  <2>2. IsSequence(scopes') /\ Len(scopes') = Len(scopes)
        BY <1>1, <2>1, Replaced
  <2>3. frames' = Advanced /\ loops' = loops /\ pending' = pending
        BY <1>9 DEF GenListed, gen_var_decl, jumps
  <2>4. QED  BY <2>2, <2>3, ContinuesNested DEF Continues
<1>10. CASE GenVarList
  <2>1. Calls([at |-> "LIST", rest |-> Statement.list]) /\ UNCHANGED <<loops, scopes>>
        BY <1>10 DEF GenVarList, Calls, context, tables, jumps
  <2>2. InFunction(frames)
        BY <1>10, <1>4 DEF GenVarList, AtStatement
  <2>3. QED  BY <2>1, <2>2, CallsNested
<1>11. CASE GenSwitchStatement
  <2>1. Calls([at |-> "ITEM", rest |-> <<Statement>>]) /\ UNCHANGED <<loops, scopes>>
        BY <1>11 DEF GenSwitchStatement, Calls, context, tables, jumps
  <2>2. InFunction(frames)
        BY <1>11, <1>4 DEF GenSwitchStatement
  <2>3. QED  BY <2>1, <2>2, CallsNested
<1>12. CASE GenBlock
  <2>1. Calls(BodyFrame(Statement.statements)) /\ loops' = loops
        /\ scopes' = Append(scopes, NoNames)
        BY <1>12 DEF GenBlock, Calls, BodyFrame, PushScope, jumps
  <2>2. InFunction(frames)
        BY <1>12, <1>4 DEF GenBlock, AtStatement
  <2>3. BodyFrame(Statement.statements).at = "BODY"
        BY DEF BodyFrame
  <2>4. QED  BY <2>1, <2>2, <2>3, CallsNested
<1>13. CASE GenSwitch
  <2> DEFINE v == coerce(GenExpression(Statement.exp, Here), "i32")
             f == [at |-> "SWITCH", rest |-> Statement.body, open |-> NoBlock,
                   sw |-> v.cur, default |-> Len(v.block) + 1 + 1, after |-> Len(v.block) + 1]
  <2>1. Calls(f) /\ scopes' = scopes /\ \E l : loops' = Append(loops, l)
        BY <1>13 DEF GenSwitch, SwitchAfter, EnterSwitch, Calls, tables, jumps
  <2>2. InFunction(frames)
        BY <1>13, <1>4 DEF GenSwitch, AtStatement
  <2>3. f.at \in LoopFrames
        BY DEF LoopFrames
  <2> HIDE DEF f
  <2>4. QED  BY <2>1, <2>2, <2>3, CallsNested
<1>14. CASE GenWhile
  <2> DEFINE f == [at |-> "WHILE", head |-> Len(block) + 1,
                   after |-> Len(block) + 1 + 2]
             b == BodyFrame(Statement.body)
  <2>1. /\ frames' = Advanced \o <<f, b>>
        /\ scopes' = Append(scopes, NoNames) /\ pending' = pending
        /\ \E l : loops' = Append(loops, l)
        BY <1>14 DEF GenWhile, EnterLoop, PushScope, jumps, tables
  <2>2. "at" \in DOMAIN f /\ f.at = "WHILE" /\ "at" \in DOMAIN b /\ b.at = "BODY"
        BY DEF BodyFrame
  <2> HIDE DEF f, b
  <2>3. CallsWithBody(Advanced, f, b)
        BY <2>1, <2>2 DEF CallsWithBody
  <2>4. InFunction(Advanced)
        BY <1>14, <1>2, <1>4 DEF GenWhile, AtStatement
  <2>5. QED  BY <1>2, <2>1, <2>2, <2>3, <2>4, WithBodyNested DEF LoopFrames
<1>15. CASE GenDoWhile
  <2> DEFINE f == [at |-> "DO_WHILE", cond |-> Statement.cond, first |-> Len(block) + 1,
                   head |-> Len(block) + 1 + 1, after |-> Len(block) + 1 + 2]
             b == BodyFrame(Statement.body)
  <2>1. /\ frames' = Advanced \o <<f, b>>
        /\ scopes' = Append(scopes, NoNames) /\ pending' = pending
        /\ \E l : loops' = Append(loops, l)
        BY <1>15 DEF GenDoWhile, EnterLoop, PushScope, jumps, tables
  <2>2. "at" \in DOMAIN f /\ f.at = "DO_WHILE" /\ "at" \in DOMAIN b /\ b.at = "BODY"
        BY DEF BodyFrame
  <2> HIDE DEF f, b
  <2>3. CallsWithBody(Advanced, f, b)
        BY <2>1, <2>2 DEF CallsWithBody
  <2>4. InFunction(Advanced)
        BY <1>15, <1>2, <1>4 DEF GenDoWhile, AtStatement
  <2>5. QED  BY <1>2, <2>1, <2>2, <2>3, <2>4, WithBodyNested DEF LoopFrames
<1>16. CASE GenFor
  <2> DEFINE h == Len(GenExpression(Statement.init, Here).block) + 1
             f == [at |-> "FOR", loop |-> Statement.loop, head |-> h,
                   incr |-> h + 2, after |-> h + 3]
             b == BodyFrame(Statement.body)
  <2>1. /\ frames' = Advanced \o <<f, b>>
        /\ scopes' = Append(scopes, NoNames) /\ pending' = pending
        /\ \E l : loops' = Append(loops, l)
        BY <1>16 DEF GenFor, ForAfter, EnterFor, EnterLoop, PushScope, jumps, tables
  <2>2. "at" \in DOMAIN f /\ f.at = "FOR" /\ "at" \in DOMAIN b /\ b.at = "BODY"
        BY DEF BodyFrame
  <2> HIDE DEF f, b
  <2>3. CallsWithBody(Advanced, f, b)
        BY <2>1, <2>2 DEF CallsWithBody
  <2>4. InFunction(Advanced)
        BY <1>16, <1>2, <1>4 DEF GenFor, AtStatement
  <2>5. QED  BY <1>2, <2>1, <2>2, <2>3, <2>4, WithBodyNested DEF LoopFrames
<1>17. CASE GenIf
  <2> DEFINE n == Len(to_bool(GenExpression(Statement.cond, Here)).block)
             f == [at |-> "THEN", next |-> Statement.next, els |-> n + 2, merge |-> n + 3]
             b == BodyFrame(Statement.body)
  <2>1. /\ frames' = Advanced \o <<f, b>>
        /\ scopes' = Append(scopes, NoNames) /\ pending' = pending
        /\ loops' = loops
        BY <1>17 DEF GenIf, EnterIf, EnterOn, EnterThen, PushScope, jumps, tables
  <2>2. "at" \in DOMAIN f /\ f.at = "THEN" /\ "at" \in DOMAIN b /\ b.at = "BODY"
        BY DEF BodyFrame
  <2> HIDE DEF f, b
  <2>3. CallsWithBody(Advanced, f, b)
        BY <2>1, <2>2 DEF CallsWithBody
  <2>4. InFunction(Advanced)
        BY <1>17, <1>2, <1>4 DEF GenIf, AtStatement
  <2>5. QED  BY <1>2, <2>1, <2>2, <2>3, <2>4, WithBodyNested DEF LoopFrames
\* After THEN comes ELSE.
<1>18. Running("THEN") => Balanced(AfterThen, loops, scopes) /\ InFunction(AfterThen)
  <2>1. SUFFICES ASSUME Running("THEN")
                 PROVE  Balanced(AfterThen, loops, scopes) /\ InFunction(AfterThen)
        OBVIOUS
  <2>2. Balanced(Callers, loops, scopes) /\ InFunction(Callers)
        BY <2>1, <1>3, <1>5, <1>6 DEF Running, LoopFrames
  <2>3. QED  BY <2>2, BalancedOther DEF AfterThen, LoopFrames
<1>19. CASE GenElseIf
  <2> DEFINE n == Len(to_bool(GenExpression(Frame.next.cond, InElse)).block)
             f == [at |-> "THEN", next |-> Frame.next.next, els |-> n + 2, merge |-> n + 3]
             b == BodyFrame(Frame.next.body)
  <2>1. /\ frames' = AfterThen \o <<f, b>>
        /\ scopes' = Append(scopes, NoNames) /\ pending' = pending
        /\ loops' = loops
        BY <1>19 DEF GenElseIf, EnterIf, EnterOn, EnterThen, PushScope, jumps, tables
  <2>2. "at" \in DOMAIN f /\ f.at = "THEN" /\ "at" \in DOMAIN b /\ b.at = "BODY"
        BY DEF BodyFrame
  <2> HIDE DEF f, b
  <2>3. CallsWithBody(AfterThen, f, b)
        BY <2>1, <2>2 DEF CallsWithBody
  <2>4. Running("THEN")
        BY <1>19 DEF GenElseIf
  <2>5. QED  BY <1>18, <2>1, <2>2, <2>3, <2>4, WithBodyNested
<1>20. CASE GenElse
  <2>1. /\ frames' = Append(AfterThen, BodyFrame(Frame.next.body)) /\ Running("THEN")
        /\ scopes' = Append(scopes, NoNames) /\ loops' = loops /\ pending' = pending
        BY <1>20 DEF GenElse, PushScope, jumps
  <2>2. "at" \in DOMAIN BodyFrame(Frame.next.body) /\ BodyFrame(Frame.next.body).at = "BODY"
        BY DEF BodyFrame
  <2>3. QED  BY <1>18, <2>1, <2>2, BalancedBody DEF NestInv
<1>21. CASE GenNoElse
  <2>1. /\ frames' = AfterThen /\ Running("THEN")
        /\ scopes' = scopes /\ loops' = loops /\ pending' = pending
        BY <1>21 DEF GenNoElse, context, tables, jumps
  <2>2. QED  BY <1>18, <2>1 DEF NestInv
<1>22. CASE EndIf \/ EndVarList
  <2>1. /\ frames' = Callers /\ Frame.at \in {"ELSE", "LIST"}
        /\ scopes' = scopes /\ loops' = loops /\ pending' = pending
        BY <1>22 DEF EndIf, EndVarList, Running, context, tables, jumps
  <2>2. Balanced(Callers, loops, scopes) /\ InFunction(Callers)
        BY <2>1, <1>3, <1>5, <1>6 DEF LoopFrames
  <2>3. QED  BY <2>1, <2>2 DEF NestInv
<1>23. CASE EndSwitchStatement
  <2>1. /\ frames' = Callers \/ frames' = [Callers EXCEPT ![Len(Callers)].open = NoBlock]
        /\ Frame.at = "ITEM"
        /\ scopes' = scopes /\ loops' = loops /\ pending' = pending
        BY <1>23 DEF EndSwitchStatement, Running, context, tables, jumps
  <2>2. Balanced(Callers, loops, scopes) /\ InFunction(Callers) /\ Stack(Callers)
        BY <2>1, <1>3, <1>5, <1>6 DEF LoopFrames, Balanced
  <2>3. CASE frames' = Callers
        BY <2>1, <2>2, <2>3 DEF NestInv
  <2>4. CASE frames' = [Callers EXCEPT ![Len(Callers)].open = NoBlock]
    <3> DEFINE e == [Last(Callers) EXCEPT !.open = NoBlock]
    <3>1. Len(Callers) \in DOMAIN Callers /\ Last(Callers) = Callers[Len(Callers)]
          /\ "at" \in DOMAIN Last(Callers)
          BY <2>2, Running1
    <3>2. frames' = [Callers EXCEPT ![Len(Callers)] = e]
          BY <2>4, <3>1
    <3>3. "at" \in DOMAIN e /\ e.at = Last(Callers).at
          BY <3>1
    <3> HIDE DEF e
    <3>4. Alike(Callers, frames')
          BY <2>2, <3>2, <3>3, TopChanged
    <3>5. QED  BY <2>1, <2>2, <3>4, BalancedAlike DEF NestInv
  <2>5. QED  BY <2>1, <2>3, <2>4
<1>24. CASE EndBody
  <2>1. /\ frames' = Callers /\ Frame.at = "BODY"
        /\ scopes' = Front(scopes) /\ loops' = loops /\ pending' = pending
        BY <1>24 DEF EndBody, Running, jumps
  <2>2. Balanced(Callers, loops, Front(scopes)) /\ InFunction(Callers)
        BY <2>1, <1>3, <1>5, <1>6
  <2>3. QED  BY <2>1, <2>2 DEF NestInv
<1>25. CASE EndWhile \/ EndDoWhile \/ EndFor \/ EndSwitch
  <2>1. /\ frames' = Callers /\ Frame.at \in LoopFrames
        /\ scopes' = scopes /\ loops' = Front(loops) /\ pending' = pending
        BY <1>25 DEF EndWhile, EndDoWhile, EndFor, EndSwitch, LeaveLoop, LoopFrames,
                    Running, tables, jumps
  <2>2. Balanced(Callers, Front(loops), scopes) /\ InFunction(Callers)
        BY <2>1, <1>3, <1>5, <1>6 DEF LoopFrames
  <2>3. QED  BY <2>1, <2>2 DEF NestInv
<1>26. CASE EndFunc
  <2>1. /\ frames' = Callers /\ Frame.at = "FUNC"
        /\ scopes' = Front(scopes) /\ loops' = loops /\ pending' = <<>>
        BY <1>26 DEF EndFunc, Running
  <2>2. Balanced(Callers, loops, Front(scopes))
        BY <2>1, <1>3, <1>6
  <2>3. QED  BY <2>1, <2>2 DEF NestInv
<1>27. CASE EndGlobalList
  <2>1. /\ frames' = Callers /\ Frame.at = "GLOBALS"
        /\ scopes' = scopes /\ loops' = loops /\ pending' = pending
        BY <1>27 DEF EndGlobalList, Running, context, tables, jumps
  <2>2. Balanced(Callers, loops, scopes) /\ pending = <<>>
        BY <2>1, <1>3, <1>6 DEF LoopFrames, NestInv
  <2>3. QED  BY <2>1, <2>2 DEF NestInv
<1>28. CASE GenGlobalList
  <2> DEFINE f == [at |-> "GLOBALS", rest |-> Statement.list]
  <2>1. /\ frames' = Append(Advanced, f) /\ Len(frames) = 1
        /\ scopes' = scopes /\ loops' = loops /\ pending' = pending
        BY <1>28, <1>3 DEF GenGlobalList, AtTop, Running, context, tables, jumps
  <2>2. "at" \in DOMAIN f /\ f.at = "GLOBALS"
        OBVIOUS
  <2> HIDE DEF f
  <2>3. Balanced(frames', loops, scopes) /\ ~InFunction(frames')
        BY <1>2, <2>1, <2>2, BalancedGlobals
  <2>4. pending = <<>>
        BY <2>1 DEF NestInv, InFunction
  <2>5. QED  BY <2>1, <2>3, <2>4 DEF NestInv
<1>29. CASE GenFunc
  <2> DEFINE f == [at |-> "FUNC"]
             b == BodyFrame(Statement.body.statements)
  <2>1. /\ frames' = Advanced \o <<f, b>> /\ Len(frames) = 1
        /\ loops' = loops /\ pending' = <<>>
        BY <1>29, <1>3 DEF GenFunc, AtTop, Running
  <2>2. \E x, y : scopes' = <<x, y>>
        BY <1>29 DEF GenFunc
  <2>3. PICK x, y : scopes' = <<x, y>>
        BY <2>2
  <2>4. /\ "at" \in DOMAIN f /\ f.at = "FUNC" /\ "at" \in DOMAIN b /\ b.at = "BODY"
        BY DEF BodyFrame
  <2> HIDE DEF b, f
  <2>5. Balanced(frames', loops, scopes')
        BY <1>2, <2>1, <2>3, <2>4, BalancedFunction
  <2>6. QED  BY <2>1, <2>5 DEF NestInv
<1>30. CASE EndRun \/ GenNestedDefault \/ Stopped \/ UNCHANGED vars
  <2>1. UNCHANGED <<frames, loops, scopes, pending>>
        BY <1>30 DEF EndRun, GenNestedDefault, Stopped, vars, tables, jumps
  <2>2. QED  BY <2>1 DEF NestInv, Balanced
<1>31. QED  BY <1>7, <1>8, <1>9, <1>10, <1>11, <1>12, <1>13, <1>14, <1>15,
               <1>16, <1>17, <1>19, <1>20, <1>21, <1>22, <1>23, <1>24, <1>25,
               <1>26, <1>27, <1>28, <1>29, <1>30
           DEF Next

\* run begins with nothing pushed.
LEMMA NestBegins == Init => NestInv
<1>1. SUFFICES ASSUME Init PROVE NestInv
      OBVIOUS
<1>2. frames = <<[at |-> "RUN", rest |-> program]>> /\ loops = <<>> /\ scopes = <<>>
      /\ pending = <<>>
      BY <1>1 DEF Init
<1>3. Stack(frames) /\ ~InFunction(frames)
  <2>1. IsSequence(frames) /\ Len(frames) = 1
        BY <1>2, FromSeq, frames \in Seq({frames[1]})
  <2>2. QED  BY <1>2, <2>1, Positions DEF Stack, InFunction
<1>4. \A S : "RUN" \notin S => CountIn(frames, S) = 0
  <2>1. SUFFICES ASSUME NEW S, "RUN" \notin S PROVE CountIn(frames, S) = 0
        OBVIOUS
  <2> DEFINE I == {i \in DOMAIN frames : frames[i].at \in S}
  <2>2. I = {}
        BY <1>2, <2>1
  <2>3. QED  BY <2>2, FS_EmptySet DEF CountIn
<1>5. IsSequence(<<>>) /\ Len(<<>>) = 0
  <2>1. <<>> \in Seq({})
        OBVIOUS
  <2>2. QED  BY <2>1, FromSeq
<1>6. CountIn(frames, LoopFrames) = 0 /\ CountIn(frames, {"FUNC", "BODY"}) = 0
      BY <1>4 DEF LoopFrames
<1>7. QED  BY <1>2, <1>3, <1>5, <1>6 DEF NestInv, Balanced

\* The loop contexts and the scopes match the pending loops and bodies, and no
\* goto waits outside a function: whatever the programs are, and whatever code
\* is generated for expressions.
THEOREM Nesting == Spec => []ContextMatchesNesting
<1>1. Init => NestInv
      BY NestBegins
<1>2. NestInv => ContextMatchesNesting
  <2>1. SUFFICES ASSUME NestInv PROVE ContextMatchesNesting
        OBVIOUS
  <2>2. Frame.at = "RUN" => ~InFunction(frames)
        BY <2>1, Running1 DEF NestInv, Balanced, Frame, InFunction
  <2>3. /\ Len(loops) = CountIn(frames, LoopFrames)
        /\ Len(scopes) = CountIn(frames, {"FUNC", "BODY"})
        BY <2>1 DEF NestInv, Balanced
  <2>4. QED  BY <2>1, <2>2, <2>3 DEF NestInv, ContextMatchesNesting, CountIn
<1>3. QED  BY <1>1, <1>2, NestStep, PTL DEF Spec
=============================================================================
