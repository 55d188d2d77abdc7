----------------------------- MODULE LexerProofs -----------------------------
(***************************************************************************)
(* Proofs about Lexer, for texts of any length over any characters.  On a  *)
(* file what is pushed back is read next, and the line is right; on a file *)
(* or a string the tokens, the position and the count of open expressions  *)
(* keep their types, and every step reads on.                              *)
(*                                                                         *)
(* StepTakes reduces every reader of a file to one fact: it takes a number *)
(* of characters off the front of what is left and counts the newlines     *)
(* among them, although it may have read more and pushed them back.  Both  *)
(* invariants of a file follow from that.  For strings, which are read out *)
(* of order, the lengths alone are followed (Counted).                     *)
(***************************************************************************)
EXTENDS Lexer, FiniteSetTheorems, FunctionTheorems, SequenceTheorems,
        WellFoundedInduction, TLAPS

Character == STRING \ {EOF}
Newlines(s) == {i \in DOMAIN s : s[i] = "\n"}

\* r is the end of the text.
Suffix(r) == /\ Len(r) <= Len(text)
             /\ \A i \in 1 .. Len(r) : r[i] = text[Len(text) - Len(r) + i]

\* The inductive invariant of reading from a file.
Following == /\ text \in Seq(Character)
             /\ rest \in Seq(Character)
             /\ Suffix(rest)
             /\ "line" \in DOMAIN pos
             /\ pos.line = 1 + Cardinality(Newlines(SubSeq(text, 1, Len(text) - Len(rest))))
Inv == source = "file" => Following

\* n characters of what is left are taken and their newlines counted.
Takes(n) == /\ rest' = From(rest, n + 1)
            /\ "line" \in DOMAIN pos'
            /\ pos'.line = pos.line + Cardinality(Newlines(Upto(rest, n)))

-----------------------------------------------------------------------------
(* Reading ahead                                                           *)

\* The smallest of some numbers is one of them.
LEMMA SmallestIn ==
    ASSUME NEW S \in SUBSET Nat, S # {}
    PROVE  Smallest(S) \in S
<1>1. PICK n \in S : \A k \in S : <<k, n>> \notin OpToRel(<, Nat)
  BY NatLessThanWellFounded, WFMin
<1>2. ASSUME NEW k \in S PROVE n <= k
  <2>1. n \in Nat /\ k \in Nat
    OBVIOUS
  <2>2. ~(k < n)
    BY <1>1, <2>1 DEF OpToRel
  <2> QED
    BY <2>1, <2>2
<1> QED
  BY <1>2 DEF Smallest

\* A run of characters ends, at the end of the text if not before, and is not empty
\* where one of them stands.
LEMMA SpanIsNat ==
    ASSUME NEW r \in Seq(Character), NEW i \in Nat \ {0}, NEW S, EOF \notin S
    PROVE  Span(r, i, S) \in Nat /\ (Char(r, i) \in S => Span(r, i, S) # 0)
<1> DEFINE Ends == {n \in 0 .. Len(r) : Char(r, i + n) \notin S}
<1>1. Len(r) \in Nat
  OBVIOUS
<1>2. Char(r, i + Len(r)) = EOF
  BY <1>1 DEF Char
<1>3. Len(r) \in Ends
  BY <1>1, <1>2
<1>4. Ends \in SUBSET Nat
  OBVIOUS
<1>5. Smallest(Ends) \in Ends
  <2> HIDE DEF Ends
  <2> QED
    BY <1>3, <1>4, SmallestIn
<1>6. Smallest(Ends) = 0 => Char(r, i) \notin S
  <2>1. Char(r, i + Smallest(Ends)) \notin S
    BY <1>5
  <2>2. i + 0 = i
    OBVIOUS
  <2> HIDE DEF Ends
  <2> QED
    BY <2>1, <2>2
<1> QED
  BY <1>4, <1>5, <1>6 DEF Span

\* A string ends: behind the last character no backslash escapes.
LEMMA StringEnds ==
    ASSUME NEW r \in Seq(Character), NEW delimiter
    PROVE  StringOf(r, delimiter).length \in Nat \ {0}
<1> DEFINE Closes == {i \in 2 .. Len(r) + 2 :
                         ~Escaped(r, i) /\ Char(r, i) \in {delimiter, EOF}}
<1>1. Len(r) \in Nat
  OBVIOUS
<1>2. Char(r, Len(r) + 1) = EOF /\ Char(r, Len(r) + 2) = EOF
  BY <1>1 DEF Char
<1>3. ~Escaped(r, Len(r) + 2)
  <2>1. ASSUME NEW n \in 1 .. Len(r) + 2 - 2,
               \A j \in Len(r) + 2 - n .. Len(r) + 2 - 1 : Char(r, j) = "\\"
        PROVE  FALSE
    <3>1. Len(r) + 1 \in Len(r) + 2 - n .. Len(r) + 2 - 1
      BY <1>1
    <3>2. Char(r, Len(r) + 1) = "\\"
      BY <2>1, <3>1
    <3> QED
      BY <1>2, <3>2 DEF EOF
  <2> QED
    BY <2>1 DEF Escaped
<1>4. Len(r) + 2 \in Closes
  BY <1>1, <1>2, <1>3
<1>5. Closes \in SUBSET (Nat \ {0})
  BY <1>1
<1>6. Smallest(Closes) \in Closes
  <2> HIDE DEF Closes
  <2> QED
    BY <1>4, <1>5, SmallestIn
<1> QED
  BY <1>5, <1>6 DEF StringOf

-----------------------------------------------------------------------------
(* Lines                                                                   *)

\* Moved adds the newlines among the characters to the line.
LEMMA MovedLine ==
    ASSUME NEW p, "line" \in DOMAIN p, p.line \in Nat, NEW s
    PROVE  /\ "line" \in DOMAIN Moved(p, s)
           /\ Moved(p, s).line = p.line + Cardinality(Newlines(s))
<1>1. CASE Newlines(s) = {}
  <2>1. Moved(p, s) = [p EXCEPT !.col = @ + Len(s)]
    BY <1>1 DEF Moved, Newlines
  <2>2. Cardinality(Newlines(s)) = 0
    BY <1>1, FS_EmptySet
  <2> QED
    BY <2>1, <2>2
<1>2. CASE Newlines(s) # {}
  BY <1>2 DEF Moved, Newlines
<1> QED
  BY <1>1, <1>2

\* A text has a number of newlines.
LEMMA NewlinesFinite ==
    ASSUME NEW t \in Seq(Character)
    PROVE  IsFiniteSet(Newlines(t)) /\ Cardinality(Newlines(t)) \in Nat
<1>1. IsFiniteSet(1 .. Len(t))
  BY FS_Interval
<1>2. Newlines(t) \in SUBSET (1 .. Len(t))
  BY DEF Newlines
<1>3. IsFiniteSet(Newlines(t))
  BY <1>1, <1>2, FS_Subset
<1> QED
  BY <1>3, FS_CardinalityType

\* The newlines of a text up to some place, and of what stands behind it.
LEMMA NewlinesAdd ==
    ASSUME NEW t \in Seq(Character), NEW s \in Seq(Character), NEW a \in Nat,
           a + Len(s) <= Len(t), \A i \in 1 .. Len(s) : s[i] = t[a + i]
    PROVE  Cardinality(Newlines(SubSeq(t, 1, a + Len(s)))) =
               Cardinality(Newlines(SubSeq(t, 1, a))) + Cardinality(Newlines(s))
<1> DEFINE m == Len(s)
           Before == {i \in 1 .. a : t[i] = "\n"}
           Behind == {i \in a + 1 .. a + m : t[i] = "\n"}
           Shift == [i \in Newlines(s) |-> a + i]
<1>1. m \in Nat /\ Len(t) \in Nat
  OBVIOUS
<1>2. ASSUME NEW n \in 0 .. Len(t)
      PROVE  Newlines(SubSeq(t, 1, n)) = {i \in 1 .. n : t[i] = "\n"}
  <2>1. DOMAIN SubSeq(t, 1, n) = 1 .. n
    BY <1>1, <1>2
  <2>2. \A i \in 1 .. n : SubSeq(t, 1, n)[i] = t[i]
    BY <1>1, <1>2
  <2> QED
    BY <2>1, <2>2 DEF Newlines
<1>3. /\ Newlines(SubSeq(t, 1, a)) = Before
      /\ Newlines(SubSeq(t, 1, a + m)) = {i \in 1 .. a + m : t[i] = "\n"}
  <2>1. a \in 0 .. Len(t) /\ a + m \in 0 .. Len(t)
    BY <1>1
  <2> QED
    BY <1>2, <2>1
<1>4. /\ Before \cup Behind = {i \in 1 .. a + m : t[i] = "\n"}
      /\ Before \cap Behind = {}
  BY <1>1
<1>5. IsFiniteSet(Before) /\ IsFiniteSet(Behind) /\ IsFiniteSet(Newlines(s))
  <2>1. IsFiniteSet(1 .. a) /\ IsFiniteSet(a + 1 .. a + m)
    BY <1>1, FS_Interval
  <2> QED
    BY <2>1, FS_Subset, NewlinesFinite
<1>6. Cardinality(Behind) = Cardinality(Newlines(s))
  <2>1. Newlines(s) = {i \in 1 .. m : s[i] = "\n"}
    BY DEF Newlines
  <2>2. Shift \in [Newlines(s) -> Behind]
    BY <1>1, <2>1
  <2>3. \A i, j \in Newlines(s) : Shift[i] = Shift[j] => i = j
    BY <1>1, <2>1
  <2>4. \A k \in Behind : \E i \in Newlines(s) : Shift[i] = k
    <3> SUFFICES ASSUME NEW k \in Behind PROVE \E i \in Newlines(s) : Shift[i] = k
      OBVIOUS
    <3>1. k - a \in 1 .. m /\ a + (k - a) = k
      BY <1>1
    <3>2. k - a \in Newlines(s)
      BY <2>1, <3>1
    <3> QED
      BY <3>1, <3>2
  <2>5. Shift \in Bijection(Newlines(s), Behind)
    <3> HIDE DEF Shift, Behind
    <3> QED
      BY <2>2, <2>3, <2>4 DEF Bijection, Injection, Surjection, IsInjective
  <2>6. ExistsBijection(Newlines(s), Behind)
    BY <2>5 DEF ExistsBijection
  <2> QED
    BY <1>5, <2>6, FS_Bijection
<1>7. Cardinality(Before \cup Behind) = Cardinality(Before) + Cardinality(Behind)
  <2> HIDE DEF Before, Behind
  <2>1. Cardinality(Before \cup Behind) =
            Cardinality(Before) + Cardinality(Behind) - Cardinality(Before \cap Behind)
    BY <1>5, FS_Union
  <2>2. Cardinality(Before \cap Behind) = 0
    BY <1>4, FS_EmptySet
  <2>3. Cardinality(Before) \in Nat /\ Cardinality(Behind) \in Nat
    BY <1>5, FS_CardinalityType
  <2> QED
    BY <2>1, <2>2, <2>3
<1> QED
  BY <1>3, <1>4, <1>6, <1>7

-----------------------------------------------------------------------------
(* Taking characters off the front                                         *)

\* What is behind the first n characters.
LEMMA FromFacts ==
    ASSUME NEW r \in Seq(Character), NEW n \in Nat
    PROVE  /\ From(r, n + 1) \in Seq(Character)
           /\ Len(From(r, n + 1)) = IF n <= Len(r) THEN Len(r) - n ELSE 0
           /\ \A i \in 1 .. Len(From(r, n + 1)) : From(r, n + 1)[i] = r[n + i]
<1>1. Len(r) \in Nat
  OBVIOUS
<1>2. \A i \in n + 1 .. Len(r) : r[i] \in Character
  BY <1>1
<1> QED
  BY <1>1, <1>2, SubSeqProperties DEF From

\* The first n characters.
LEMMA UptoFacts ==
    ASSUME NEW r \in Seq(Character), NEW n \in Nat
    PROVE  /\ Upto(r, n) \in Seq(Character)
           /\ Len(Upto(r, n)) = IF n <= Len(r) THEN n ELSE Len(r)
           /\ \A i \in 1 .. Len(Upto(r, n)) : Upto(r, n)[i] = r[i]
<1> DEFINE m == IF n <= Len(r) THEN n ELSE Len(r)
<1>1. m \in 0 .. Len(r) /\ Len(r) \in Nat
  OBVIOUS
<1>2. \A i \in 1 .. m : r[i] \in Character
  BY <1>1
<1>3. Upto(r, n) = SubSeq(r, 1, m)
  BY DEF Upto
<1> HIDE DEF m
<1>4. /\ SubSeq(r, 1, m) \in Seq(Character)
      /\ Len(SubSeq(r, 1, m)) = m
      /\ \A i \in 1 .. m : SubSeq(r, 1, m)[i] = r[i]
  BY <1>1, <1>2, SubSeqProperties
<1> QED
  BY <1>3, <1>4 DEF m

\* A reader that takes characters from the front and counts their newlines keeps
\* what is left the end of the text, and the line right.
LEMMA TakesFollows ==
    ASSUME Following, NEW n \in Nat, Takes(n), text' = text
    PROVE  Following'
<1> DEFINE s == Upto(rest, n)
           a == Len(text) - Len(rest)
<1>1. /\ text \in Seq(Character) /\ rest \in Seq(Character) /\ Suffix(rest)
      /\ Len(text) \in Nat /\ Len(rest) \in Nat /\ a \in Nat
  BY DEF Following, Suffix
<1>2. /\ s \in Seq(Character)
      /\ Len(s) = IF n <= Len(rest) THEN n ELSE Len(rest)
      /\ \A i \in 1 .. Len(s) : s[i] = rest[i]
  BY <1>1, UptoFacts
<1>3. /\ rest' \in Seq(Character)
      /\ Len(rest') = Len(rest) - Len(s)
      /\ \A i \in 1 .. Len(rest') : rest'[i] = rest[n + i]
      /\ Len(rest') # 0 => Len(s) = n
  <2> HIDE DEF s
  <2>1. rest' = From(rest, n + 1)
    BY DEF Takes
  <2>2. /\ rest' \in Seq(Character)
        /\ Len(rest') = IF n <= Len(rest) THEN Len(rest) - n ELSE 0
        /\ \A i \in 1 .. Len(rest') : rest'[i] = rest[n + i]
    BY <1>1, <2>1, FromFacts
  <2> QED
    BY <1>1, <1>2, <2>2
<1>4. Suffix(rest)'
  <2>1. ASSUME NEW i \in 1 .. Len(rest')
        PROVE  rest'[i] = text[Len(text) - Len(rest') + i]
    <3>1. Len(s) = n /\ n + i \in 1 .. Len(rest)
      BY <1>1, <1>2, <1>3
    <3>2. rest[n + i] = text[Len(text) - Len(rest) + (n + i)]
      BY <1>1, <3>1 DEF Suffix
    <3>3. Len(text) - Len(rest') + i = Len(text) - Len(rest) + (n + i)
      BY <1>1, <1>3, <3>1
    <3> QED
      BY <1>3, <3>2, <3>3
  <2>2. Len(rest') <= Len(text)
    BY <1>1, <1>2, <1>3
  <2> QED
    BY <2>1, <2>2 DEF Suffix
<1>5. Cardinality(Newlines(SubSeq(text, 1, a + Len(s)))) =
          Cardinality(Newlines(SubSeq(text, 1, a))) + Cardinality(Newlines(s))
  <2>1. a + Len(s) <= Len(text)
    BY <1>1, <1>2
  <2>2. \A i \in 1 .. Len(s) : s[i] = text[a + i]
    <3> SUFFICES ASSUME NEW i \in 1 .. Len(s) PROVE s[i] = text[a + i]
      OBVIOUS
    <3>1. i \in 1 .. Len(rest)
      BY <1>1, <1>2
    <3> QED
      BY <1>1, <1>2, <3>1 DEF Suffix
  <2> HIDE DEF s, a
  <2> QED
    BY <1>1, <1>2, <2>1, <2>2, NewlinesAdd
<1>6. Len(text) - Len(rest') = a + Len(s)
  BY <1>1, <1>2, <1>3
<1>7. pos'.line = 1 + Cardinality(Newlines(SubSeq(text', 1, Len(text') - Len(rest'))))
  <2>1. SubSeq(text, 1, a) \in Seq(Character)
    BY <1>1
  <2>2. /\ Cardinality(Newlines(SubSeq(text, 1, a))) \in Nat
        /\ Cardinality(Newlines(s)) \in Nat
    BY <1>2, <2>1, NewlinesFinite
  <2>3. pos.line = 1 + Cardinality(Newlines(SubSeq(text, 1, a)))
    BY DEF Following
  <2>4. pos'.line = pos.line + Cardinality(Newlines(s))
    BY DEF Takes
  <2> HIDE DEF s, a
  <2> QED
    BY <1>5, <1>6, <2>2, <2>3, <2>4
<1> QED
  BY <1>1, <1>3, <1>4, <1>7 DEF Following, Takes

-----------------------------------------------------------------------------
(* Every reader takes characters off the front                             *)

\* The line is a number, as the newlines read are finitely many.
LEMMA LineIsNat == Following => pos.line \in Nat
<1> SUFFICES ASSUME Following PROVE pos.line \in Nat
  OBVIOUS
<1>1. SubSeq(text, 1, Len(text) - Len(rest)) \in Seq(Character)
  BY DEF Following, Suffix
<1>2. Cardinality(Newlines(SubSeq(text, 1, Len(text) - Len(rest)))) \in Nat
  BY <1>1, NewlinesFinite
<1> QED
  BY <1>2 DEF Following

\* A reader that takes characters moves the position over them.
LEMMA TakeTakes ==
    ASSUME Following, NEW n \in Nat, Take(rest, n)
    PROVE  Takes(n)
  BY LineIsNat, MovedLine DEF Following, Take, Takes

\* A number has a number of characters.
LEMMA NumberLength ==
    ASSUME NEW prefix, NEW k \in Nat, NEW n \in Nat, k + n # 0
    PROVE  NumberAfter(prefix, k, n).length \in Nat \ {0}
  BY DEF NumberAfter

\* On a file an operator is read where it stands: a "/" pushed back is in front of
\* what follows it, and the position has its column, not its line, wrong.
LEMMA StreamIsRest ==
    ASSUME Following, source = "file", InOperator
    PROVE  /\ Stream = rest
           /\ "line" \in DOMAIN PosThen /\ PosThen.line = pos.line
<1>1. rest \in Seq(Character) /\ Len(rest) \in Nat
  BY DEF Following
<1>2. CASE Peek # "/"
  BY <1>2 DEF Stream, PosThen, Following
<1>3. CASE Peek = "/"
  <2>1. Len(rest) >= 1 /\ rest[1] = "/"
    BY <1>1, <1>3 DEF Peek, Char, EOF
  <2>2. Stream = <<"/">> \o From(rest, 2)
    BY <1>3 DEF Stream, PushBack
  <2>3. <<"/">> \o From(rest, 2) = rest
    BY <1>1, <2>1 DEF From
  <2>4. Newlines(<<"/">>) = {}
    BY DEF Newlines
  <2>5. /\ "line" \in DOMAIN Moved(pos, <<"/">>)
        /\ Moved(pos, <<"/">>).line = pos.line
    <3>1. Cardinality(Newlines(<<"/">>)) = 0
      BY <2>4, FS_EmptySet
    <3>2. "line" \in DOMAIN pos /\ pos.line \in Nat
      BY LineIsNat DEF Following
    <3>3. /\ "line" \in DOMAIN Moved(pos, <<"/">>)
          /\ Moved(pos, <<"/">>).line = pos.line + Cardinality(Newlines(<<"/">>))
      BY <3>2, MovedLine
    <3> QED
      BY <3>1, <3>2, <3>3
  <2> QED
    BY <1>3, <2>2, <2>3, <2>5 DEF PosThen
<1> QED
  BY <1>2, <1>3

\* What a reader takes from the stream on a file it takes from what is left.
LEMMA StreamTakes ==
    ASSUME Following, source = "file", InOperator, NEW n \in Nat,
           rest' = From(Stream, n + 1), pos' = Moved(PosThen, Upto(Stream, n))
    PROVE  Takes(n)
  BY StreamIsRest, LineIsNat, MovedLine DEF Takes

\* An operator of which nothing is pushed back is taken as it is.
LEMMA WholeOperatorTakes ==
    ASSUME Following, source = "file", InOperator, NEW n \in Nat, TakeOperator(n, 0)
    PROVE  Takes(n)
<1>1. SubSeq(Stream, n - 0 + 1, n) = <<>>
  BY SubSeqEmpty
<1>2. From(Stream, n + 1) \in Seq(Character)
  BY StreamIsRest, FromFacts DEF Following
<1>3. rest' = From(Stream, n + 1)
  BY <1>1, <1>2 DEF TakeOperator, PushBack
<1> QED
  BY <1>3, StreamTakes DEF TakeOperator

\* The second of two characters is read and pushed back; it is an operator's.
LEMMA SplitOperatorTakes ==
    ASSUME Following, source = "file", InOperator, Pair, TakeOperator(2, 1)
    PROVE  Takes(1)
<1>1. rest \in Seq(Character) /\ Len(rest) \in Nat /\ Stream = rest
  BY StreamIsRest DEF Following
<1>2. Len(rest) >= 2 /\ rest[2] # "\n"
  BY <1>1 DEF Pair, Char, EOF, SingleOperator
<1>3. SubSeq(rest, 2, 2) \o From(rest, 3) = From(rest, 2)
  <2>1. rest \in Seq(STRING)
    BY <1>1 DEF Character
  <2>2. 2 \in 1 .. Len(rest) + 1 /\ 2 \in 2 - 1 .. Len(rest) /\ Len(rest) \in 2 .. Len(rest)
    BY <1>1, <1>2
  <2>3. SubSeq(rest, 2, 2) \o SubSeq(rest, 2 + 1, Len(rest)) = SubSeq(rest, 2, Len(rest))
    BY <2>1, <2>2, ConcatAdjacentSubSeq
  <2>4. 2 + 1 = 3
    OBVIOUS
  <2> QED
    BY <2>3, <2>4 DEF From
<1>4. rest' = From(rest, 1 + 1)
  BY <1>1, <1>3 DEF TakeOperator, PushBack
<1>5. Newlines(Upto(rest, 2)) = Newlines(Upto(rest, 1))
  <2>1. /\ DOMAIN Upto(rest, 2) = 1 .. 2 /\ DOMAIN Upto(rest, 1) = 1 .. 1
        /\ \A i \in 1 .. 2 : Upto(rest, 2)[i] = rest[i]
        /\ Upto(rest, 1)[1] = rest[1]
    BY <1>1, <1>2 DEF Upto
  <2> QED
    BY <1>2, <2>1 DEF Newlines
<1>6. pos' = Moved(PosThen, Upto(rest, 2))
  BY <1>1 DEF TakeOperator
<1>7. /\ "line" \in DOMAIN pos'
      /\ pos'.line = pos.line + Cardinality(Newlines(Upto(rest, 2)))
  BY <1>6, StreamIsRest, LineIsNat, MovedLine
<1> QED
  BY <1>4, <1>5, <1>7 DEF Takes

\* The readers of anything but an operator.
Reader == \/ TokenMakeNumber \/ TokenMakeHexadecimal \/ TokenMakeBinary
          \/ TokenMakeIdentifierOrKeyword \/ TokenMakeSymbol
          \/ TokenMakeNewline \/ HandleWhitespace
          \/ TokenMakeString \/ TokenMakeQuote
          \/ TokenMakeOneLineComment \/ TokenMakeMultilineComment

\* Each of them takes a number of characters, and at least one if it meets no error.
LEMMA ReaderTakes ==
    ASSUME rest \in Seq(Character), Reader
    PROVE  \E n \in Nat : Take(rest, n) /\ (n # 0 \/ Error)
<1>1. Len(rest) \in Nat
  OBVIOUS
<1>2. /\ EOF \notin Digit /\ EOF \notin HexDigit /\ EOF \notin Letter \cup Digit
  BY DEF EOF, Digit, HexDigit, Letter
<1>3. CASE TokenMakeNumber
  <2>1. Span(rest, 1, Digit) \in Nat \ {0}
    BY <1>2, <1>3, SpanIsNat DEF TokenMakeNumber, Peek
  <2>2. NumberAfter(<<>>, 0, Span(rest, 1, Digit)).length \in Nat \ {0}
    BY <2>1, NumberLength
  <2> QED
    BY <1>3, <2>2 DEF TokenMakeNumber
<1>4. CASE TokenMakeHexadecimal
  <2>1. Span(rest, 2, HexDigit) \in Nat
    BY <1>2, SpanIsNat
  <2>2. NumberAfter(<<"0", "x">>, 1, Span(rest, 2, HexDigit)).length \in Nat \ {0}
    BY <2>1, NumberLength
  <2> QED
    BY <1>4, <2>2 DEF TokenMakeHexadecimal
<1>5. CASE TokenMakeBinary
  <2>1. Span(rest, 2, Digit) \in Nat
    BY <1>2, SpanIsNat
  <2>2. NumberAfter(<<"0", "b">>, 1, Span(rest, 2, Digit)).length \in Nat \ {0}
    BY <2>1, NumberLength
  <2>3. Span(rest, 2, Digit) + 1 \in Nat \ {0}
    BY <2>1
  <2> QED
    BY <1>5, <2>2, <2>3 DEF TokenMakeBinary
<1>6. CASE TokenMakeIdentifierOrKeyword
  <2>1. Span(rest, 1, Letter \cup Digit) \in Nat \ {0}
    BY <1>2, <1>6, SpanIsNat DEF TokenMakeIdentifierOrKeyword, Peek
  <2> QED
    BY <1>6, <2>1 DEF TokenMakeIdentifierOrKeyword
<1>7. CASE TokenMakeSymbol \/ TokenMakeNewline \/ HandleWhitespace
  <2>1. Take(rest, 1)
    BY <1>7 DEF TokenMakeSymbol, TokenMakeNewline, HandleWhitespace
  <2> QED
    BY <2>1
<1>8. CASE TokenMakeString
  <2>1. StringOf(rest, "\"").length \in Nat \ {0}
    BY StringEnds
  <2> QED
    BY <1>8, <2>1 DEF TokenMakeString
<1>9. CASE TokenMakeQuote
  <2>1. Take(rest, 3) \/ Take(rest, 4)
    BY <1>9 DEF TokenMakeQuote
  <2> QED
    BY <2>1
<1>10. CASE TokenMakeOneLineComment
  <2> DEFINE S == {rest[i] : i \in DOMAIN rest} \ {"\n"}
  <2>1. EOF \notin S
    BY <1>1 DEF Character
  <2>2. Span(rest, 3, S) \in Nat
    <3> HIDE DEF S
    <3> QED
      BY <2>1, SpanIsNat
  <2>3. 2 + Span(rest, 3, S) \in Nat \ {0}
    BY <2>2
  <2> QED
    BY <1>10, <2>3 DEF TokenMakeOneLineComment
<1>11. CASE TokenMakeMultilineComment
  <2>1. CASE Closing(3) = {}
    BY <1>1, <1>11, <2>1 DEF TokenMakeMultilineComment
  <2>2. CASE Closing(3) # {}
    <3>1. Closing(3) \in SUBSET Nat
      BY <1>1 DEF Closing
    <3>2. Smallest(Closing(3)) + 1 \in Nat \ {0}
      BY <2>2, <3>1, SmallestIn
    <3> QED
      BY <1>11, <2>2, <3>2 DEF TokenMakeMultilineComment
  <2> QED
    BY <2>1, <2>2
<1> QED
  BY <1>3, <1>4, <1>5, <1>6, <1>7, <1>8, <1>9, <1>10, <1>11 DEF Reader

\* Every step but an error or the end takes something off the front of the rest.
LEMMA StepTakes ==
    ASSUME Following, source = "file", Next
    PROVE  UNCHANGED <<rest, pos>> \/ \E n \in Nat : Takes(n)
<1>1. rest \in Seq(Character)
  BY DEF Following
<1>2. CASE Reader
  BY <1>1, <1>2, ReaderTakes, TakeTakes
<1>3. CASE TokenMakeIncludePath
  <2>1. InOperator /\ Stream = rest
    BY <1>3, StreamIsRest DEF TokenMakeIncludePath
  <2>2. StringOf(Stream, ">").length \in Nat
    BY <1>1, <2>1, StringEnds
  <2> QED
    BY <1>3, <2>1, <2>2, StreamTakes DEF TokenMakeIncludePath
<1>4. CASE ReadSingleOperator
  BY <1>4, WholeOperatorTakes DEF ReadSingleOperator
<1>5. CASE ReadInvalidOperator
  BY <1>5, StreamTakes DEF ReadInvalidOperator
<1>6. CASE ReadPairOperator
  BY <1>6, WholeOperatorTakes DEF ReadPairOperator
<1>7. CASE ReadSplitOperator
  BY <1>7, SplitOperatorTakes DEF ReadSplitOperator
<1>8. CASE Unexpected \/ EndOfSource
  BY <1>8 DEF Unexpected, EndOfSource
<1> QED
  BY <1>2, <1>3, <1>4, <1>5, <1>6, <1>7, <1>8 DEF Next, Reader

-----------------------------------------------------------------------------
(* The invariants                                                          *)

\* The invariant holds before anything is read: no newline has been.
LEMMA InitInv == Init => Inv
<1> SUFFICES ASSUME Init PROVE Following
  BY DEF Inv
<1>1. text \in Seq(Character) /\ rest = text /\ pos = [line |-> 1, col |-> 1]
  BY LexerAssumption DEF Init, Character
<1>2. Suffix(rest)
  BY <1>1 DEF Suffix
<1>3. Cardinality(Newlines(SubSeq(text, 1, Len(text) - Len(rest)))) = 0
  <2>1. SubSeq(text, 1, Len(text) - Len(rest)) = <<>>
    BY <1>1
  <2>2. Newlines(<<>>) = {}
    BY DEF Newlines
  <2> QED
    BY <2>1, <2>2, FS_EmptySet
<1> QED
  BY <1>1, <1>2, <1>3 DEF Following

\* Every step keeps it: one that takes characters by TakesFollows, and the others
\* change nothing it is about.
LEMMA NextInv == Inv /\ [Next]_vars => Inv'
<1> SUFFICES ASSUME Inv, [Next]_vars, source' = "file" PROVE Following'
  BY DEF Inv
<1>1. CASE UNCHANGED vars
  BY <1>1 DEF vars, Inv, Following, Suffix
<1>2. CASE Next
  <2>1. text' = text /\ source' = source
    BY <1>2 DEF Next, Same, TokenMakeNumber, TokenMakeHexadecimal, TokenMakeBinary,
       TokenMakeIdentifierOrKeyword, TokenMakeSymbol, TokenMakeNewline,
       HandleWhitespace, TokenMakeString, TokenMakeQuote, TokenMakeOneLineComment,
       TokenMakeMultilineComment, TokenMakeIncludePath, ReadSingleOperator,
       ReadInvalidOperator, ReadPairOperator, ReadSplitOperator, TakeOperator,
       Unexpected, EndOfSource
  <2>2. Following
    BY <2>1 DEF Inv
  <2>3. CASE UNCHANGED <<rest, pos>>
    BY <2>1, <2>2, <2>3 DEF Following, Suffix
  <2>4. CASE \E n \in Nat : Takes(n)
    BY <2>1, <2>2, <2>4, TakesFollows
  <2> QED
    BY <1>2, <2>1, <2>2, <2>3, <2>4, StepTakes
<1> QED
  BY <1>1, <1>2

\* On a file what is left to read is always the end of the text, and the line is
\* one more than the newlines in front of it, however Lexer::run goes on.
THEOREM Invariance == Spec => []Inv
  BY InitInv, NextInv, PTL DEF Spec

\* On a file of any length, whatever a reader pushes back comes next: nothing is
\* read out of order, twice, or never.
THEOREM ReadsInOrder == Spec => []FileInOrder
<1>1. Inv => FileInOrder
  <2> SUFFICES ASSUME Following PROVE rest = From(text, Len(text) - Len(rest) + 1)
    BY DEF Inv, FileInOrder, NothingReordered
  <2> DEFINE n == Len(text) - Len(rest)
  <2>1. /\ text \in Seq(Character) /\ rest \in Seq(Character) /\ Suffix(rest)
        /\ Len(text) \in Nat /\ Len(rest) \in Nat /\ n \in Nat
    BY DEF Following, Suffix
  <2>2. /\ From(text, n + 1) \in Seq(Character)
        /\ Len(From(text, n + 1)) = Len(rest)
        /\ \A i \in 1 .. Len(rest) : From(text, n + 1)[i] = text[n + i]
    <3> HIDE DEF n
    <3>1. n = Len(text) - Len(rest)
      BY DEF n
    <3>2. /\ From(text, n + 1) \in Seq(Character)
          /\ Len(From(text, n + 1)) = IF n <= Len(text) THEN Len(text) - n ELSE 0
          /\ \A i \in 1 .. Len(From(text, n + 1)) : From(text, n + 1)[i] = text[n + i]
      BY <2>1, FromFacts
    <3>3. Len(From(text, n + 1)) = Len(rest)
      BY <2>1, <3>1, <3>2
    <3> QED
      BY <3>2, <3>3
  <2>3. \A i \in 1 .. Len(rest) : rest[i] = From(text, n + 1)[i]
    BY <2>1, <2>2 DEF Suffix
  <2> QED
    BY <2>1, <2>2, <2>3, SeqEqual
<1> QED
  BY <1>1, Invariance, PTL

\* On a file of any length the line is one more than the newlines read, through
\* comments, strings and characters pushed back.
THEOREM LineCorrect == Spec => [](source = "file" => LineKept)
<1>1. Inv => (source = "file" => LineKept)
  BY DEF Inv, Following, LineKept, Newlines
<1> QED
  BY <1>1, Invariance, PTL

-----------------------------------------------------------------------------
(* Types, from a file or a string                                          *)

Positions == [line : Nat \ {0}, col : Nat \ {0}]
TokenOK(t) == "type" \in DOMAIN t /\ t.type \in TokenTypes
TokensOK(s) == \E S : s \in Seq(S) /\ \A t \in S : TokenOK(t)

\* No more expressions are open than characters were read; below zero it is an error.
Counted == /\ text \in Seq(Character) /\ rest \in Seq(Character)
           /\ depth \in Int /\ depth >= -1 /\ depth + Len(rest) <= Len(text)
           /\ depth = -1 => status = "error"
           /\ pos \in Positions
           /\ TokensOK(tokens)
           /\ status \in {"running", "done", "error"}

\* Nothing more is left to be read than before.
Read == /\ rest' \in Seq(Character) /\ Len(rest') <= Len(rest)
        /\ pos' \in Positions

\* One token more.
LEMMA TokensAppended ==
    ASSUME NEW s, TokensOK(s), NEW t, TokenOK(t)
    PROVE  TokensOK(Append(s, t))
<1>1. PICK S : s \in Seq(S) /\ \A u \in S : TokenOK(u)
      BY DEF TokensOK
<1>2. PICK T : T = S \cup {t}
      OBVIOUS
<1>3. \A u \in T : TokenOK(u)
      BY <1>1, <1>2
<1>4. s \in Seq(T)
  <2>1. Len(s) \in Nat /\ s \in [1 .. Len(s) -> S]
        BY <1>1
  <2>2. s \in [1 .. Len(s) -> T]
        BY <1>2, <2>1
  <2>3. QED  BY <2>1, <2>2, SeqDef
<1>5. Append(s, t) \in Seq(T)
      BY <1>2, <1>4
<1>6. QED  BY <1>3, <1>5 DEF TokensOK

\* One token less.
LEMMA TokensRetracted ==
    ASSUME TokensOK(tokens), tokens # <<>>
    PROVE  TokensOK(Retracted)
<1>1. PICK S : tokens \in Seq(S) /\ \A u \in S : TokenOK(u)
      BY DEF TokensOK
<1>2. Retracted \in Seq(S)
  <2>1. PICK n \in Nat : n = Len(tokens) /\ n # 0
        BY <1>1
  <2>2. \A i \in 1 .. n - 1 : tokens[i] \in S
        BY <1>1, <2>1
  <2>3. SubSeq(tokens, 1, n - 1) \in Seq(S)
        BY <2>1, <2>2, SubSeqProperties
  <2>4. QED  BY <2>1, <2>3 DEF Retracted
<1>3. QED  BY <1>1, <1>2 DEF TokensOK

\* The last token marked.
LEMMA TokensMarked ==
    ASSUME TokensOK(tokens), tokens # <<>>
    PROVE  TokensOK([tokens EXCEPT ![Len(tokens)].blank = TRUE])
<1>1. PICK S : tokens \in Seq(S) /\ \A u \in S : TokenOK(u)
      BY DEF TokensOK
<1>2. PICK n \in Nat : n = Len(tokens) /\ n \in DOMAIN tokens /\ DOMAIN tokens = 1 .. n
      BY <1>1
<1>3. PICK last : last = [tokens[n] EXCEPT !.blank = TRUE]
      OBVIOUS
<1>4. TokenOK(last)
      BY <1>1, <1>2, <1>3 DEF TokenOK
<1>5. PICK T : T = S \cup {last}
      OBVIOUS
<1>6. [tokens EXCEPT ![n] = last] \in Seq(T)
  <2>1. tokens \in [1 .. n -> S]
        BY <1>1, <1>2
  <2>2. [tokens EXCEPT ![n] = last] \in [1 .. n -> T]
        BY <1>2, <1>5, <2>1
  <2>3. QED  BY <2>2, SeqDef
<1>7. [tokens EXCEPT ![Len(tokens)].blank = TRUE] = [tokens EXCEPT ![n] = last]
      BY <1>2, <1>3
<1>8. \A u \in T : TokenOK(u)
      BY <1>1, <1>4, <1>5
<1>9. QED  BY <1>6, <1>7, <1>8 DEF TokensOK

\* A position moves to a position.
LEMMA MovedIs ==
    ASSUME NEW p \in Positions, NEW s \in Seq(Character)
    PROVE  Moved(p, s) \in Positions
<1>1. PICK n \in Nat : n = Len(s) /\ DOMAIN s = 1 .. n
      OBVIOUS
<1>2. CASE Newlines(s) = {}
  <2>1. Moved(p, s) = [p EXCEPT !.col = @ + n]
        BY <1>1, <1>2 DEF Moved, Newlines
  <2>2. QED  BY <2>1 DEF Positions
<1>3. CASE Newlines(s) # {}
  <2> DEFINE last == CHOOSE i \in Newlines(s) : \A j \in Newlines(s) : j <= i
  <2>1. Moved(p, s) = [line |-> p.line + Cardinality(Newlines(s)), col |-> 1 + n - last]
        BY <1>1, <1>3 DEF Moved, Newlines
  <2>2. PICK S : S = {n - i : i \in Newlines(s)}
        OBVIOUS
  <2>3. Newlines(s) \subseteq 1 .. n
        BY <1>1 DEF Newlines
  <2>4. S \in SUBSET Nat /\ S # {}
        BY <1>3, <2>2, <2>3
  <2>5. PICK k \in S : \A m \in S : <<m, k>> \notin OpToRel(<, Nat)
        BY <2>4, NatLessThanWellFounded, WFMin
  <2>6. PICK i \in Newlines(s) : k = n - i
        BY <2>2
  <2>7. \A j \in Newlines(s) : j <= i
    <3>1. SUFFICES ASSUME NEW j \in Newlines(s) PROVE j <= i
          OBVIOUS
    <3>2. n - j \in S /\ n - j \in Nat /\ k \in Nat
          BY <2>2, <2>3, <2>4
    <3>3. ~(n - j < k)
          BY <2>5, <3>2 DEF OpToRel
    <3>4. i \in 1 .. n /\ j \in 1 .. n
          BY <2>3
    <3>5. QED  BY <2>6, <3>3, <3>4
  <2>8. last \in Newlines(s)
        BY <2>7
  <2> HIDE DEF last
  <2>9. last \in 1 .. n
        BY <2>3, <2>8
  <2>10. PICK c \in Nat : c = Cardinality(Newlines(s))
         BY NewlinesFinite
  <2>11. 1 + n - last \in Nat \ {0}
         BY <2>9
  <2>12. p.line + c \in Nat \ {0}
    <3>1. p.line \in Nat \ {0}
          BY DEF Positions
    <3>2. QED  BY <3>1
  <2>13. QED  BY <2>1, <2>10, <2>11, <2>12 DEF Positions
<1>4. QED  BY <1>2, <1>3

\* A reader of the front reads on.
LEMMA TakeReads ==
    ASSUME Counted, NEW n \in Nat, Take(rest, n)
    PROVE  Read
<1>1. /\ From(rest, n + 1) \in Seq(Character)
      /\ Len(From(rest, n + 1)) = IF n <= Len(rest) THEN Len(rest) - n ELSE 0
      BY FromFacts DEF Counted
<1>2. Len(rest) \in Nat
      BY DEF Counted
<1>3. Upto(rest, n) \in Seq(Character)
      BY UptoFacts DEF Counted
<1>4. Moved(pos, Upto(rest, n)) \in Positions
      BY <1>3, MovedIs DEF Counted
<1>5. QED  BY <1>1, <1>2, <1>4 DEF Take, Read

\* What a character is pushed back to, in front or behind.
LEMMA JoinedIs ==
    ASSUME NEW s \in Seq(Character), NEW r \in Seq(Character),
           NEW q, q = s \o r \/ q = r \o s
    PROVE  q \in Seq(Character) /\ Len(q) = Len(s) + Len(r)
<1>1. s \o r \in Seq(Character) /\ Len(s \o r) = Len(s) + Len(r)
      BY ConcatProperties
<1>2. r \o s \in Seq(Character) /\ Len(r \o s) = Len(r) + Len(s)
      BY ConcatProperties
<1>3. PICK m \in Nat, n \in Nat : m = Len(s) /\ n = Len(r)
      OBVIOUS
<1>4. CASE q = s \o r
      BY <1>1, <1>4, Zenon
<1>5. CASE q = r \o s
  <2>1. q \in Seq(Character) /\ Len(q) = n + m
        BY <1>2, <1>3, <1>5, Zenon
  <2>2. n + m = m + n
        OBVIOUS
  <2>3. QED  BY <1>3, <2>1, <2>2, Zenon
<1>6. QED  BY <1>4, <1>5

\* The stream an operator is read from is what is left, a "/" in another place perhaps.
LEMMA StreamIs ==
    ASSUME Counted, InOperator
    PROVE  /\ Stream \in Seq(Character) /\ Len(Stream) = Len(rest) /\ Len(rest) \in Nat \ {0}
           /\ PosThen \in Positions
<1>1. Len(rest) \in Nat \ {0} /\ rest \in Seq(Character)
  <2>1. rest \in Seq(Character) /\ Len(rest) \in Nat
        BY DEF Counted
  <2>2. EOF \notin SingleOperator
        BY DEF SingleOperator, EOF
  <2>3. Char(rest, 1) # EOF
        BY <2>2 DEF InOperator, Peek
  <2>4. QED  BY <2>1, <2>3 DEF Char
<1>2. CASE Peek # "/"
      BY <1>1, <1>2 DEF Counted, Stream, PosThen
<1>3. CASE Peek = "/"
  <2>1. <<"/">> \in Seq(Character) /\ Len(<<"/">>) = 1
    <3>1. "/" \in Character
      <4>1. rest[1] = "/"
            BY <1>1, <1>3 DEF Peek, Char, EOF
      <4>2. rest[1] \in Character
            BY <1>1
      <4>3. QED  BY <4>1, <4>2
    <3>2. \A c \in Character : <<c>> \in Seq(Character) /\ Len(<<c>>) = 1
          OBVIOUS
    <3>3. QED  BY <3>1, <3>2, Zenon
  <2>2. PICK behind \in Seq(Character) : behind = From(rest, 2) /\ Len(behind) = Len(rest) - 1
    <3>1. /\ From(rest, 1 + 1) \in Seq(Character)
          /\ Len(From(rest, 1 + 1)) = IF 1 <= Len(rest) THEN Len(rest) - 1 ELSE 0
          BY <1>1, FromFacts
    <3>2. QED  BY <1>1, <3>1
  <2>3. PICK slash \in Seq(Character) : slash = <<"/">> /\ Len(slash) = 1
        BY <2>1
  <2>4. Stream = slash \o behind \/ Stream = behind \o slash
        BY <1>3, <2>2, <2>3 DEF Stream, PushBack
  <2>5. Stream \in Seq(Character) /\ Len(Stream) = Len(rest)
    <3>1. Stream \in Seq(Character) /\ Len(Stream) = Len(slash) + Len(behind)
          BY <2>4, JoinedIs, Zenon
    <3>2. QED  BY <1>1, <2>2, <2>3, <3>1
  <2>6. Moved(pos, <<"/">>) \in Positions
        BY <2>1, MovedIs DEF Counted
  <2>7. QED  BY <1>1, <1>3, <2>5, <2>6 DEF PosThen
<1>4. QED  BY <1>2, <1>3

\* What is read off the stream is read off what is left.
LEMMA StreamReads ==
    ASSUME Counted, InOperator, NEW n \in Nat,
           rest' = From(Stream, n + 1), pos' = Moved(PosThen, Upto(Stream, n))
    PROVE  Read
<1>1. /\ From(Stream, n + 1) \in Seq(Character)
      /\ Len(From(Stream, n + 1)) = IF n <= Len(Stream) THEN Len(Stream) - n ELSE 0
      /\ Upto(Stream, n) \in Seq(Character)
      BY StreamIs, FromFacts, UptoFacts
<1>2. Moved(PosThen, Upto(Stream, n)) \in Positions
      BY <1>1, StreamIs, MovedIs
<1>3. QED  BY <1>1, <1>2, StreamIs DEF Read

\* An operator takes at least one character, whatever of it is pushed back.
LEMMA OperatorReads ==
    ASSUME Counted, InOperator, NEW n \in Nat, NEW k \in Nat, k < n, n <= Len(Stream),
           TakeOperator(n, k)
    PROVE  Read /\ Len(rest') + 1 <= Len(rest)
<1>1. /\ Stream \in Seq(Character) /\ Len(Stream) = Len(rest) /\ Len(rest) \in Nat
      /\ PosThen \in Positions
      BY StreamIs
<1>2. PICK behind \in Seq(Character) :
          behind = From(Stream, n + 1) /\ Len(behind) = Len(Stream) - n
      BY <1>1, FromFacts
<1>3. PICK back \in Seq(Character) : back = SubSeq(Stream, n - k + 1, n) /\ Len(back) = k
  <2>1. n - k + 1 \in 1 .. n + 1 /\ n \in n - k + 1 - 1 .. Len(Stream)
        BY <1>1
  <2>2. \A i \in n - k + 1 .. n : Stream[i] \in Character
        BY <1>1, <2>1
  <2>3. SubSeq(Stream, n - k + 1, n) \in Seq(Character)
        BY <1>1, <2>1, <2>2, SubSeqProperties
  <2>4. Len(SubSeq(Stream, n - k + 1, n)) = k
        BY <1>1, <2>1
  <2>5. QED  BY <2>3, <2>4
<1>4. rest' = back \o behind \/ rest' = behind \o back
      BY <1>2, <1>3 DEF TakeOperator, PushBack
<1>5. rest' \in Seq(Character) /\ Len(rest') = Len(rest) - n + k
  <2>1. rest' \in Seq(Character) /\ Len(rest') = Len(back) + Len(behind)
        BY <1>4, JoinedIs, Zenon
  <2>2. QED  BY <1>1, <1>2, <1>3, <2>1
<1>6. Moved(PosThen, Upto(Stream, n)) \in Positions
      BY <1>1, UptoFacts, MovedIs
<1>7. QED  BY <1>1, <1>5, <1>6 DEF TakeOperator, Read

\* What a step has to do: a "(" costs a character, and a ")" too many is an error.
LEMMA StillCounted ==
    ASSUME Counted, Running, Read, text' = text, TokensOK(tokens)',
           status' \in {"running", "done", "error"},
           \/ depth' = depth
           \/ depth' = depth - 1 /\ (depth' < 0 => status' = "error")
           \/ depth' = depth + 1 /\ Len(rest') + 1 <= Len(rest)
    PROVE  Counted'
<1>1. Len(rest) \in Nat /\ Len(rest') \in Nat /\ Len(text) \in Nat
      BY DEF Counted, Read
<1>2. depth \in Nat
      BY DEF Counted, Running
<1>3. depth' \in Int /\ depth' >= -1 /\ depth' + Len(rest') <= Len(text)
      BY <1>1, <1>2 DEF Counted, Read
<1>4. depth' = -1 => status' = "error"
      BY <1>2
<1>5. QED  BY <1>3, <1>4 DEF Counted, Read

\* A token has a type whatever its text.
LEMMA TokenTyped ==
    ASSUME NEW type \in TokenTypes, NEW chars
    PROVE  /\ TokenOK(Token(type, chars))
           /\ \A z : TokenOK([Token(type, chars) EXCEPT !.zero = z])
  BY DEF TokenOK, Token

\* The tokens after each reader.
LEMMA ReaderTokens ==
    ASSUME Counted, Reader
    PROVE  TokensOK(tokens)'
<1>1. TokensOK(tokens)
      BY DEF Counted
<1>2. {"NUMBER", "IDENTIFIER", "KEYWORD", "SYMBOL", "NEWLINE", "STRING", "COMMENT"}
          \subseteq TokenTypes
      BY DEF TokenTypes
<1>3. \A prefix, k, n : TokenOK(NumberAfter(prefix, k, n).token)
  <2>1. \A prefix, digits, suffix : TokenOK(Number(prefix, digits, suffix))
        BY <1>2, TokenTyped DEF Number
  <2>2. QED  BY <2>1 DEF NumberAfter
<1>4. \A r, delimiter : TokenOK(StringOf(r, delimiter).token)
      BY <1>2, TokenTyped DEF StringOf
<1>5. CASE TokenMakeNumber
      BY <1>1, <1>3, <1>5, TokensAppended DEF TokenMakeNumber, Emit
<1>6. AfterZero => TokensOK(Retracted)
      BY <1>1, TokensRetracted DEF AfterZero
<1>7. CASE TokenMakeHexadecimal
      BY <1>3, <1>6, <1>7, TokensAppended DEF TokenMakeHexadecimal
<1>8. CASE TokenMakeBinary
      BY <1>3, <1>6, <1>8, TokensAppended DEF TokenMakeBinary
<1>9. CASE TokenMakeIdentifierOrKeyword
  <2>1. PICK type \in TokenTypes : \E word : Emit(Token(type, word))
        BY <1>2, <1>9 DEF TokenMakeIdentifierOrKeyword
  <2>2. QED  BY <1>1, <2>1, TokenTyped, TokensAppended DEF Emit
<1>10. CASE TokenMakeSymbol \/ TokenMakeNewline \/ TokenMakeOneLineComment
            \/ TokenMakeMultilineComment
  <2>1. \/ UNCHANGED tokens
        \/ \E type \in TokenTypes, chars \in {<<>>, <<Peek>>} : Emit(Token(type, chars))
        BY <1>2, <1>10 DEF TokenMakeSymbol, TokenMakeNewline, TokenMakeOneLineComment,
                           TokenMakeMultilineComment
  <2>2. QED  BY <1>1, <2>1, TokenTyped, TokensAppended DEF Emit
<1>11. CASE HandleWhitespace
       BY <1>1, <1>11, TokensMarked DEF HandleWhitespace
<1>12. CASE TokenMakeString
       BY <1>1, <1>4, <1>12, TokensAppended DEF TokenMakeString, Emit
<1>13. CASE TokenMakeQuote
  <2>1. \/ UNCHANGED tokens
        \/ \E c, z : Emit([Token("NUMBER", <<c>>) EXCEPT !.zero = z])
        BY <1>13 DEF TokenMakeQuote
  <2>2. QED  BY <1>1, <1>2, <2>1, TokenTyped, TokensAppended DEF Emit
<1>14. QED  BY <1>5, <1>7, <1>8, <1>9, <1>10, <1>11, <1>12, <1>13 DEF Reader

\* A reader of anything but an operator.
LEMMA ReaderCounts ==
    ASSUME Counted, Reader
    PROVE  Counted'
<1>1. Read
  <2>1. \E n \in Nat : Take(rest, n)
        BY ReaderTakes DEF Counted
  <2>2. QED  BY <2>1, TakeReads
<1>2. Running /\ text' = text
      BY DEF Reader, Same, TokenMakeNumber, TokenMakeHexadecimal, TokenMakeBinary,
         TokenMakeIdentifierOrKeyword, TokenMakeSymbol, TokenMakeNewline,
         HandleWhitespace, TokenMakeString, TokenMakeQuote, TokenMakeOneLineComment,
         TokenMakeMultilineComment
<1>3. status' \in {"running", "done", "error"}
      BY DEF Counted, Reader, Error, TokenMakeNumber, TokenMakeHexadecimal, TokenMakeBinary,
         TokenMakeIdentifierOrKeyword, TokenMakeSymbol, TokenMakeNewline,
         HandleWhitespace, TokenMakeString, TokenMakeQuote, TokenMakeOneLineComment,
         TokenMakeMultilineComment
<1>4. \/ depth' = depth
      \/ depth' = depth - 1 /\ (depth' < 0 => status' = "error")
      BY DEF Reader, Error, TokenMakeNumber, TokenMakeHexadecimal, TokenMakeBinary,
         TokenMakeIdentifierOrKeyword, TokenMakeSymbol, TokenMakeNewline,
         HandleWhitespace, TokenMakeString, TokenMakeQuote, TokenMakeOneLineComment,
         TokenMakeMultilineComment
<1>5. QED  BY <1>1, <1>2, <1>3, <1>4, ReaderTokens, StillCounted

\* An operator read, whole or its first character.
LEMMA OperatorCounts ==
    ASSUME Counted, InOperator, NEW n \in Nat, NEW k \in Nat, k < n, n <= Len(Stream),
           TakeOperator(n, k)
    PROVE  Counted'
<1>1. Read /\ Len(rest') + 1 <= Len(rest)
      BY OperatorReads
<1>2. TokensOK(tokens)'
  <2>1. "OPERATOR" \in TokenTypes
        BY DEF TokenTypes
  <2>2. QED  BY <2>1, TokenTyped, TokensAppended DEF TakeOperator, Emit, Counted
<1>3. /\ Running /\ text' = text /\ status' \in {"running", "done", "error"}
      /\ depth' = depth \/ depth' = depth + 1
      BY DEF InOperator, TakeOperator, Same, Counted
<1>4. QED  BY <1>1, <1>2, <1>3, StillCounted

\* A reader of anything but an operator peeks at a character first.
LEMMA ReaderPeeks ==
    ASSUME rest \in Seq(Character), Reader
    PROVE  Len(rest) \in Nat \ {0}
<1>1. Len(rest) \in Nat
      OBVIOUS
<1>2. \/ Peek \in Digit \cup Letter \cup Symbol \cup Blank
      \/ Peek \in {"x", "b", "\n", "\"", "'"}
      \/ Begins(<<"/", "/">>) \/ Begins(<<"/", "*">>)
      BY DEF Reader, TokenMakeNumber, TokenMakeHexadecimal, TokenMakeBinary,
         TokenMakeIdentifierOrKeyword, TokenMakeSymbol, TokenMakeNewline,
         HandleWhitespace, TokenMakeString, TokenMakeQuote, TokenMakeOneLineComment,
         TokenMakeMultilineComment
<1>3. CASE Peek \in Digit \cup Letter \cup Symbol \cup Blank
           \/ Peek \in {"x", "b", "\n", "\"", "'"}
  <2>1. EOF \notin Digit \cup Letter \cup Symbol \cup Blank
        BY DEF EOF, Digit, Letter, Symbol, Blank
  <2>2. EOF \notin {"x", "b", "\n", "\"", "'"}
        BY DEF EOF
  <2>3. Char(rest, 1) # EOF
        BY <1>3, <2>1, <2>2, Zenon DEF Peek
  <2>4. QED  BY <1>1, <2>3 DEF Char
<1>4. CASE Begins(<<"/", "/">>) \/ Begins(<<"/", "*">>)
  <2>1. PICK c \in {"/", "*"} : Upto(rest, 2) = <<"/", c>>
        BY <1>4 DEF Begins
  <2>2. Len(Upto(rest, 2)) = 2
        BY <2>1
  <2>3. QED  BY <1>1, <2>2, UptoFacts
<1>5. QED  BY <1>2, <1>3, <1>4

\* The bound on the open expressions and the types hold at the start and are kept by
\* every reader, of a file or of a string.
LEMMA CountedInv ==
    /\ Init => Counted
    /\ Counted /\ [Next]_vars => Counted'
<1>1. ASSUME Init PROVE Counted
  <2>1. text \in Seq(Character) /\ rest = text
        BY <1>1, LexerAssumption DEF Init, Character
  <2>2. TokensOK(tokens)
    <3>1. <<>> \in Seq({})
          OBVIOUS
    <3>2. QED  BY <1>1, <3>1 DEF Init, TokensOK
  <2>3. pos \in Positions
        BY <1>1 DEF Init, Positions
  <2>4. QED  BY <1>1, <2>1, <2>2, <2>3 DEF Init, Counted
<1>2. ASSUME Counted, [Next]_vars PROVE Counted'
  <2>1. CASE UNCHANGED vars
        BY <1>2, <2>1 DEF vars, Counted, TokensOK
  <2>2. CASE Reader
        BY <1>2, <2>2, ReaderCounts
  <2>3. CASE TokenMakeIncludePath
    <3>1. InOperator /\ Running
          BY <2>3 DEF TokenMakeIncludePath, InOperator
    <3>2. StringOf(Stream, ">").length \in Nat
          BY <1>2, <3>1, StreamIs, StringEnds
    <3>3. Read
          BY <1>2, <2>3, <3>1, <3>2, StreamReads DEF TokenMakeIncludePath
    <3>4. TokenOK(StringOf(Stream, ">").token)
      <4>1. "STRING" \in TokenTypes
            BY DEF TokenTypes
      <4>2. QED  BY <4>1, TokenTyped DEF StringOf
    <3>5. TokensOK(tokens)'
          BY <1>2, <2>3, <3>4, TokensAppended DEF TokenMakeIncludePath, Emit, Counted
    <3>6. text' = text /\ depth' = depth /\ status' = status
          BY <2>3 DEF TokenMakeIncludePath, Same
    <3>7. QED  BY <1>2, <3>1, <3>3, <3>5, <3>6, StillCounted DEF Counted
  <2>4. CASE ReadSingleOperator
    <3>1. InOperator /\ TakeOperator(1, 0)
          BY <2>4 DEF ReadSingleOperator
    <3>2. QED  BY <1>2, <3>1, StreamIs, OperatorCounts
  <2>5. CASE ReadPairOperator \/ ReadSplitOperator
    <3>1. InOperator /\ Pair /\ (TakeOperator(2, 0) \/ TakeOperator(2, 1))
          BY <2>5 DEF ReadPairOperator, ReadSplitOperator
    <3>2. 2 <= Len(Stream)
          BY <1>2, <3>1, StreamIs DEF Pair, Char, EOF, SingleOperator
    <3>3. QED  BY <1>2, <3>1, <3>2, OperatorCounts
  <2>6. CASE ReadInvalidOperator
    <3>1. /\ InOperator /\ Running /\ text' = text /\ depth' = depth /\ tokens' = tokens
          /\ status' = "error"
          BY <2>6 DEF ReadInvalidOperator, InOperator, Same, Error
    <3>2. rest' = From(Stream, 1 + 1) /\ pos' = Moved(PosThen, Upto(Stream, 1))
          BY <2>6 DEF ReadInvalidOperator
    <3>3. Read
          BY <1>2, <3>1, <3>2, StreamReads
    <3>4. TokensOK(tokens)'
          BY <1>2, <3>1 DEF Counted
    <3>5. QED  BY <1>2, <3>1, <3>3, <3>4, StillCounted
  <2>7. CASE Unexpected \/ EndOfSource
        BY <1>2, <2>7 DEF Unexpected, EndOfSource, Same, Error, Running, Counted, TokensOK
  <2>8. QED  BY <1>2, <2>1, <2>2, <2>3, <2>4, <2>5, <2>6, <2>7 DEF Next, Reader
<1>3. QED  BY <1>1, <1>2

\* From a file or a string of any length: every token has a type, lines and columns
\* start at one, no more expressions are open than characters were read, and a ")"
\* too many is an error at once.
THEOREM TypesKept == Spec => []TypeOK
<1>1. Counted => TypeOK
  <2>1. SUFFICES ASSUME Counted PROVE TypeOK
        OBVIOUS
  <2>2. \A i \in DOMAIN tokens : tokens[i].type \in TokenTypes
        BY <2>1 DEF Counted, TokensOK, TokenOK
  <2>3. Len(text) \in Nat /\ Len(rest) \in Nat
        BY <2>1 DEF Counted
  <2>4. depth \in -1 .. Len(text)
        BY <2>1, <2>3 DEF Counted
  <2>5. pos.line >= 1 /\ pos.col >= 1
        BY <2>1 DEF Counted, Positions
  <2>6. QED  BY <2>1, <2>2, <2>4, <2>5 DEF Counted, TypeOK
<1>2. QED  BY <1>1, CountedInv, PTL DEF Spec

\* Every step reads a character at least, from a file or a string, or is the last:
\* what is pushed back is always less than what was read, and the measure that
\* Lexer::run ends by goes down.
THEOREM EveryStepReads ==
    Spec => [][Len(rest') < Len(rest) \/ status' \in {"done", "error"}]_vars
<1>1. ASSUME Counted, Next
      PROVE  Len(rest') < Len(rest) \/ status' \in {"done", "error"}
  <2>1. rest \in Seq(Character) /\ Len(rest) \in Nat
        BY <1>1 DEF Counted
  <2>2. \A n \in Nat \ {0} : Take(rest, n) /\ Len(rest) # 0 => Len(rest') < Len(rest)
    <3>1. SUFFICES ASSUME NEW n \in Nat \ {0}, Take(rest, n), Len(rest) # 0
                   PROVE  Len(rest') < Len(rest)
          OBVIOUS
    <3>2. Len(From(rest, n + 1)) = IF n <= Len(rest) THEN Len(rest) - n ELSE 0
          BY <2>1, FromFacts
    <3>3. QED  BY <2>1, <3>1, <3>2 DEF Take
  <2>3. CASE Reader
    <3>1. \E n \in Nat : Take(rest, n) /\ (n # 0 \/ Error)
          BY <2>1, <2>3, ReaderTakes
    <3>2. QED  BY <2>1, <2>2, <2>3, <3>1, ReaderPeeks DEF Error
  <2>4. ASSUME InOperator, NEW n \in Nat \ {0}, rest' = From(Stream, n + 1)
        PROVE  Len(rest') < Len(rest)
    <3>1. Stream \in Seq(Character) /\ Len(Stream) = Len(rest) /\ Len(rest) \in Nat \ {0}
          BY <1>1, <2>4, StreamIs
    <3>2. Len(From(Stream, n + 1)) = IF n <= Len(Stream) THEN Len(Stream) - n ELSE 0
          BY <3>1, FromFacts
    <3>3. QED  BY <2>4, <3>1, <3>2
  <2>5. CASE TokenMakeIncludePath
    <3>1. InOperator
          BY <2>5 DEF TokenMakeIncludePath
    <3>2. StringOf(Stream, ">").length \in Nat \ {0}
          BY <1>1, <3>1, StreamIs, StringEnds
    <3>3. QED  BY <2>4, <2>5, <3>1, <3>2 DEF TokenMakeIncludePath
  <2>6. CASE ReadSingleOperator
    <3>1. InOperator /\ TakeOperator(1, 0)
          BY <2>6 DEF ReadSingleOperator
    <3>2. Len(rest') + 1 <= Len(rest) /\ Len(rest') \in Nat
          BY <1>1, <3>1, StreamIs, OperatorReads DEF Read
    <3>3. QED  BY <2>1, <3>2
  <2>7. CASE ReadPairOperator \/ ReadSplitOperator
    <3>1. InOperator /\ Pair /\ (TakeOperator(2, 0) \/ TakeOperator(2, 1))
          BY <2>7 DEF ReadPairOperator, ReadSplitOperator
    <3>2. 2 <= Len(Stream)
          BY <1>1, <3>1, StreamIs DEF Pair, Char, EOF, SingleOperator
    <3>3. Len(rest') + 1 <= Len(rest) /\ Len(rest') \in Nat
          BY <1>1, <3>1, <3>2, OperatorReads DEF Read
    <3>4. QED  BY <2>1, <3>3
  <2>8. CASE ReadInvalidOperator \/ Unexpected \/ EndOfSource
        BY <2>8 DEF ReadInvalidOperator, Unexpected, EndOfSource, Error
  <2>9. QED  BY <1>1, <2>3, <2>5, <2>6, <2>7, <2>8 DEF Next, Reader
<1>2. QED  BY <1>1, CountedInv, PTL DEF Spec

=============================================================================
