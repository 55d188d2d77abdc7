---------------------------- MODULE VectorProofs ----------------------------
(***************************************************************************)
(* Proofs about Vector, for every set of values, every increment and every *)
(* bound on the number of elements; and, in the second part, about         *)
(* iterating over a vector: what the peeks of a pass return, with pushes,  *)
(* reads and failed reads in between.                                      *)
(***************************************************************************)
EXTENDS MCVectorPass, TLAPS

\* The inductive invariant: the types, the room the write head has, and, as
\* the consequence every push needs, that no write has left the block.
IInv == TypeOK /\ NoOverrun /\ Headroom

\* What vector_resize_for_index does to the block: after it the write head
\* has a slot to write to, and every slot the old block had is still there.
LEMMA ResizeLemma ==
    ASSUME alloc \in Nat \ {0}, mindex \in Nat \ {0}, Increment \in Nat \ {0},
           NEW d \in [0 .. alloc - 1 -> Value \cup {Junk}],
           NEW start \in Nat,
           start <= alloc,
           \/ alloc = mindex /\ start <= mindex
           \/ alloc = mindex + Increment /\ start <= mindex + 1,
           Resize(d, start)
    PROVE  /\ alloc' \in Nat \ {0}
           /\ mindex' \in Nat \ {0}
           /\ data' \in [0 .. alloc' - 1 -> Value \cup {Junk}]
           /\ alloc <= alloc'
           /\ \A i \in 0 .. alloc - 1 : data'[i] = d[i]
           /\ \/ alloc' = mindex' /\ start < mindex'
              \/ alloc' = mindex' + Increment /\ start <= mindex'
  <1>1. CASE start < mindex
    BY <1>1 DEF Resize
  <1>2. CASE ~(start < mindex)
    <2>1. /\ alloc' = start + Increment
          /\ mindex' = start
          /\ data' = [i \in 0 .. start + Increment - 1 |->
                        IF i < alloc THEN d[i] ELSE Junk]
      BY <1>2 DEF Resize
    <2>2. start \in Nat \ {0} /\ alloc <= start + Increment
      BY <1>2
    <2>3. data' \in [0 .. alloc' - 1 -> Value \cup {Junk}]
      BY <2>1, <2>2
    <2>4. \A i \in 0 .. alloc - 1 : data'[i] = d[i]
      BY <2>1, <2>2
    <2> QED
      BY <2>1, <2>2, <2>3, <2>4
  <1> QED
    BY <1>1, <1>2

\* A new vector is empty and its block is the first one.
LEMMA InitInv == Init => IInv
  <1> SUFFICES ASSUME Init PROVE IInv
    OBVIOUS
  <1>1. data \in [0 .. alloc - 1 -> Value \cup {Junk}]
    BY VectorAssumption DEF Init
  <1>2. /\ alloc = Increment /\ mindex = Increment /\ Increment \in Nat \ {0}
        /\ rindex = 0 /\ count = 0 /\ pindex = 0
        /\ backward = FALSE /\ result = Null /\ status = "ok"
    BY VectorAssumption DEF Init
  <1>3. TypeOK
    <2>1. alloc \in Nat \ {0} /\ mindex \in Nat \ {0}
      BY <1>2
    <2>2. rindex \in Int /\ count \in Int /\ pindex \in Int
      BY <1>2
    <2>3. backward \in BOOLEAN /\ result \in Value \cup {Null}
      BY <1>2
    <2> QED
      BY <1>1, <1>2, <2>1, <2>2, <2>3 DEF TypeOK
  <1>4. NoOverrun
      BY <1>2 DEF NoOverrun
  <1>5. Headroom
      BY <1>2 DEF Headroom
  <1> QED
    BY <1>3, <1>4, <1>5 DEF IInv

\* A push finds a slot, and leaves one for the next push.
LEMMA PushInv ==
    ASSUME IInv, NEW v \in Value, Push(v)
    PROVE  IInv'
  <1> DEFINE d == [data EXCEPT ![rindex] = v]
  <1>1. /\ status = "ok" /\ count = rindex /\ rindex \in Nat /\ rindex < alloc
        /\ \A i \in 0 .. rindex - 1 : data[i] \in Value
        /\ \/ alloc = mindex /\ rindex + 1 <= mindex
           \/ alloc = mindex + Increment /\ rindex <= mindex
    BY VectorAssumption DEF IInv, TypeOK, Headroom, Push
  <1>2. /\ d \in [0 .. alloc - 1 -> Value \cup {Junk}]
        /\ \A i \in 0 .. rindex : d[i] \in Value
    BY <1>1 DEF IInv, TypeOK
  <1>3. /\ Resize(d, rindex + 1)
        /\ rindex' = rindex + 1 /\ count' = count + 1 /\ status' = "ok"
        /\ pindex' = pindex /\ backward' = backward /\ result' = result
    BY <1>1 DEF Push, cursorVars
  <1>4. /\ alloc' \in Nat \ {0}
        /\ mindex' \in Nat \ {0}
        /\ data' \in [0 .. alloc' - 1 -> Value \cup {Junk}]
        /\ \A i \in 0 .. alloc - 1 : data'[i] = d[i]
        /\ \/ alloc' = mindex' /\ rindex + 1 < mindex'
           \/ alloc' = mindex' + Increment /\ rindex + 1 <= mindex'
    <2>1. /\ rindex + 1 \in Nat /\ rindex + 1 <= alloc
          /\ \/ alloc = mindex /\ rindex + 1 <= mindex
             \/ alloc = mindex + Increment /\ rindex + 1 <= mindex + 1
      BY <1>1 DEF IInv, TypeOK
    <2> HIDE DEF d
    <2> QED
      BY <1>2, <1>3, <2>1, ResizeLemma, VectorAssumption DEF IInv, TypeOK
  <1> HIDE DEF d
  <1>5. \A i \in 0 .. rindex' - 1 : data'[i] \in Value
    <2>1. rindex' - 1 = rindex /\ \A i \in 0 .. rindex : i \in 0 .. alloc - 1
      BY <1>1, <1>3 DEF IInv, TypeOK
    <2> QED
      BY <1>2, <1>4, <2>1
  <1>6. TypeOK'
    <2>1. /\ rindex' \in Int /\ count' \in Int /\ pindex' \in Int
          /\ backward' \in BOOLEAN /\ result' \in Value \cup {Null}
          /\ status' \in {"ok", "aborted", "corrupt"}
      BY <1>1, <1>3 DEF IInv, TypeOK
    <2> QED
      BY <1>4, <2>1 DEF TypeOK
  <1>7. NoOverrun' /\ Headroom'
    <2>1. status' = "ok" /\ count' = rindex' /\ 0 <= rindex'
      BY <1>1, <1>3
    <2>2. \/ alloc' = mindex' /\ rindex' < mindex'
          \/ alloc' = mindex' + Increment /\ rindex' <= mindex'
      BY <1>3, <1>4
    <2> QED
      BY <2>1, <2>2, <1>5 DEF NoOverrun, Headroom
  <1> QED
    BY <1>6, <1>7 DEF IInv

\* Every other operation leaves the block and its size alone.
LEMMA StorageInv ==
    ASSUME IInv, Next \/ UNCHANGED vars, ~ \E v \in Value : Push(v)
    PROVE  IInv'
  <1> USE VectorAssumption DEF IInv, TypeOK, NoOverrun, Headroom, storage, cursorVars
  <1>1. CASE Pop
    BY <1>1 DEF Pop, InBoundsForPop
  <1>2. CASE Clear
    BY <1>2 DEF Clear
  <1>3. CASE Back
    BY <1>3 DEF Back, InBoundsForPop
  <1>4. CASE BackOrNull
    BY <1>4 DEF BackOrNull, InBoundsForAt
  <1>5. CASE \E i \in Position : SetPeekPointer(i)
    BY <1>5 DEF SetPeekPointer, Position
  <1>6. CASE SetPeekPointerEnd
    BY <1>6 DEF SetPeekPointerEnd, SetPeekPointer
  <1>7. CASE \E b \in BOOLEAN : SetFlag(b)
    BY <1>7 DEF SetFlag
  <1>8. CASE PeekNoIncrement
    BY <1>8 DEF PeekNoIncrement, AtCursor, InBoundsForAt
  <1>9. CASE Peek
    BY <1>9 DEF Peek, AtCursor, InBoundsForAt
  <1>10. CASE UNCHANGED vars
    BY <1>10 DEF vars
  <1> QED
    BY <1>1, <1>2, <1>3, <1>4, <1>5, <1>6, <1>7, <1>8, <1>9, <1>10 DEF Next

\* The invariant the other theorems rest on holds in every reachable state.
THEOREM Invariance == Spec => []IInv
  <1>1. IInv /\ [Next]_vars => IInv'
    BY PushInv, StorageInv
  <1> QED
    BY InitInv, <1>1, PTL DEF Spec

\* Type correctness; in particular no read returns a slot never written.
THEOREM TypeCorrect == Spec => []TypeOK
  BY Invariance, PTL DEF IInv

\* However pushes, pops and clears alternate, vector_push writes inside the
\* block it allocated.
THEOREM PushStaysInside == Spec => []NoOverrun
  BY Invariance, PTL DEF IInv

\* mindex is the size of the block, or falls short of it by one increment.
THEOREM HeadroomKept == Spec => []Headroom
  BY Invariance, PTL DEF IInv
-----------------------------------------------------------------------------
(***************************************************************************)
(* The array implements the sequence with a cursor of VectorContract.      *)
(***************************************************************************)

\* The live slots, read in order, are a sequence of stored values.
ItemsAreLive ==
    /\ status = "ok" => /\ Items \in Seq(Value)
                        /\ Len(Items) = rindex
                        /\ \A k \in 1 .. rindex : Items[k] = data[k - 1]
    /\ status # "ok" => Items = <<>>

\* While the invariant holds, Items is a sequence of values.
LEMMA ItemsType == IInv => ItemsAreLive
  <1> SUFFICES ASSUME IInv PROVE ItemsAreLive
    OBVIOUS
  <1>1. CASE status = "ok"
    <2>1. Items = [k \in 1 .. rindex |-> data[k - 1]] /\ rindex \in Nat
      BY <1>1 DEF IInv, TypeOK, Headroom, Items
    <2>2. \A k \in 1 .. rindex : data[k - 1] \in Value
      BY <1>1, <2>1 DEF IInv, Headroom
    <2> QED
      BY <1>1, <2>1, <2>2 DEF ItemsAreLive
  <1>2. CASE status # "ok"
    BY <1>2 DEF Items, ItemsAreLive
  <1> QED
    BY <1>1, <1>2

\* A new vector is the empty sequence.
LEMMA ContractInit == Init => Contract!Init
  BY DEF Init, Contract!Init, Items

\* A push appends: the old slots survive a growth, the new one holds v.
LEMMA PushAppends ==
    ASSUME IInv, NEW v \in Value, Push(v)
    PROVE  Contract!Push(v)
  <1> DEFINE d == [data EXCEPT ![rindex] = v]
  <1>1. /\ status = "ok" /\ status' = "ok" /\ rindex \in Nat /\ rindex < alloc
        /\ rindex' = rindex + 1 /\ Resize(d, rindex + 1)
        /\ pindex' = pindex /\ backward' = backward /\ result' = result
    BY VectorAssumption DEF IInv, TypeOK, Headroom, Push, cursorVars
  <1>2. IInv'
    BY PushInv
  <1>3. /\ d \in [0 .. alloc - 1 -> Value \cup {Junk}]
        /\ d[rindex] = v
        /\ \A i \in 0 .. rindex - 1 : d[i] = data[i]
    BY <1>1 DEF IInv, TypeOK
  <1>4. /\ \/ alloc = mindex /\ rindex + 1 <= mindex
           \/ alloc = mindex + Increment /\ rindex + 1 <= mindex + 1
        /\ rindex + 1 <= alloc /\ rindex + 1 \in Nat
    BY <1>1, VectorAssumption DEF IInv, TypeOK, Headroom
  <1> HIDE DEF d
  <1>5. \A i \in 0 .. alloc - 1 : data'[i] = d[i]
    BY <1>1, <1>3, <1>4, ResizeLemma, VectorAssumption DEF IInv, TypeOK
  <1>6. /\ data'[rindex] = v
        /\ \A i \in 0 .. rindex - 1 : data'[i] = data[i]
    BY <1>1, <1>3, <1>5 DEF IInv, TypeOK
  <1>7. /\ Items \in Seq(Value) /\ Len(Items) = rindex
        /\ \A k \in 1 .. rindex : Items[k] = data[k - 1]
    BY <1>1, ItemsType DEF ItemsAreLive
  <1>8. /\ Items' \in Seq(Value) /\ Len(Items') = rindex + 1
        /\ \A k \in 1 .. rindex + 1 : Items'[k] = data'[k - 1]
    <2>1. ItemsAreLive'
      BY <1>2, ItemsType, PTL
    <2> QED
      BY <1>1, <2>1 DEF ItemsAreLive
  <1>9. \A k \in 1 .. rindex + 1 : Items'[k] = Append(Items, v)[k]
    <2>1. \A k \in 1 .. rindex : Items'[k] = Items[k]
      BY <1>1, <1>6, <1>7, <1>8
    <2>2. Items'[rindex + 1] = v
      BY <1>1, <1>6, <1>8
    <2> QED
      BY <1>1, <1>7, <2>1, <2>2
  <1>10. Items' = Append(Items, v)
    BY <1>1, <1>7, <1>8, <1>9
  <1> QED
    BY <1>1, <1>10 DEF Contract!Push

\* A pop that passes its assertion removes the last element; the one that
\* does not ends the process.
LEMMA PopRemovesLast ==
    ASSUME IInv, Pop
    PROVE  Contract!Pop \/ Contract!Underflow
  <1>1. /\ status = "ok" /\ rindex \in Nat /\ count = rindex
        /\ rindex' = rindex - 1 /\ count' = count - 1 /\ data' = data
        /\ pindex' = pindex /\ backward' = backward /\ result' = result
        /\ rindex <= mindex /\ mindex \in Nat
        /\ status' = IF 0 <= rindex - 1 /\ rindex - 1 < mindex THEN "ok" ELSE "aborted"
    BY VectorAssumption DEF IInv, TypeOK, Headroom, Pop, cursorVars, storage, InBoundsForPop
  <1>2. IInv'
    <2>1. Next
      BY DEF Next
    <2>2. ASSUME NEW v \in Value, Push(v) PROVE FALSE
      <3>1. rindex' = rindex + 1
        BY <2>2 DEF Push
      <3> QED
        BY <1>1, <3>1
    <2> QED
      BY <2>1, <2>2, StorageInv
  <1>3. ItemsAreLive /\ ItemsAreLive'
    BY <1>2, ItemsType, PTL
  <1>4. CASE rindex = 0
    <2>1. status' = "aborted"
      BY <1>1, <1>4
    <2>2. Items = <<>> /\ Items' = <<>>
      BY <1>1, <1>3, <1>4, <2>1 DEF ItemsAreLive
    <2> QED
      BY <1>1, <2>1, <2>2 DEF Contract!Underflow
  <1>5. CASE rindex # 0
    <2>1. status' = "ok" /\ rindex - 1 \in Nat
      BY <1>1, <1>5
    <2>2. /\ Items \in Seq(Value) /\ Len(Items) = rindex
          /\ \A k \in 1 .. rindex : Items[k] = data[k - 1]
          /\ Items' \in Seq(Value) /\ Len(Items') = rindex - 1
          /\ \A k \in 1 .. rindex - 1 : Items'[k] = data[k - 1]
      BY <1>1, <1>3, <2>1 DEF ItemsAreLive
    <2>3. Items # <<>>
      BY <2>2, <1>5
    <2>4. Items' = SubSeq(Items, 1, Len(Items) - 1)
      <3>1. Len(Items) - 1 = rindex - 1 /\ \A k \in 1 .. rindex - 1 : k \in 1 .. rindex
        BY <1>1, <2>2
      <3>2. SubSeq(Items, 1, rindex - 1) = [k \in 1 .. rindex - 1 |-> Items[k]]
        BY <1>1, <2>1, <2>2
      <3>3. Items' = [k \in 1 .. rindex - 1 |-> data[k - 1]]
        BY <1>1, <2>1 DEF Items
      <3>4. \A k \in 1 .. rindex - 1 : Items[k] = data[k - 1]
        BY <2>2, <3>1
      <3>5. [k \in 1 .. rindex - 1 |-> data[k - 1]] = [k \in 1 .. rindex - 1 |-> Items[k]]
        BY <3>4
      <3> QED
        BY <3>1, <3>2, <3>3, <3>5
    <2> QED
      BY <1>1, <2>1, <2>3, <2>4 DEF Contract!Pop
  <1> QED
    BY <1>4, <1>5

\* The steps that neither push nor pop keep the elements, or drop them all.
LEMMA ReadsMatch ==
    ASSUME IInv, Next, ~ Pop, ~ \E v \in Value : Push(v)
    PROVE  Contract!Next
  <1> USE DEF storage, cursorVars
  <1>1. status = "ok" /\ ItemsAreLive /\ rindex \in Nat /\ count = rindex
        /\ rindex <= mindex /\ mindex \in Nat /\ pindex \in Int
    BY ItemsType, VectorAssumption
    DEF IInv, TypeOK, Headroom, Next, Clear, Back, BackOrNull, SetPeekPointer,
        SetPeekPointerEnd, SetFlag, PeekNoIncrement, Peek, Pop
  <1>2. /\ Items \in Seq(Value) /\ Len(Items) = rindex
        /\ \A k \in 1 .. rindex : Items[k] = data[k - 1]
    BY <1>1 DEF ItemsAreLive
  <1>3. ASSUME data' = data, count' = count, status' = "ok"
        PROVE  Items' = Items
    BY <1>1, <1>3 DEF Items
  <1>4. AtCursor = IF Contract!Readable THEN Items[pindex + 1] ELSE Null
    BY <1>1, <1>2 DEF AtCursor, InBoundsForAt, Contract!Readable
  <1>5. InBoundsForAt(pindex) = Contract!Readable
    BY <1>1, <1>2 DEF InBoundsForAt, Contract!Readable
  <1>6. ASSUME Clear PROVE Contract!Clear
    <2>1. status' = "ok" /\ count' = 0
      BY <1>1, <1>6 DEF Clear
    <2>2. Items' = <<>>
      BY <2>1 DEF Items
    <2> QED
      BY <1>6, <2>2 DEF Clear, Contract!Clear
  <1>7. ASSUME Back PROVE Contract!Back \/ Contract!Underflow
    <2>1. CASE rindex = 0
      <3>1. /\ status' = "aborted"
            /\ UNCHANGED <<result, pindex, backward>>
        BY <1>1, <1>7, <2>1 DEF Back, InBoundsForPop
      <3>2. Items = <<>>
        BY <1>2, <2>1
      <3>3. Items' = <<>>
        BY <3>1 DEF Items
      <3> QED
        BY <3>1, <3>2, <3>3 DEF Contract!Underflow
    <2>2. CASE rindex # 0
      <3>1. /\ result' = data[rindex - 1] /\ status' = "ok" /\ data' = data
            /\ count' = count /\ UNCHANGED <<pindex, backward>>
        BY <1>1, <1>7, <2>2 DEF Back, InBoundsForPop
      <3>2. Items # <<>> /\ Items[rindex] = data[rindex - 1]
        BY <1>1, <1>2, <2>2
      <3> QED
        BY <1>1, <1>2, <1>3, <3>1, <3>2 DEF Contract!Back
    <2> QED
      BY <2>1, <2>2
  <1>8. ASSUME BackOrNull PROVE Contract!Back
    <2>1. /\ result' = IF rindex = 0 THEN Null ELSE data[rindex - 1]
          /\ Items' = Items /\ UNCHANGED <<pindex, backward, status>>
      BY <1>1, <1>3, <1>8 DEF BackOrNull, InBoundsForAt
    <2>2. rindex = 0 <=> Items = <<>>
      BY <1>1, <1>2
    <2>3. rindex # 0 => Items[rindex] = data[rindex - 1]
      BY <1>1, <1>2
    <2> QED
      BY <1>2, <2>1, <2>2, <2>3 DEF Contract!Back
  <1>9. ASSUME \/ \E i \in Position : SetPeekPointer(i)
               \/ SetPeekPointerEnd
        PROVE  Contract!Place
    <2>1. pindex' \in Int /\ Items' = Items /\ UNCHANGED <<backward, result, status>>
      BY <1>1, <1>3, <1>9 DEF SetPeekPointer, SetPeekPointerEnd, Position
    <2> QED
      BY <2>1 DEF Contract!Place
  <1>10. ASSUME NEW b \in BOOLEAN, SetFlag(b)
         PROVE  Contract!SetDirection(b)
    BY <1>1, <1>3, <1>10 DEF SetFlag, Contract!SetDirection
  <1>11. ASSUME PeekNoIncrement PROVE Contract!Look
    BY <1>1, <1>3, <1>4, <1>11 DEF PeekNoIncrement, Contract!Look
  <1>12. ASSUME Peek PROVE Contract!Peek
    BY <1>1, <1>3, <1>4, <1>5, <1>12 DEF Peek, Contract!Peek
  <1> QED
    BY <1>1, <1>6, <1>7, <1>8, <1>9, <1>10, <1>11, <1>12 DEF Next, Contract!Next

\* Every behaviour of the array is a behaviour of the sequence with a cursor:
\* growth keeps every element, reads return what was pushed, and the only way
\* to stop is to pop, or take the back of, an empty vector.
THEOREM Refinement == Spec => ImplementsContract
  <1>1. IInv /\ [Next]_vars => [Contract!Next]_Contract!vars
    <2> SUFFICES ASSUME IInv, [Next]_vars
                 PROVE  [Contract!Next]_Contract!vars
      OBVIOUS
    <2>1. CASE UNCHANGED vars
      BY <2>1 DEF vars, Contract!vars, Items
    <2>2. ASSUME NEW v \in Value, Push(v)
          PROVE  Contract!Next
      BY <2>2, PushAppends DEF Push, Contract!Next
    <2>3. CASE Pop
      BY <2>3, PopRemovesLast DEF Pop, Contract!Next
    <2>4. CASE Next /\ ~ Pop /\ ~ \E v \in Value : Push(v)
      BY <2>4, ReadsMatch
    <2> QED
      BY <2>1, <2>2, <2>3, <2>4
  <1> QED
    BY <1>1, ContractInit, Invariance, PTL DEF Spec, ImplementsContract, Contract!Spec

-----------------------------------------------------------------------------
\* What else is so during a pass: the direction has not changed, and the cursor
\* and what the pass started with are inside the vector.
InPass == /\ pass \in {"none", "forward", "backward"}
          /\ pass = "forward" => ~backward /\ pindex \in 0 .. Len(Items)
          /\ pass = "backward" => /\ backward
                                  /\ seed \in 0 .. Len(Items)
                                  /\ pindex \in -1 .. seed - 1

PassInv == InPass /\ ForwardPass /\ BackwardPass

-----------------------------------------------------------------------------
\* A step of an iterating caller is a step of the vector.
LEMMA PassIsVector == PSpec => Spec
<1>1. PInit => Init
  BY DEF PInit
<1>2. [PNext]_<<vars, history>> => [Next]_vars
  <2>1. SetPeekPointer(0) => Next
    <3>1. 0 \in Position
      BY VectorAssumption DEF Position
    <3> QED
      BY <3>1 DEF Next
  <2> QED
    BY <2>1 DEF PNext, Next, vars
<1> QED
  BY <1>1, <1>2, PTL DEF PSpec, Spec

\* What a pass reads: the elements, one by one.
LEMMA PeekReads ==
    ASSUME IInv, Peek
    PROVE  /\ Items' = Items /\ Items \in Seq(Value) /\ backward' = backward
           /\ pindex \in Int
           /\ IF pindex \in 0 .. Len(Items) - 1
              THEN /\ result' = Items[pindex + 1] /\ result' # Null
                   /\ pindex' = IF backward THEN pindex - 1 ELSE pindex + 1
              ELSE result' = Null /\ pindex' = pindex
<1>1. /\ status = "ok" /\ count = rindex /\ rindex \in Nat /\ pindex \in Int
  BY DEF Peek, IInv, TypeOK, Headroom
<1>2. /\ Items \in Seq(Value) /\ Len(Items) = rindex
      /\ \A k \in 1 .. rindex : Items[k] = data[k - 1]
  BY <1>1, ItemsType DEF ItemsAreLive
<1>3. Items' = Items
  BY <1>1 DEF Peek, Items, storage
<1>4. InBoundsForAt(pindex) <=> pindex \in 0 .. Len(Items) - 1
  BY <1>1, <1>2 DEF InBoundsForAt
<1>5. ASSUME pindex \in 0 .. Len(Items) - 1
      PROVE  Items[pindex + 1] = data[pindex] /\ data[pindex] # Null
  <2>1. pindex + 1 \in 1 .. rindex /\ Items[pindex + 1] \in Value
    BY <1>1, <1>2, <1>5
  <2> QED
    BY <1>1, <1>2, <2>1, VectorAssumption
<1> QED
  BY <1>1, <1>2, <1>3, <1>4, <1>5 DEF Peek, AtCursor

\* Reads that are no part of a pass leave it alone; one that fails ends the
\* process on an empty vector, of which a pass has seen everything.
LEMMA OtherReads ==
    ASSUME IInv, Back \/ BackOrNull \/ PeekNoIncrement
    PROVE  /\ UNCHANGED <<pindex, backward>>
           /\ Items' = Items
<1>1. status = "ok" /\ count = rindex /\ UNCHANGED <<pindex, backward, data, count>>
  BY DEF Back, BackOrNull, PeekNoIncrement, storage, cursorVars, IInv, Headroom
<1>2. CASE status' = "ok"
  BY <1>1, <1>2 DEF Items
<1>3. CASE status' # "ok"
  <2>1. Back /\ ~InBoundsForPop(rindex - 1)
    BY <1>1, <1>3 DEF Back, BackOrNull, PeekNoIncrement
  <2>2. rindex = 0
    BY <1>1, <2>1, VectorAssumption DEF InBoundsForPop, IInv, TypeOK, Headroom
  <2> QED
    BY <1>1, <1>3, <2>2 DEF Items
<1> QED
  BY <1>1, <1>2, <1>3

-----------------------------------------------------------------------------
\* What a pass has seen does not depend on what is behind the elements it counts.
LEMMA SameItems ==
    ASSUME PassInv, UNCHANGED history, UNCHANGED <<pindex, backward>>,
           Items \in Seq(Value), Items' \in Seq(Value), Len(Items') >= Len(Items),
           \A k \in 1 .. Len(Items) : Items'[k] = Items[k]
    PROVE  PassInv'
<1>1. UNCHANGED <<pass, seed, seen>> /\ Len(Items) \in Nat /\ Len(Items') \in Nat
  BY DEF history
<1>2. InPass'
  BY <1>1 DEF PassInv, InPass
<1>3. ForwardPass'
  <2>1. CASE pass = "forward"
    <3>1. pindex \in 0 .. Len(Items) /\ seen = SubSeq(Items, 1, pindex)
      BY <2>1 DEF PassInv, InPass, ForwardPass
    <3>2. SubSeq(Items', 1, pindex) = SubSeq(Items, 1, pindex)
      BY <1>1, <3>1
    <3> QED
      BY <1>1, <3>1, <3>2 DEF ForwardPass
  <2> QED
    BY <1>1, <2>1 DEF ForwardPass
<1>4. BackwardPass'
  <2>1. CASE pass = "backward"
    <3>1. /\ seed \in 0 .. Len(Items) /\ pindex \in -1 .. seed - 1
          /\ seen = [k \in 1 .. seed - 1 - pindex |-> Items[seed + 1 - k]]
      BY <2>1 DEF PassInv, InPass, BackwardPass
    <3>2. ASSUME NEW k \in 1 .. seed - 1 - pindex
          PROVE  Items'[seed + 1 - k] = Items[seed + 1 - k]
      <4>1. PICK n \in Nat : n = Len(Items)
        BY <1>1
      <4>2. seed + 1 - k \in 1 .. n
        BY <3>1, <4>1
      <4> QED
        BY <1>1, <4>1, <4>2
    <3> QED
      BY <1>1, <3>1, <3>2 DEF BackwardPass
  <2> QED
    BY <1>1, <2>1 DEF BackwardPass
<1> QED
  BY <1>2, <1>3, <1>4 DEF PassInv

\* A peek of a pass returns the next element, or null and nothing more.
LEMMA PeekInv ==
    ASSUME IInv, PassInv, Peek, Recorded
    PROVE  PassInv'
<1>1. /\ Items' = Items /\ Items \in Seq(Value) /\ backward' = backward
      /\ pindex \in Int /\ Len(Items) \in Nat
      /\ pass' = pass /\ seed' = seed
  BY PeekReads DEF Recorded
<1>2. CASE pindex \notin 0 .. Len(Items) - 1 \/ pass = "none"
  <2>1. seen' = seen /\ (pass = "none" \/ pindex' = pindex)
    BY <1>2, PeekReads DEF Recorded
  <2> QED
    BY <1>1, <2>1 DEF PassInv, InPass, ForwardPass, BackwardPass
<1>3. CASE pindex \in 0 .. Len(Items) - 1 /\ pass = "forward"
  <2>1. /\ pindex' = pindex + 1 /\ seen' = Append(seen, Items[pindex + 1])
        /\ ~backward
    BY <1>1, <1>3, PeekReads DEF Recorded, PassInv, InPass
  <2>2. seen = SubSeq(Items, 1, pindex)
    BY <1>3 DEF PassInv, ForwardPass
  <2>3. Append(SubSeq(Items, 1, pindex), Items[pindex + 1]) = SubSeq(Items, 1, pindex + 1)
    BY <1>1, <1>3
  <2> QED
    BY <1>1, <1>3, <2>1, <2>2, <2>3 DEF PassInv, InPass, ForwardPass, BackwardPass
<1>4. CASE pindex \in 0 .. Len(Items) - 1 /\ pass = "backward"
  <2> DEFINE n == seed - 1 - pindex
             Visited(m) == [k \in 1 .. m |-> Items[seed + 1 - k]]
  <2>1. /\ pindex' = pindex - 1 /\ seen' = Append(seen, Items[pindex + 1])
        /\ backward /\ seed \in 0 .. Len(Items) /\ pindex \in -1 .. seed - 1
    BY <1>1, <1>4, PeekReads DEF Recorded, PassInv, InPass
  <2>2. seen = Visited(n)
    BY <1>4 DEF PassInv, BackwardPass
  <2>3. n \in Nat /\ Items[pindex + 1] = Items[seed + 1 - (n + 1)]
    BY <1>1, <2>1
  <2>4. Append(Visited(n), Items[seed + 1 - (n + 1)]) = Visited(n + 1)
    <3> HIDE DEF n
    <3>1. \A k \in 1 .. n + 1 : Items[seed + 1 - k] \in Value
      <4>1. \A k \in 1 .. n + 1 : seed + 1 - k \in 1 .. Len(Items)
        BY <1>1, <1>4, <2>1, <2>3 DEF n
      <4> QED
        BY <1>1, <4>1
    <3>2. Visited(n) \in Seq(Value) /\ Visited(n + 1) \in Seq(Value)
      BY <2>3, <3>1
    <3>3. Len(Visited(n)) = n /\ Len(Visited(n + 1)) = n + 1
      BY <2>3
    <3>4. Items[seed + 1 - (n + 1)] \in Value
      BY <2>3, <3>1
    <3>5. Len(Append(Visited(n), Items[seed + 1 - (n + 1)])) = n + 1
      BY <2>3, <3>2, <3>3, <3>4
    <3>6. \A k \in 1 .. n + 1 :
            Append(Visited(n), Items[seed + 1 - (n + 1)])[k] = Visited(n + 1)[k]
      BY <2>3, <3>2, <3>3, <3>4
    <3>7. Append(Visited(n), Items[seed + 1 - (n + 1)]) \in Seq(Value)
      BY <3>2, <3>4
    <3> HIDE DEF Visited
    <3> QED
      BY <2>3, <3>2, <3>3, <3>5, <3>6, <3>7
  <2>5. seen' = Visited(seed - 1 - pindex')
    <3>1. seed - 1 - pindex' = n + 1
      BY <1>1, <2>1
    <3> QED
      BY <2>1, <2>2, <2>3, <2>4, <3>1
  <2> QED
    BY <1>1, <1>4, <2>1, <2>5 DEF PassInv, InPass, ForwardPass, BackwardPass
<1> QED
  BY <1>2, <1>3, <1>4 DEF PassInv, InPass

\* Every step keeps it: a push grows the vector behind the cursor, a placement
\* starts a pass, a peek continues it, and what could take elements away ends it.
LEMMA StepInv == IInv /\ PassInv /\ [PNext]_<<vars, history>> => PassInv'
<1> SUFFICES ASSUME IInv, PassInv, [PNext]_<<vars, history>> PROVE PassInv'
  OBVIOUS
<1>1. CASE UNCHANGED <<vars, history>>
  <2>1. Items' = Items
    BY <1>1 DEF Items, vars
  <2> QED
    BY <1>1, <2>1 DEF vars, history, PassInv, InPass, ForwardPass, BackwardPass
<1>2. ASSUME NEW v \in Value, Push(v), UNCHANGED history PROVE PassInv'
  <2>1. Items' = Append(Items, v) /\ UNCHANGED <<pindex, backward>>
    BY <1>2, PushAppends DEF Contract!Push
  <2>2. Items \in Seq(Value)
    BY <1>2, ItemsType DEF ItemsAreLive, Push
  <2> QED
    BY <1>2, <2>1, <2>2, SameItems
<1>3. CASE (Back \/ BackOrNull \/ PeekNoIncrement) /\ UNCHANGED history
  <2>1. Items' = Items /\ UNCHANGED <<pindex, backward>>
    BY <1>3, OtherReads
  <2> QED
    BY <1>3, <2>1 DEF history, PassInv, InPass, ForwardPass, BackwardPass
<1>4. CASE Peek /\ Recorded
  BY <1>4, PeekInv
<1>5. CASE SetPeekPointer(0) /\ StartPass(IF backward THEN "none" ELSE "forward")
  <2>1. Items' = Items /\ Items \in Seq(Value) /\ pindex' = 0 /\ backward' = backward
    BY <1>5, ItemsType DEF SetPeekPointer, Items, storage, ItemsAreLive
  <2>2. SubSeq(Items, 1, 0) = <<>>
    BY <2>1
  <2> QED
    BY <1>5, <2>1, <2>2 DEF StartPass, PassInv, InPass, ForwardPass, BackwardPass, IInv,
       TypeOK
<1>6. CASE SetPeekPointerEnd /\ StartPass(IF backward THEN "backward" ELSE "none")
  <2>1. /\ Items' = Items /\ Len(Items) = rindex /\ count = rindex /\ rindex \in Nat
        /\ pindex' = rindex - 1 /\ backward' = backward
    BY <1>6, ItemsType DEF SetPeekPointerEnd, SetPeekPointer, Items, storage, ItemsAreLive,
       IInv, TypeOK, Headroom
  <2>2. CASE backward
    <3>1. /\ pass' = "backward" /\ seed' = rindex /\ seen' = <<>>
          /\ 1 .. seed' - 1 - pindex' = {}
      BY <1>6, <2>1, <2>2 DEF StartPass
    <3> QED
      BY <2>1, <2>2, <3>1 DEF PassInv, InPass, ForwardPass, BackwardPass
  <2>3. CASE ~backward
    BY <1>6, <2>1, <2>3 DEF StartPass, PassInv, InPass, ForwardPass, BackwardPass
  <2> QED
    BY <2>2, <2>3
<1>7. CASE StartPass("none")
  BY <1>7 DEF StartPass, PassInv, InPass, ForwardPass, BackwardPass
<1> QED
  BY <1>1, <1>2, <1>3, <1>4, <1>5, <1>6, <1>7 DEF PNext

\* The invariant of a pass holds before there is one, and from then on.
LEMMA Iterating == PSpec => []PassInv
<1>1. PInit => PassInv
  BY DEF PInit, PassInv, InPass, ForwardPass, BackwardPass
<1> QED
  BY <1>1, StepInv, PassIsVector, Invariance, PTL DEF PSpec

\* A caller that peeks from the front sees every element, in order and once,
\* those pushed meanwhile included, however the vector grows.
THEOREM ForwardSeesAll == PSpec => []ForwardPass
  BY Iterating, PTL DEF PassInv

\* A caller that peeks from the end sees the elements there were, last first.
THEOREM BackwardSeesAll == PSpec => []BackwardPass
  BY Iterating, PTL DEF PassInv
=============================================================================
