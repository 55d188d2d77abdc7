------------------------------- MODULE Vector -------------------------------
(***************************************************************************)
(* The dynamic array of src/cpp/helpers/vector.cpp: the operations the     *)
(* compiler calls (every AST list, the token stream, the parser's node     *)
(* stack, scopes, symbol tables and fixups are such vectors).              *)
(*                                                                         *)
(* The slots of the heap block are modelled one by one, so that a write    *)
(* past the block, and an element lost by a growth, can be seen.  mindex,  *)
(* the capacity the code keeps, is not the number of slots it allocates.   *)
(***************************************************************************)
EXTENDS Integers, Sequences

CONSTANTS Value,      \* the pointers stored
          Null,       \* nullptr
          Junk,       \* the content of a slot never written
          Increment,  \* VECTOR_ELEMENT_INCREMENT
          MaxCount    \* model bound: no push beyond this many elements

ASSUME VectorAssumption ==
    /\ Increment \in Nat \ {0}
    /\ MaxCount \in Nat
    /\ Null \notin Value
    /\ Junk \notin Value

VARIABLES data,      \* the heap block, a function from its slots
          alloc,     \* number of slots in the block
          mindex,    \* the capacity as the code knows it
          rindex,    \* write head
          count,     \* number of live elements
          pindex,    \* peek pointer
          backward,  \* flags & VECTOR_FLAG_PEEK_DECREMENT
          result,    \* what the last read returned
          status     \* "ok", "aborted" (assert), "corrupt" (write past the block)

vars == <<data, alloc, mindex, rindex, count, pindex, backward, result, status>>
storage == <<data, alloc, mindex>>
cursorVars == <<pindex, backward>>

\* Cursor positions a caller may ask for.
Position == -1 .. MaxCount

\* Mutant: `<=` for `<` in vector_in_bounds_for_at.
InBoundsForAtInclusive(i) == i >= 0 /\ i <= rindex

InBoundsForAt(i) == i >= 0 /\ i < rindex
InBoundsForPop(i) == i >= 0 /\ i < mindex

Init == /\ data = [i \in 0 .. Increment - 1 |-> Junk]
        /\ alloc = Increment
        /\ mindex = Increment
        /\ rindex = 0
        /\ count = 0
        /\ pindex = 0
        /\ backward = FALSE
        /\ result = Null
        /\ status = "ok"

\* Mutant: vector_resize_for_index tests `<=`.
ResizeLate(d, start) ==
    IF start <= mindex
    THEN /\ data' = d
         /\ UNCHANGED <<alloc, mindex>>
    ELSE /\ data' = [i \in 0 .. start + Increment - 1 |->
                        IF i < alloc THEN d[i] ELSE Junk]
         /\ alloc' = start + Increment
         /\ mindex' = start

\* Mutant: malloc for realloc.
ResizeFresh(d, start) ==
    IF start < mindex
    THEN /\ data' = d
         /\ UNCHANGED <<alloc, mindex>>
    ELSE /\ data' = [i \in 0 .. start + Increment - 1 |-> Junk]
         /\ alloc' = start + Increment
         /\ mindex' = start

(***************************************************************************)
(* vector_resize_for_index(start, 0) on a block whose slots hold d: the    *)
(* block grows to start + Increment slots but mindex becomes start only.   *)
(***************************************************************************)
Resize(d, start) ==
    IF start < mindex
    THEN /\ data' = d
         /\ UNCHANGED <<alloc, mindex>>
    ELSE /\ data' = [i \in 0 .. start + Increment - 1 |->
                        IF i < alloc THEN d[i] ELSE Junk]
         /\ alloc' = start + Increment
         /\ mindex' = start

Push(v) ==
    /\ status = "ok"
    /\ count < MaxCount
    /\ status' = IF rindex < alloc THEN "ok" ELSE "corrupt"
    /\ rindex' = rindex + 1
    /\ count' = count + 1
    /\ Resize([data EXCEPT ![rindex] = v], rindex + 1)
    /\ UNCHANGED <<cursorVars, result>>

\* The indices move before the assertion looks at them.
Pop ==
    /\ status = "ok"
    /\ rindex' = rindex - 1
    /\ count' = count - 1
    /\ status' = IF InBoundsForPop(rindex - 1) THEN "ok" ELSE "aborted"
    /\ UNCHANGED <<storage, cursorVars, result>>

\* vector_clear: pop while count is not zero, so the assertion never fires.
Clear ==
    /\ status = "ok"
    /\ rindex' = rindex - count
    /\ count' = 0
    /\ UNCHANGED <<storage, cursorVars, result, status>>

Back ==
    /\ status = "ok"
    /\ IF InBoundsForPop(rindex - 1)
       THEN result' = data[rindex - 1] /\ UNCHANGED status
       ELSE status' = "aborted" /\ UNCHANGED result
    /\ UNCHANGED <<storage, cursorVars, rindex, count>>

BackOrNull ==
    /\ status = "ok"
    /\ result' = IF InBoundsForAt(rindex - 1) THEN data[rindex - 1] ELSE Null
    /\ UNCHANGED <<storage, cursorVars, rindex, count, status>>

SetPeekPointer(i) ==
    /\ status = "ok"
    /\ pindex' = i
    /\ UNCHANGED <<storage, rindex, count, backward, result, status>>

SetPeekPointerEnd == SetPeekPointer(rindex - 1)

\* vector_set_flag / vector_unset_flag with the only flag there is.
SetFlag(b) ==
    /\ status = "ok"
    /\ backward' = b
    /\ UNCHANGED <<storage, rindex, count, pindex, result, status>>

AtCursor == IF InBoundsForAt(pindex) THEN data[pindex] ELSE Null

PeekNoIncrement ==
    /\ status = "ok"
    /\ result' = AtCursor
    /\ UNCHANGED <<storage, cursorVars, rindex, count, status>>

\* Mutant: the cursor moves before the read.
PeekAfterMove ==
    /\ status = "ok"
    /\ result' = IF InBoundsForAt(pindex + 1) THEN data[pindex + 1] ELSE Null
    /\ pindex' = IF InBoundsForAt(pindex) THEN pindex + 1 ELSE pindex
    /\ UNCHANGED <<storage, rindex, count, backward, status>>

\* Mutant: the decrement flag is not looked at.
PeekForwardOnly ==
    /\ status = "ok"
    /\ result' = AtCursor
    /\ pindex' = IF InBoundsForAt(pindex) THEN pindex + 1 ELSE pindex
    /\ UNCHANGED <<storage, rindex, count, backward, status>>

Peek ==
    /\ status = "ok"
    /\ result' = AtCursor
    /\ pindex' = IF ~InBoundsForAt(pindex) THEN pindex
                 ELSE IF backward THEN pindex - 1 ELSE pindex + 1
    /\ UNCHANGED <<storage, rindex, count, backward, status>>

Next == \/ \E v \in Value : Push(v)
        \/ Pop
        \/ Clear
        \/ Back
        \/ BackOrNull
        \/ \E i \in Position : SetPeekPointer(i)
        \/ SetPeekPointerEnd
        \/ \E b \in BOOLEAN : SetFlag(b)
        \/ PeekNoIncrement
        \/ Peek

Spec == Init /\ [][Next]_vars

-----------------------------------------------------------------------------
(***************************************************************************)
(* Properties                                                              *)
(***************************************************************************)

\* The type of every variable; an aborting pop leaves the indices at -1.
TypeOK == /\ alloc \in Nat \ {0}
          /\ data \in [0 .. alloc - 1 -> Value \cup {Junk}]
          /\ mindex \in Nat \ {0}
          /\ rindex \in Int
          /\ count \in Int
          /\ pindex \in Int
          /\ backward \in BOOLEAN
          /\ result \in Value \cup {Null}
          /\ status \in {"ok", "aborted", "corrupt"}

\* No sequence of calls makes vector_push write past the heap block, although
\* mindex is not the size of the block and the growth test runs only after
\* the write.
NoOverrun == status # "corrupt"

\* What makes NoOverrun inductive: outside an abort the write head is inside
\* the block and the live slots have all been written, and the block is either
\* the first one, not yet full, or has Increment slots more than mindex.
Headroom ==
    status = "ok" =>
        /\ count = rindex
        /\ 0 <= rindex
        /\ \/ alloc = mindex /\ rindex < mindex
           \/ alloc = mindex + Increment /\ rindex <= mindex
        /\ \A i \in 0 .. rindex - 1 : data[i] \in Value

\* The live elements as a sequence, and the contract over them.
Items == [i \in 1 .. (IF status = "ok" THEN count ELSE 0) |-> data[i - 1]]

Contract == INSTANCE VectorContract WITH items <- Items, cursor <- pindex

\* Growth, reads and cursor moves never change what the vector holds: the
\* array behaves as the sequence with a cursor its comments describe.
ImplementsContract == Contract!Spec
=============================================================================
