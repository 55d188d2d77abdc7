--------------------------- MODULE VectorContract ---------------------------
(***************************************************************************)
(* What src/cpp/helpers/vector.cpp promises its callers (the comments on   *)
(* top of the file and on each function): a growable sequence written at   *)
(* its tail, with a cursor ("peek pointer") that reads without removing.   *)
(* No capacity, no allocation and no slot index is visible here.           *)
(***************************************************************************)
EXTENDS Integers, Sequences

CONSTANTS Value,    \* what callers store (the program stores pointers)
          Null      \* the null pointer a read may return

VARIABLES items,    \* the live elements, oldest first
          cursor,   \* zero-based position of the next peek, any integer
          backward, \* VECTOR_FLAG_PEEK_DECREMENT
          result,   \* what the last read returned
          status    \* "ok", or "aborted" by an assert

vars == <<items, cursor, backward, result, status>>

Readable == cursor \in 0 .. Len(items) - 1

Init == /\ items = <<>>
        /\ cursor = 0
        /\ backward = FALSE
        /\ result = Null
        /\ status = "ok"

Push(v) == /\ items' = Append(items, v)
           /\ UNCHANGED <<cursor, backward, result, status>>

Pop == /\ items # <<>>
       /\ items' = SubSeq(items, 1, Len(items) - 1)
       /\ UNCHANGED <<cursor, backward, result, status>>

Clear == /\ items' = <<>>
         /\ UNCHANGED <<cursor, backward, result, status>>

\* Popping, or asking for the back of, an empty vector ends the process.
Underflow == /\ items = <<>>
             /\ status' = "aborted"
             /\ UNCHANGED <<items, cursor, backward, result>>

Back == /\ result' = IF items = <<>> THEN Null ELSE items[Len(items)]
        /\ UNCHANGED <<items, cursor, backward, status>>

Place == /\ cursor' \in Int
         /\ UNCHANGED <<items, backward, result, status>>

SetDirection(b) == /\ backward' = b
                   /\ UNCHANGED <<items, cursor, result, status>>

Look == /\ result' = IF Readable THEN items[cursor + 1] ELSE Null
        /\ UNCHANGED <<items, cursor, backward, status>>

Peek == /\ result' = IF Readable THEN items[cursor + 1] ELSE Null
        /\ cursor' = IF ~Readable THEN cursor
                     ELSE IF backward THEN cursor - 1 ELSE cursor + 1
        /\ UNCHANGED <<items, backward, status>>

Next == /\ status = "ok"
        /\ \/ \E v \in Value : Push(v)
           \/ Pop
           \/ Clear
           \/ Underflow
           \/ Back
           \/ Place
           \/ \E b \in BOOLEAN : SetDirection(b)
           \/ Look
           \/ Peek

Spec == Init /\ [][Next]_vars
=============================================================================
