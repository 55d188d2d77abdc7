---------------------------- MODULE MCVectorPass ----------------------------
(***************************************************************************)
(* Vector on a small instance, with a history of the iteration under way.  *)
(*                                                                         *)
(* Callers iterate in two ways: vector_set_peek_pointer(v, 0) and then     *)
(* vector_peek until it returns null, or, on a vector with the decrement   *)
(* flag (the entities of a scope), vector_set_peek_pointer_end(v) and then *)
(* vector_peek.  Elements may be pushed between two peeks.  The history    *)
(* records what such a pass has returned; anything else ends the pass.     *)
(***************************************************************************)
EXTENDS Vector

VARIABLES pass,  \* "none", "forward" or "backward"
          seed,  \* elements in the vector when a backward pass started
          seen   \* what the peeks of the pass returned, in order

history == <<pass, seed, seen>>

\* history' after a step that places the cursor, peeks, or does anything else.
StartPass(kind) == /\ pass' = kind
                   /\ seed' = IF kind = "backward" THEN count ELSE 0
                   /\ seen' = <<>>

Recorded == /\ UNCHANGED <<pass, seed>>
            /\ seen' = IF pass # "none" /\ result' # Null
                       THEN Append(seen, result') ELSE seen

PInit == Init /\ pass = "none" /\ seed = 0 /\ seen = <<>>

PNext == \/ /\ \/ \E v \in Value : Push(v)
               \/ Back
               \/ BackOrNull
               \/ PeekNoIncrement
            /\ UNCHANGED history
         \/ Peek /\ Recorded
         \/ SetPeekPointer(0) /\ StartPass(IF backward THEN "none" ELSE "forward")
         \/ SetPeekPointerEnd /\ StartPass(IF backward THEN "backward" ELSE "none")
         \/ /\ \/ Pop
               \/ Clear
               \/ \E i \in Position \ {0} : SetPeekPointer(i)
               \/ \E b \in BOOLEAN : SetFlag(b)
            /\ StartPass("none")

PSpec == PInit /\ [][PNext]_<<vars, history>>

\* A forward pass has returned exactly the elements before the cursor, in
\* order and each once, pushes in between included; so when vector_peek
\* returns null the caller has seen them all.
ForwardPass == pass = "forward" => seen = SubSeq(Items, 1, pindex)

\* A backward pass has returned, last first, exactly the elements after the
\* cursor that were there when it started: later pushes are not visited.
BackwardPass ==
    pass = "backward" =>
        seen = [k \in 1 .. seed - 1 - pindex |-> Items[seed + 1 - k]]
=============================================================================
