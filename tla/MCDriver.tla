------------------------------- MODULE MCDriver -------------------------------
(***************************************************************************)
(* Driver with two process ids, a source that compiles, and one that each  *)
(* stage refuses; commands that share a source, or an output.              *)
(***************************************************************************)
EXTENDS Driver

CONSTANTS good, other, unlexable, unparsable, badIR   \* texts

MCText == {good, other, unlexable, unparsable, badIR}
MCLexable == MCText \ {unlexable}
MCParsable == MCLexable \ {unparsable}
MCValid == MCParsable \ {badIR}
\* gcc may refuse any of them (LinkFails).
MCLinkable == MCValid

FC == <<"f", ".", "c">>           \* f.c
F == <<"f">>                      \* f
GC == <<"g", ".", "h", ".", "c">> \* g.h.c
Out == <<"out">>
O == <<"-o">>

\* No arguments; f.c to f; another source to the same output, the first -o taken;
\* a source without extension, which is its own output.
MCCommands == {<<>>, <<FC>>, <<GC, O, F, O, Out>>, <<F>>}

\* f.c is any text or missing; or f, too, is a source.
AnyDisk == {[q \in Path |-> CASE q = FC -> t
                              [] q = GC -> other
                              [] OTHER -> Absent] : t \in MCText \cup {Absent}}
           \cup {[q \in Path |-> good]}
=============================================================================
