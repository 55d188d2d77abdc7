--------------------------- MODULE MCDeclarations ---------------------------
(***************************************************************************)
(* Texts for Declarations: a one-byte and a four-byte type, two names.     *)
(***************************************************************************)
EXTENDS Declarations

MCPrimitives == [char |-> 1, int |-> 4]

\* One variable, two variables, and one behind an array.
MCLists == {<<0>>, <<0, 0>>, <<3, 0>>}
MCParameters == {<<>>, <<<<"primitive", "char">>, <<"primitive", "int">>>>,
                 <<<<"struct", "S">>>>}
=============================================================================
