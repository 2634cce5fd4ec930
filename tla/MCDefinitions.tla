--------------------------- MODULE MCDefinitions ---------------------------
(* Definitions of one function. *)
EXTENDS Definitions

MCNameOf == [d \in Definitions |-> "f"]
=============================================================================
