--------------------------- MODULE MCRedirection ---------------------------
(***************************************************************************)
(* Redirection with the files interchangeable: a redirection opens any.    *)
(***************************************************************************)
EXTENDS Redirection, TLC

Symmetry == Permutations(Files)

=============================================================================
