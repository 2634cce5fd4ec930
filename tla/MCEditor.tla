------------------------------ MODULE MCEditor ------------------------------
(* Editor for TLC: nothing depends on which characters a line has. *)
EXTENDS Editor, TLC

Symmetry == Permutations(Characters)

=============================================================================
