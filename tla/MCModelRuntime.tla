--------------------------- MODULE MCModelRuntime ---------------------------
(* The instance of ModelRuntime that TLC checks.                             *)
EXTENDS ModelRuntime, TLC

Symmetry == Permutations(Loads)

=============================================================================
