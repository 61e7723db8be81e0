----------------------------- MODULE MCVramPool -----------------------------
(* The instance of VramPool that TLC checks.                                 *)
EXTENDS VramPool, TLC

Symmetry == Permutations(Starts) \union Permutations(Hosts)

=============================================================================
