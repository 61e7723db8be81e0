------------------------------ MODULE MCRelay ------------------------------
(* The instance of Relay that TLC checks.                                    *)
EXTENDS Relay, TLC

Symmetry == Permutations(Conns) \union Permutations(Keys) \union Permutations(Ips)

=============================================================================
