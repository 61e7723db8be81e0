------------------------------ MODULE MCTunnel ------------------------------
(* The instances of Tunnel that TLC checks.                                  *)
EXTENDS Tunnel, TLC

=============================================================================
