--------------------------- MODULE MCRelayCalls ---------------------------
(* The instances of RelayCalls that TLC checks.                              *)
EXTENDS RelayCalls, TLC

=============================================================================
