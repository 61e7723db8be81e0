------------------------------ MODULE MCPairing ------------------------------
(* One machine offers, to two that have the same name.  One accepts in the
   interface, the other on the command line.  Two listen on every address. *)
EXTENDS Pairing

CONSTANTS a, b, c, na, nb, k, xb, xc

MCNameOf == [m \in {a, b, c} |-> IF m = a THEN na ELSE nb]
MCHomeOf == [x \in {xb, xc} |-> IF x = xb THEN b ELSE c]
MCHowOf == [x \in {xb, xc} |-> IF x = xb THEN "ui" ELSE "cli"]
MCBindOf == [m \in {a, b, c} |-> IF m = c THEN "private" ELSE "any"]
MCLoopback == [m \in {a, b, c} |-> "loopback"]
MCCliHome == [i \in {k} |-> a]
MCOnLan == {<<a, b>>}
=============================================================================
