-------------------------------- MODULE MCRuns --------------------------------
(* A run and a chat at a daemon with two peers, and a run at one of these. *)
EXTENDS Runs

CONSTANTS a, b, c, r1, r2, r3

MCHomeOf == [r \in Requests |-> IF r = r3 THEN b ELSE a]
MCKindOf == [r \in Requests |-> IF r = r2 THEN "chat" ELSE "run"]
MCListsOf == [m \in Machines |-> CASE m = a -> {<<b, c>>, <<c>>} [] m = b -> {<<c>>} [] m = c -> {<<b>>}]
MCTrusts == {[m \in Machines |-> Machines \ {m}],
             [m \in Machines |-> IF m = a THEN {b, c} ELSE {}],
             [m \in Machines |-> IF m = c THEN {} ELSE {a, b} \ {m}]}
MCRuntimes == <<"configured", "ollama">>
=============================================================================
