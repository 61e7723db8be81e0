---------------------------- MODULE MCPoolCluster ----------------------------
(* Two orchestrators, each with one handler, and c, which only hosts. *)
EXTENDS PoolCluster

CONSTANTS a, b, c, a1, b1

MCHomeOf == [x \in {a1, b1} |-> IF x = b1 THEN b ELSE a]
MCPeersOf == [m \in {a, b, c} |-> {a, b, c} \ {m}]
MCRequests == {<< >>, <<a>>, <<c>>, <<b, c>>}
MCInstalled ==
  [m \in {a, b, c} |-> IF m = c THEN {<<"path", "rpc-server">>}
                       ELSE {IF m = a THEN "tap" ELSE "path"} \X {"llama-server", "rpc-server"}]
=============================================================================
