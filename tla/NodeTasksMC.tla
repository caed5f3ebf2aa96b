---- MODULE NodeTasksMC ----
(* Two peers that flood, a client, one task that waits for an Ack.            *)
EXTENDS NodeTasks

CONSTANTS p, q, c, v, k

====
