---- MODULE NodeMC ----
(* One node, one or two peers, one or two clients, one or two videos.        *)
EXTENDS Node

CONSTANTS n, p, q, c, d, v, w

\* The node starts with one of its peers as its neighbour.
OnePeer == [m \in {n} |-> {p}]

\* The parents a flood names: none, as a server does, or the node itself and
\* the other peer.
NoParents == {{}}
NoneOrOther == {{}, {n, q}}
====
