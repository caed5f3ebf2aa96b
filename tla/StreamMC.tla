---- MODULE StreamMC ----
(* Two relays, one of them the server's neighbour, and another subscriber.   *)
EXTENDS Stream

CONSTANTS r, x, v, mp4, mkv

NameOfBoth == [f \in {mp4, mkv} |-> v]

====
