---- MODULE ClientMC ----
(* Two points of presence and one or two videos.                             *)
EXTENDS Client

CONSTANTS a, b, v, w
====
