---- MODULE ReliableUdpMC ----
(* One socket that sends to two others.                                      *)
EXTENDS ReliableUdp

CONSTANTS a, b, c

TwoReceivers == {<<a, b>>, <<a, c>>}
====
