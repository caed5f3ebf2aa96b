---- MODULE OverlayMC ----
(* A server, one node behind it and one behind that, with a client.          *)
EXTENDS Overlay

CONSTANTS s, m, n, c, v, mp4

\* Each of the two nodes has the other as its neighbour, and the server the
\* first.
EachOther == [k \in {m, n} |-> {m, n} \ {k}]
OneFile == [f \in {mp4} |-> v]
AnyParents == SUBSET {s, m, n}

\* Every fault alone, and pairs of them: a restart before or after a packet is
\* lost, and a death after a request could not be sent.
Pairs == {<<"restart", "lost">>, <<"lost", "restart">>, <<"unsent", "death">>}
OneOrTwo == {<<kind>> : kind \in FaultKinds} \cup Pairs

\* One false alarm.
OneAlarm == {<<"alarm">>}

====
