----------------------------- MODULE MCPortSync -----------------------------
(* PortSync on one rule, one node, two or three machines and a few goroutines. *)
EXTENDS PortSync, TLC

CONSTANTS r1, n1, m1, m2, w1, w2

OneRule == {r1}
OneNode == {n1}
NoNodes == {}
OneWorker == {w1}
TwoWorkers == {w1, w2}
JustLocal == {Local}
TwoMachines == {Local, m1}
ThreeMachines == {Local, m1, m2}
NoneInactive == {}
OneInactive == {m2}

\* Our rule for IPv4 and for IPv6 above a row of the administrator.
TwoRows == {<<r1, r1, Manual>>}

\* Firewalls with our rule above and below a row of the administrator.
MixedRows == {<<Manual>>, <<r1, Manual>>, <<Manual, r1>>}

ShortRows == {<<r1>>}

WorkersAlike == Permutations(TwoWorkers)

TwoTasks == {1, 2}

SavesOnly == {"save"}
SerialEvents == {"save", "node", "remove", "crash", "unqueued"}
=============================================================================
