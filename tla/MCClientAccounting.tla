------------------------- MODULE MCClientAccounting -------------------------
(* ClientAccounting on one or two clients and two overlapping workers.     *)
EXTENDS ClientAccounting

CONSTANTS c1, c2, i1, i2, w1, w2

OneClient == {c1}
TwoClients == {c1, c2}
OneInbound == {i1}
TwoInbounds == {i1, i2}
OneWorker == {w1}
TwoWorkers == {w1, w2}

Limited == [delay |-> FALSE, auto |-> FALSE]
Periodic == [delay |-> FALSE, auto |-> TRUE]
Delayed == [delay |-> TRUE, auto |-> FALSE]
DelayedPeriodic == [delay |-> TRUE, auto |-> TRUE]
AllPlans == {Limited, Periodic, Delayed, DelayedPeriodic}
TwoPlans == {Limited, Periodic}
=============================================================================
