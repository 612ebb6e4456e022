---------------------------- MODULE MCSettings ----------------------------
(* Settings with two keys, one of them without a default, two transport    *)
(* plugins and overlapping calls.                                          *)
EXTENDS Settings

CONSTANTS k1, k2, x1, x2, p1, p2

TwoKeys == {k1, k2}
OneDefault == {k1}
TwoPlugins == {x1, x2}
TwoProcs == {p1, p2}
=============================================================================
