------------------------------ MODULE MCNodes ------------------------------
(* Nodes with one node, two addresses and two overlapping calls.           *)
EXTENDS Nodes

CONSTANTS h1, h2, g1, g2, c1, c2

OneId == {1}
TwoHosts == {h1, h2}
TwoProbers == {g1, g2}
TwoCalls == {c1, c2}
=============================================================================
