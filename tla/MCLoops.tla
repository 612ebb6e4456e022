------------------------------ MODULE MCLoops ------------------------------
(* Loops with one loop of the evasion watcher and one request at a time.   *)
EXTENDS Loops

CONSTANTS scrape, r1

OneLoop == {scrape}
OneRequest == {r1}
=============================================================================
