----------------------------- MODULE StartGate -----------------------------
(***************************************************************************)
(* What the pair startCoreMu / startCoreInProgress promises to the rest of *)
(* the panel: among the goroutines that may start sing-box, at most one at *)
(* a time is between taking and giving back the right to do so.  Nothing   *)
(* is said of what it does meanwhile.  CoreLifecycle implements this.      *)
(***************************************************************************)
EXTENDS FiniteSets

CONSTANT Procs       \* goroutines that call StartCore, RestartCore or a reload

VARIABLE holders     \* those that hold the right to start the core

TypeOK == holders \in SUBSET Procs

Init == holders = {}

Enter(p) == holders = {} /\ holders' = {p}

Leave(p) == holders = {p} /\ holders' = {}

Next == \E p \in Procs : Enter(p) \/ Leave(p)

Spec == Init /\ [][Next]_holders

=============================================================================
