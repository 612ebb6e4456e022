-------------------------- MODULE MCCoreLifecycle --------------------------
(* CoreLifecycle on small sets of goroutines and instances.                *)
EXTENDS CoreLifecycle, TLC

CONSTANTS b1, b2, b3, p1, p2, p3

OneProc == {p1}
TwoProcs == {p1, p2}
ThreeProcs == {p1, p2, p3}
TwoBoxes == {b1, b2}
ThreeBoxes == {b1, b2, b3}

StartsAndRestarts == {"StartCore", "RestartCore"}
OneGarbled == {1}
StartsAndReloads == {"StartCore", "Reload"}

ProcSym == Permutations({p1,p2,p3}) \cup Permutations({b1,b2})
=============================================================================
