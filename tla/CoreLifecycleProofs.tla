------------------------ MODULE CoreLifecycleProofs ------------------------
(***************************************************************************)
(* For any number of goroutines, instances and saves: CoreLifecycle is     *)
(* type correct, startCoreInProgress excludes concurrent starts and never  *)
(* outlives its owner, the cooldown is honoured, and the start flag        *)
(* implements the abstract StartGate; a running core has the configuration *)
(* last saved unless its reload was refused or overtaken; and when calls   *)
(* do not overlap, Core's fields tell the truth about the instances.       *)
(***************************************************************************)
EXTENDS CoreLifecycle, TLAPS

USE NoBoxAssumption, MaxSavesAssumption

Lives == [st : {"none", "fresh", "live", "closed"}, cfg : Versions \cup {Partial}]

LEMMA DecodedType == \A v \in Versions : Decoded(v) \in Versions \cup {Partial}
  BY DEF Decoded

LEMMA BlankTypes ==
  /\ 0 \in Versions
  /\ NoLife \in Lives
  /\ [b \in Boxes |-> NoLife] \in [Boxes -> Lives]
  /\ [p \in Procs |-> "idle"] \in [Procs -> PCs]
  /\ [p \in Procs |-> "none"] \in [Procs -> AllOps \cup {"none"}]
  /\ [p \in Procs |-> 0] \in [Procs -> Versions]
<1>1. 0 \in Versions  BY DEF Versions
<1>2. NoLife \in Lives  BY <1>1 DEF NoLife, Lives
<1>3. "idle" \in PCs  BY DEF PCs
<1>4. QED  BY <1>1, <1>2, <1>3

LEMMA TypeInit == Init => TypeOK
  BY BlankTypes DEF Init, TypeOK, Lives

\* A process that moves stays within the places, calls and versions there are.
LEMMA GotoType ==
  ASSUME TypeOK, NEW p \in Procs, NEW l \in PCs, Goto(p, l)
  PROVE  pc' \in [Procs -> PCs] /\ op' \in [Procs -> AllOps \cup {"none"}] /\ cfg' \in [Procs -> Versions]
  BY DEF TypeOK, Goto

LEMMA CallType ==
  ASSUME TypeOK, NEW p \in Procs, NEW l \in PCs, NEW o \in AllOps \cup {"none"},
         NEW v \in Versions, Call(p, o, l, v)
  PROVE  pc' \in [Procs -> PCs] /\ op' \in [Procs -> AllOps \cup {"none"}] /\ cfg' \in [Procs -> Versions]
  BY DEF TypeOK, Call

LEMMA ReturnType ==
  ASSUME TypeOK, NEW p \in Procs, Return(p)
  PROVE  pc' \in [Procs -> PCs] /\ op' \in [Procs -> AllOps \cup {"none"}] /\ cfg' \in [Procs -> Versions]
  BY CallType, BlankTypes DEF Return, PCs

LEMMA CrashType == TypeOK /\ Crash => TypeOK'
  BY BlankTypes DEF TypeOK, Crash, Lives

LEMMA BoxType ==
  ASSUME TypeOK, inst # NoBox,
         NEW s \in {"none", "fresh", "live", "closed"}
  PROVE  [box EXCEPT ![inst].st = s] \in [Boxes -> Lives]
<1>1. inst \in Boxes /\ box[inst] \in Lives  BY DEF TypeOK, Lives
<1>2. [box[inst] EXCEPT !.st = s] \in Lives  BY <1>1 DEF Lives
<1>3. QED  BY <1>1, <1>2 DEF TypeOK, Lives

LEMMA TypeBegin == ASSUME TypeOK, NEW p \in Procs, Begin(p) PROVE TypeOK'
<1> USE BlankTypes
<1> USE DEF coreVars, gateVars, saveVars, PCs, StopPCs
<1>1. CASE StartCore(p)
  <2>1. Call(p, "StartCore", "gate", 0)  BY <1>1 DEF StartCore
  <2>2. QED  BY <1>1, <2>1, CallType DEF StartCore, TypeOK, AllOps
<1>2. CASE RestartCore(p)
  <2>1. Call(p, "RestartCore", "stop", 0)  BY <1>2 DEF RestartCore
  <2>2. QED  BY <1>2, <2>1, CallType DEF RestartCore, TypeOK, AllOps
<1>3. CASE Reload(p)
  <2>1. PICK v \in reloads : reloads' = reloads \ {v} /\ Call(p, "Reload", "gate", v)
    BY <1>3 DEF Reload
  <2>2. v \in Versions /\ reloads' \in SUBSET Versions  BY <2>1 DEF TypeOK
  <2>3. QED  BY <1>3, <2>1, <2>2, CallType DEF Reload, TypeOK, AllOps
<1>4. QED  BY <1>1, <1>2, <1>3 DEF Begin

LEMMA TypeGate == ASSUME TypeOK, NEW p \in Procs, Gate(p) PROVE TypeOK'
<1> USE DEF coreVars, gateVars, saveVars, PCs, StartPCs, StopPCs
<1>1. CASE Check(p)  BY <1>1, ReturnType, GotoType DEF Check, TypeOK
<1>2. CASE Refused(p)  BY <1>2, ReturnType DEF Refused, TypeOK
<1>3. CASE Admitted(p)  BY <1>3, GotoType DEF Admitted, TypeOK
<1>4. CASE Recheck(p)  BY <1>4, GotoType DEF Recheck, TypeOK
<1>5. CASE Release(p)  BY <1>5, ReturnType DEF Release, TypeOK
<1>6. QED  BY <1>1, <1>2, <1>3, <1>4, <1>5 DEF Gate

LEMMA TypeStop == ASSUME TypeOK, NEW p \in Procs, Stop(p) PROVE TypeOK'
<1> USE DEF coreVars, gateVars, saveVars, PCs, StartPCs, StopPCs, AfterStop
<1>1. CASE MarkStopped(p)  BY <1>1, GotoType DEF MarkStopped, TypeOK
<1>2. CASE LoadInstance(p)  BY <1>2, GotoType DEF LoadInstance, TypeOK
<1>3. CASE CloseInstance(p)
  <2>1. box' \in [Boxes -> Lives]  BY <1>3, BoxType DEF CloseInstance
  <2>2. PICK l \in {"clear", "clearErr"} : Goto(p, l)  BY <1>3 DEF CloseInstance
  <2>3. QED  BY <1>3, <2>1, <2>2, GotoType DEF CloseInstance, TypeOK, Lives
<1>4. CASE ClearInstance(p)  BY <1>4, GotoType DEF ClearInstance, TypeOK
<1>5. CASE ClearInstanceFailed(p)
  BY <1>5, GotoType, ReturnType DEF ClearInstanceFailed, TypeOK
<1>6. QED  BY <1>1, <1>2, <1>3, <1>4, <1>5 DEF Stop

LEMMA TypeStart == ASSUME TypeOK, NEW p \in Procs, Start(p) PROVE TypeOK'
<1> USE DEF coreVars, gateVars, saveVars, PCs, StartPCs, AfterFailedStart
<1>1. CASE GetConfig(p)
  <2>1. op[p] \in AllOps \cup {"none"} /\ cfg[p] \in Versions /\ saved \in Versions
    BY DEF TypeOK
  <2>2. QED  BY <1>1, <2>1, CallType DEF GetConfig, TypeOK
<1>2. CASE GetConfigFailed(p)  BY <1>2, GotoType DEF GetConfigFailed, TypeOK
<1>3. CASE NewBox(p)
  <2>1. PICK b \in Boxes : inst' = b /\ box' = [box EXCEPT ![b] = [st |-> "fresh", cfg |-> Decoded(cfg[p])]]
    BY <1>3 DEF NewBox
  <2>2. [st |-> "fresh", cfg |-> Decoded(cfg[p])] \in Lives  BY DecodedType DEF TypeOK, Lives
  <2>3. box' \in [Boxes -> Lives]  BY <2>1, <2>2 DEF TypeOK, Lives
  <2>4. QED  BY <1>3, <2>1, <2>3, GotoType DEF NewBox, TypeOK, Lives
<1>4. CASE NewBoxFailed(p)  BY <1>4, GotoType DEF NewBoxFailed, TypeOK
<1>5. CASE Boot(p)
  <2>1. box' \in [Boxes -> Lives]
    <3>1. inst \in Boxes /\ box[inst] \in Lives  BY <1>5 DEF Boot, TypeOK, Lives
    <3>2. [box[inst] EXCEPT !.st = IF @ = "fresh" THEN "live" ELSE @] \in Lives
      BY <3>1 DEF Lives
    <3>3. QED  BY <1>5, <3>1, <3>2 DEF Boot, TypeOK, Lives
  <2>2. QED  BY <1>5, <2>1, GotoType DEF Boot, TypeOK, Lives
<1>6. CASE BootFailed(p)  BY <1>6, GotoType DEF BootFailed, TypeOK
<1>7. CASE Abort(p)
  <2>1. box' \in [Boxes -> Lives]  BY <1>7, BoxType DEF Abort
  <2>2. QED  BY <1>7, <2>1, GotoType DEF Abort, TypeOK, Lives
<1>8. CASE Up(p)  BY <1>8, GotoType DEF Up, TypeOK
<1>9. CASE StartFailed(p)  BY <1>9, GotoType DEF StartFailed, TypeOK
<1>10. QED  BY <1>1, <1>2, <1>3, <1>4, <1>5, <1>6, <1>7, <1>8, <1>9 DEF Start

LEMMA TypePanic == ASSUME TypeOK, NEW p \in Procs, Panic(p) PROVE TypeOK'
<1>1. CASE Recovered(p)
  <2>1. inProgress' \in BOOLEAN  BY <1>1 DEF Recovered
  <2>2. QED  BY <1>1, <2>1, ReturnType DEF Recovered, TypeOK, coreVars, saveVars
<1>2. QED  BY <1>1, CrashType DEF Panic

LEMMA TypeNext == TypeOK /\ [Next]_vars => TypeOK'
<1> SUFFICES ASSUME TypeOK, [Next]_vars PROVE TypeOK'
  OBVIOUS
<1>1. CASE \E p \in Procs : Begin(p) \/ Continue(p)
  BY <1>1, TypeBegin, TypeGate, TypeStop, TypeStart, TypePanic DEF Continue
<1>2. CASE CooldownEnds
  BY <1>2 DEF CooldownEnds, TypeOK, coreVars, saveVars, procVars
<1>3. CASE SaveRules
  <2>1. saved + 1 \in Versions  BY <1>3 DEF SaveRules, TypeOK, Versions
  <2>2. QED  BY <1>3, <2>1 DEF SaveRules, TypeOK, coreVars, gateVars, procVars
<1>4. CASE UNCHANGED vars
  BY <1>4 DEF TypeOK, vars, coreVars, gateVars, saveVars, procVars
<1>5. QED  BY <1>1, <1>2, <1>3, <1>4 DEF Next

\* Every variable keeps its type: what TLC checks as TypeOK, for all constants.
THEOREM TypeCorrect == Spec => []TypeOK
<1>1. QED  BY TypeInit, TypeNext, PTL DEF Spec

-----------------------------------------------------------------------------
(* The start flag.  SingleStarter is inductive together with the fact that *)
(* only a reload looks at isRunning from inside the section.               *)

RecheckIsReload == \A p \in Procs : pc[p] = "recheck" => op[p] = "Reload"

GateInv == TypeOK /\ SingleStarter /\ RecheckIsReload

\* A step of p that keeps p on its side of the gate and leaves the flag alone.
LEMMA SameSide ==
  ASSUME TypeOK, SingleStarter, NEW p \in Procs,
         \A q \in Procs \ {p} : pc'[q] = pc[q] /\ op'[q] = op[q],
         InSection(p)' <=> InSection(p),
         inProgress' = inProgress
  PROVE  SingleStarter'
<1>1. \A q \in Procs : InSection(q)' <=> InSection(q)  BY DEF InSection
<1>2. QED  BY <1>1 DEF SingleStarter

LEMMA GotoFrame ==
  ASSUME TypeOK, NEW p \in Procs, NEW l, Goto(p, l)
  PROVE  /\ \A q \in Procs \ {p} : pc'[q] = pc[q] /\ op'[q] = op[q]
         /\ pc'[p] = l /\ op'[p] = op[p]
  BY DEF TypeOK, Goto

LEMMA CallFrame ==
  ASSUME TypeOK, NEW p \in Procs, NEW l, NEW o, NEW v, Call(p, o, l, v)
  PROVE  /\ \A q \in Procs \ {p} : pc'[q] = pc[q] /\ op'[q] = op[q]
         /\ pc'[p] = l /\ op'[p] = o
  BY DEF TypeOK, Call

LEMMA ReturnFrame ==
  ASSUME TypeOK, NEW p \in Procs, Return(p)
  PROVE  /\ \A q \in Procs \ {p} : pc'[q] = pc[q] /\ op'[q] = op[q]
         /\ pc'[p] = "idle" /\ op'[p] = "none"
  BY CallFrame DEF Return

\* Whatever a process does, it stays a reload at "recheck".
LEMMA RecheckFrame ==
  ASSUME RecheckIsReload, NEW p \in Procs,
         \A q \in Procs \ {p} : pc'[q] = pc[q] /\ op'[q] = op[q],
         pc'[p] = "recheck" => op'[p] = "Reload"
  PROVE  RecheckIsReload'
  BY DEF RecheckIsReload

LEMMA GateBegin ==
  ASSUME GateInv, NEW p \in Procs, Begin(p)
  PROVE  SingleStarter' /\ RecheckIsReload'
<1> USE DEF GateInv, gateVars
<1>1. pc[p] = "idle" /\ inProgress' = inProgress
  BY DEF Begin, StartCore, RestartCore, Reload
<1>2. PICK o \in AllOps, l \in {"gate", "stop"}, v \in Versions :
        Call(p, o, l, v) /\ (l = "stop" => o = "RestartCore")
  BY BlankTypes DEF Begin, StartCore, RestartCore, Reload, AllOps, TypeOK
<1>3. ~InSection(p) /\ ~InSection(p)'
  BY <1>1, <1>2, CallFrame DEF InSection, StartPCs, StopPCs
<1>4. QED  BY <1>1, <1>2, <1>3, CallFrame, SameSide, RecheckFrame

LEMMA GateGate ==
  ASSUME GateInv, NEW p \in Procs, Gate(p)
  PROVE  SingleStarter' /\ RecheckIsReload'
<1> USE DEF GateInv, gateVars
<1>1. CASE Check(p)
  <2>1. /\ inProgress' = inProgress
        /\ ~InSection(p) /\ ~InSection(p)'
        /\ \A q \in Procs \ {p} : pc'[q] = pc[q] /\ op'[q] = op[q]
        /\ pc'[p] # "recheck"
    BY <1>1, ReturnFrame, GotoFrame DEF Check, InSection, StartPCs, StopPCs
  <2>2. QED  BY <2>1, SameSide, RecheckFrame
<1>2. CASE Refused(p)
  <2>1. /\ inProgress' = inProgress
        /\ ~InSection(p) /\ ~InSection(p)'
        /\ \A q \in Procs \ {p} : pc'[q] = pc[q] /\ op'[q] = op[q]
        /\ pc'[p] # "recheck"
    BY <1>2, ReturnFrame DEF Refused, InSection, StartPCs, StopPCs
  <2>2. QED  BY <2>1, SameSide, RecheckFrame
<1>3. CASE Admitted(p)
  <2>1. ~inProgress /\ inProgress'
    BY <1>3 DEF Admitted
  <2>2. \A q \in Procs : ~InSection(q)
    BY <2>1 DEF SingleStarter
  <2>3. /\ \A q \in Procs \ {p} : pc'[q] = pc[q] /\ op'[q] = op[q]
        /\ op'[p] = op[p]
        /\ pc'[p] = IF op[p] = "Reload" THEN "recheck" ELSE "getConfig"
    BY <1>3, GotoFrame DEF Admitted
  <2>4. InSection(p)' /\ \A q \in Procs \ {p} : ~InSection(q)'
    BY <2>2, <2>3 DEF InSection, StartPCs
  <2>5. SingleStarter'
    BY <2>1, <2>4 DEF SingleStarter
  <2>6. QED  BY <2>3, <2>5, RecheckFrame
<1>4. CASE Recheck(p)
  <2>1. op[p] = "Reload"
    BY <1>4 DEF Recheck, RecheckIsReload
  <2>2. /\ inProgress' = inProgress
        /\ \A q \in Procs \ {p} : pc'[q] = pc[q] /\ op'[q] = op[q]
        /\ op'[p] = op[p] /\ pc'[p] \in {"stop", "getConfig"}
    BY <1>4, GotoFrame DEF Recheck
  <2>3. InSection(p) /\ InSection(p)'
    BY <1>4, <2>1, <2>2 DEF Recheck, InSection, StartPCs, StopPCs
  <2>4. QED  BY <2>2, <2>3, SameSide, RecheckFrame
<1>5. CASE Release(p)
  <2>1. /\ ~inProgress'
        /\ \A q \in Procs \ {p} : pc'[q] = pc[q] /\ op'[q] = op[q]
        /\ pc'[p] = "idle" /\ op'[p] = "none"
    BY <1>5, ReturnFrame DEF Release
  <2>2. InSection(p)
    BY <1>5 DEF Release, InSection, StartPCs
  <2>3. \A q \in Procs : ~InSection(q)'
    BY <2>1, <2>2 DEF SingleStarter, InSection, StartPCs, StopPCs
  <2>4. QED  BY <2>1, <2>3, RecheckFrame DEF SingleStarter
<1>6. QED  BY <1>1, <1>2, <1>3, <1>4, <1>5 DEF Gate

\* Stop keeps a reload inside and RestartCore outside.
LEMMA GateStop ==
  ASSUME GateInv, NEW p \in Procs, Stop(p)
  PROVE  SingleStarter' /\ RecheckIsReload'
<1> USE DEF GateInv, gateVars
<1>1. inProgress' = inProgress /\ pc[p] \in StopPCs
  BY DEF Stop, MarkStopped, LoadInstance, CloseInstance, ClearInstance,
         ClearInstanceFailed, StopPCs
<1>2. \/ \E l \in StopPCs : Goto(p, l)
      \/ Goto(p, AfterStop(p))
      \/ op[p] = "Reload" /\ Goto(p, "release")
      \/ op[p] # "Reload" /\ Return(p)
  BY DEF Stop, MarkStopped, LoadInstance, CloseInstance, ClearInstance,
         ClearInstanceFailed, StopPCs
<1>3. /\ \A q \in Procs \ {p} : pc'[q] = pc[q] /\ op'[q] = op[q]
      /\ pc'[p] # "recheck"
      /\ \/ op'[p] = op[p] /\ pc'[p] \in StopPCs
         \/ op'[p] = op[p] /\ op[p] = "Reload" /\ pc'[p] \in {"getConfig", "release"}
         \/ op'[p] = op[p] /\ op[p] # "Reload" /\ pc'[p] = "check"
         \/ op[p] # "Reload" /\ pc'[p] = "idle" /\ op'[p] = "none"
  BY <1>2, GotoFrame, ReturnFrame DEF AfterStop, StopPCs
<1>4. InSection(p)' <=> InSection(p)
  BY <1>1, <1>3 DEF InSection, StartPCs, StopPCs
<1>5. QED  BY <1>1, <1>3, <1>4, SameSide, RecheckFrame

LEMMA GateStart ==
  ASSUME GateInv, NEW p \in Procs, Start(p)
  PROVE  SingleStarter' /\ RecheckIsReload'
<1> USE DEF GateInv, gateVars
<1>1. inProgress' = inProgress /\ pc[p] \in StartPCs
  BY DEF Start, GetConfig, GetConfigFailed, NewBox, NewBoxFailed, Boot, BootFailed,
         Abort, Up, StartFailed, StartPCs
<1>2. \/ \E l \in StartPCs : Goto(p, l)
      \/ \E v : Call(p, op[p], "newBox", v)
  BY DEF Start, GetConfig, GetConfigFailed, NewBox, NewBoxFailed, Boot, BootFailed,
         Abort, Up, StartFailed, StartPCs, AfterFailedStart
<1>3. /\ \A q \in Procs \ {p} : pc'[q] = pc[q] /\ op'[q] = op[q]
      /\ pc'[p] \in StartPCs
  BY <1>2, GotoFrame, CallFrame DEF StartPCs
<1>4. InSection(p)' /\ InSection(p) /\ pc'[p] # "recheck"
  BY <1>1, <1>3 DEF InSection, StartPCs
<1>5. QED  BY <1>1, <1>3, <1>4, SameSide, RecheckFrame

LEMMA GateCrash == Crash => SingleStarter' /\ RecheckIsReload'
  BY DEF Crash, SingleStarter, RecheckIsReload, InSection, StartPCs, StopPCs

\* A panic that gin recovers runs the deferred function, which gives the flag back.
LEMMA GatePanic ==
  ASSUME GateInv, NEW p \in Procs, Panic(p)
  PROVE  SingleStarter' /\ RecheckIsReload'
<1> USE DEF GateInv
<1>1. CASE Recovered(p)
  <2>1. /\ \A q \in Procs \ {p} : pc'[q] = pc[q] /\ op'[q] = op[q]
        /\ pc'[p] = "idle" /\ op'[p] = "none"
    BY <1>1, ReturnFrame DEF Recovered
  <2>2. ~InSection(p)'
    BY <2>1 DEF InSection, StartPCs, StopPCs
  <2>3. CASE InSection(p)
    <3>1. ~inProgress'
      BY <1>1, <2>3 DEF Recovered
    <3>2. \A q \in Procs : ~InSection(q)'
      BY <2>1, <2>2, <2>3 DEF SingleStarter, InSection
    <3>3. QED  BY <2>1, <3>1, <3>2, RecheckFrame DEF SingleStarter
  <2>4. CASE ~InSection(p)
    <3>1. inProgress' = inProgress
      BY <1>1, <2>4 DEF Recovered, TypeOK
    <3>2. QED  BY <2>1, <2>2, <2>4, <3>1, SameSide, RecheckFrame
  <2>5. QED  BY <2>3, <2>4
<1>2. QED  BY <1>1, GateCrash DEF Panic

LEMMA GateNext == GateInv /\ [Next]_vars => GateInv'
<1> SUFFICES ASSUME GateInv, [Next]_vars PROVE SingleStarter' /\ RecheckIsReload'
  BY TypeNext DEF GateInv
<1>1. CASE \E p \in Procs : Begin(p) \/ Continue(p)
  BY <1>1, GateBegin, GateGate, GateStop, GateStart, GatePanic DEF Continue
<1>2. CASE CooldownEnds \/ SaveRules \/ UNCHANGED vars
  <2>1. pc' = pc /\ op' = op /\ inProgress' = inProgress
    BY <1>2 DEF CooldownEnds, SaveRules, vars, procVars, gateVars
  <2>2. QED  BY <2>1 DEF GateInv, SingleStarter, RecheckIsReload, InSection
<1>3. QED  BY <1>1, <1>2 DEF Next

LEMMA GateInit == Init => GateInv
<1> SUFFICES ASSUME Init PROVE SingleStarter /\ RecheckIsReload
  BY TypeInit DEF GateInv
<1>1. QED
  BY DEF Init, SingleStarter, RecheckIsReload, InSection, StartPCs, StopPCs

LEMMA GateCorrect == Spec => []GateInv
  BY GateInit, GateNext, PTL DEF Spec

\* However many goroutines call StartCore, RestartCore and restartCoreWithConfig,
\* one at most is past the gate, and startCoreInProgress is up just while one is.
THEOREM SingleStarterHolds == Spec => []SingleStarter
<1>1. GateInv => SingleStarter  BY DEF GateInv
<1>2. QED  BY <1>1, GateCorrect, PTL

-----------------------------------------------------------------------------
(* The cooldown.  A failed StartCore raises it while it still owns the      *)
(* flag, so no other StartCore can be past the gate at that moment.         *)

Cooled == {"getConfig", "newBox", "boot", "abort", "up", "failed"}

\* Where a call that waits out the cooldown is after p's step, given that the
\* cooldown did not begin in it.
LEMMA CoolSame ==
  ASSUME CooldownHonoured, NEW p \in Procs,
         \A q \in Procs \ {p} : pc'[q] = pc[q] /\ op'[q] = op[q],
         cooling' => cooling,
         pc'[p] \in Cooled /\ op'[p] # "Reload" /\ cooling' =>
             pc[p] \in Cooled /\ op[p] # "Reload"
  PROVE  CooldownHonoured'
  BY DEF CooldownHonoured, Cooled

LEMMA CoolBeginGate ==
  ASSUME GateInv, CooldownHonoured, NEW p \in Procs, Begin(p) \/ Gate(p)
  PROVE  CooldownHonoured'
<1> USE DEF GateInv, gateVars
<1>1. CASE Begin(p)
  <2>1. PICK o \in AllOps, l \in {"gate", "stop"}, v \in Versions :
          Call(p, o, l, v) /\ cooling' = cooling
    BY <1>1, BlankTypes DEF Begin, StartCore, RestartCore, Reload, TypeOK, AllOps
  <2>2. QED  BY <2>1, CallFrame, CoolSame DEF Cooled
<1>2. CASE Check(p) \/ Refused(p) \/ Release(p)
  <2>1. /\ cooling' = cooling
        /\ \A q \in Procs \ {p} : pc'[q] = pc[q] /\ op'[q] = op[q]
        /\ pc'[p] \notin Cooled
    BY <1>2, GotoFrame, ReturnFrame DEF Check, Refused, Release, Cooled
  <2>2. QED  BY <2>1, CoolSame
<1>3. CASE Admitted(p)
  <2>1. /\ cooling' = cooling /\ (op[p] # "Reload" => ~cooling)
        /\ \A q \in Procs \ {p} : pc'[q] = pc[q] /\ op'[q] = op[q]
        /\ op'[p] = op[p]
    BY <1>3, GotoFrame DEF Admitted
  <2>2. QED  BY <2>1, CoolSame
<1>4. CASE Recheck(p)
  <2>1. op[p] = "Reload"
    BY <1>4 DEF Recheck, RecheckIsReload
  <2>2. /\ cooling' = cooling /\ op'[p] = op[p]
        /\ \A q \in Procs \ {p} : pc'[q] = pc[q] /\ op'[q] = op[q]
    BY <1>4, GotoFrame DEF Recheck
  <2>3. QED  BY <2>1, <2>2, CoolSame
<1>5. QED  BY <1>1, <1>2, <1>3, <1>4 DEF Gate

LEMMA CoolStop ==
  ASSUME GateInv, CooldownHonoured, NEW p \in Procs, Stop(p)
  PROVE  CooldownHonoured'
<1> USE DEF GateInv, gateVars
<1>1. cooling' = cooling
  BY DEF Stop, MarkStopped, LoadInstance, CloseInstance, ClearInstance,
         ClearInstanceFailed
<1>2. \/ \E l \in StopPCs \cup {"release"} : Goto(p, l)
      \/ Goto(p, AfterStop(p))
      \/ Return(p)
  BY DEF Stop, MarkStopped, LoadInstance, CloseInstance, ClearInstance,
         ClearInstanceFailed, StopPCs
<1>3. /\ \A q \in Procs \ {p} : pc'[q] = pc[q] /\ op'[q] = op[q]
      /\ pc'[p] \in Cooled => op'[p] = "Reload"
  BY <1>2, GotoFrame, ReturnFrame DEF AfterStop, StopPCs, Cooled
<1>4. QED  BY <1>1, <1>3, CoolSame

LEMMA CoolStart ==
  ASSUME GateInv, CooldownHonoured, NEW p \in Procs, Start(p)
  PROVE  CooldownHonoured'
<1> USE DEF GateInv, gateVars
<1>1. CASE StartFailed(p)
  <2>1. /\ \A q \in Procs \ {p} : pc'[q] = pc[q] /\ op'[q] = op[q]
        /\ pc'[p] = "release" /\ pc[p] = "failed"
    BY <1>1, GotoFrame DEF StartFailed
  <2>2. \A q \in Procs \ {p} : ~InSection(q)
    BY <2>1 DEF SingleStarter, InSection, StartPCs
  <2>3. \A q \in Procs \ {p} : pc'[q] \notin Cooled
    BY <2>1, <2>2 DEF InSection, StartPCs, Cooled
  <2>4. QED  BY <2>1, <2>3 DEF CooldownHonoured, Cooled
<1>2. CASE ~StartFailed(p)
  <2>1. cooling' = cooling /\ pc[p] \in Cooled
    BY <1>2 DEF Start, GetConfig, GetConfigFailed, NewBox, NewBoxFailed, Boot,
                BootFailed, Abort, Up, Cooled
  <2>2. \/ \E l : Goto(p, l)
        \/ \E l, v : Call(p, op[p], l, v)
    BY <1>2 DEF Start, GetConfig, GetConfigFailed, NewBox, NewBoxFailed, Boot,
                BootFailed, Abort, Up
  <2>3. /\ \A q \in Procs \ {p} : pc'[q] = pc[q] /\ op'[q] = op[q]
        /\ op'[p] = op[p]
    BY <2>2, GotoFrame, CallFrame
  <2>4. QED  BY <2>1, <2>3, CoolSame
<1>3. QED  BY <1>1, <1>2

LEMMA CoolPanic ==
  ASSUME GateInv, CooldownHonoured, NEW p \in Procs, Panic(p)
  PROVE  CooldownHonoured'
<1>1. CASE Recovered(p)
  <2>1. /\ \A q \in Procs \ {p} : pc'[q] = pc[q] /\ op'[q] = op[q]
        /\ pc'[p] \notin Cooled /\ cooling' = cooling
    BY <1>1, ReturnFrame DEF Recovered, GateInv, Cooled
  <2>2. QED  BY <2>1, CoolSame
<1>2. CASE Crash
  BY <1>2 DEF Crash, CooldownHonoured
<1>3. QED  BY <1>1, <1>2 DEF Panic

LEMMA CoolNext == GateInv /\ CooldownHonoured /\ [Next]_vars => CooldownHonoured'
<1> SUFFICES ASSUME GateInv, CooldownHonoured, [Next]_vars PROVE CooldownHonoured'
  OBVIOUS
<1>1. CASE \E p \in Procs : Begin(p) \/ Continue(p)
  BY <1>1, CoolBeginGate, CoolStop, CoolStart, CoolPanic DEF Continue
<1>2. CASE CooldownEnds \/ SaveRules \/ UNCHANGED vars
  <2>1. pc' = pc /\ op' = op /\ (cooling' => cooling)
    BY <1>2 DEF CooldownEnds, SaveRules, vars, procVars, gateVars
  <2>2. QED  BY <2>1 DEF CooldownHonoured
<1>3. QED  BY <1>1, <1>2 DEF Next

\* While a failed StartCore's cooldown runs, no StartCore is building or booting
\* an instance, whichever goroutines call it and however they interleave.
THEOREM CooldownHolds == Spec => []CooldownHonoured
<1>1. Init => CooldownHonoured
  BY DEF Init, CooldownHonoured
<1>2. QED  BY <1>1, CoolNext, GateCorrect, PTL DEF Spec

-----------------------------------------------------------------------------
(* Refinement.  Taking the flag is the abstract Enter; giving it back,      *)
(* panicking with it or dying with it is Leave; any other step leaves the   *)
(* holders alone.  What has to be shown is that the flag is never handed    *)
(* from one process to another in one step.                                 *)

Holders == {p \in Procs : InSection(p)}

\* A step of r, short of the whole panel crashing, moves no other process.
LEMMA ActorFrame ==
  ASSUME GateInv, NEW r \in Procs, Begin(r) \/ Continue(r), ~Crash
  PROVE  \A q \in Procs \ {r} : pc'[q] = pc[q] /\ op'[q] = op[q]
<1> USE DEF GateInv
<1>1. (\E l : Goto(r, l)) \/ (\E o, l, v : Call(r, o, l, v))
  <2>1. CASE Begin(r)
    BY <2>1 DEF Begin, StartCore, RestartCore, Reload
  <2>2. CASE Gate(r)
    BY <2>2 DEF Gate, Check, Refused, Admitted, Recheck, Release, Return
  <2>3. CASE Stop(r)
    BY <2>3 DEF Stop, MarkStopped, LoadInstance, CloseInstance, ClearInstance,
                ClearInstanceFailed, Return
  <2>4. CASE Start(r)
    BY <2>4 DEF Start, GetConfig, GetConfigFailed, NewBox, NewBoxFailed, Boot,
                BootFailed, Abort, Up, StartFailed
  <2>5. CASE Panic(r)
    BY <2>5 DEF Panic, Recovered, Return
  <2>6. QED  BY <2>1, <2>2, <2>3, <2>4, <2>5 DEF Continue
<1>2. QED  BY <1>1, GotoFrame, CallFrame

\* The gate is the only way in.
LEMMA OnlyAdmittedEnters ==
  ASSUME GateInv, NEW r \in Procs, Begin(r) \/ Continue(r), ~Admitted(r),
         ~InSection(r)
  PROVE  ~InSection(r)'
<1> USE DEF GateInv
<1>1. CASE Begin(r)
  <2>1. PICK o \in AllOps, l \in {"gate", "stop"}, v \in Versions :
          Call(r, o, l, v) /\ (l = "stop" => o = "RestartCore")
    BY <1>1, BlankTypes DEF Begin, StartCore, RestartCore, Reload, AllOps, TypeOK
  <2>2. QED  BY <2>1, CallFrame DEF InSection, StartPCs, StopPCs
<1>2. CASE Gate(r)
  BY <1>2, GotoFrame, ReturnFrame
     DEF Gate, Check, Refused, Recheck, Release, InSection, StartPCs, StopPCs
<1>3. CASE Stop(r)
  <2>1. op[r] # "Reload"
    BY <1>3 DEF InSection, StopPCs, Stop, MarkStopped, LoadInstance, CloseInstance,
                ClearInstance, ClearInstanceFailed
  <2>2. \/ \E l \in StopPCs \cup {"check"} : Goto(r, l)
        \/ Return(r)
    BY <1>3, <2>1 DEF Stop, MarkStopped, LoadInstance, CloseInstance, ClearInstance,
                ClearInstanceFailed, StopPCs, AfterStop
  <2>3. QED
    BY <2>1, <2>2, GotoFrame, ReturnFrame DEF InSection, StartPCs, StopPCs
<1>4. CASE Start(r)
  BY <1>4 DEF Start, GetConfig, GetConfigFailed, NewBox, NewBoxFailed, Boot,
              BootFailed, Abort, Up, StartFailed, InSection, StartPCs
<1>5. CASE Panic(r)
  BY <1>5, ReturnFrame DEF Panic, Recovered, Crash, InSection, StartPCs, StopPCs
<1>6. QED  BY <1>1, <1>2, <1>3, <1>4, <1>5 DEF Continue

LEMMA NoHandover ==
  ASSUME GateInv, [Next]_vars, NEW p \in Procs, NEW q \in Procs,
         InSection(p), InSection(q)'
  PROVE  p = q
<1> SUFFICES ASSUME p # q PROVE FALSE
  OBVIOUS
<1>1. ~InSection(q) /\ inProgress
  BY DEF GateInv, SingleStarter
<1>2. ~Crash
  BY DEF Crash, InSection, StartPCs, StopPCs
<1>3. CASE \E r \in Procs : Begin(r) \/ Continue(r)
  <2>1. PICK r \in Procs : Begin(r) \/ Continue(r)
    BY <1>3
  <2>2. r = q
    BY <1>1, <1>2, <2>1, ActorFrame DEF InSection
  <2>3. ~Admitted(q)
    BY <1>1 DEF Admitted
  <2>4. QED  BY <1>1, <2>1, <2>2, <2>3, OnlyAdmittedEnters
<1>4. CASE CooldownEnds \/ SaveRules \/ UNCHANGED vars
  BY <1>1, <1>4 DEF CooldownEnds, SaveRules, vars, procVars, InSection
<1>5. QED  BY <1>3, <1>4 DEF Next

LEMMA OneHolder == GateInv => Holders = {} \/ \E p \in Procs : Holders = {p}
  BY DEF GateInv, SingleStarter, Holders

LEMMA GateStep == GateInv /\ GateInv' /\ [Next]_vars => [Gated!Next]_Holders
<1> SUFFICES ASSUME GateInv, GateInv', [Next]_vars, Holders' # Holders
             PROVE  Gated!Next
  OBVIOUS
<1>1. Holders' = {} \/ \E q \in Procs : Holders' = {q}
  BY DEF GateInv, SingleStarter, Holders
<1>2. CASE Holders = {}
  <2>1. PICK q \in Procs : Holders' = {q}
    BY <1>1, <1>2
  <2>2. Gated!Enter(q)
    BY <1>2, <2>1 DEF Gated!Enter, Holders
  <2>3. QED  BY <2>2 DEF Gated!Next
<1>3. CASE \E p \in Procs : Holders = {p}
  <2>1. PICK p \in Procs : Holders = {p}
    BY <1>3
  <2>2. Holders' = {}
    BY <1>1, <2>1, NoHandover DEF Holders
  <2>3. Gated!Leave(p)
    BY <2>1, <2>2 DEF Gated!Leave, Holders
  <2>4. QED  BY <2>3 DEF Gated!Next
<1>4. QED  BY <1>2, <1>3, OneHolder

\* StartCore, RestartCore and restartCoreWithConfig together implement the
\* abstract gate, for every set of goroutines.
THEOREM CoreImplementsGate == Spec => ImplementsGate
<1>1. Init => Gated!Init
  BY DEF Init, Gated!Init, InSection, StartPCs, StopPCs
<1>2. QED
  BY <1>1, GateStep, GateCorrect, PTL DEF Spec, ImplementsGate, Gated!Spec, Holders

-----------------------------------------------------------------------------
(* One call at a time.  What Core's fields say of the instances holds       *)
(* between calls because it holds, place by place, all through a call.      *)

Serial == \A p, q \in Procs : p = q

Agree == Live = (IF isRunning THEN {inst} ELSE {})

Place(p) ==
  /\ pc[p] \in {"idle", "gate", "recheck", "stop", "release"} => Agree
  /\ pc[p] \notin {"idle", "gate", "recheck", "stop", "release"} => ~isRunning
  /\ pc[p] = "gate" /\ op[p] # "Reload" => ~isRunning
  /\ pc[p] \in {"load", "close"} => Live \subseteq {inst}
  /\ pc[p] \in {"check", "clear", "clearErr", "getConfig", "newBox", "boot", "abort", "failed"} =>
        Live = {}
  /\ pc[p] = "up" => Live = {inst}
  /\ pc[p] \in {"close", "boot", "abort"} => inst # NoBox
  /\ pc[p] = "boot" => box[inst].st = "fresh"

SoloInv == TypeOK /\ Serial /\ (\A p \in Procs : Place(p)) /\ (Procs = {} => Agree)

\* The instance that Core points at, when there is one, and its end.
LEMMA Ended ==
  ASSUME TypeOK, inst # NoBox, box' = [box EXCEPT ![inst].st = "closed"]
  PROVE  Live' = Live \ {inst}
<1>1. inst \in Boxes /\ box \in [Boxes -> Lives]  BY DEF TypeOK, Lives
<1>2. box'[inst].st = "closed" /\ \A b \in Boxes \ {inst} : box'[b] = box[b]
  BY <1>1 DEF Lives
<1>3. QED  BY <1>1, <1>2 DEF Live

\* No instance starts or ends while box is left alone.
LEMMA SameLive == box' = box => Live' = Live
  BY DEF Live

LEMMA SoloBegin ==
  ASSUME SoloInv, NEW p \in Procs, Begin(p)
  PROVE  Place(p)'
<1>1. TypeOK /\ Place(p) /\ pc[p] = "idle" /\ UNCHANGED coreVars
  BY DEF SoloInv, Begin, StartCore, RestartCore, Reload
<1>2. Agree' /\ UNCHANGED isRunning  BY <1>1, SameLive DEF Place, Agree, coreVars
<1>3. CASE StartCore(p)
  <2>1. ~isRunning /\ pc'[p] = "gate"
    BY <1>1, <1>3, CallFrame DEF StartCore
  <2>2. QED  BY <1>2, <2>1 DEF Place
<1>4. CASE RestartCore(p)
  <2>1. pc'[p] = "stop"  BY <1>1, <1>4, CallFrame DEF RestartCore
  <2>2. QED  BY <1>2, <2>1 DEF Place
<1>5. CASE Reload(p)
  <2>1. PICK v \in reloads : Call(p, "Reload", "gate", v)  BY <1>5 DEF Reload
  <2>2. pc'[p] = "gate" /\ op'[p] = "Reload"  BY <1>1, <2>1, CallFrame
  <2>3. QED  BY <1>2, <2>2 DEF Place
<1>6. QED  BY <1>3, <1>4, <1>5 DEF Begin

LEMMA SoloGate ==
  ASSUME SoloInv, NEW p \in Procs, Gate(p)
  PROVE  Place(p)'
<1>1. TypeOK /\ Place(p) /\ UNCHANGED coreVars
  BY DEF SoloInv, Gate, Check, Refused, Admitted, Recheck, Release
<1>2. (Agree => Agree') /\ UNCHANGED isRunning /\ Live' = Live
  BY <1>1, SameLive DEF Agree, coreVars
<1>3. CASE Check(p)
  <2>1. ~isRunning /\ Live = {} /\ pc[p] = "check"  BY <1>1, <1>3 DEF Check, Place
  <2>2. pc'[p] = "gate"  BY <1>1, <1>3, <2>1, GotoFrame DEF Check
  <2>3. QED  BY <1>2, <2>1, <2>2 DEF Place, Agree
<1>4. CASE Refused(p)
  <2>1. Agree /\ pc'[p] = "idle"  BY <1>1, <1>4, ReturnFrame DEF Refused, Place
  <2>2. QED  BY <1>2, <2>1 DEF Place
<1>5. CASE Admitted(p)
  <2>1. /\ pc[p] = "gate" /\ op'[p] = op[p]
        /\ pc'[p] = IF op[p] = "Reload" THEN "recheck" ELSE "getConfig"
    BY <1>1, <1>5, GotoFrame DEF Admitted
  <2>2. Agree /\ (op[p] # "Reload" => ~isRunning)  BY <1>1, <2>1 DEF Place
  <2>3. QED  BY <1>2, <2>1, <2>2 DEF Place, Agree
<1>6. CASE Recheck(p)
  <2>1. Agree /\ pc'[p] = IF isRunning THEN "stop" ELSE "getConfig"
    BY <1>1, <1>6, GotoFrame DEF Recheck, Place
  <2>2. QED  BY <1>2, <2>1 DEF Place, Agree
<1>7. CASE Release(p)
  <2>1. Agree /\ pc'[p] = "idle"  BY <1>1, <1>7, ReturnFrame DEF Release, Place
  <2>2. QED  BY <1>2, <2>1 DEF Place
<1>8. QED  BY <1>3, <1>4, <1>5, <1>6, <1>7 DEF Gate

LEMMA SoloStop ==
  ASSUME SoloInv, NEW p \in Procs, Stop(p)
  PROVE  Place(p)'
<1>1. TypeOK /\ Place(p)  BY DEF SoloInv
<1>2. CASE MarkStopped(p)
  <2>1. Agree /\ pc'[p] = "load" /\ ~isRunning' /\ UNCHANGED <<inst, box>>
    BY <1>1, <1>2, GotoFrame DEF MarkStopped, Place
  <2>2. QED  BY <2>1, SameLive DEF Place, Agree
<1>3. CASE LoadInstance(p)
  <2>1. /\ ~isRunning /\ Live \subseteq {inst} /\ UNCHANGED <<isRunning, inst, box>>
        /\ pc'[p] = IF inst = NoBox THEN AfterStop(p) ELSE "close"
    BY <1>1, <1>3, GotoFrame DEF LoadInstance, Place, coreVars
  <2>2. inst = NoBox => Live = {}  BY <2>1 DEF Live
  <2>3. QED  BY <2>1, <2>2, SameLive DEF Place, AfterStop
<1>4. CASE CloseInstance(p)
  <2>1. PICK l \in {"clear", "clearErr"} : Goto(p, l)  BY <1>4 DEF CloseInstance
  <2>2. /\ ~isRunning /\ Live \subseteq {inst} /\ inst # NoBox /\ UNCHANGED <<isRunning, inst>>
        /\ box' = [box EXCEPT ![inst].st = "closed"] /\ pc'[p] \in {"clear", "clearErr"}
    BY <1>1, <1>4, <2>1, GotoFrame DEF CloseInstance, Place
  <2>3. Live' = {}  BY <1>1, <2>2, Ended
  <2>4. QED  BY <2>2, <2>3 DEF Place
<1>5. CASE ClearInstance(p) \/ ClearInstanceFailed(p)
  <2>1. /\ ~isRunning /\ Live = {} /\ UNCHANGED <<isRunning, box>>
        /\ pc'[p] \in {"getConfig", "check", "release", "idle"}
    BY <1>1, <1>5, GotoFrame, ReturnFrame DEF ClearInstance, ClearInstanceFailed, Place, AfterStop
  <2>2. QED  BY <2>1, SameLive DEF Place, Agree
<1>6. QED  BY <1>2, <1>3, <1>4, <1>5 DEF Stop

LEMMA SoloStart ==
  ASSUME SoloInv, NEW p \in Procs, Start(p)
  PROVE  Place(p)'
<1>1. TypeOK /\ Place(p)  BY DEF SoloInv
<1>2. CASE GetConfig(p) \/ GetConfigFailed(p)
  <2>1. /\ ~isRunning /\ Live = {} /\ UNCHANGED <<isRunning, box>>
        /\ pc'[p] \in {"newBox", "release"}
    BY <1>1, <1>2, CallFrame, GotoFrame DEF GetConfig, GetConfigFailed, Place, coreVars
  <2>2. QED  BY <2>1, SameLive DEF Place, Agree
<1>3. CASE NewBox(p)
  <2>1. PICK b \in Boxes : /\ box[b].st \in {"none", "closed"} /\ inst' = b
                           /\ box' = [box EXCEPT ![b] = [st |-> "fresh", cfg |-> Decoded(cfg[p])]]
    BY <1>3 DEF NewBox
  <2>2. ~isRunning /\ Live = {} /\ UNCHANGED isRunning /\ pc'[p] = "boot"
    BY <1>1, <1>3, GotoFrame DEF NewBox, Place
  <2>3. box'[b].st = "fresh" /\ \A c \in Boxes \ {b} : box'[c] = box[c]
    BY <1>1, <2>1 DEF TypeOK
  <2>4. Live' = {}  BY <2>2, <2>3 DEF Live
  <2>5. inst' # NoBox  BY <2>1
  <2>6. QED  BY <2>1, <2>2, <2>3, <2>4, <2>5 DEF Place
<1>4. CASE NewBoxFailed(p) \/ StartFailed(p)
  <2>1. /\ ~isRunning /\ Live = {} /\ UNCHANGED <<isRunning, box>>
        /\ pc'[p] \in {"failed", "release"}
    BY <1>1, <1>4, GotoFrame DEF NewBoxFailed, StartFailed, Place, AfterFailedStart, coreVars
  <2>2. QED  BY <2>1, SameLive DEF Place, Agree
<1>5. CASE Boot(p)
  <2>1. /\ ~isRunning /\ Live = {} /\ inst # NoBox /\ box[inst].st = "fresh"
        /\ UNCHANGED <<isRunning, inst>> /\ pc'[p] = "up"
        /\ box' = [box EXCEPT ![inst].st = IF @ = "fresh" THEN "live" ELSE @]
    BY <1>1, <1>5, GotoFrame DEF Boot, Place
  <2>2. inst \in Boxes /\ box \in [Boxes -> Lives]  BY <1>1, <2>1 DEF TypeOK, Lives
  <2>3. box'[inst].st = "live" /\ \A c \in Boxes \ {inst} : box'[c] = box[c]
    BY <2>1, <2>2 DEF Lives
  <2>4. Live' = {inst}  BY <2>1, <2>2, <2>3 DEF Live
  <2>5. QED  BY <2>1, <2>4 DEF Place
<1>6. CASE BootFailed(p)
  <2>1. /\ ~isRunning /\ Live = {} /\ inst # NoBox /\ UNCHANGED <<isRunning, inst, box>>
        /\ pc'[p] = "abort"
    BY <1>1, <1>6, GotoFrame DEF BootFailed, Place, coreVars
  <2>2. QED  BY <2>1, SameLive DEF Place
<1>7. CASE Abort(p)
  <2>1. /\ ~isRunning /\ Live = {} /\ inst # NoBox /\ UNCHANGED isRunning
        /\ box' = [box EXCEPT ![inst].st = "closed"] /\ pc'[p] \in {"failed", "release"}
    BY <1>1, <1>7, GotoFrame DEF Abort, Place, AfterFailedStart
  <2>2. Live' = {}  BY <1>1, <2>1, Ended
  <2>3. QED  BY <2>1, <2>2 DEF Place, Agree
<1>8. CASE Up(p)
  <2>1. Live = {inst} /\ isRunning' /\ UNCHANGED <<inst, box>> /\ pc'[p] = "release"
    BY <1>1, <1>8, GotoFrame DEF Up, Place
  <2>2. QED  BY <2>1, SameLive DEF Place, Agree
<1>9. QED  BY <1>2, <1>3, <1>4, <1>5, <1>6, <1>7, <1>8 DEF Start

LEMMA SoloNext == SoloInv /\ [Next]_vars => SoloInv'
<1> SUFFICES ASSUME SoloInv, [Next]_vars PROVE SoloInv'
  OBVIOUS
<1>1. TypeOK' /\ Serial'  BY TypeNext DEF SoloInv, Serial
<1>2. ASSUME NEW p \in Procs, Begin(p) \/ Continue(p)
      PROVE  (\A q \in Procs : Place(q)') /\ Procs # {}
  <2>1. ~Panic(p)  BY DEF Panic, SoloInv, Place
  <2>2. Place(p)'  BY <1>2, <2>1, SoloBegin, SoloGate, SoloStop, SoloStart DEF Continue
  <2>3. \A q \in Procs : q = p  BY DEF SoloInv, Serial
  <2>4. QED  BY <2>2, <2>3
<1>3. CASE CooldownEnds \/ SaveRules \/ UNCHANGED vars
  <2>1. UNCHANGED <<isRunning, inst, box, pc, op>>
    BY <1>3 DEF CooldownEnds, SaveRules, vars, coreVars, procVars
  <2>2. (Agree => Agree') /\ Live' = Live  BY <2>1, SameLive DEF Agree
  <2>3. \A q \in Procs : Place(q)'
    <3> SUFFICES ASSUME NEW q \in Procs PROVE Place(q)'
      OBVIOUS
    <3>1. Place(q)  BY DEF SoloInv
    <3>2. QED  BY <2>1, <2>2, <3>1 DEF Place
  <2>4. QED  BY <1>1, <2>2, <2>3 DEF SoloInv
<1>4. QED  BY <1>1, <1>2, <1>3 DEF Next, SoloInv

LEMMA SoloFirst == Serial /\ Init => SoloInv
<1> SUFFICES ASSUME Serial, Init PROVE SoloInv
  OBVIOUS
<1>1. Agree
  <2>1. \A b \in Boxes : box[b].st = "none"  BY DEF Init, NoLife
  <2>2. QED  BY <2>1 DEF Init, Agree, Live
<1>2. \A p \in Procs : pc[p] = "idle"  BY DEF Init
<1>3. QED  BY <1>1, <1>2, TypeInit DEF SoloInv, Place

\* For any number of instances, saves and failures: calls that do not overlap leave a
\* running core with exactly its own instance alive, and a stopped one with none.
THEOREM QuietHolds == Serial /\ Spec => []QuietConsistent
<1>1. Serial /\ Init => SoloInv  BY SoloFirst
<1>2. SoloInv /\ [Next]_vars => SoloInv'  BY SoloNext
<1>3. SoloInv => QuietConsistent
  <2> SUFFICES ASSUME SoloInv, Quiet PROVE Agree
    BY DEF QuietConsistent, Agree
  <2>1. QED  BY DEF SoloInv, Place, Quiet
<1>4. QED  BY <1>1, <1>2, <1>3, PTL DEF Spec

-----------------------------------------------------------------------------
(* Hot reloads.  Whatever calls overlap, a running core whose instance was  *)
(* built from an older configuration than the one last saved is accounted   *)
(* for: the reload of that one is still to pass the gate, has passed it and *)
(* is before its Stop, or was refused or overtaken.                         *)

\* The reload of the configuration last saved is still to pass the gate.
Waiting ==
  \/ saved \in reloads
  \/ \E p \in Procs : op[p] = "Reload" /\ cfg[p] = saved /\ pc[p] = "gate"

\* A process that has the flag and will replace the instance by one of the last
\* configuration, or stop the core.
Coming(p) ==
  \/ op[p] = "Reload" /\ cfg[p] = saved /\ pc[p] \in {"recheck", "stop"}
  \/ cfg[p] = saved /\ pc[p] = "newBox"

Newest == box[inst].cfg = Decoded(saved)

Building(p) ==
  /\ pc[p] = "newBox" => cfg[p] = saved \/ skipped \/ Waiting
  /\ pc[p] \in {"boot", "up"} /\ inst # NoBox => Newest \/ skipped \/ Waiting

Accounted ==
  isRunning /\ inst # NoBox => Newest \/ skipped \/ Waiting \/ \E p \in Procs : Coming(p)

HotInv == GateInv /\ Accounted /\ \A p \in Procs : Building(p)

\* A reload that waits goes on waiting while another process moves.
LEMMA WaitingSame ==
  ASSUME TypeOK, NEW p \in Procs, (\E l : Goto(p, l)) \/ (\E o, l, v : Call(p, o, l, v)),
         UNCHANGED <<saved, reloads>>, pc[p] # "gate"
  PROVE  Waiting => Waiting'
<1> SUFFICES ASSUME NEW q \in Procs, op[q] = "Reload", cfg[q] = saved, pc[q] = "gate"
             PROVE  Waiting'
  BY DEF Waiting
<1>1. q # p /\ op'[q] = op[q] /\ cfg'[q] = cfg[q] /\ pc'[q] = pc[q]
  BY DEF Goto, Call, TypeOK
<1>2. QED  BY <1>1 DEF Waiting

\* Steps that leave the core, the saved version and the flag alone, of a process that
\* neither waits nor is about to replace the instance.
LEMMA HotSame ==
  ASSUME HotInv, NEW p \in Procs,
         (\E l : Goto(p, l)) \/ (\E o, l, v : Call(p, o, l, v)),
         UNCHANGED <<inst, box, saved>>, isRunning' => isRunning, skipped => skipped',
         Waiting => Waiting' \/ skipped' \/ Coming(p)',
         Coming(p) => Coming(p)' \/ ~isRunning' \/ skipped',
         pc'[p] \notin {"newBox", "boot"}, pc'[p] = "up" => pc[p] = "boot",
         Waiting => Waiting' \/ skipped' \/ ~\E q \in Procs : InSection(q)
  PROVE  Accounted' /\ \A q \in Procs : Building(q)'
<1>1. TypeOK /\ Newest' = Newest  BY DEF HotInv, GateInv, Newest
<1>2. \A q \in Procs \ {p} : pc'[q] = pc[q] /\ op'[q] = op[q] /\ cfg'[q] = cfg[q]
  BY <1>1 DEF Goto, Call, TypeOK
<1>3. \A q \in Procs \ {p} : Coming(q) => Coming(q)'  BY <1>2 DEF Coming
<1>4. Accounted'  BY <1>1, <1>3 DEF HotInv, Accounted
<1>5. ASSUME NEW q \in Procs PROVE Building(q)'
  <2>1. pc'[q] \in {"newBox", "boot", "up"} => pc[q] \in {"newBox", "boot", "up"}
    BY <1>2
  <2>2. pc[q] \in {"newBox", "boot", "up"} => InSection(q)  BY DEF InSection, StartPCs
  <2>3. Building(q)  BY DEF HotInv
  <2>4. CASE q = p  BY <1>1, <2>1, <2>2, <2>3, <2>4 DEF Building
  <2>5. CASE q # p  BY <1>1, <1>2, <2>1, <2>2, <2>3, <2>5 DEF Building
  <2>6. QED  BY <2>4, <2>5
<1>6. QED  BY <1>4, <1>5

LEMMA HotBegin ==
  ASSUME HotInv, NEW p \in Procs, Begin(p)
  PROVE  Accounted' /\ \A q \in Procs : Building(q)'
<1>1. TypeOK /\ pc[p] = "idle" /\ UNCHANGED <<isRunning, inst, box, saved, skipped>>
  BY DEF HotInv, GateInv, Begin, StartCore, RestartCore, Reload, coreVars, saveVars
<1>2. PICK o \in AllOps, l \in {"gate", "stop"}, v \in Versions : Call(p, o, l, v)
  BY <1>1, BlankTypes DEF Begin, StartCore, RestartCore, Reload, AllOps, TypeOK
<1>3. Waiting => Waiting'
  <2>1. CASE StartCore(p) \/ RestartCore(p)
    BY <1>1, <1>2, <2>1, WaitingSame DEF StartCore, RestartCore, saveVars
  <2>2. CASE Reload(p)
    <3>1. PICK w \in reloads : reloads' = reloads \ {w} /\ Call(p, "Reload", "gate", w)
      BY <2>2 DEF Reload
    <3>2. pc'[p] = "gate" /\ op'[p] = "Reload" /\ cfg'[p] = w
      BY <1>1, <3>1 DEF Call, TypeOK
    <3>3. \A q \in Procs \ {p} : pc'[q] = pc[q] /\ op'[q] = op[q] /\ cfg'[q] = cfg[q]
      BY <1>1, <3>1 DEF Call, TypeOK
    <3>4. QED  BY <1>1, <3>1, <3>2, <3>3 DEF Waiting
  <2>3. QED  BY <2>1, <2>2 DEF Begin
<1>4. pc'[p] \in {"gate", "stop"} /\ ~Coming(p)
  BY <1>1, <1>2, CallFrame DEF Coming
<1>5. QED  BY <1>1, <1>2, <1>3, <1>4, HotSame

LEMMA HotGate ==
  ASSUME HotInv, NEW p \in Procs, Gate(p)
  PROVE  Accounted' /\ \A q \in Procs : Building(q)'
<1>1. TypeOK /\ UNCHANGED <<isRunning, inst, box, saved, reloads>>
  BY DEF HotInv, GateInv, Gate, Check, Refused, Admitted, Recheck, Release, coreVars, saveVars
<1>2. \A q \in Procs \ {p} : (\E l : Goto(p, l)) \/ (\E o, l, v : Call(p, o, l, v)) =>
        pc'[q] = pc[q] /\ op'[q] = op[q] /\ cfg'[q] = cfg[q]
  BY <1>1 DEF Goto, Call, TypeOK
<1>3. CASE Check(p) \/ Release(p)
  <2>1. /\ pc[p] \in {"check", "release"} /\ pc'[p] \in {"idle", "gate"} /\ UNCHANGED skipped
        /\ (\E l : Goto(p, l)) \/ (\E o, l, v : Call(p, o, l, v))
    BY <1>1, <1>3, GotoFrame, ReturnFrame DEF Check, Release, Return, saveVars
  <2>2. Waiting => Waiting'  BY <1>1, <2>1, WaitingSame
  <2>3. ~Coming(p)  BY <2>1 DEF Coming
  <2>4. QED  BY <1>1, <2>1, <2>2, <2>3, HotSame
<1>4. CASE Refused(p)
  <2>1. /\ pc[p] = "gate" /\ pc'[p] = "idle" /\ \E o, l, v : Call(p, o, l, v)
        /\ skipped' = (skipped \/ (op[p] = "Reload" /\ cfg[p] = saved))
    BY <1>1, <1>4, ReturnFrame DEF Refused, Return
  <2>2. Waiting => Waiting' \/ skipped'
    <3> SUFFICES ASSUME NEW q \in Procs, op[q] = "Reload", cfg[q] = saved, pc[q] = "gate"
                 PROVE  Waiting' \/ skipped'
      BY <1>1 DEF Waiting
    <3>1. CASE q = p  BY <2>1, <3>1
    <3>2. CASE q # p  BY <1>1, <1>2, <2>1, <3>2 DEF Waiting
    <3>3. QED  BY <3>1, <3>2
  <2>3. ~Coming(p)  BY <2>1 DEF Coming
  <2>4. QED  BY <1>1, <2>1, <2>2, <2>3, HotSame
<1>5. CASE Admitted(p)
  <2>1. /\ pc[p] = "gate" /\ ~inProgress /\ UNCHANGED skipped
        /\ \E l : Goto(p, l)
        /\ op'[p] = op[p] /\ cfg'[p] = cfg[p]
        /\ pc'[p] = IF op[p] = "Reload" THEN "recheck" ELSE "getConfig"
    BY <1>1, <1>5, GotoFrame DEF Admitted, Goto, saveVars
  <2>2. ~\E q \in Procs : InSection(q)  BY <2>1 DEF HotInv, GateInv, SingleStarter
  <2>3. Waiting => Waiting' \/ Coming(p)'
    <3> SUFFICES ASSUME NEW q \in Procs, op[q] = "Reload", cfg[q] = saved, pc[q] = "gate"
                 PROVE  Waiting' \/ Coming(p)'
      BY <1>1 DEF Waiting
    <3>1. CASE q = p  BY <1>1, <2>1, <3>1 DEF Coming
    <3>2. CASE q # p  BY <1>1, <1>2, <2>1, <3>2 DEF Waiting
    <3>3. QED  BY <3>1, <3>2
  <2>4. ~Coming(p)  BY <2>1 DEF Coming
  <2>5. QED  BY <1>1, <2>1, <2>2, <2>3, <2>4, HotSame
<1>6. CASE Recheck(p)
  <2>1. /\ pc[p] = "recheck" /\ \E l : Goto(p, l)
        /\ op'[p] = op[p] /\ cfg'[p] = cfg[p] /\ UNCHANGED skipped
        /\ pc'[p] = IF isRunning THEN "stop" ELSE "getConfig"
    BY <1>1, <1>6, GotoFrame DEF Recheck, Goto, saveVars
  <2>2. Waiting => Waiting'  BY <1>1, <2>1, WaitingSame
  <2>3. Coming(p) => Coming(p)' \/ ~isRunning'  BY <1>1, <2>1 DEF Coming
  <2>4. QED  BY <1>1, <2>1, <2>2, <2>3, HotSame
<1>7. QED  BY <1>3, <1>4, <1>5, <1>6 DEF Gate

\* A stop, also one outside the lock in the middle of a start, leaves no running
\* instance of an older configuration behind.
LEMMA HotStop ==
  ASSUME HotInv, NEW p \in Procs, Stop(p)
  PROVE  Accounted' /\ \A q \in Procs : Building(q)'
<1>1. TypeOK /\ UNCHANGED <<saved, reloads, skipped>> /\ pc[p] \in StopPCs
  BY DEF HotInv, GateInv, Stop, MarkStopped, LoadInstance, CloseInstance, ClearInstance,
         ClearInstanceFailed, saveVars, StopPCs
<1>2. \/ \E l : Goto(p, l) /\ l \in {"load", "close", "clear", "clearErr", "check",
                                   "getConfig", "release"}
      \/ Return(p)
  BY DEF Stop, MarkStopped, LoadInstance, CloseInstance, ClearInstance,
         ClearInstanceFailed, AfterStop
<1>3. /\ pc'[p] \in {"load", "close", "clear", "clearErr", "check", "getConfig", "release", "idle"}
      /\ (\E l : Goto(p, l)) \/ (\E o, l, v : Call(p, o, l, v))
  BY <1>1, <1>2, GotoFrame, ReturnFrame DEF Return
<1>4. Waiting => Waiting'  BY <1>1, <1>3, WaitingSame DEF StopPCs
<1>5. \A q \in Procs \ {p} : pc'[q] = pc[q] /\ op'[q] = op[q] /\ cfg'[q] = cfg[q]
  BY <1>1, <1>3 DEF Goto, Call, TypeOK
<1>6. \A q \in Procs \ {p} : Coming(q) => Coming(q)'  BY <1>1, <1>5 DEF Coming
<1>7. CASE MarkStopped(p)
  <2>1. ~isRunning' /\ UNCHANGED <<inst, box>>  BY <1>7 DEF MarkStopped
  <2>2. QED  BY <1>1, <1>3, <1>4, <2>1, HotSame
<1>8. CASE LoadInstance(p)
  <2>1. UNCHANGED <<isRunning, inst, box>> /\ ~Coming(p)
    BY <1>8 DEF LoadInstance, coreVars, Coming
  <2>2. QED  BY <1>1, <1>3, <1>4, <2>1, HotSame
<1>9. CASE CloseInstance(p) \/ ClearInstance(p) \/ ClearInstanceFailed(p)
  <2>1. UNCHANGED isRunning /\ ~Coming(p)
    BY <1>9 DEF CloseInstance, ClearInstance, ClearInstanceFailed, Coming
  <2>2. inst' # NoBox => inst # NoBox /\ Newest' = Newest
    <3>1. CASE CloseInstance(p)
      <4>1. /\ inst \in Boxes /\ box \in [Boxes -> Lives] /\ inst' = inst
            /\ box' = [box EXCEPT ![inst].st = "closed"]
        BY <1>1, <3>1 DEF CloseInstance, TypeOK, Lives
      <4>2. box'[inst].cfg = box[inst].cfg  BY <4>1 DEF Lives
      <4>3. QED  BY <1>1, <3>1, <4>1, <4>2 DEF Newest, CloseInstance
    <3>2. CASE ClearInstance(p) \/ ClearInstanceFailed(p)
      BY <3>2 DEF ClearInstance, ClearInstanceFailed
    <3>3. QED  BY <1>9, <3>1, <3>2
  <2>3. Accounted'  BY <1>1, <1>4, <1>6, <2>1, <2>2 DEF HotInv, Accounted
  <2>4. ASSUME NEW q \in Procs PROVE Building(q)'
    <3>1. Building(q)  BY DEF HotInv
    <3>2. CASE q = p  BY <1>3, <3>2 DEF Building
    <3>3. CASE q # p  BY <1>1, <1>4, <1>5, <2>2, <3>1, <3>3 DEF Building
    <3>4. QED  BY <3>2, <3>3
  <2>5. QED  BY <2>3, <2>4
<1>10. QED  BY <1>7, <1>8, <1>9 DEF Stop

\* Of the processes only the one that has the flag builds.
LEMMA HotStart ==
  ASSUME HotInv, NEW p \in Procs, Start(p)
  PROVE  Accounted' /\ \A q \in Procs : Building(q)'
<1>1. TypeOK /\ Building(p) /\ UNCHANGED <<saved, reloads>> /\ pc[p] \in StartPCs
  BY DEF HotInv, GateInv, Start, GetConfig, GetConfigFailed, NewBox, NewBoxFailed,
         Boot, BootFailed, Abort, Up, StartFailed, saveVars, StartPCs
<1>2. (\E l : Goto(p, l)) \/ (\E o, l, v : Call(p, o, l, v))
  BY DEF Start, GetConfig, GetConfigFailed, NewBox, NewBoxFailed, Boot, BootFailed, Abort,
         Up, StartFailed
<1>3. \A q \in Procs \ {p} : pc'[q] = pc[q] /\ op'[q] = op[q] /\ cfg'[q] = cfg[q]
  BY <1>1, <1>2 DEF Goto, Call, TypeOK
<1>4. \A q \in Procs \ {p} : pc[q] \notin StartPCs
  BY <1>1 DEF HotInv, GateInv, SingleStarter, InSection
<1>5. \A q \in Procs \ {p} : Building(q)'  BY <1>3, <1>4 DEF Building, StartPCs
<1>6. Waiting => Waiting'  BY <1>1, <1>2, WaitingSame DEF StartPCs
<1>7. \A q \in Procs \ {p} : Coming(q) => Coming(q)'  BY <1>1, <1>3 DEF Coming
<1>8. CASE GetConfig(p)
  <2>1. PICK v : Call(p, op[p], "newBox", v) /\ skipped' = (v # saved)
    BY <1>8 DEF GetConfig
  <2>2. pc'[p] = "newBox" /\ cfg'[p] = v  BY <1>1, <2>1 DEF Call, TypeOK
  <2>3. skipped' \/ Coming(p)'  BY <1>1, <2>1, <2>2 DEF Coming
  <2>4. QED  BY <1>1, <1>5, <2>1, <2>2, <2>3 DEF Accounted, Building
<1>9. CASE GetConfigFailed(p) \/ StartFailed(p)
  <2>1. /\ UNCHANGED <<isRunning, inst, box, skipped>> /\ ~Coming(p) /\ pc'[p] = "release"
    BY <1>1, <1>9, GotoFrame DEF GetConfigFailed, StartFailed, coreVars, saveVars, Coming
  <2>2. QED  BY <1>1, <1>2, <1>6, <2>1, HotSame
<1>10. CASE NewBox(p)
  <2>1. PICK b \in Boxes : /\ inst' = b
                           /\ box' = [box EXCEPT ![b] = [st |-> "fresh", cfg |-> Decoded(cfg[p])]]
    BY <1>10 DEF NewBox
  <2>2. pc[p] = "newBox" /\ pc'[p] = "boot" /\ UNCHANGED skipped
    BY <1>1, <1>10, GotoFrame DEF NewBox, saveVars
  <2>3. box'[inst'].cfg = Decoded(cfg[p])  BY <1>1, <2>1 DEF TypeOK
  <2>4. Newest' \/ skipped' \/ Waiting'
    BY <1>1, <1>6, <2>2, <2>3 DEF Building, Newest
  <2>5. QED  BY <1>5, <2>2, <2>4 DEF Accounted, Building
<1>11. CASE NewBoxFailed(p) \/ Abort(p)
  <2>1. inst' = NoBox /\ pc'[p] \in {"release", "failed"}
    BY <1>1, <1>11, GotoFrame DEF NewBoxFailed, Abort, AfterFailedStart
  <2>2. QED  BY <1>5, <2>1 DEF Accounted, Building
<1>12. CASE Boot(p)
  <2>1. /\ inst \in Boxes /\ box \in [Boxes -> Lives] /\ inst' = inst /\ UNCHANGED skipped
        /\ box' = [box EXCEPT ![inst].st = IF @ = "fresh" THEN "live" ELSE @]
    BY <1>1, <1>12 DEF Boot, TypeOK, Lives, saveVars
  <2>2. box'[inst].cfg = box[inst].cfg  BY <2>1 DEF Lives
  <2>3. pc[p] = "boot" /\ pc'[p] = "up" /\ inst # NoBox
    BY <1>1, <1>12, GotoFrame DEF Boot
  <2>4. Newest' \/ skipped' \/ Waiting'
    BY <1>1, <1>6, <2>1, <2>2, <2>3 DEF Building, Newest
  <2>5. QED  BY <1>5, <2>3, <2>4 DEF Accounted, Building
<1>13. CASE BootFailed(p)
  <2>1. /\ UNCHANGED <<isRunning, inst, box, skipped>> /\ ~Coming(p) /\ pc'[p] = "abort"
    BY <1>1, <1>13, GotoFrame DEF BootFailed, coreVars, saveVars, Coming
  <2>2. QED  BY <1>1, <1>2, <1>6, <2>1, HotSame
<1>14. CASE Up(p)
  <2>1. /\ pc[p] = "up" /\ pc'[p] = "release" /\ UNCHANGED <<inst, box, skipped>>
    BY <1>1, <1>14, GotoFrame DEF Up, saveVars
  <2>2. inst' # NoBox => Newest' \/ skipped' \/ Waiting'
    BY <1>1, <1>6, <2>1 DEF Building, Newest
  <2>3. QED  BY <1>5, <2>1, <2>2 DEF Accounted, Building
<1>15. QED
  BY <1>8, <1>9, <1>10, <1>11, <1>12, <1>13, <1>14 DEF Start

LEMMA HotPanic ==
  ASSUME HotInv, NEW p \in Procs, Panic(p)
  PROVE  Accounted' /\ \A q \in Procs : Building(q)'
<1>1. TypeOK /\ pc[p] # "gate" /\ inst = NoBox  BY DEF HotInv, GateInv, Panic
<1>2. CASE Recovered(p)
  <2>1. /\ UNCHANGED <<isRunning, inst, box, saved, reloads, skipped>>
        /\ pc'[p] = "idle" /\ \E o, l, v : Call(p, o, l, v)
    BY <1>1, <1>2, ReturnFrame DEF Recovered, Return, coreVars, saveVars
  <2>2. Waiting => Waiting'  BY <1>1, <2>1, WaitingSame
  <2>3. ~Coming(p)  BY DEF Panic, Coming
  <2>4. QED  BY <2>1, <2>2, <2>3, HotSame
<1>3. CASE Crash
  <2>1. ~isRunning' /\ \A q \in Procs : pc'[q] = "idle"  BY <1>3 DEF Crash
  <2>2. QED  BY <2>1 DEF Accounted, Building
<1>4. QED  BY <1>2, <1>3 DEF Panic

LEMMA HotNext == HotInv /\ [Next]_vars => HotInv'
<1> SUFFICES ASSUME HotInv, [Next]_vars PROVE HotInv'
  OBVIOUS
<1>1. GateInv'  BY GateNext DEF HotInv
<1>2. CASE \E p \in Procs : Begin(p) \/ Continue(p)
  <2>1. PICK p \in Procs : Begin(p) \/ Continue(p)  BY <1>2
  <2>2. Accounted' /\ \A q \in Procs : Building(q)'
    BY <2>1, HotBegin, HotGate, HotStop, HotStart, HotPanic DEF Continue
  <2>3. QED  BY <1>1, <2>2 DEF HotInv
<1>3. CASE CooldownEnds \/ UNCHANGED vars
  <2>1. UNCHANGED <<isRunning, inst, box, saved, reloads, skipped, pc, op, cfg>>
    BY <1>3 DEF CooldownEnds, vars, coreVars, saveVars, procVars
  <2>2. QED  BY <1>1, <2>1 DEF HotInv, Accounted, Building, Newest, Waiting, Coming
<1>4. CASE SaveRules
  <2>1. saved' \in reloads' /\ UNCHANGED <<pc>>
    BY <1>4 DEF SaveRules, procVars
  <2>2. QED  BY <1>1, <2>1 DEF HotInv, Accounted, Building, Waiting
<1>5. QED  BY <1>2, <1>3, <1>4 DEF Next

LEMMA HotInit == Init => HotInv
<1>1. Init => GateInv
  BY TypeInit DEF Init, GateInv, SingleStarter, RecheckIsReload, InSection, StartPCs, StopPCs
<1>2. QED  BY <1>1 DEF Init, HotInv, Accounted, Building

\* For any number of goroutines, saves and failures, and whichever versions cannot be
\* decoded: once all calls are over, a running core has what can be decoded of the
\* configuration last saved, unless the reload of that one was refused because a start
\* that had read an older one was in progress, or was overtaken by an older reload
\* (SaveRules of routing.go, restartCoreWithConfig and StartCore of config.go).
THEOREM HotReloadedHolds == Spec => []HotReloaded
<1>1. HotInv => HotReloaded
  BY DEF HotInv, Accounted, HotReloaded, Quiet, Waiting, Coming, Newest
<1>2. QED  BY <1>1, HotInit, HotNext, PTL DEF Spec

=============================================================================
