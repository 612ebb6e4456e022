--------------------------- MODULE CoreLifecycle ---------------------------
(***************************************************************************)
(* Starting, stopping and restarting the embedded sing-box instance:       *)
(* core/main.go (Core, which has no lock of its own) as it is driven by    *)
(* StartCore, RestartCore and restartCoreWithConfig of service/config.go.  *)
(*                                                                         *)
(* A process is a goroutine inside one of those calls.  Every point where  *)
(* the code releases the lock, reads or writes Core's two fields, or calls *)
(* into sing-box is a step, so goroutines interleave there.  A box is one  *)
(* sing-box instance made by NewBox; a configuration is the version number *)
(* under which it was saved.                                               *)
(***************************************************************************)
EXTENDS Naturals, FiniteSets

CONSTANTS
    Procs,      \* goroutines
    Ops,        \* the calls these goroutines make, among AllOps
    Boxes,      \* identities of sing-box instances
    NoBox,      \* Go's nil *Box
    MaxSaves,   \* bound: how often an administrator saves the configuration
    Garbled     \* the versions that sing-box cannot decode

AllOps == {"StartCore", "RestartCore", "Reload"}

ASSUME OpsAssumption == Ops \subseteq AllOps
ASSUME NoBoxAssumption == NoBox \notin Boxes
ASSUME MaxSavesAssumption == MaxSaves \in Nat
ASSUME GarbledAssumption == Garbled \subseteq 0..MaxSaves

VARIABLES
    isRunning,  \* Core.isRunning
    inst,       \* Core.instance
    box,        \* what each instance is: its life and the configuration it was built from
    inProgress, \* startCoreInProgress
    cooling,    \* time.Since(lastStartFailTime) < startCooldown
    saved,      \* version of the committed configuration
    reloads,    \* configurations handed to goroutines of restartCoreWithConfig not yet running
    skipped,    \* ghost: the reload of the configuration last saved was refused, or overtaken
    pc,         \* where each process is
    op,         \* the call each process is in
    cfg         \* the configuration each process is about to start the core with

coreVars == <<isRunning, inst, box>>
gateVars == <<inProgress, cooling>>
saveVars == <<saved, reloads, skipped>>
procVars == <<pc, op, cfg>>
vars == <<coreVars, gateVars, saveVars, procVars>>

Versions == 0..MaxSaves

\* What sing-box's decoder fills the options with: the configuration, or, when it
\* meets an error, which Core.Start only logs, the part before the error or nothing.
Partial == MaxSaves + 1
Decoded(v) == IF v \in Garbled THEN Partial ELSE v

\* Places of a process that is inside Core.Start, called by any operation ...
StartPCs == {"getConfig", "newBox", "boot", "abort", "up", "failed", "release"}
\* ... inside Core.Stop, called by RestartCore or by a reload ...
StopPCs == {"stop", "load", "close", "clear", "clearErr"}
\* ... and around them.
PCs == {"idle", "check", "gate", "recheck"} \cup StartPCs \cup StopPCs

NoLife == [st |-> "none", cfg |-> 0]

TypeOK ==
    /\ isRunning \in BOOLEAN
    /\ inst \in Boxes \cup {NoBox}
    /\ box \in [Boxes -> [st : {"none", "fresh", "live", "closed"},
                       cfg : Versions \cup {Partial}]]
    /\ inProgress \in BOOLEAN
    /\ cooling \in BOOLEAN
    /\ saved \in Versions
    /\ reloads \in SUBSET Versions
    /\ skipped \in BOOLEAN
    /\ pc \in [Procs -> PCs]
    /\ op \in [Procs -> AllOps \cup {"none"}]
    /\ cfg \in [Procs -> Versions]

Init ==
    /\ isRunning = FALSE
    /\ inst = NoBox
    /\ box = [b \in Boxes |-> NoLife]
    /\ inProgress = FALSE
    /\ cooling = FALSE
    /\ saved = 0
    /\ reloads = {}
    /\ skipped = FALSE
    /\ pc = [p \in Procs |-> "idle"]
    /\ op = [p \in Procs |-> "none"]
    /\ cfg = [p \in Procs |-> 0]

-----------------------------------------------------------------------------
(* Moving a process on.                                                    *)

Goto(p, l) == pc' = [pc EXCEPT ![p] = l] /\ UNCHANGED <<op, cfg>>

Call(p, o, l, v) ==
    /\ pc' = [pc EXCEPT ![p] = l]
    /\ op' = [op EXCEPT ![p] = o]
    /\ cfg' = [cfg EXCEPT ![p] = v]

Return(p) == Call(p, "none", "idle", 0)

\* Start's and Stop's error paths return to their caller: only StartCore records
\* the failure time, and RestartCore gives up when its Stop failed.
AfterStop(p) == IF op[p] = "Reload" THEN "getConfig" ELSE "check"
AfterFailedStart(p) == IF op[p] = "Reload" THEN "release" ELSE "failed"

\* A process that owns the flag; in a reload, Stop too runs under it.
InSection(p) ==
    \/ pc[p] \in StartPCs \cup {"recheck"}
    \/ op[p] = "Reload" /\ pc[p] \in StopPCs

-----------------------------------------------------------------------------
(* The calls.                                                              *)

\* The unlocked IsRunning test at the head of StartCore; a running core makes
\* the call a no-op.
StartCore(p) ==
    /\ "StartCore" \in Ops /\ pc[p] = "idle"
    /\ ~isRunning
    /\ Call(p, "StartCore", "gate", 0)
    /\ UNCHANGED <<coreVars, gateVars, saveVars>>

\* RestartCore (also SIGHUP's app.Stop then app.Start) stops first, outside the lock.
RestartCore(p) ==
    /\ "RestartCore" \in Ops /\ pc[p] = "idle"
    /\ Call(p, "RestartCore", "stop", 0)
    /\ UNCHANGED <<coreVars, gateVars, saveVars>>

\* A goroutine spawned by restartCoreAsync or by Save starts restartCoreWithConfig.
Reload(p) ==
    /\ "Reload" \in Ops /\ pc[p] = "idle"
    /\ \E v \in reloads : reloads' = reloads \ {v} /\ Call(p, "Reload", "gate", v)
    /\ UNCHANGED <<coreVars, gateVars, saved, skipped>>

\* RestartCore's call of StartCore begins with the same unlocked test.
Check(p) ==
    /\ pc[p] = "check"
    /\ IF isRunning THEN Return(p) ELSE Goto(p, "gate")
    /\ UNCHANGED <<coreVars, gateVars, saveVars>>

\* Under startCoreMu: another start in progress, or for StartCore the cooldown,
\* turns the call into a successful no-op.  A reload that is refused is not repeated.
Refused(p) ==
    /\ pc[p] = "gate"
    /\ inProgress \/ (op[p] # "Reload" /\ cooling)
    /\ skipped' = (skipped \/ (op[p] = "Reload" /\ cfg[p] = saved))
    /\ Return(p)
    /\ UNCHANGED <<coreVars, gateVars, saved, reloads>>

\* Mutated forms of Admitted: the lock section forgets one of its two tests.
AdmittedUnflagged(p) ==
    /\ pc[p] = "gate"
    /\ op[p] # "Reload" => ~cooling
    /\ inProgress' = TRUE
    /\ Goto(p, IF op[p] = "Reload" THEN "recheck" ELSE "getConfig")
    /\ UNCHANGED <<coreVars, cooling, saveVars>>

AdmittedHot(p) ==
    /\ pc[p] = "gate"
    /\ ~inProgress
    /\ inProgress' = TRUE
    /\ Goto(p, IF op[p] = "Reload" THEN "recheck" ELSE "getConfig")
    /\ UNCHANGED <<coreVars, cooling, saveVars>>

Admitted(p) ==
    /\ pc[p] = "gate"
    /\ ~inProgress
    /\ op[p] # "Reload" => ~cooling
    /\ inProgress' = TRUE
    /\ Goto(p, IF op[p] = "Reload" THEN "recheck" ELSE "getConfig")
    /\ UNCHANGED <<coreVars, cooling, saveVars>>

\* A reload stops the core only if it finds it running.
Recheck(p) ==
    /\ pc[p] = "recheck"
    /\ Goto(p, IF isRunning THEN "stop" ELSE "getConfig")
    /\ UNCHANGED <<coreVars, gateVars, saveVars>>

\* The deferred function of StartCore and restartCoreWithConfig.
Release(p) ==
    /\ pc[p] = "release"
    /\ inProgress' = FALSE
    /\ Return(p)
    /\ UNCHANGED <<coreVars, cooling, saveVars>>

-----------------------------------------------------------------------------
(* Dereferencing a nil Core.instance, which another goroutine cleared       *)
(* meanwhile.  In an HTTP handler gin recovers and only the deferred        *)
(* function runs; in a goroutine or a cron job the panel dies and is        *)
(* restarted, with what the database holds.                                 *)

Recovered(p) ==
    /\ op[p] # "Reload"
    /\ inProgress' = (inProgress /\ ~InSection(p))
    /\ Return(p)
    /\ UNCHANGED <<coreVars, cooling, saveVars>>

Crash ==
    /\ isRunning' = FALSE /\ inst' = NoBox
    /\ box' = [b \in Boxes |-> NoLife]
    /\ inProgress' = FALSE /\ cooling' = FALSE
    /\ reloads' = {} /\ skipped' = FALSE
    /\ pc' = [p \in Procs |-> "idle"]
    /\ op' = [p \in Procs |-> "none"]
    /\ cfg' = [p \in Procs |-> 0]
    /\ UNCHANGED saved

Panic(p) ==
    /\ pc[p] \in {"boot", "abort", "close"}
    /\ inst = NoBox
    /\ Recovered(p) \/ Crash

-----------------------------------------------------------------------------
(* Core.Stop.                                                              *)

\* Mutated form: isRunning is not reset.
MarkStoppedNot(p) ==
    /\ pc[p] = "stop"
    /\ Goto(p, "load")
    /\ UNCHANGED <<coreVars, gateVars, saveVars>>

MarkStopped(p) ==
    /\ pc[p] = "stop"
    /\ isRunning' = FALSE
    /\ Goto(p, "load")
    /\ UNCHANGED <<inst, box, gateVars, saveVars>>

\* "if c.instance == nil return nil", and nothing to close.
LoadInstance(p) ==
    /\ pc[p] = "load"
    /\ Goto(p, IF inst = NoBox THEN AfterStop(p) ELSE "close")
    /\ UNCHANGED <<coreVars, gateVars, saveVars>>

\* Box.Close stops the instance for good, whether or not it reports an error.
CloseInstance(p) ==
    /\ pc[p] = "close"
    /\ inst # NoBox
    /\ box' = [box EXCEPT ![inst].st = "closed"]
    /\ \E l \in {"clear", "clearErr"} : Goto(p, l)
    /\ UNCHANGED <<isRunning, inst, gateVars, saveVars>>

ClearInstance(p) ==
    /\ pc[p] = "clear"
    /\ inst' = NoBox
    /\ Goto(p, AfterStop(p))
    /\ UNCHANGED <<isRunning, box, gateVars, saveVars>>

\* Stop failed: a reload returns through its deferred function, RestartCore at once.
ClearInstanceFailed(p) ==
    /\ pc[p] = "clearErr"
    /\ inst' = NoBox
    /\ IF op[p] = "Reload" THEN Goto(p, "release") ELSE Return(p)
    /\ UNCHANGED <<isRunning, box, gateVars, saveVars>>

-----------------------------------------------------------------------------
(* GetConfig and Core.Start.                                               *)

\* Mutated form: the next version, not yet saved, is read.
GetConfigAhead(p) ==
    /\ pc[p] = "getConfig"
    /\ Call(p, op[p], "newBox", saved + 1) /\ skipped' = TRUE
    /\ UNCHANGED <<coreVars, gateVars, saved, reloads>>

\* StartCore reads the committed configuration, a reload uses the one it was given,
\* be it older than what has been saved, or even loaded, meanwhile.
GetConfig(p) ==
    /\ pc[p] = "getConfig"
    /\ LET v == IF op[p] = "Reload" THEN cfg[p] ELSE saved IN
          Call(p, op[p], "newBox", v) /\ skipped' = (v # saved)
    /\ UNCHANGED <<coreVars, gateVars, saved, reloads>>

\* Mutated form: the error returns without giving the flag back.
GetConfigFailedStuck(p) ==
    /\ pc[p] = "getConfig"
    /\ Return(p)
    /\ UNCHANGED <<coreVars, gateVars, saveVars>>

\* Unreadable configuration: the error returns before lastStartFailTime is set.
GetConfigFailed(p) ==
    /\ pc[p] = "getConfig"
    /\ Goto(p, "release")
    /\ UNCHANGED <<coreVars, gateVars, saveVars>>

\* The options are decoded, whole or in part, and c.instance, err = NewBox(...):
\* whatever instance was there is overwritten.
NewBox(p) ==
    /\ pc[p] = "newBox"
    /\ \E b \in Boxes \ {inst} :
          /\ box[b].st \in {"none", "closed"}
          /\ box' = [box EXCEPT ![b] = [st |-> "fresh", cfg |-> Decoded(cfg[p])]]
          /\ inst' = b
    /\ Goto(p, "boot")
    /\ UNCHANGED <<isRunning, gateVars, saveVars>>

\* Mutated form: the instance there was is kept when the new one cannot be made.
NewBoxFailedKept(p) ==
    /\ pc[p] = "newBox"
    /\ Goto(p, AfterFailedStart(p))
    /\ UNCHANGED <<coreVars, gateVars, saveVars>>

NewBoxFailed(p) ==
    /\ pc[p] = "newBox"
    /\ inst' = NoBox
    /\ Goto(p, AfterFailedStart(p))
    /\ UNCHANGED <<isRunning, box, gateVars, saveVars>>

\* Box.Start succeeds; on an instance closed meanwhile it finds nothing to start.
Boot(p) ==
    /\ pc[p] = "boot"
    /\ inst # NoBox
    /\ box' = [box EXCEPT ![inst].st = IF @ = "fresh" THEN "live" ELSE @]
    /\ Goto(p, "up")
    /\ UNCHANGED <<isRunning, inst, gateVars, saveVars>>

BootFailed(p) ==
    /\ pc[p] = "boot"
    /\ inst # NoBox
    /\ Goto(p, "abort")
    /\ UNCHANGED <<coreVars, gateVars, saveVars>>

\* The half-started instance is closed and forgotten; isRunning is left as it is.
Abort(p) ==
    /\ pc[p] = "abort"
    /\ inst # NoBox
    /\ box' = [box EXCEPT ![inst].st = "closed"]
    /\ inst' = NoBox
    /\ Goto(p, AfterFailedStart(p))
    /\ UNCHANGED <<isRunning, gateVars, saveVars>>

Up(p) ==
    /\ pc[p] = "up"
    /\ isRunning' = TRUE
    /\ Goto(p, "release")
    /\ UNCHANGED <<inst, box, gateVars, saveVars>>

\* StartCore records lastStartFailTime.
StartFailed(p) ==
    /\ pc[p] = "failed"
    /\ cooling' = TRUE
    /\ Goto(p, "release")
    /\ UNCHANGED <<coreVars, inProgress, saveVars>>

-----------------------------------------------------------------------------
(* The clock and the administrator.                                        *)

CooldownEnds ==
    /\ cooling
    /\ cooling' = FALSE
    /\ UNCHANGED <<coreVars, inProgress, saveVars, procVars>>

\* RoutingService.SaveRules: commit, then hand the new configuration to a goroutine.
SaveRules ==
    /\ "Reload" \in Ops
    /\ saved < MaxSaves
    /\ saved' = saved + 1
    /\ reloads' = reloads \cup {saved + 1}
    /\ UNCHANGED <<coreVars, gateVars, skipped, procVars>>

Begin(p) == StartCore(p) \/ RestartCore(p) \/ Reload(p)

Gate(p) == Check(p) \/ Refused(p) \/ Admitted(p) \/ Recheck(p) \/ Release(p)

Stop(p) ==
    \/ MarkStopped(p) \/ LoadInstance(p) \/ CloseInstance(p)
    \/ ClearInstance(p) \/ ClearInstanceFailed(p)

Start(p) ==
    \/ GetConfig(p) \/ GetConfigFailed(p) \/ NewBox(p) \/ NewBoxFailed(p)
    \/ Boot(p) \/ BootFailed(p) \/ Abort(p) \/ Up(p) \/ StartFailed(p)

\* What a process that is inside a call does next.
Continue(p) == Gate(p) \/ Stop(p) \/ Start(p) \/ Panic(p)

Next ==
    \/ \E p \in Procs : Begin(p) \/ Continue(p)
    \/ CooldownEnds
    \/ SaveRules

Spec == Init /\ [][Next]_vars

\* Goroutines are scheduled: a call that can go on does.
Fairness == \A p \in Procs : WF_vars(Continue(p))
FairSpec == Spec /\ Fairness

\* Moreover the cron job keeps calling StartCore, goroutines that were spawned
\* run, the cooldown passes, and a start that is tried over and over is not
\* refused by the configuration, the operating system or sing-box every time.
CronFairness ==
    /\ WF_vars(CooldownEnds)
    /\ \A p \in Procs :
          /\ SF_vars(StartCore(p)) /\ SF_vars(Reload(p))
          /\ SF_vars(GetConfig(p)) /\ SF_vars(NewBox(p)) /\ SF_vars(Boot(p))
CronSpec == FairSpec /\ CronFairness

-----------------------------------------------------------------------------
(* Properties of any number of concurrent calls.                           *)

\* At most one goroutine is between taking and giving back startCoreInProgress,
\* and the flag is up exactly while one is: no call can leave it up behind it,
\* which would keep the core from ever being started again.
SingleStarter ==
    /\ \A p, q \in Procs : InSection(p) /\ InSection(q) => p = q
    /\ inProgress <=> \E p \in Procs : InSection(p)

\* A StartCore that got past the gate never builds or boots an instance while a
\* failed StartCore's cooldown runs, however many callers come and go.
CooldownHonoured ==
    \A p \in Procs : op[p] # "Reload" /\ cooling =>
        pc[p] \notin {"getConfig", "newBox", "boot", "abort", "up", "failed"}

Quiet == reloads = {} /\ \A p \in Procs : pc[p] = "idle"

\* "SaveRules replaces the route.rules array ... and hot-reloads sing-box": whatever
\* calls overlap, once they are over a running core runs what sing-box decodes of the
\* configuration last saved (all of it, unless it cannot be decoded), but for two causes:
\* its reload found a start in progress that had read an older one, or the goroutine of
\* an older reload got in after it.
HotReloaded ==
    Quiet /\ isRunning /\ inst # NoBox /\ ~skipped => box[inst].cfg = Decoded(saved)

\* Whoever took the flag gives it back, on every path out of the two functions.
FlagComesDown == inProgress ~> ~inProgress

\* CoreLifecycle implements the abstract gate.
Gated == INSTANCE StartGate WITH holders <- {p \in Procs : InSection(p)}
ImplementsGate == Gated!Spec

-----------------------------------------------------------------------------
(* Properties of calls made one after the other.                           *)

Live == {b \in Boxes : box[b].st = "live"}

\* Between calls Core's two fields and the instances agree: a running core has
\* exactly its own instance alive, a stopped one has none.
QuietConsistent ==
    Quiet => Live = (IF isRunning THEN {inst} ELSE {})

\* "Start core if it is not running" (the cron job): a stopped core comes back,
\* whatever failed on the way.
CoreComesBack == Live = {} ~> Live # {}

=============================================================================
