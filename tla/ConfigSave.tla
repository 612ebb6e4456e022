----------------------------- MODULE ConfigSave -----------------------------
(***************************************************************************)
(* Saving an object of the configuration (ConfigService.Save): one         *)
(* transaction on the database, interleaved with calls on the running      *)
(* core and with goroutines that reload or restart the core.               *)
(*                                                                         *)
(* Inbounds are written first and then changed in the core; outbounds,     *)
(* endpoints and services (Plain) the other way round; so are deletions.   *)
(* A saved certificate (Tls) restarts the inbounds and services that use   *)
(* it, saved clients (Clients) their inbounds; so does the job that        *)
(* disables clients.  Another job rotates the certificate's short IDs and  *)
(* restarts the core.  The base configuration (Base) is cached, and        *)
(* reloaded in a goroutine.  The value of an object is the number of the   *)
(* save that wrote it, 0 if it has none.                                   *)
(***************************************************************************)
EXTENDS Naturals, FiniteSets

CONSTANTS
    Inbounds,   \* inbounds
    Plain,      \* outbounds, endpoints and services
    Tls,        \* a certificate ...
    TlsUsers,   \* ... and the inbounds and services that refer to it
    Clients,    \* the table of clients ...
    ClientInbounds,   \* ... and the inbounds they are users of
    Base,       \* the setting "config"
    Saved,      \* the objects that administrators save
    Requests,   \* handlers of /api/save, and runs of DepleteJob, at the same time
    NoRequest,
    MaxSaves, MaxMishaps, MaxRestarts   \* bounds

Items == Inbounds \cup Plain            \* what a running core can be given one by one
Shared == {Tls, Clients}                \* what items are built with
Objects == Items \cup Shared \cup {Base}
Versions == 0..MaxSaves

ASSUME ObjectsAssumption ==
    /\ TlsUsers \subseteq Items /\ ClientInbounds \subseteq Inbounds /\ Saved \subseteq Objects
    /\ Inbounds \cap Plain = {} /\ Items \cap {Tls, Clients, Base} = {}
    /\ Tls # Base /\ Tls # Clients /\ Clients # Base
ASSUME RequestsAssumption == NoRequest \notin Requests
ASSUME BoundsAssumption == MaxSaves \in Nat \ {0} /\ MaxMishaps \in Nat /\ MaxRestarts \in Nat

VARIABLES
    rows,       \* the committed tables
    cache,      \* the settings cache's entry for Base
    writer,     \* the request that holds SQLite's write lock
    req,        \* what each handler is doing
    up, core,   \* whether the core runs (isRunning), and with what
    dead,       \* isRunning is set and there is no instance
    boot,       \* the start of the core in progress, and what it has read so far
    resyncs,    \* goroutines that shall restart the core, not yet running
    reloads,    \* goroutines that shall reload it with a given Base, not yet running
    saves, mishaps, restarts,   \* counted for the bounds
    suspect     \* what the core may have wrong, and why is known (see Suspicions)

dbVars == <<rows, cache, writer>>
coreVars == <<up, dead, core, boot>>
spawned == <<resyncs, reloads>>
counts == <<saves, mishaps, restarts>>
vars == <<dbVars, req, coreVars, spawned, counts, suspect>>

Out == [own |-> 0, tls |-> 0, users |-> 0]

\* GetAllConfig, or the handler's own JSON: an item as the core is given it.
Built(r, i) ==
    IF r[i] = 0 THEN Out
    ELSE [own |-> r[i], tls |-> IF i \in TlsUsers THEN r[Tls] ELSE 0,
          users |-> IF i \in ClientInbounds THEN r[Clients] ELSE 0]

Content == [own : Versions, tls : Versions, users : Versions]
Off == [base |-> 0, items |-> [i \in Items |-> Out]]
NoBoot == [on |-> FALSE, base |-> 0, items |-> [i \in Items |-> Out], unread |-> {}, met |-> {}]
Idle == [pc |-> "idle", obj |-> Base, act |-> "edit", new |-> 0, todo |-> {}, cur |-> {},
         read |-> FALSE, stale |-> FALSE, touched |-> FALSE]

TypeOK ==
    /\ rows \in [Objects -> Versions] /\ cache \in Versions
    /\ writer \in Requests \cup {NoRequest}
    /\ req \in [Requests ->
          [pc : {"idle", "write", "remove", "disconnect", "add", "record"},
           obj : Objects, act : {"new", "edit", "del", "job"}, new : Versions,
           todo : SUBSET Items, cur : SUBSET Items,
           read : BOOLEAN, stale : BOOLEAN, touched : BOOLEAN]]
    /\ up \in BOOLEAN /\ dead \in BOOLEAN /\ core \in [base : Versions, items : [Items -> Content]]
    /\ boot \in [on : BOOLEAN, base : Versions, items : [Items -> Content],
                 unread : SUBSET Items, met : SUBSET (Items \cup {Base})]
    /\ resyncs \in Nat /\ reloads \in SUBSET Versions
    /\ saves \in 0..MaxSaves /\ mishaps \in 0..MaxMishaps /\ restarts \in 0..MaxRestarts
    /\ suspect \in SUBSET (Items \cup {Base})

\* The panel has just started on some database, and the core is still to be started.
Init ==
    /\ rows \in [Objects -> {0, 1}] /\ rows[Tls] = 1 /\ rows[Clients] = 1 /\ rows[Base] = 1
    /\ cache = rows[Base]
    /\ writer = NoRequest
    /\ req = [r \in Requests |-> Idle]
    /\ up = FALSE /\ dead = FALSE /\ core = Off /\ boot = NoBoot
    /\ resyncs = 0 /\ reloads = {}
    /\ saves = 1 /\ mishaps = 0 /\ restarts = 0
    /\ suspect = {}

-----------------------------------------------------------------------------
(* Suspicions.  The core may have something wrong                          *)
(*  - after a transaction that changed it was rolled back, or DepleteJob    *)
(*    did not finish the restart of the inbounds it had changed,            *)
(*  - after two saves of the same thing overlapped each other,              *)
(*  - after a save or the rotation of short IDs overlapped a start of the   *)
(*    core (boot.met),                                                      *)
(*  - after a goroutine brought a base that is not the newest,              *)
(*  - after a start with a configuration that could not be decoded,         *)
(*  - and after a stop in the middle of a start.                            *)
(* The next start ends the suspicion.  Agrees says that nothing else makes  *)
(* core and database differ.                                               *)

Concerns(o) == CASE o = Tls -> TlsUsers [] o = Clients -> ClientInbounds [] OTHER -> {o}

Everything == Items \cup {Base}

Open(r) == req[r].pc # "idle"

ConcernedBy(rs) == UNION {Concerns(req[r].obj) : r \in rs}

InFlight == ConcernedBy({r \in Requests : Open(r)})

-----------------------------------------------------------------------------
(* A request.                                                              *)

\* "job" is DepleteJob, which disables clients that are used up.
Acts(o) == CASE o = Clients -> {"edit", "job"}
             [] o \in {Tls, Base} -> {"edit"}
             [] OTHER -> IF rows[o] = 0 THEN {"new"} ELSE {"edit", "del"}

\* Core calls come first in deletions, and for everything but inbounds.
CoreFirst(o, act) == o \in Plain \/ (o \in Inbounds /\ act = "del")

CoreStep(act) == IF act = "new" THEN "add" ELSE "remove"

\* DepleteJob has committed and now restarts the inbounds, outside of its transaction.
Rebuilds(q) == q.act = "job" /\ q.pc \in {"remove", "disconnect", "add"}

\* What the transaction of a request sees once it has written.  (What DepleteJob, and
\* the save of a service, have read before may be older; then two saves of one thing
\* overlapped, or the restart of a rotation is still to come.)
View(r) == IF Rebuilds(req[r]) THEN rows ELSE [rows EXCEPT ![req[r].obj] = req[r].new]

\* The items to restart, as the transaction reads them: RestartInbounds, RestartServices.
CoreWork(o) == IF o \in Shared THEN {i \in Concerns(o) : rows[i] # 0} ELSE {o} \cap Items

\* Of a certificate's users, inbounds come before services.
Turn(todo) == IF todo \cap Inbounds # {} THEN todo \cap Inbounds ELSE todo

Set(r, q) == req' = [req EXCEPT ![r] = q]

Mishap == mishaps < MaxMishaps /\ mishaps' = mishaps + 1 /\ UNCHANGED <<saves, restarts>>

\* An edited inbound's tag and the certificate of a service are read first; the other
\* kinds read later, if at all.
Begin(r) ==
    /\ ~Open(r) /\ saves < MaxSaves
    /\ \E o \in Saved : \E act \in Acts(o) :
          /\ Set(r, [Idle EXCEPT
                !.pc = IF CoreFirst(o, act) THEN CoreStep(act) ELSE "write",
                !.obj = o, !.act = act, !.new = IF act = "del" THEN 0 ELSE saves + 1,
                !.todo = IF CoreFirst(o, act) THEN {o} ELSE {},
                !.read = (o \in Inbounds /\ act = "edit")
                            \/ (o \in Plain \cap TlsUsers /\ act # "del")])
          /\ boot' = [boot EXCEPT !.met = IF boot.on THEN @ \cup Concerns(o) ELSE @]
          /\ suspect' = suspect \cup (Concerns(o) \cap InFlight)
    /\ saves' = saves + 1
    /\ UNCHANGED <<dbVars, up, dead, core, spawned, mishaps, restarts>>

\* The deferred function on an error; SQLite gives the lock back.
RolledBack(r, touched) ==
    /\ Set(r, Idle)
    /\ writer' = IF writer = r THEN NoRequest ELSE writer
    /\ suspect' = suspect \cup (IF touched THEN Concerns(req[r].obj) ELSE {})
    /\ UNCHANGED rows

-----------------------------------------------------------------------------
(* The request's calls on the core.                                        *)

AfterCore(q) ==
    IF q.act = "job" THEN Idle
    ELSE [q EXCEPT !.pc = IF CoreFirst(q.obj, q.act) THEN "write" ELSE "record",
                   !.todo = {}, !.cur = {}]

\* Once before the first item, and again before the services of a certificate.
ChecksRunning(r) ==
    req[r].cur = {} /\ (~req[r].touched \/ req[r].todo = CoreWork(req[r].obj) \ Inbounds)

\* corePtr.IsRunning() is false, or there is nothing to restart.
CoreSkipped(r) ==
    /\ req[r].pc \in {"remove", "add"}
    /\ req[r].todo = {} \/ (~up /\ ChecksRunning(r))
    /\ LET left == req[r].todo \ Turn(req[r].todo)
       IN  Set(r, IF left = {} THEN AfterCore(req[r]) ELSE [req[r] EXCEPT !.todo = left])
    /\ UNCHANGED <<dbVars, coreVars, spawned, counts, suspect>>

Working(r, pc) == req[r].pc = pc /\ req[r].todo # {}

\* Before a removal an edit of Plain reads the old tag, which begins its snapshot.
\* RestartInbounds closes the inbound's connections next, RestartServices does not.
Remove(r) ==
    /\ Working(r, "remove") /\ up
    /\ \E i \in Turn(req[r].todo) :
          /\ core' = [core EXCEPT !.items[i] = Out]
          /\ LET q == [req[r] EXCEPT !.touched = TRUE, !.cur = {i},
                          !.read = @ \/ req[r].act = "edit",
                          !.pc = IF req[r].obj \in Shared /\ i \in Inbounds
                                  THEN "disconnect" ELSE "add"]
             IN  Set(r, IF req[r].act = "del" THEN AfterCore(q) ELSE q)
    /\ UNCHANGED <<dbVars, up, dead, boot, spawned, counts, suspect>>

\* The core was stopped since IsRunning, and its instance may be nil already.
StopSeen(r) == ~up /\ req[r].touched

\* Mutated form: the error is logged and no restart is scheduled.
CoreFailedLogged(r, touched) ==
    IF req[r].obj \in Inbounds /\ req[r].act # "del"
    THEN /\ Set(r, AfterCore(req[r]))
         /\ UNCHANGED <<dbVars, suspect, resyncs>>
    ELSE RolledBack(r, touched) /\ UNCHANGED <<cache, resyncs>>

\* An error of an inbound's core call spawns RestartCore and lets the save go on;
\* any other error fails the request.
CoreFailed(r, touched) ==
    IF req[r].obj \in Inbounds /\ req[r].act # "del"
    THEN /\ resyncs' = resyncs + 1
         /\ Set(r, AfterCore(req[r]))
         /\ UNCHANGED <<dbVars, suspect>>
    ELSE RolledBack(r, touched) /\ UNCHANGED <<cache, resyncs>>

\* Closing the item fails; its manager has forgotten it all the same.
RemoveFailed(r) ==
    /\ Working(r, "remove") /\ up /\ Mishap
    /\ \E i \in Turn(req[r].todo) : core' = [core EXCEPT !.items[i] = Out]
    /\ CoreFailed(r, TRUE)
    /\ UNCHANGED <<up, dead, boot, reloads>>

\* The core does not run any more, has lost its instance, or has no use for the item;
\* or a query of RestartInbounds or RestartServices fails.
CallFailed(r) ==
    /\ Working(r, "remove") \/ Working(r, "add")
    /\ \/ StopSeen(r) /\ UNCHANGED counts
       \/ dead /\ req[r].pc = "add" /\ UNCHANGED counts
       \/ up /\ (req[r].pc = "add" \/ req[r].obj \in Shared) /\ Mishap
    /\ CoreFailed(r, req[r].touched \/ Rebuilds(req[r]))
    /\ UNCHANGED <<coreVars, reloads>>

\* GetInstance().ConnTracker() of RestartInbounds; the instance is there.
Disconnect(r) ==
    /\ req[r].pc = "disconnect" /\ ~dead
    /\ Set(r, [req[r] EXCEPT !.pc = "add"])
    /\ UNCHANGED <<dbVars, coreVars, spawned, counts, suspect>>

\* Mutated form: the inbound is rebuilt from what is committed.
AddCommitted(r) ==
    /\ Working(r, "add") /\ up
    /\ \E i \in IF req[r].cur = {} THEN Turn(req[r].todo) ELSE req[r].cur :
          /\ core' = [core EXCEPT !.items[i] = Built(rows, i)]
          /\ LET left == req[r].todo \ {i}
                 q == [req[r] EXCEPT !.touched = TRUE, !.todo = left, !.cur = {}, !.pc = "remove"]
             IN  Set(r, IF left = {} THEN AfterCore(q) ELSE q)
    /\ UNCHANGED <<dbVars, up, dead, boot, spawned, counts, suspect>>

\* The item is built from the request's transaction; Create replaces one with that tag.
Add(r) ==
    /\ Working(r, "add") /\ up
    /\ \E i \in IF req[r].cur = {} THEN Turn(req[r].todo) ELSE req[r].cur :
          /\ core' = [core EXCEPT !.items[i] = Built(View(r), i)]
          /\ LET left == req[r].todo \ {i}
                 q == [req[r] EXCEPT !.touched = TRUE, !.todo = left, !.cur = {}, !.pc = "remove"]
             IN  Set(r, IF left = {} THEN AfterCore(q) ELSE q)
    /\ UNCHANGED <<dbVars, up, dead, boot, spawned, counts, suspect>>

-----------------------------------------------------------------------------
(* The request's statements.                                               *)

\* Another transaction committed after this one's snapshot, or the tag is taken.
Unwritable(r) == req[r].stale \/ (req[r].act = "new" /\ rows[req[r].obj] # 0)

\* Mutated form: the settings cache is given something else than the table.
WriteAhead(r) ==
    /\ req[r].pc = "write" /\ writer = NoRequest /\ ~Unwritable(r)
    /\ writer' = r
    /\ LET o == req[r].obj
           last == CoreFirst(o, req[r].act) \/ o = Base \/ req[r].act = "job"
       IN  /\ Set(r, [req[r] EXCEPT
                 !.pc = IF last THEN "record" ELSE CoreStep(req[r].act),
                 !.todo = IF last THEN {} ELSE CoreWork(o),
                 !.read = TRUE])
           /\ IF o = Base
              THEN cache' = req[r].new + 1 /\ reloads' = reloads \cup {req[r].new}
              ELSE UNCHANGED <<cache, reloads>>
    /\ UNCHANGED <<rows, coreVars, resyncs, counts, suspect>>

\* The row is written under SQLite's lock.  SaveConfig also caches the value and
\* Save spawns the reload, both before the transaction commits.
Write(r) ==
    /\ req[r].pc = "write" /\ writer = NoRequest /\ ~Unwritable(r)
    /\ writer' = r
    /\ LET o == req[r].obj
           last == CoreFirst(o, req[r].act) \/ o = Base \/ req[r].act = "job"
       IN  /\ Set(r, [req[r] EXCEPT
                 !.pc = IF last THEN "record" ELSE CoreStep(req[r].act),
                 !.todo = IF last THEN {} ELSE CoreWork(o),
                 !.read = TRUE])
           /\ IF o = Base
              THEN cache' = req[r].new /\ reloads' = reloads \cup {req[r].new}
              ELSE UNCHANGED <<cache, reloads>>
    /\ UNCHANGED <<rows, coreVars, resyncs, counts, suspect>>

\* SQLITE_BUSY for an outdated snapshot or after the timeout, a constraint, the disk.
WriteFailed(r) ==
    /\ req[r].pc = "write"
    /\ \/ Unwritable(r) /\ (req[r].stale \/ writer = NoRequest) /\ UNCHANGED counts
       \/ Mishap
    /\ RolledBack(r, req[r].touched)
    /\ UNCHANGED <<cache, coreVars, spawned>>

\* What was read before a commit is an old snapshot, and cannot be written upon.
Overtaken(q) == [q EXCEPT !.stale = @ \/ q.read]

\* tx.Commit: from now on the row is everyone's.
Committed(r, q) ==
    /\ rows' = View(r)
    /\ writer' = NoRequest
    /\ req' = [s \in Requests |-> IF s = r THEN q ELSE Overtaken(req[s])]

\* The record of the change, then the deferred function: it commits, triggers the
\* port sync (see PortSync) and starts a core that is not running (StartCore).
\* DepleteJob goes on with RestartInbounds.
Commit(r) ==
    /\ req[r].pc = "record"
    /\ Committed(r, IF req[r].act # "job" THEN Idle
                    ELSE [req[r] EXCEPT !.pc = "remove", !.todo = CoreWork(Clients), !.read = FALSE])
    /\ UNCHANGED <<cache, coreVars, spawned, counts, suspect>>

\* The record cannot be written; or the commit fails, which is ignored, so that the
\* request reports success.
CommitFailed(r) ==
    /\ req[r].pc = "record" /\ Mishap
    /\ RolledBack(r, req[r].touched)
    /\ UNCHANGED <<cache, coreVars, spawned>>

\* The instance is nil: Save unwinds with err still nil, so the deferred function
\* commits what there is; the HTTP server recovers.
Panic(r) ==
    /\ req[r].pc = "disconnect" /\ (~up \/ dead) /\ req[r].act # "job"
    /\ Committed(r, Idle)
    /\ UNCHANGED <<cache, coreVars, spawned, counts, suspect>>

\* The process dies and starts again with an empty cache.
Restarted ==
    /\ writer' = NoRequest /\ req' = [r \in Requests |-> Idle]
    /\ cache' = rows[Base]
    /\ up' = FALSE /\ dead' = FALSE /\ core' = Off /\ boot' = NoBoot
    /\ resyncs' = 0 /\ reloads' = {}
    /\ suspect' = {}
    /\ UNCHANGED rows

\* Nothing recovers a panic in a goroutine of the cron library.
JobPanic(r) ==
    /\ req[r].pc = "disconnect" /\ (~up \/ dead) /\ req[r].act = "job"
    /\ Restarted
    /\ UNCHANGED counts

-----------------------------------------------------------------------------
(* The core, as CoreLifecycle has it: one start at a time.                 *)

Booting(base, met) ==
    /\ up' = FALSE /\ dead' = FALSE /\ core' = Off
    /\ boot' = [NoBoot EXCEPT !.on = TRUE, !.base = base, !.unread = Items, !.met = met]

\* Called by the cron job, at the end of every save and by RestartCore.
StartCore ==
    /\ ~up /\ ~boot.on
    /\ Booting(cache, InFlight)
    /\ UNCHANGED <<dbVars, req, spawned, counts, suspect>>

\* GetConfig queries the tables in parallel, each on its own.
ReadItem(i) ==
    /\ boot.on /\ i \in boot.unread
    /\ boot' = [boot EXCEPT !.items[i] = Built(rows, i), !.unread = @ \ {i}]
    /\ UNCHANGED <<dbVars, req, up, dead, core, spawned, counts, suspect>>

Started ==
    /\ boot.on /\ boot.unread = {}
    /\ up' = TRUE
    /\ core' = [base |-> boot.base, items |-> boot.items]
    /\ boot' = NoBoot
    /\ suspect' = boot.met
    /\ UNCHANGED <<dbVars, req, dead, spawned, counts>>

\* An error of UnmarshalJSONContext is only logged: the core starts with what was
\* decoded before it, or with nothing.
StartedGarbled ==
    /\ boot.on /\ boot.unread = {} /\ Mishap
    /\ up' = TRUE
    /\ \E got \in SUBSET Items, base \in {0, boot.base} :
          core' = [base |-> base, items |-> [i \in Items |-> IF i \in got THEN boot.items[i] ELSE Out]]
    /\ boot' = NoBoot
    /\ suspect' = Everything
    /\ UNCHANGED <<dbVars, req, dead, spawned>>

\* The box cannot be made or started; the next attempt waits for the cooldown.
StartFailed ==
    /\ boot.on /\ boot.unread = {}
    /\ boot' = NoBoot
    /\ UNCHANGED <<dbVars, req, up, dead, core, spawned, counts, suspect>>

\* Core.Stop takes no lock.  During a start it finds no instance yet, and does nothing;
\* or it closes the new one, and the start ends in an error or a panic, or without
\* noticing (see CoreLifecycle).
StoppedMidStart ==
    /\ boot.on
    /\ \/ UNCHANGED <<coreVars, suspect>>
       \/ /\ boot.unread = {} /\ boot' = NoBoot /\ core' = Off
          /\ up' \in BOOLEAN /\ dead' = up'
          /\ suspect' = IF up' THEN Everything ELSE suspect

\* StopCore, the first half of RestartCore; StartCore is the second.
Stopped ==
    \/ ~boot.on /\ up' = FALSE /\ dead' = FALSE /\ core' = Off /\ UNCHANGED <<boot, suspect>>
    \/ StoppedMidStart

Resync ==
    /\ resyncs > 0
    /\ resyncs' = resyncs - 1
    /\ Stopped
    /\ UNCHANGED <<dbVars, req, reloads, counts>>

\* The administrator restarts the core, or it is stopped by SIGHUP and started again.
RestartCore ==
    /\ up \/ boot.on
    /\ restarts < MaxRestarts
    /\ restarts' = restarts + 1
    /\ Stopped
    /\ UNCHANGED <<dbVars, req, spawned, saves, mishaps>>

\* RotateShortIDJob: an UPDATE of its own, and then a RestartCore.
Rotate ==
    /\ saves < MaxSaves /\ writer = NoRequest
    /\ saves' = saves + 1
    /\ rows' = [rows EXCEPT ![Tls] = saves + 1]
    /\ req' = [r \in Requests |-> Overtaken(req[r])]
    /\ resyncs' = resyncs + 1
    /\ boot' = [boot EXCEPT !.met = IF boot.on THEN @ \cup TlsUsers ELSE @]
    /\ UNCHANGED <<cache, writer, up, dead, core, reloads, mishaps, restarts, suspect>>

\* restartCoreWithConfig: refused during a start, else a stop and a start with v.
Reload(v) ==
    /\ v \in reloads /\ reloads' = reloads \ {v}
    /\ IF boot.on THEN UNCHANGED coreVars
       ELSE Booting(v, ConcernedBy({r \in Requests : Open(r) /\ req[r].new # v})
                       \cup IF v = cache THEN {} ELSE {Base})
    /\ UNCHANGED <<dbVars, req, resyncs, counts, suspect>>

Crash ==
    /\ restarts < MaxRestarts /\ restarts' = restarts + 1
    /\ Restarted
    /\ UNCHANGED <<saves, mishaps>>

-----------------------------------------------------------------------------

Continue(r) ==
    \/ CoreSkipped(r) \/ Remove(r) \/ RemoveFailed(r) \/ CallFailed(r) \/ Disconnect(r) \/ Add(r)
    \/ Write(r) \/ WriteFailed(r) \/ Commit(r) \/ CommitFailed(r) \/ Panic(r) \/ JobPanic(r)

Goroutine == Resync \/ (\E v \in reloads : Reload(v))

Boot == StartCore \/ (\E i \in Items : ReadItem(i)) \/ Started \/ StartedGarbled \/ StartFailed

Next ==
    \/ \E r \in Requests : Begin(r) \/ Continue(r)
    \/ Goroutine \/ Boot \/ RestartCore \/ Rotate \/ Crash

Spec == Init /\ [][Next]_vars

\* Handlers, goroutines and a start that can go on do; the cron job calls StartCore.
Fairness ==
    /\ \A r \in Requests : WF_vars(Continue(r))
    /\ WF_vars(Resync) /\ WF_vars(Boot)
    /\ \A v \in Versions : WF_vars(Reload(v))
FairSpec == Spec /\ Fairness

-----------------------------------------------------------------------------

\* Nothing is under way that would still change the item (or the base) in the core.
Settled(i) == up /\ resyncs = 0 /\ i \notin InFlight

\* A running core has exactly what is saved: no interleaving of saves, jobs, failed core
\* calls, restarts, reloads and panics that commit makes them differ, but for the
\* causes listed under Suspicions.
Agrees ==
    /\ \A i \in Items \ suspect : Settled(i) => core.items[i] = Built(rows, i)
    /\ Settled(Base) /\ Base \notin suspect /\ reloads = {} /\ cache = rows[Base] =>
          core.base = rows[Base]

\* "If core fails we log the error and schedule a full restart": an inbound that the
\* core did not take is in the core at last, as saved, unless the core can never be
\* started with what is saved, or one of the causes applies.
CatchesUp ==
    \/ []<><<StartFailed>>_vars
    \/ \A i \in Inbounds :
        core.items[i] # Built(rows, i)
            ~> i \in suspect \/ (up /\ core.items[i] = Built(rows, i))

=============================================================================
