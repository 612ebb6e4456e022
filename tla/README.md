# Verification of the AetherProxy panel

TLA+ models of the control plane under `src/backend` of AetherProxy: the Go
program that keeps a sing-box core running, saves its configuration, accounts
for the traffic of its clients and keeps the firewalls of its hosts in step.
TLC checks the models on small instances; TLAPS proves the theorems for every
value of the constants.

## 1. The system

The panel is one process.  Gin handlers (one goroutine per request), a dozen
cron jobs, and goroutines spawned by either of them share a SQLite database, one
embedded sing-box instance, a few in-memory tables and, over SSH and gossip, the
remote nodes.  Nearly nothing serialises them but SQLite, one mutex around the
start of the core, and the mutexes of the small tables.

| Component | State | Operations | Talks to |
|---|---|---|---|
| Core lifecycle (`core/main.go`, `core/box.go`, `service/config.go`) | `isRunning`, `instance`, `startCoreInProgress`, `lastStartFailTime` | `StartCore`, `RestartCore`, `StopCore`, `restartCoreWithConfig`, `restartCoreAsync` | cron (`checkCoreJob`), every save, the API, startup and SIGHUP |
| Saving the configuration (`config.go`, `inbounds.go`, `outbounds.go`, `endpoints.go`, `services.go`, `tls.go`) | tables of the same names, `changes`, the running core | `Save`, hot add and remove on the core, `RestartInbounds` | core lifecycle, port sync, settings |
| Port sync (`portsync.go`, `firewall_ufw.go`) | `port_sync_tasks`, ufw rules here and on the nodes | `TriggerImmediateSync`, `TriggerNodeImmediateSync`, `ProcessDueTasks`, `ClearTasks` | saving (triggers it), nodes, ufw |
| Clients and accounting (`client.go`, `stats.go`, `tracker_*.go`) | `clients` with counters and expiry, `stats`, atomic counters, connection table | `Save`, `SaveStats`, `DepleteClients`, `ResetClients`, `GetStats` | core, cron jobs |
| Settings (`setting.go`) | `settings`, an in-memory cache | `getString`, `setString`, `Save`, `SaveConfig` | everything |
| Evasion (`evasion.go`) | telemetry, alerts, preferred protocol, `stopCh` | `Start`, `Stop`, loops, `Reset` | settings, web socket |
| Discovery (`discovery.go`), nodes (`node.go`) | cluster, `nodes`, online cache | `Start`, `Stop`, gossip callbacks, health probes | port sync, subscriptions |
| Requests (`ratelimit.go`, `apiV2Handler.go`, `wsHandler.go`) | attempts per address, token list, time of the last alert sent | limiter, token lookup, live statistics | all services |
| Plugins, logger, certificates, database, host information, subscriptions | small or none | | |

What is hard in each, and what would make it correct:

* **Core lifecycle.**  `Core` has no lock; `StartCore` tests `isRunning` outside
  its mutex; `RestartCore` stops before it enters the gate; a nil instance makes
  a goroutine panic, which kills the panel, or an HTTP handler panic, which is
  recovered.  Correct: one start at a time, the flag never left up, the cooldown
  respected, `isRunning` true only over a live instance, the saved configuration
  running in the end, a stopped core coming back.
* **Saving.**  One transaction whose statements alternate with calls on the
  running core, a deferred commit or rollback, goroutines that start before the
  commit.  Correct: once a save is over, core and database agree, or something
  scheduled repairs them.
* **Port sync.**  Every trigger is a goroutine with its own snapshot of the
  inbounds; ufw rows are deleted by number; failures go to a queue whose rows are
  saved as they were read.  Correct: rules of the administrator are left alone,
  no drift is forgotten, firewalls converge, the queue drains.
* **Clients and accounting.**  Counters are swapped to zero before they are
  stored; whole rows are written back by the panel; depletion, reset and the
  statistics job overlap.  Correct: no byte is counted twice, a depleted client
  is out of the core, enabled clients are in.
* **Settings.**  A cache written before the transaction commits, and the state of
  plugins kept twice.  Correct: once nothing is under way, memory says what the
  table says.
* **Evasion, discovery, nodes.**  Loops that read their stop channel again each
  time round; callbacks under a mutex; a probe that puts back what was deleted.
  Correct: whatever loops there are, the next stop ends them; a service that runs
  has all of its loops; a node is probed by one goroutine, a deleted one by none.
* **Requests.**  Windows, blocks and "since" timestamps in whole seconds.
  Correct: no more attempts than promised, no alert lost.

`PROJECT.json` lists the hazards line by line, and the properties that cover them.

## 2. The plan

Most important first; a module is done when its runs pass, its mutants die and
its invariants are proved.

1. `StartGate`, `CoreLifecycle`, `CoreLifecycleProofs`: **done**.  Safety and the
   refinement of `StartGate` proved, liveness checked.
2. `PortSync`, `PortSyncProofs`: **done**.  Types, ownership of rows and the repair of
   drift; what makes the code forget one, and nothing else does.
3. `ConfigSave`, `ConfigSaveProofs`: **done**.  One save as a transaction against the
   running core; what makes the two differ, and nothing else does.
4. `ClientAccounting`, `ClientAccountingProofs`, `ClientLedgerProofs`: **done**.
   The sums of traffic, and the agreement of core and table, for any workers that
   overlap.
5. `Settings`, `SettingsProofs`: **done**.  Cache and table, plugins and their flags.
6. `Nodes`, `NodesProofs`: **done**.  Health checks, their cache, subscriptions.
7. `Loops`, `LoopsProofs`: **done**.  Evasion and discovery across restarts.
8. Left: the login limiter, the token list, the alerts of the web socket and the
   logger.  They are sequential or a data race (section 6).

`StartGate` is the abstract specification of the gate around the core's start.
`MC...` modules give each specification its instance; a `...Proofs` module extends
the specification it is about.  The models meet at narrow places: a core that is
stopped or started by others is one action in `ConfigSave` and in
`ClientAccounting`, whose details are those of `CoreLifecycle`; a committed inbound
is an event of `PortSync`, and so is a node that is saved; the settings that the
evasion loops write are calls of `Settings`; a restart of the application is a call of `Nodes` and a script in
`Loops`.  Runs stay small: two actors, and one or two of everything else.

## 3. What is modelled

### CoreLifecycle (over StartGate)

The variables are the fields: `isRunning` and `inst` of `Core`, the global
`startCoreInProgress` (`inProgress`), and whether `lastStartFailTime` is within
the cooldown (`cooling`).  `box` remembers of every `*Box` ever made whether it
was built, started or closed, and from which configuration: what the fields
only point at.  A configuration is the number of the save that produced it
(`saved`); `reloads` holds those handed to goroutines not yet running.

A process is a goroutine.  `pc` stops it wherever another one can come between:
the unlocked test of `IsRunning`, the section under the mutex, and every access
of `Core.Start` and `Core.Stop` to a field or to the instance.  Both functions are
modelled once and used by the three calls (`op`), which differ in where they go
afterwards (`AfterStop`, `AfterFailedStart`).  A nil instance is a `Panic`:
recovered (an HTTP handler; only the deferred function runs) or a `Crash` (a
goroutine or a cron job; the process restarts with the database).

sing-box is external: building, starting and closing an instance are one step
each, that may fail.  Versions stand for configurations, so their content is
not modelled, but for one thing: `Core.Start` only logs an error of the decoder, and
boots with what was decoded before it, or with nothing.  `Garbled` are the versions
to which that happens, and `Decoded` what the core then has.  `skipped` remembers
that the reload of the newest configuration was refused by a start in progress that
had read an older one, or that an older reload came after it.  Closing an instance takes it down whether or not it reports an
error, as `Box.Close` goes through all its managers before it returns.

### PortSync

`want` is the result of `collectDesiredRules` on the committed inbounds, `nodes` and
`addr` the table of nodes, `fw` the numbered list of each machine's ufw, `tasks` the
table of retries, `syncs` and `nodeSyncs` the goroutines triggered and not yet running.
A target is the local host or a node; two targets may be one machine.  A worker is one
goroutine of `syncAllTargets` (first the local host, kind `local`, then the fleet),
`syncOneNode` or `ProcessDueTasks` (`retry`, or `recompute` when the inbounds could
not be read).  Its record holds exactly what the goroutine remembers: the desired
rules, the targets or tasks still to do, the row it read, the machine it is
connected to, and the plan made by `diffRules`.  Every ufw command and every
statement on the queue is a step, and each may fail; a failed read, or a failed write
of the queue, is only logged, as in the code.  Creating or re-addressing a node
(`SaveNode`) triggers nothing.

`forgotten` and `crossed` are not in the program.  The code loses a drift when the
inbounds or the nodes cannot be read (`portsync.go:154-203`), when a failure cannot be
queued and no other task of the target is (`:363-365`, `:378-379`, `:401-402`,
`:350-351`), when the queue is cleared, when a node is created or gets another address
(`node.go:64-87`), when two workers treat one machine at the same time, when a worker
with older inbounds starts on a target after the newest reconciliation has started,
and when a retry whose work does not count for one of these reasons deletes its task.
`forgotten` are the targets to which one of these has happened since the last trigger
that includes them; `crossed` are the workers that met at a machine, until they are
done with it.  `NoLostDrift` and `Converges` are about all other targets: neither
claims that the code repairs everything, but that it loses a drift in these ways only.

Abstracted: the text of options and of ufw output; attempts, delays and messages
of a task (a task is `due` or `later`), and its status, which nothing but the panel
reads; a rule is one row (ufw prints an IPv6 twin that the code treats alike); reading
a node, dialling it and listing its rules are one step; the batch limit of the queue
(20); the switches that turn local or remote synchronisation off (both are on); the
administrator's own ufw commands while a reconciliation runs; a ufw that is
switched on or off meanwhile (`Inactive` is fixed).  Left out are also the rules for the
gossip ports, which depend on the discovery service and are reconciled when it is
joined or left, and an imported database, which changes inbounds and nodes shortly
before the restart that reconciles everything.  Manual rows are on ports that no inbound
uses.  Triggers of one node that wait at the same time are merged.

### ClientAccounting

`rows` is the table of clients, `inb` the inbounds of the running core with the
users each was made with, `counter` the users' counters of its `StatsTracker`.
`sent` is what no variable of the program holds: the traffic that really flowed.
A worker is a run of `StatsJob`, a run of `DepleteJob`, or a request of an
administrator together with the page it was sent from; its record is what that
goroutine (or page) remembers: the counters it took, the row it shows or has
written, the inbounds still to restart, the users it has just read.

SQLite lets one transaction write at a time, and refuses the writes of one that
has read before another's commit.  So `SaveStats` is two steps, taking the
counters and storing them; `DepleteClients` is one, followed by the restarts of
inbounds, outside of its transaction; and a request's row stays in its worker from
`SaveClient` to `Commit`, while `Unlocked` keeps the others from writing and `View`
lets its own restarts see it.  `RestartInbounds` is a step per inbound for the
removal, the query for users and the creation.  Expiry and the next reset are
absolute times, of which only "past or not" matters.

Abstracted: upload and download are added up, and so are the totals of former
periods; renames and new credentials appear as an edit that restarts all of a
client's inbounds; bulk actions have the shape of single ones.  Links, edits of
inbounds and of TLS, the table of statistics and the list of those online are left
out, and so is PostgreSQL, whose transactions interleave more freely.  The core is
up, down or starting with the users it has read; what else happens in it, such as a
nil instance, belongs to `CoreLifecycle`.

### ConfigSave

`rows` is the committed database, `cache` the settings cache's copy of the base
configuration, `core` what the running core was given.  The value of an object is
the number of the save that wrote it.  There are five kinds: inbounds, written
first and changed in the core afterwards; `Plain` ones (outbounds, endpoints,
services), changed in the core first, as every deletion is; a certificate, whose
save restarts the inbounds and then the services that use it; the clients, whose save
restarts their inbounds; and the base, cached and reloaded by a goroutine.  What the
core has of an item is its own version with those of its certificate and clients
(`Built`).  A record in `req` is one handler inside `ConfigService.Save`, or one run of
`DepleteJob` (`job`), which changes clients and restarts their inbounds after its
commit; `pc` is the next statement or core call, `read`, `stale` and `writer` are
SQLite's snapshot and lock, `touched` says that it has changed the core.  `Rotate` is
`RotateShortIDJob`: a statement of its own, then a restart of the core.  A panic
of a handler commits, as the deferred function does; one in the job ends the process.

`boot` is a start of the core, which reads the tables one by one while others commit;
`resyncs` and `reloads` are goroutines spawned and not yet running.  A stop takes no
lock: it may come in the middle of a start, find no instance, or close the new one and
leave a core that counts as running and is dead (`StoppedMidStart`; the steps of that are
in `CoreLifecycle`).  A start whose configuration cannot be decoded leaves the core
with a part of it (`StartedGarbled`).

`suspect` records the causes for which the model lets core and database differ: a
transaction rolled back after it changed the core, or a depletion job that did not
finish its restarts; two overlapping saves of one thing; a save or a rotation that
overlapped a start (`boot.met`); a reload with a base that is not the newest; a start
that could not decode its configuration; a stop in the middle of a start.  `Agrees` says
that nothing else in the model does; a start of the core clears them.  The actors of
the model are the handlers, the two jobs, the cron job that starts the core, resyncs,
reloads, the administrator's restart and crashes.

Abstracted: what objects contain; the links, addresses and `out_json` rewritten along
with a save; several objects in one request, and several inbounds or clients at a time,
of which TLC sees one each; the record in `changes` beyond its failure.  The traffic and
the limits of clients are in `ClientAccounting`.  What `DepleteJob`, the save of a
service or the rotation has read before it writes may be older than what it writes
upon: then two saves of one thing overlapped, or the rotation's restart is still to
come.  The plugins that are enabled transform an outbound whenever
the core is given it (`outbounds.go:58,83`); switching one reaches the core with the
next start or save, and that difference is left out.  The save of a routing rule
(`routing.go`) is one of the base whose reload is spawned after its commit.  An imported database replaces all rows before the restart
that it asks for, which is left out.

### Settings

`table` and `cache` are the settings and their copy in memory, `flags` the stored and
`enabled` the actual state of the transport plugins.  A process is one call:
`getString` of a key that has no entry (the row or the default, later the entry),
`saveSetting` (the row, then the entry), a page in a transaction (entries, then the
commit), `GetAllSetting` (reads the table, later stores the defaults that it lacks and
fills the cache) or `SetPluginEnabled` (in memory first, then the others off, then the
flags one by one).  A value is the number of the call that wrote it.  `Defaults` are the
keys of `defaultValueMap`; the evasion watcher's are not among them, so that they may
have no row, are not stored or cached by `GetAllSetting`, and are refused by `getString`
as long as they have neither row nor entry.

Causes in `suspect`: overlapping calls for one key or for the plugins; a page rolled
back midway; a page with a key that has no row, which `UPDATE` does not store but the
cache takes; an imported database; a flag that could not be stored; an old page, which
sends the flags back as they were.  The next call that has a key for itself and writes,
or caches, both its copies removes it; nothing does for the flags before a restart.

### Nodes

`row` is the table, `conn` the cache of addresses, `stopCh` the map of cancel
functions, `prober` every health-check goroutine ever launched and not yet ended.
A prober looks its address up, reads and caches it if need be, dials, stores the
status, and waits; a cancelled one may still take a tick of its `select`.  Calls
are `Create`, `Update`, `Delete` and `StartAllHealthChecks`, one step per access.
Subscriptions read the set of offline hosts and keep it until it expires.  `Ids` are
given out once, as SQLite's keys are; statuses "unknown" and "online" are one.
Causes in `suspect`: overlapping calls about one node, an update of a node that is
gone (`Save` inserts it again, without a health check), a deletion that failed.

### Loops

The loops of the evasion watcher, discovery's loop and the goroutine that joins the
bootstrap peers, over any number of starts: `loop[k][n]` is the goroutine of kind
`k` that start `n` launched, `ch` and `closed` the stop channels by their numbers.
The field is read without the mutex, so `Listen` may find any channel since the
launch.  Discovery's `Stop` holds `mu` while the cluster leaves, which waits for the
lock its callbacks run under (`notify`).  The application runs the scripts of
`APP.Stop` and `APP.Start` at a signal; a server that cannot start ends the latter.
What the loops do at each tick is left out.

## 4. The runs

| Run | Instance | Shows |
|---|---|---|
| `core_gate` | 2 goroutines, all calls, 2 saves, one of which cannot be decoded | types, `SingleStarter`, `CooldownHonoured`, `FlagComesDown`, that the code implements `StartGate`, and `HotReloaded`, in every interleaving with failures, panics and crashes |
| `core_solo` | 1 goroutine, all calls, 1 save | `QuietConsistent`, `CoreComesBack`: without overlap the lifecycle is right |
| `core_no_revival` | 2 goroutines | `CoreComesBack` fails: a stop between `Box.Start` and `isRunning = true` leaves a dead core marked running, which the cron job never touches |
| `portsync_serial` | 1 worker, 1 rule with its IPv6 twin, 1 node, 2 machines, 2 events among saves of inbounds, nodes saved or removed, crashes; queue writes that fail | types, `NoLostDrift`, `ForeignUntouched`, `Converges`, `QueueDrains` |
| `portsync_overlap` | 2 workers, 1 rule, 1 node, 3 machines (1 inactive), any 1 event, every failure | `NoLostDrift`: the named causes are the only ones, whatever overlaps |
| `portsync_wrong_row` | 2 workers, 1 save | `ForeignUntouched` fails: two listings, one numbering |
| `clients_traffic` | 2 workers, 1 client, 1 inbound | types, `NeverOvercharged`, `NothingLost`, `CoreAgrees`, whatever overlaps, fails or is stale |
| `clients_enforced` | 1 worker, 1 client of any plan, 2 inbounds | `Enforced`, `CoreAgrees`: one job or request after the other |
| `config_save` | 2 requests (handlers or depletion jobs); an inbound with clients and a plain item, both users of the certificate; the certificate, the clients, the base; 3 saves (one made earlier) or rotations, 1 failure, 1 restart or crash | types, `Agrees`, `CatchesUp`: what saves, jobs, starts, stops, reloads and failures in any order do to the core |
| `settings` | 2 calls at a time, 3 in all; 2 keys (one without a default), 2 plugins, 1 failure, 1 restart | types, `Coherent`, `FlagsKept`, `OneTransport` |
| `nodes` | 2 calls, 1 id, 2 addresses, 2 probers, 1 failed deletion | types, `OneProber`, `Watched`, `ChecksEnd`, `Follows` |
| `loops` | 1 evasion loop, discovery's two, 1 request beside the application, 2 starts of each service | types, `Heard`, `Served`, `LoopsEnd`, `CallsReturn` |

The two runs that end in a violation are disagreements between code and
documentation, quoted in `PROJECT.json` under `findings`.

**Bounds.**  Two goroutines suffice for each overlap named above, since each needs
one party inside a call and another that passes it; `Boxes` is one more than the
instances that can be referenced at a time, so that a new instance is never
confused with one in use.  Two saves distinguish "older", "newer" and "current".
For port sync, two rows of ours above a Manual one make the order of deletions
matter; two task ids let each of two targets have one; two machines let a node be
the panel's own host, and be re-addressed; two events let a second save, a node, a
removal or a crash fall into the reconciliation of the first, while for an overlap one
event beside the two reconciliations does.  For clients, a volume of one unit and two units of traffic reach "unused",
"at the volume" and "beyond it"; one edit and one failure suffice for a stale page,
a lost transaction or a core that went away, since those that follow start
afresh; two inbounds let a restart stop half way.  For saves, two requests are one
that the other overtakes, between any two of its steps, and the start, the resync,
the reload and the rotation are actors of their own.  For settings, the third call shows that an
undisturbed one repairs what two that overlapped left.  One node is enough, as
nodes share nothing but the hosts; its two addresses show a probe of an old one,
and two goroutines one that is cancelled beside its successor.  Two starts show
what a goroutine of the first does once there is a second.  `MaxSaves`, `MaxEvents`,
`MaxTraffic`, `MaxEdits`, `MaxCalls`, `MaxStarts`, `MaxRestarts` and `MaxMishaps` are
the only bounds on behaviour, besides one subscription at a time that reads the
hosts (`Fetch`).  The theorems hold for every value of them.

**Fairness.**  Goroutines run: a call that can go on does (WF of `Continue`).  For
`CoreComesBack` also: the cooldown passes, the 30 s cron job keeps calling
`StartCore` (SF, since its test is not always true), and reading the
configuration, building and starting an instance do not fail for ever.  For
`Converges` and `QueueDrains`: time passes, the cron job takes due tasks, and
listing, deleting, allowing and the deletion of a task that is done do not fail
every time.  For `Enforced`: the
depletion job keeps running every minute (SF, since a request may hold the
database), jobs and requests that can go on do (SF, for the same reason), a page is
closed or sent at last, and a core that is down is started.  For `CatchesUp`:
handlers, jobs, resyncs, reloads and a start in progress go on; a core that
can never be started with what is saved is excepted by the property itself.  For
`ChecksEnd` and `Follows`: tickers tick, a cached set of hosts expires, and a
cancelled goroutine ends (SF, since `select` chooses at random among the cases that
are ready, and so does not choose the tick every time).  For `LoopsEnd` and
`CallsReturn`: goroutines and callbacks go on, and leaving the cluster gets the
cluster's lock (SF: a Go mutex is handed to a waiter that starves).  No event of
the administrator, no crash, no failure and no host that goes up or down is fair.

**Deadlock** is not checked: with no start to make, no save left, nothing to
reconcile and no traffic, the processes legitimately have nothing to do.  That
nobody waits for ever while holding a lock is `CallsReturn` and `FlagComesDown`.

**Model-checked only.**  `FlagComesDown`, `CoreComesBack`, `Converges`, `QueueDrains`,
`Enforced`, `CatchesUp`, `ChecksEnd`, `Follows`, `LoopsEnd` and `CallsReturn` are
liveness under fairness, which the prover does not handle.  Every invariant, and every
action property, is also proved (section 5): without a premise, but for
`QuietConsistent` and `ForeignUntouched`, which do not hold of any overlap.  Liveness
of port sync is checked with one worker; with two, the check does not end in
reasonable time.

**Limits of the code that the checks respect.**  None of these is asserted away
silently: each is a cause a property names, a premise of a run, or an example that
the models can show.

* *Core.*  A reload that meets a start in progress is dropped, and reports success
  (`config.go:175`); an older reload may run after a newer one; a configuration that
  cannot be decoded is logged, and the core runs with a part of it, or with nothing
  (`main.go:51-55`).
* *Saves.*  A save rolled back after it changed the core leaves the core changed; a
  commit that fails is ignored, and the request reports success.  The resync of
  an inbound the core refused may read before the transaction commits
  (`inbounds.go:174`), or stop a start in progress: `CatchesUp` excepts both.  A
  depletion job that fails in the middle of its restarts leaves an inbound out of the
  core; the restart after a rotation of short IDs may be swallowed by the cooldown, and
  then comes with the cron job's next start.
* *Port sync.*  An older reconciliation may undo what a newer one did
  (`portsync.go:155`; `docs/portsync-validation.md`, Scenario 1, edits one inbound at a
  time and expects its rules at the end); a node that is created or re-addressed waits
  for the next trigger, whatever it is; a failure that cannot be written to the queue
  is lost, and so are the targets of a reconciliation that cannot read the inbounds or
  the nodes.  `NoLostDrift` names these, and says that there is nothing else.  A
  firewall whose ufw is enabled later waits for the next trigger, too.
* *Clients.*  The depletion job restarts an inbound from the committed rows while a
  request, whose transaction is open, has just restarted it from its own (`Crossed`),
  or meets it on the same port; a client that one of them disabled can then stay
  connected until the inbound is next restarted.  So it can after a restart that
  failed, a rolled back request, or a core that read its users before they were
  disabled.  `broken` stands for all of these, and for nothing else: `CoreAgrees` holds
  in every other overlap.  The volume is exceeded, not reached, when a
  client is disabled (`>`, where `README.md:400` has `>=`), and a periodic reset
  enables whoever is disabled, also by an administrator (`client.go:588`).
* *Settings.*  A page rejected midway leaves the keys before it live; a key that has
  lost its row and has no default, as the evasion watcher's after an import, is served
  from the cache and no longer stored, and a page does not bring it back; a page opened
  before a plugin was switched stores its old flag again.  Neither an import nor
  `settings reset` on the command line reaches the cache of the running panel or its
  plugins.  The evasion watcher's preferred protocol and its time are
  two settings, and may be of two decisions.  Overlapping requests may leave no
  transport plugin enabled, and may store two, which the next start loads.
* *Nodes.*  An update that overlaps a deletion brings the row back without a health
  check; a restart of the application that overlaps one leaves a prober behind.
  Peers without gossip events for ten minutes are marked dead though they are
  alive (`discovery.go:321`, read but not modelled).
* *Loops.*  After a quick stop and start a loop runs twice, until the next stop; a
  server that cannot start after SIGHUP leaves the loops stopped; a join may be of
  a cluster already left.

## 5. The proofs

All theorems are about `Spec`, which every `FairSpec` implies, for every value of the
constants that satisfies the assumptions named in the module.

**`CoreLifecycleProofs`**, for any set of goroutines, calls and instances and any
number of saves:

* `TypeCorrect`: one lemma per group of actions.
* `SingleStarterHolds`: at most one goroutine is in the section, and the flag is
  up exactly then.  `SingleStarter` is inductive once the types are known:
  `Admitted` is the only way in and requires the flag down, hence nobody inside;
  every way out (`Release`, a recovered panic, a crash) takes the flag down; all
  other steps keep their process where it was, inside or outside.
* `CooldownHolds`: inductive together with the former: `cooling` becomes true only
  in `StartFailed`, whose process is the one inside and moves to `release`; and
  `Admitted` lets a `StartCore` in only when it is false.
* `CoreImplementsGate`: under the mapping `holders <- {p : InSection(p)}` each step
  is a step of `StartGate` or a stutter.
* `QuietHolds`, for calls that do not overlap (`Serial`: one goroutine).
  `QuietConsistent` speaks of quiet moments only; `SoloInv` says for every place
  of `pc` what the two fields of `Core` say of the instances at that place.
* `HotReloadedHolds`, for any overlap, and whichever versions cannot be decoded.
  `HotInv`: unless the newest configuration was `skipped`, its reload is still to come
  (`Waiting`), or is past the gate and about to replace the instance (`Coming`), or the
  instance has it (`Accounted`); and whoever has read a configuration, or built an
  instance, has the newest, or one of those holds (`Building`).  Whoever reads an older
  one sets `skipped`; the single section of `SingleStarter` keeps two builders apart.

**`PortSyncProofs`**, for any number of workers.  `TypeCorrect` needs that goroutines
waiting to run are no more than the events that triggered them.

* `ForeignHolds`, as long as no two workers have rows left to delete at one machine
  (`Apart`): otherwise workers overlap as they like.  It rests on `Aimed`: the numbers
  still to delete are of managed rows, and the greatest goes first, which leaves the
  others where they are; this uses that a set of numbers has a greatest one, proved
  from well-foundedness.  What another worker adds goes below.
* `DriftHolds` has no premise on the overlap: what it needs, `NoLostDrift` names as
  causes.  Workers at one machine are all crossed (`Crossing`).  Of a worker that is not,
  the invariant says that its numbers are right (`Straight`), that the rows left and
  those to be added make up its snapshot (`Exact`), and that it is done when the machine
  has them (`Done`); of one that is crossed, or goes by older inbounds, that the targets
  it may spoil have a repair still to come (`Harmless`).  Only a retry's jobs are tasks
  (`Batch`).  `Named` says of all their memories together that a primary key stands for
  one target, in the queue and in every worker: so a task is dropped, or brought back
  after another worker dropped it, for the target it was queued for.

`Apart` is needed: without it TLC finds `portsync_wrong_row`.  The corollary
`ForeignSerial` says that one worker (`Serial`), as in `portsync_serial`, meets it.
0 is no primary key (`TasksAssumption`): the code saves a task without one as a new row.

**`ConfigSaveProofs`**: `AgreesHolds`.  The invariant has four layers: a request
remembers what befits what it does (`Shaped`); saves are numbered and two open ones
of the same thing are suspect (`Numbered`, `Lone`); a start has met every save that is
open, what it has read is committed or met, and a core without an instance is suspect
altogether (`Meets`, `Reads`, `Wrecked`); and at each place of the one request about it,
an item that is not suspect is in the core as committed, as the request's transaction
sees it, or not at all (`ItemsFit`), likewise the base with the cache (`BaseFits`).

**`ClientAccountingProofs`**: `CoreAgreesHolds`, for any number of workers that overlap
in any way.  `Truth` is who the users of an inbound are, with what the one open
request has written already; its own queries see that (`TruthOpen`), as the table
does when there is none (`TruthFree`).  `Agreeing`: unless something is broken, each
inbound is still to be restarted by someone (`Coming`), or somebody is at it who
will be refused (`Crowded`), or it has the users of `Truth`, or whoever is at it is
about to give it those (`Right`).  The three are kept in turn: a job or request
changes `Truth` only at inbounds that it has still to restart, since
`findInboundsChanges` names enough of them (`ChangesNamed`), and so does the depletion
job; whoever removes an inbound is at it; and who reads its users, not crossed by a
request that is past it, reads `Truth` (`ReadsTruth`).  Once all are idle, nothing is
coming or crowded, and `Truth` is the table.

**`ClientLedgerProofs`**, for any number of workers that overlap in any way:

* `NeverOverchargedHolds`.  The invariant is `Ledger`: what a client's row was charged
  in this and former periods, with what counters and workers hold, is no more than
  was sent; and so is that of every row that a page shows or a request has written.
  A stale page may therefore forget traffic, but never adds any.  Each step makes one
  worker's record from what there was (`Made`), and moves units between the counters,
  one worker and the rows (`InFlightMoves`).
* `TypeCorrect` follows: without the ledger nothing bounds the counters of a row.
* `NothingLostHolds`: with no failure and no administrator, the `Ledger` is exact, the
  core is up and only clients that exist have users in it (`Exact`).

What all workers hold is a sum, stated as the number of units held, each a pair of a
worker and a number.  So the library's facts on finite sets carry it, without an
induction; `WorkersAssumption` says that there are finitely many goroutines.

**`SettingsProofs`**: `CoherentHolds`, `FlagsKeptHolds`, `OneTransportHolds`.  What a call
concerns it has for itself or is suspect (`Owned`); then each key's, and each flag's,
two copies are where the one call that has it puts them (`KeysAgree`, `FlagsAgree`):
what it has read of the row or given to the entry is still there (`Known`), and as long
as it has changed neither (`Untouched`) they agree, whether or not the key has a row.
`Transport`: two enabled plugins at a time need a request that is still to disable
the others.

**`NodesProofs`**: `OneProberHolds` rests on `Probing` (a goroutine is about a node
exactly while it exists): a goroutine is launched only where the map has none, and
cancelled with its entry.  `WatchedHolds`: `Orderly` says of each node that is not
suspect that it is in order, or in one stage of the one call about it, and of a
restart that the rows it read are still those of its nodes.

**`LoopsProofs`**: `HeardHolds`, `ServedHolds`.  Every channel but the last is closed,
and the last one once the service is stopped; a goroutine waits on a channel no
older than its launch.  So one that waits on an open channel waits on the last;
and the goroutines launched last are there until that one is closed.

A premise on what may overlap is in the theorem's statement: `Serial` in `QuietHolds`,
`Apart` in `ForeignHolds`.  It is needed: the findings are behaviours in which two calls
of the core, or two reconciliations of one machine, do overlap.  All other theorems have
none but the assumptions on the constants.

## 6. Not modelled

* The **login limiter** (one map behind one mutex, arithmetic on the clock), the
  **alerts** of the web socket (a query and a timestamp in whole seconds) and the
  **logger** (a ring behind one mutex) are sequential.  The **token list** is a data
  race on a slice: its outcomes depend on the memory of the process, and it is under
  the hazards.
* Subscriptions (but for the hosts they leave out), links and configuration
  migration are formatting; the HTTP layer dispatches; users, certificates, warp,
  Telegram and server information are I/O or single statements.
* The gossip protocol, SQLite and sing-box are libraries, modelled as far as the
  panel depends on them.  PostgreSQL, whose transactions interleave more freely,
  is not.
* The web panel, the deployment scripts and the forked clients are outside the
  panel's logic.  They, with the copies of sing-box, tailscale and other libraries
  under `src/client-android`, make up nearly all of the repository's lines.
