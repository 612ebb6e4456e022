------------------------------ MODULE PortSync ------------------------------
(***************************************************************************)
(* Reconciliation of the ports of the inbounds with the managed rules of   *)
(* the local ufw and of the ufw of every remote node: service/portsync.go  *)
(* over service/firewall_ufw.go, with the retry queue of port_sync_tasks.  *)
(*                                                                         *)
(* A worker is a goroutine in syncAllTargets ("sync"), syncOneNode         *)
(* ("node") or ProcessDueTasks ("retry").  Nothing serialises them.  Each  *)
(* ufw command and each statement on the queue is a step.  A target is the *)
(* panel's host or a row of the node table, which gives its address; two   *)
(* of them may be one machine.  The firewall of a machine is the numbered  *)
(* list that "ufw status numbered" prints: a row is a rule of ours, known  *)
(* by its comment, or a Manual row of the administrator.                   *)
(***************************************************************************)
EXTENDS Naturals, FiniteSets, Sequences, FiniteSetsExt, SequencesExt

CONSTANTS
    Rules,      \* proto:port rules that inbounds may need
    Nodes,      \* remote nodes
    Local,      \* the panel's own host
    Machines,   \* addresses: the panel's host and others
    Nowhere,    \* no machine
    Inactive,   \* machines whose ufw is inactive or unusable: a permanent error
    Workers,    \* goroutines that may run at once
    TaskIds,    \* primary keys of port_sync_tasks; 0 is that of a row not yet saved
    InitialRows,\* firewalls that machines may have at first
    Manual,     \* a row without our comment
    Events,     \* what happens around the workers, among AllEvents
    MaxEvents   \* bound: how many of these events happen

Targets == {Local} \cup Nodes
AllEvents == {"save", "deploy", "ask", "node", "remove", "clear", "crash", "unread", "unqueued"}

ASSUME TargetsAssumption ==
    Local \notin Nodes /\ Local \in Machines /\ Nowhere \notin Machines /\ Inactive \subseteq Machines
ASSUME RowsAssumption == Manual \notin Rules /\ InitialRows \subseteq Seq(Rules \cup {Manual})
ASSUME TasksAssumption == 0 \notin TaskIds
ASSUME BoundAssumption == MaxEvents \in Nat /\ Events \subseteq AllEvents

VARIABLES
    want,       \* collectDesiredRules of the committed inbounds
    nodes,      \* nodes in the database
    addr,       \* the address of each
    fw,         \* the firewall of each machine
    tasks,      \* port_sync_tasks: target and due (next_run_at <= now) of each row
    syncs,      \* goroutines of TriggerImmediateSync not yet running
    nodeSyncs,  \* nodes with a goroutine of TriggerNodeImmediateSync not yet running
    worker,     \* the state of each worker
    events,     \* events so far
    forgotten,  \* targets for which something named below may have lost a repair
    crossed     \* workers that treat a machine which another treated at the same time

db == <<want, nodes, addr>>
queue == <<syncs, nodeSyncs>>
vars == <<db, fw, tasks, queue, worker, events, forgotten, crossed>>

NoTask == [t |-> Local, id |-> 0]
Jobs == [t : Targets, id : TaskIds \cup {0}]
MachineOf(t) == IF t = Local THEN Local ELSE addr[t]
TargetsAt(m) == {t \in Targets : MachineOf(t) = m}
Rows(m) == DOMAIN fw[m]
Ours(t) == ToSet(fw[MachineOf(t)]) \cap Rules
Queued == {i \in TaskIds : tasks[i].st # "none"}
QueuedFor(t) == {i \in Queued : tasks[i].t = t}

NoRow == [t |-> Local, st |-> "none"]
IdleWorker == [pc |-> "idle", kind |-> "none", want |-> {}, todo |-> {},
               job |-> NoTask, at |-> Nowhere, del |-> {}, add |-> {}]

TypeOK ==
    /\ want \subseteq Rules
    /\ nodes \subseteq Nodes
    /\ addr \in [Nodes -> Machines]
    /\ fw \in [Machines -> Seq(Rules \cup {Manual})]
    /\ tasks \in [TaskIds -> [t : Targets, st : {"none", "due", "later"}]]
    /\ syncs \in 0..(MaxEvents + 1)
    /\ nodeSyncs \subseteq Nodes
    /\ worker \in [Workers ->
           [pc : {"idle", "collect", "next", "list", "apply", "ok", "failed", "upsert"},
            kind : {"none", "local", "fleet", "node", "retry", "recompute"}, want : SUBSET Rules,
            todo : SUBSET Jobs, job : Jobs, at : Machines \cup {Nowhere}, del : SUBSET Nat,
            add : SUBSET Rules]]
    /\ events \in 0..MaxEvents
    /\ forgotten \subseteq Targets /\ crossed \subseteq Workers

\* The panel starts, and starting triggers a full reconciliation.
Init ==
    /\ want \in SUBSET Rules
    /\ nodes \in SUBSET Nodes
    /\ addr \in [Nodes -> Machines]
    /\ fw \in [Machines -> InitialRows]
    /\ tasks = [i \in TaskIds |-> NoRow]
    /\ syncs = 1
    /\ nodeSyncs = {}
    /\ worker = [w \in Workers |-> IdleWorker]
    /\ events = 0
    /\ forgotten = {} /\ crossed = {}

-----------------------------------------------------------------------------
(* ufw, as firewall_ufw.go drives it: allow is idempotent and appends,      *)
(* delete takes a number and moves the rows below it up.                    *)

Allow(rows, r) == IF r \in ToSet(rows) THEN rows ELSE Append(rows, r)
DeleteRow(rows, n) == RemoveAt(rows, n)

\* diffRules and collectDesiredRules: what to delete, by number, and to allow.
ToDelete(rows, desired) ==
    {n \in DOMAIN rows : rows[n] \in Rules /\ rows[n] \notin desired}
ToAdd(rows, desired) == desired \ ToSet(rows)

\* A saved row: an insert, or an upsert that also brings back a deleted one.
Save(i, t, st) == tasks' = [tasks EXCEPT ![i] = [t |-> t, st |-> st]]

\* Primary keys that are neither in the table nor in a worker's memory.
FreeIds == {i \in TaskIds \ Queued :
               \A w \in Workers : worker[w].job.id # i /\ \A j \in worker[w].todo : j.id # i}

At(w, l) == worker[w].pc = l
Goto(w, l) == worker' = [worker EXCEPT ![w].pc = l]
Idle(w) == worker' = [worker EXCEPT ![w] = IdleWorker]
Forget(ts) == forgotten' = forgotten \cup ts

-----------------------------------------------------------------------------
(* How a worker starts.                                                     *)

JobsOf(ts) == {[t |-> x, id |-> 0] : x \in ts}

Launch(w, k, l, desired, jobs) ==
    worker' = [worker EXCEPT ![w] = [IdleWorker EXCEPT
                   !.pc = l, !.kind = k, !.want = desired, !.todo = jobs]]

StartSync(w) ==
    /\ At(w, "idle")
    /\ syncs > 0 /\ syncs' = syncs - 1
    /\ Launch(w, "local", "next", want, JobsOf({Local}))
    /\ UNCHANGED <<db, fw, tasks, nodeSyncs, events, forgotten, crossed>>

StartNodeSync(w) ==
    /\ At(w, "idle")
    /\ \E n \in nodeSyncs :
          /\ nodeSyncs' = nodeSyncs \ {n}
          /\ Launch(w, "node", "next", want, JobsOf({n}))
    /\ UNCHANGED <<db, fw, tasks, syncs, events, forgotten, crossed>>

\* The inbounds cannot be read: the goroutine ends, and nothing is queued.
SyncUnread(w) ==
    /\ "unread" \in Events /\ At(w, "idle")
    /\ \/ syncs > 0 /\ syncs' = syncs - 1 /\ UNCHANGED nodeSyncs /\ Forget(Targets)
       \/ \E n \in nodeSyncs :
             nodeSyncs' = nodeSyncs \ {n} /\ UNCHANGED syncs /\ Forget({n})
    /\ UNCHANGED <<db, fw, tasks, worker, events, crossed>>

\* The cron job, or an administrator's retry, takes the due tasks ...
StartRetry(w) ==
    /\ At(w, "idle")
    /\ LET due == {i \in TaskIds : tasks[i].st = "due"}
       IN  /\ due # {}
           /\ Launch(w, "retry", "collect", {}, {[t |-> tasks[i].t, id |-> i] : i \in due})
    /\ UNCHANGED <<db, fw, tasks, queue, events, forgotten, crossed>>

\* ... and then computes the desired rules, once for all of them.
Collect(w) ==
    /\ At(w, "collect")
    /\ worker' = [worker EXCEPT ![w].pc = "next", ![w].want = want]
    /\ UNCHANGED <<db, fw, tasks, queue, events, forgotten, crossed>>

\* They cannot be read: every task of the batch is put off.
CollectFailed(w) ==
    /\ "unread" \in Events /\ At(w, "collect")
    /\ worker' = [worker EXCEPT ![w].pc = "next", ![w].kind = "recompute"]
    /\ UNCHANGED <<db, fw, tasks, queue, events, forgotten, crossed>>

\* After the local host, syncAllTargets goes on with the nodes there are now ...
ListNodes(w) ==
    /\ At(w, "next") /\ worker[w].kind = "local" /\ worker[w].todo = {}
    /\ worker' = [worker EXCEPT ![w].kind = "fleet", ![w].todo = JobsOf(nodes)]
    /\ UNCHANGED <<db, fw, tasks, queue, events, forgotten, crossed>>

\* ... or ends, with nothing queued for them.
ListNodesFailed(w) ==
    /\ "unread" \in Events
    /\ At(w, "next") /\ worker[w].kind = "local" /\ worker[w].todo = {}
    /\ Idle(w) /\ Forget(nodes)
    /\ UNCHANGED <<db, fw, tasks, queue, events, crossed>>

-----------------------------------------------------------------------------
(* reconcileLocal and reconcileNode on one target.                          *)

\* The next target, or the next task of the batch.
Pick(w) ==
    /\ At(w, "next")
    /\ \E j \in worker[w].todo :
          worker' = [worker EXCEPT
              ![w].pc = IF worker[w].kind = "recompute" THEN "failed" ELSE "list",
              ![w].job = j, ![w].todo = @ \ {j}]
    /\ UNCHANGED <<db, fw, tasks, queue, events, forgotten, crossed>>

Finish(w) ==
    /\ At(w, "next") /\ worker[w].todo = {} /\ worker[w].kind # "local"
    /\ Idle(w)
    /\ UNCHANGED <<db, fw, tasks, queue, events, forgotten, crossed>>

\* What the worker's error paths see of its target before they list its rules.
Retrying(w) == worker[w].kind \in {"retry", "recompute"}
Gone(w) == worker[w].job.t \in Nodes \ nodes
Permanent(w) == MachineOf(worker[w].job.t) \in Inactive /\ ~Gone(w)

\* Between the listing at a machine and the outcome.
TreatingAt(m) == {w \in Workers : worker[w].pc \in {"apply", "ok"} /\ worker[w].at = m}

\* A worker that goes by older inbounds, with no newer reconciliation to start.
Outdated(w) == worker[w].want # want /\ syncs = 0

\* The node is read, dialled and its rules are listed.  For the targets at this machine
\* nothing is promised when another worker treats it too, or this one is outdated.
List(w) ==
    /\ At(w, "list") /\ ~Gone(w) /\ ~Permanent(w)
    /\ LET m == MachineOf(worker[w].job.t)
           others == TreatingAt(m)
       IN  /\ worker' = [worker EXCEPT ![w].pc = "apply", ![w].at = m,
                                       ![w].del = ToDelete(fw[m], worker[w].want),
                                       ![w].add = ToAdd(fw[m], worker[w].want)]
           /\ crossed' = IF others = {} THEN crossed ELSE crossed \cup others \cup {w}
           /\ Forget(IF others # {} \/ Outdated(w) THEN TargetsAt(m) ELSE {})
    /\ UNCHANGED <<db, fw, tasks, queue, events>>

\* Mutated form: a retry, too, takes a removed node for a failure.
ListGoneFailed(w) ==
    /\ At(w, "list") /\ Gone(w)
    /\ Goto(w, "failed")
    /\ UNCHANGED <<db, fw, tasks, queue, events, forgotten, crossed>>

\* The node was removed: a retry drops its task, a sync takes it for a failure.
ListGone(w) ==
    /\ At(w, "list") /\ Gone(w)
    /\ Goto(w, IF Retrying(w) THEN "ok" ELSE "failed")
    /\ UNCHANGED <<db, fw, tasks, queue, events, forgotten, crossed>>

\* A permanent error is not worth a retry, but syncOneNode queues one all the same.
ListPermanent(w) ==
    /\ At(w, "list") /\ Permanent(w)
    /\ Goto(w, IF worker[w].kind = "node" THEN "failed" ELSE "ok")
    /\ UNCHANGED <<db, fw, tasks, queue, events, forgotten, crossed>>

\* Mutated form: every failure is taken for a permanent one.
ListFailedForGood(w) ==
    /\ At(w, "list") /\ ~Gone(w)
    /\ Goto(w, IF worker[w].kind = "node" THEN "failed" ELSE "ok")
    /\ UNCHANGED <<db, fw, tasks, queue, events, forgotten, crossed>>

\* ufw, or the way to the node, fails.
ListFailed(w) ==
    /\ At(w, "list") /\ ~Gone(w)
    /\ Goto(w, "failed")
    /\ UNCHANGED <<db, fw, tasks, queue, events, forgotten, crossed>>

\* Mutated form: from the lowest number up.
DeleteUpwards(w) ==
    /\ At(w, "apply") /\ worker[w].del # {}
    /\ LET m == worker[w].at
           n == Min(worker[w].del)
       IN  /\ n \in Rows(m)
           /\ fw' = [fw EXCEPT ![m] = DeleteRow(@, n)]
           /\ worker' = [worker EXCEPT ![w].del = @ \ {n}]
    /\ UNCHANGED <<db, tasks, queue, events, forgotten, crossed>>

\* Rows are deleted by the numbers of the listing, from the highest down.
Delete(w) ==
    /\ At(w, "apply") /\ worker[w].del # {}
    /\ LET m == worker[w].at
           n == Max(worker[w].del)
       IN  /\ n \in Rows(m)
           /\ fw' = [fw EXCEPT ![m] = DeleteRow(@, n)]
           /\ worker' = [worker EXCEPT ![w].del = @ \ {n}]
    /\ UNCHANGED <<db, tasks, queue, events, forgotten, crossed>>

AllowRule(w) ==
    /\ At(w, "apply") /\ worker[w].del = {}
    /\ \E r \in worker[w].add :
          /\ fw' = [fw EXCEPT ![worker[w].at] = Allow(@, r)]
          /\ worker' = [worker EXCEPT ![w].add = @ \ {r}]
    /\ UNCHANGED <<db, tasks, queue, events, forgotten, crossed>>

\* Mutated form: the error of a ufw command is not returned.
ApplyFailedUnseen(w) ==
    /\ At(w, "apply") /\ worker[w].del \cup worker[w].add # {}
    /\ worker' = [worker EXCEPT ![w].pc = "ok", ![w].del = {}, ![w].add = {}]
    /\ UNCHANGED <<db, fw, tasks, queue, events, forgotten, crossed>>

\* A ufw command fails (so does the deletion of a number there is no row for), or
\* the connection to the node breaks: the rest of the plan is dropped.
ApplyFailed(w) ==
    /\ At(w, "apply") /\ worker[w].del \cup worker[w].add # {}
    /\ worker' = [worker EXCEPT ![w].pc = "failed", ![w].at = Nowhere,
                                 ![w].del = {}, ![w].add = {}]
    /\ UNCHANGED <<db, fw, tasks, queue, events, forgotten, crossed>>

Applied(w) ==
    /\ At(w, "apply") /\ worker[w].del \cup worker[w].add = {}
    /\ Goto(w, "ok")
    /\ UNCHANGED <<db, fw, tasks, queue, events, forgotten, crossed>>

-----------------------------------------------------------------------------
(* The outcome for one target, and the queue.                               *)

\* On to the next target or task.
NextJob(w) ==
    /\ worker' = [worker EXCEPT ![w].pc = "next", ![w].job = NoTask, ![w].at = Nowhere]
    /\ crossed' = crossed \ {w}

\* A worker whose work does not count: crossed, outdated, or done where its target is not.
Vain(w) == w \in crossed \/ Outdated(w) \/ worker[w].at # MachineOf(worker[w].job.t)

\* A retry that succeeded deletes its task, whether or not its work counts; a sync
\* leaves the queue alone.
Succeeded(w) ==
    /\ At(w, "ok")
    /\ tasks' = IF Retrying(w) THEN [tasks EXCEPT ![worker[w].job.id] = NoRow] ELSE tasks
    /\ NextJob(w) /\ Forget(IF Retrying(w) /\ Vain(w) THEN {worker[w].job.t} ELSE {})
    /\ UNCHANGED <<db, fw, queue, events>>

\* The deletion fails: the task stays due.
SucceededUndeleted(w) ==
    /\ "unqueued" \in Events /\ At(w, "ok") /\ Retrying(w)
    /\ NextJob(w)
    /\ UNCHANGED <<db, fw, tasks, queue, events, forgotten>>

\* updateTaskFailure saves the task as the batch read it, even if it is gone.
PutOff(w) ==
    /\ At(w, "failed") /\ Retrying(w)
    /\ Save(worker[w].job.id, worker[w].job.t, "later")
    /\ NextJob(w)
    /\ UNCHANGED <<db, fw, queue, events, forgotten>>

\* upsertFailedTask looks for a row of the target ...
FindTask(w) ==
    /\ At(w, "failed") /\ ~Retrying(w)
    /\ LET found == QueuedFor(worker[w].job.t)
       IN  \E i \in (IF found = {} THEN {0} ELSE found) :
              worker' = [worker EXCEPT ![w].pc = "upsert", ![w].job.id = i]
    /\ UNCHANGED <<db, fw, tasks, queue, events, forgotten, crossed>>

\* ... and saves that one or a new one.
UpsertTask(w) ==
    /\ At(w, "upsert")
    /\ \E i \in (IF worker[w].job.id = 0 THEN FreeIds ELSE {worker[w].job.id}) :
          Save(i, worker[w].job.t, "later")
    /\ NextJob(w)
    /\ UNCHANGED <<db, fw, queue, events, forgotten>>

\* The lookup, or the save, of a task fails and is only logged: the failure of the
\* target is lost, unless the queue holds a task of it.
Unqueued(w) ==
    /\ "unqueued" \in Events
    /\ At(w, "upsert") \/ At(w, "failed")
    /\ NextJob(w)
    /\ Forget(IF QueuedFor(worker[w].job.t) = {} THEN {worker[w].job.t} ELSE {})
    /\ UNCHANGED <<db, fw, tasks, queue, events>>

-----------------------------------------------------------------------------
(* What happens around the workers.                                         *)

\* next_run_at is reached.
TaskDue(i) ==
    /\ tasks[i].st = "later"
    /\ tasks' = [tasks EXCEPT ![i].st = "due"]
    /\ UNCHANGED <<db, fw, queue, worker, events, forgotten, crossed>>

Event(e) == e \in Events /\ events < MaxEvents /\ events' = events + 1

\* Mutated form: the save triggers a reconciliation, and so does its caller.
SaveInboundsTwice ==
    /\ Event("save")
    /\ want' \in SUBSET Rules \ {want}
    /\ syncs' = syncs + 2 /\ forgotten' = {}
    /\ UNCHANGED <<nodes, addr, fw, tasks, nodeSyncs, worker, crossed>>

\* Mutated form: no second full reconciliation while one is running.
SaveInboundsCoalesced ==
    /\ Event("save")
    /\ want' \in SUBSET Rules \ {want}
    /\ syncs' = IF \E w \in Workers : worker[w].kind \in {"local", "fleet"} THEN syncs ELSE syncs + 1
    /\ forgotten' = {}
    /\ UNCHANGED <<nodes, addr, fw, tasks, nodeSyncs, worker, crossed>>

\* ConfigService.Save of an inbound commits, then triggers a full reconciliation.
SaveInbounds ==
    /\ Event("save")
    /\ want' \in SUBSET Rules \ {want}
    /\ syncs' = syncs + 1 /\ forgotten' = {}
    /\ UNCHANGED <<nodes, addr, fw, tasks, nodeSyncs, worker, crossed>>

\* DeployNode, and an administrator who asks for one node or for everything.
DeployNode(n) ==
    /\ Event("deploy") /\ n \in nodes
    /\ nodeSyncs' = nodeSyncs \cup {n} /\ forgotten' = forgotten \ {n}
    /\ UNCHANGED <<db, fw, tasks, syncs, worker, crossed>>

AskForSync ==
    /\ Event("ask")
    /\ syncs' = syncs + 1 /\ forgotten' = {}
    /\ UNCHANGED <<db, fw, tasks, nodeSyncs, worker, crossed>>

\* NodeService.Create, and Update, which can re-address a node: neither triggers a
\* reconciliation, and a worker that is connected goes on at the old address.
SaveNode(n) ==
    /\ Event("node")
    /\ nodes' = nodes \cup {n}
    /\ \E m \in Machines : addr' = [addr EXCEPT ![n] = m]
    /\ Forget({n})
    /\ UNCHANGED <<want, fw, tasks, queue, worker, crossed>>

RemoveNode(n) ==
    /\ Event("remove") /\ n \in nodes
    /\ nodes' = nodes \ {n}
    /\ UNCHANGED <<want, addr, fw, tasks, queue, worker, forgotten, crossed>>

\* ClearTasks of one scope, of one node, or of everything.
ClearTasks ==
    /\ Event("clear")
    /\ \E ts \in {Targets, {Local}, Nodes} \cup {{n} : n \in Nodes} :
          /\ tasks' = [i \in TaskIds |-> IF tasks[i].t \in ts THEN NoRow ELSE tasks[i]]
          /\ Forget({t \in ts : QueuedFor(t) # {}})
    /\ UNCHANGED <<db, fw, queue, worker, crossed>>

\* The panel stops anywhere and starts again: goroutines are gone, the queue stays,
\* and starting triggers a full reconciliation.
Crash ==
    /\ Event("crash")
    /\ worker' = [w \in Workers |-> IdleWorker]
    /\ syncs' = 1 /\ nodeSyncs' = {}
    /\ forgotten' = {} /\ crossed' = {}
    /\ UNCHANGED <<db, fw, tasks>>

Begin(w) == StartSync(w) \/ StartNodeSync(w) \/ SyncUnread(w) \/ StartRetry(w)

Plan(w) ==
    \/ Collect(w) \/ CollectFailed(w) \/ ListNodes(w) \/ ListNodesFailed(w)
    \/ Pick(w) \/ Finish(w)

Reconcile(w) ==
    \/ List(w) \/ ListGone(w) \/ ListPermanent(w) \/ ListFailed(w)
    \/ Delete(w) \/ AllowRule(w) \/ ApplyFailed(w) \/ Applied(w)

Settle(w) ==
    \/ Succeeded(w) \/ SucceededUndeleted(w) \/ PutOff(w)
    \/ FindTask(w) \/ UpsertTask(w) \/ Unqueued(w)

Continue(w) == Plan(w) \/ Reconcile(w) \/ Settle(w)

Happens ==
    \/ SaveInbounds \/ AskForSync \/ ClearTasks \/ Crash
    \/ \E n \in Nodes : DeployNode(n) \/ SaveNode(n) \/ RemoveNode(n)

Next ==
    \/ \E w \in Workers : Begin(w) \/ Continue(w)
    \/ \E i \in TaskIds : TaskDue(i)
    \/ Happens

Spec == Init /\ [][Next]_vars

\* Goroutines are scheduled, those that were spawned run, time passes, and the
\* cron job keeps taking the due tasks.  A read, a listing or a ufw command that
\* is tried over and over is not refused every time.
Fairness ==
    /\ \A i \in TaskIds : WF_vars(TaskDue(i))
    /\ \A w \in Workers :
          /\ WF_vars(Continue(w))
          /\ SF_vars(StartSync(w) \/ StartNodeSync(w)) /\ SF_vars(StartRetry(w))
          /\ SF_vars(Collect(w)) /\ SF_vars(List(w) \/ ListPermanent(w))
          /\ SF_vars(Delete(w)) /\ SF_vars(AllowRule(w)) /\ SF_vars(Succeeded(w))
FairSpec == Spec /\ Fairness

-----------------------------------------------------------------------------
(* Properties.                                                              *)

ManualRows(rows) == {n \in DOMAIN rows : rows[n] = Manual}

\* "Non-tagged/manual rules remain untouched": no step removes, or adds, a row
\* that does not carry our comment, at any machine.
ForeignUntouched ==
    [][\A m \in Machines : Cardinality(ManualRows(fw'[m])) = Cardinality(ManualRows(fw[m]))]_vars

\* Targets that reconciliation is answerable for.
Managed == {t \in {Local} \cup nodes : MachineOf(t) \notin Inactive}

\* A worker that works from the current inbounds and is not done with target t, or
\* that will put its task back into the queue.
Covers(w, t) ==
    /\ worker[w].pc # "idle"
    /\ worker[w].want = want \/ worker[w].pc = "collect" \/ worker[w].kind = "recompute"
    /\ \/ \E j \in worker[w].todo : j.t = t
       \/ worker[w].kind = "local" /\ t # Local
       \/ worker[w].job.t = t /\ worker[w].pc \in {"list", "failed", "upsert"}
       \/ /\ worker[w].job.t = t /\ worker[w].pc \in {"apply", "ok"}
          /\ w \notin crossed /\ worker[w].at = MachineOf(t)

\* Whenever the managed rules of a target differ from what the inbounds need,
\* something still to come repairs them: a reconciliation, spawned or under way
\* with the current inbounds, or a row in the retry queue.  What makes the code forget
\* a target until the next trigger is, and is only: inbounds or nodes that cannot be
\* read, a failure that cannot be queued, a queue that is cleared, a node created or
\* re-addressed, two workers at one machine, a worker with older inbounds that
\* starts on a target after the newest reconciliation has started, and a retry whose
\* work does not count.
NoLostDrift ==
    \A t \in Managed \ forgotten : Ours(t) # want =>
        \/ syncs > 0 \/ t \in nodeSyncs \/ QueuedFor(t) # {}
        \/ \E w \in Workers : Covers(w, t)

\* Every managed firewall that nothing made the code forget ends up, for good, with
\* exactly the rules it needs.
Converges == <>[](\A t \in Managed \ forgotten : Ours(t) = want)

\* Retries end: once nothing happens any more, the queue empties for good.
QueueDrains == <>[](Queued = {})

=============================================================================
