--------------------------- MODULE PortSyncProofs ---------------------------
(***************************************************************************)
(* For any number of rules, nodes, machines, events and overlapping        *)
(* workers: PortSync is type correct, rows of the administrator are left   *)
(* alone as long as no two workers delete at one machine, and no drift is  *)
(* forgotten but for the causes that NoLostDrift names.                    *)
(***************************************************************************)
EXTENDS PortSync, FiniteSetTheorems, TLAPS

USE TargetsAssumption, RowsAssumption, TasksAssumption, BoundAssumption DEF db, queue

-----------------------------------------------------------------------------
(* The lists of ufw.                                                       *)

\* A non-empty bounded set of numbers has a greatest one.
LEMMA Greatest ==
  ASSUME NEW S \in SUBSET Nat, S # {}, NEW b \in Nat, \A x \in S : x <= b
  PROVE  Max(S) \in S /\ \A x \in S : x <= Max(S)
<1> DEFINE T == {b - x : x \in S}
           R == {p \in Nat \X Nat : p[1] < p[2]}
<1>1. T \subseteq Nat /\ T # {}
  <2>1. \A x \in S : b - x \in Nat  OBVIOUS
  <2>2. PICK x \in S : TRUE  OBVIOUS
  <2>3. b - x \in T  OBVIOUS
  <2>4. QED  BY <2>1, <2>3
<1>2. IsWellFoundedOn(R, Nat)  BY NatLessThanWellFounded DEF OpToRel
<1> HIDE DEF R
<1>3. PICK m \in T : \A y \in T : ~ (<<y, m>> \in R)  BY <1>1, <1>2, WFMin
<1>4. ASSUME NEW y \in T PROVE m <= y
  <2>1. y \in Nat /\ m \in Nat  BY <1>1
  <2>2. y < m => <<y, m>> \in R  BY <2>1 DEF R
  <2>3. ~(y < m)  BY <1>3, <2>2
  <2> HIDE DEF T
  <2>4. QED  BY <2>1, <2>3
<1>5. PICK z \in S : m = b - z  BY <1>3
<1>6. \A x \in S : z >= x
  <2> SUFFICES ASSUME NEW x \in S PROVE z >= x
    OBVIOUS
  <2>1. b - x \in T  OBVIOUS
  <2>2. b - z <= b - x  BY <1>4, <1>5, <2>1
  <2>3. QED  BY <2>2
<1>7. \E x \in S : \A y \in S : x >= y  BY <1>6
<1>8. Max(S) \in S /\ \A y \in S : Max(S) >= y  BY <1>7 DEF Max
<1>9. QED  BY <1>8

\* Without row n, the rows below it move up.
LEMMA Deleted ==
  ASSUME NEW S, NEW rows \in Seq(S), NEW n \in DOMAIN rows
  PROVE  /\ DeleteRow(rows, n) \in Seq(S)
         /\ DOMAIN DeleteRow(rows, n) = 1..(Len(rows) - 1)
         /\ \A m \in 1..(Len(rows) - 1) :
               DeleteRow(rows, n)[m] = IF m < n THEN rows[m] ELSE rows[m + 1]
<1> DEFINE a == SubSeq(rows, 1, n - 1)
           b == SubSeq(rows, n + 1, Len(rows))
<1>1. n \in 1..Len(rows) /\ Len(rows) \in Nat  OBVIOUS
<1>2. a \in Seq(S) /\ Len(a) = n - 1 /\ \A m \in 1..(n - 1) : a[m] = rows[m]  BY <1>1
<1>3. b \in Seq(S) /\ Len(b) = Len(rows) - n /\ \A m \in 1..(Len(rows) - n) : b[m] = rows[m + n]
  BY <1>1
<1> HIDE DEF a, b
<1>4. a \o b \in Seq(S) /\ Len(a \o b) = Len(rows) - 1  BY <1>1, <1>2, <1>3
<1>5. \A m \in 1..(Len(rows) - 1) : (a \o b)[m] = IF m < n THEN rows[m] ELSE rows[m + 1]
  BY <1>1, <1>2, <1>3
<1>6. DeleteRow(rows, n) = a \o b  BY DEF DeleteRow, RemoveAt, a, b
<1>7. QED  BY <1>4, <1>5, <1>6

LEMMA Allowed ==
  ASSUME NEW S, NEW rows \in Seq(S), NEW r \in S
  PROVE  /\ Allow(rows, r) \in Seq(S)
         /\ ToSet(Allow(rows, r)) = ToSet(rows) \cup {r}
         /\ Allow(rows, r) = rows \/ Allow(rows, r) = Append(rows, r)
<1>1. Append(rows, r) \in Seq(S)  OBVIOUS
<1>2. /\ Len(Append(rows, r)) = Len(rows) + 1 /\ Append(rows, r)[Len(rows) + 1] = r
      /\ \A m \in 1..Len(rows) : Append(rows, r)[m] = rows[m]
      /\ DOMAIN Append(rows, r) = 1..(Len(rows) + 1) /\ DOMAIN rows = 1..Len(rows) /\ Len(rows) \in Nat
  OBVIOUS
<1>3. ToSet(Append(rows, r)) = ToSet(rows) \cup {r}
  BY <1>2 DEF ToSet
<1>4. QED  BY <1>1, <1>3 DEF Allow

\* Deleting a row that is not the administrator's keeps all of theirs.
LEMMA ManualKept ==
  ASSUME NEW rows \in Seq(Rules \cup {Manual}), NEW n \in DOMAIN rows, rows[n] # Manual
  PROVE  Cardinality(ManualRows(DeleteRow(rows, n))) = Cardinality(ManualRows(rows))
<1> DEFINE S == ManualRows(rows)
           less == DeleteRow(rows, n)
           T == ManualRows(less)
           f == [k \in S |-> IF k < n THEN k ELSE k - 1]
<1>1. /\ DOMAIN less = 1..(Len(rows) - 1) /\ Len(rows) \in Nat /\ n \in 1..Len(rows)
      /\ DOMAIN rows = 1..Len(rows)
      /\ \A m \in 1..(Len(rows) - 1) : less[m] = IF m < n THEN rows[m] ELSE rows[m + 1]
  BY Deleted
<1> HIDE DEF less
<1>2. S = {k \in 1..Len(rows) : rows[k] = Manual} /\ n \notin S  BY <1>1 DEF ManualRows
<1>3. T = {k \in 1..(Len(rows) - 1) : less[k] = Manual}  BY <1>1 DEF ManualRows
<1> HIDE DEF S, T
<1>4. \A k \in S : f[k] \in T  BY <1>1, <1>2, <1>3
<1>5. \A k, l \in S : f[k] = f[l] => k = l  BY <1>1, <1>2
<1>6. \A m \in T : \E k \in S : f[k] = m
  <2> SUFFICES ASSUME NEW m \in T PROVE \E k \in S : f[k] = m
    OBVIOUS
  <2>1. CASE m < n
    <3>1. m \in S /\ f[m] = m  BY <1>1, <1>2, <1>3, <2>1
    <3>2. QED  BY <3>1
  <2>2. CASE ~(m < n)
    <3>1. m + 1 \in S /\ f[m + 1] = m  BY <1>1, <1>2, <1>3, <2>2
    <3>2. QED  BY <3>1
  <2>3. QED  BY <2>1, <2>2
<1>7. f \in Bijection(S, T)
  BY <1>4, <1>5, <1>6 DEF Bijection, Injection, Surjection, IsInjective
<1>8. IsFiniteSet(S)
  <2>1. IsFiniteSet(1..Len(rows))  BY <1>1, FS_Interval
  <2>2. QED  BY <1>2, <2>1, FS_Subset
<1>9. ExistsBijection(S, T)  BY <1>7 DEF ExistsBijection
<1>10. Cardinality(T) = Cardinality(S)  BY <1>8, <1>9, FS_Bijection
<1>11. QED  BY <1>10 DEF S, T, less

-----------------------------------------------------------------------------
(* Types.                                                                  *)

States == [pc : {"idle", "collect", "next", "list", "apply", "ok", "failed", "upsert"},
           kind : {"none", "local", "fleet", "node", "retry", "recompute"}, want : SUBSET Rules,
           todo : SUBSET Jobs, job : Jobs, at : Machines \cup {Nowhere}, del : SUBSET Nat,
           add : SUBSET Rules]

\* A process triggers one reconciliation when it starts, and one for each event.
Triggers == syncs <= events + 1

LEMMA Blanks ==
  /\ Local \in Targets /\ Nodes \subseteq Targets /\ NoTask \in Jobs
  /\ IdleWorker \in States /\ IdleWorker.pc = "idle" /\ IdleWorker.todo = {} /\ IdleWorker.job = NoTask
  /\ IdleWorker.at = Nowhere /\ IdleWorker.kind = "none"
  /\ NoRow \in [t : Targets, st : {"none", "due", "later"}] /\ NoRow.st = "none"
<1>1. Local \in Targets /\ Nodes \subseteq Targets  BY DEF Targets
<1>2. NoTask \in Jobs  BY <1>1 DEF NoTask, Jobs
<1>3. QED  BY <1>1, <1>2 DEF IdleWorker, NoRow, States

LEMMA TypeInit == Init => TypeOK /\ Triggers
<1> SUFFICES ASSUME Init PROVE TypeOK /\ Triggers
  OBVIOUS
<1>1. worker \in [Workers -> States]  BY Blanks DEF Init
<1>2. fw \in [Machines -> Seq(Rules \cup {Manual})]  BY DEF Init
<1>3. tasks \in [TaskIds -> [t : Targets, st : {"none", "due", "later"}]]  BY Blanks DEF Init
<1>4. syncs \in 0..(MaxEvents + 1) /\ events \in 0..MaxEvents /\ syncs <= events + 1
  BY DEF Init
<1>5. QED  BY <1>1, <1>2, <1>3, <1>4 DEF Init, TypeOK, States, Triggers

\* The record of a worker that goes on.
LEMMA Turn ==
  ASSUME TypeOK, NEW w \in Workers, NEW q, worker' = [worker EXCEPT ![w] = q]
  PROVE  /\ worker'[w] = q /\ \A v \in Workers \ {w} : worker'[v] = worker[v]
         /\ q \in States => worker' \in [Workers -> States]
<1>1. worker \in [Workers -> States]  BY DEF TypeOK, States
<1>2. QED  BY <1>1

LEMMA JobsType == \A ts \in SUBSET Targets : JobsOf(ts) \in SUBSET Jobs
  BY DEF JobsOf, Jobs

LEMMA LaunchType ==
  ASSUME TypeOK, NEW w \in Workers, NEW k \in {"local", "fleet", "node", "retry"},
         NEW l \in {"collect", "next"}, NEW desired \in SUBSET Rules, NEW jobs \in SUBSET Jobs,
         Launch(w, k, l, desired, jobs)
  PROVE  /\ worker' \in [Workers -> States] /\ \A v \in Workers \ {w} : worker'[v] = worker[v]
         /\ worker'[w].pc = l /\ worker'[w].kind = k /\ worker'[w].want = desired
         /\ worker'[w].todo = jobs /\ worker'[w].job = NoTask /\ worker'[w].at = Nowhere
<1> DEFINE q == [IdleWorker EXCEPT !.pc = l, !.kind = k, !.want = desired, !.todo = jobs]
<1>1. q \in States /\ q.pc = l /\ q.kind = k /\ q.want = desired /\ q.todo = jobs
      /\ q.job = NoTask /\ q.at = Nowhere
  BY Blanks DEF States
<1>2. worker' = [worker EXCEPT ![w] = q]  BY DEF Launch
<1> HIDE DEF q
<1>3. QED  BY <1>1, <1>2, Turn

LEMMA TypeBegin ==
  ASSUME TypeOK, Triggers, NEW w \in Workers, Begin(w)
  PROVE  TypeOK' /\ Triggers'
<1> USE DEF TypeOK, Triggers
<1>1. CASE StartSync(w)
  <2>1. worker' \in [Workers -> States]
    BY <1>1, LaunchType, JobsType, Blanks DEF StartSync
  <2>2. syncs' \in 0..(MaxEvents + 1) /\ syncs' <= events + 1  BY <1>1 DEF StartSync
  <2>3. QED  BY <1>1, <2>1, <2>2 DEF StartSync, States
<1>2. CASE StartNodeSync(w)
  <2>1. worker' \in [Workers -> States]
    BY <1>2, LaunchType, JobsType, Blanks DEF StartNodeSync
  <2>2. QED  BY <1>2, <2>1 DEF StartNodeSync, States
<1>3. CASE SyncUnread(w)
  <2>1. syncs' = syncs \/ (syncs > 0 /\ syncs' = syncs - 1)  BY <1>3 DEF SyncUnread
  <2>2. forgotten' \subseteq Targets  BY <1>3, Blanks DEF SyncUnread, Forget
  <2>3. nodeSyncs' \subseteq Nodes  BY <1>3 DEF SyncUnread
  <2>4. QED  BY <1>3, <2>1, <2>2, <2>3 DEF SyncUnread
<1>4. CASE StartRetry(w)
  <2>1. {[t |-> tasks[i].t, id |-> i] : i \in {i \in TaskIds : tasks[i].st = "due"}} \in SUBSET Jobs
    BY DEF Jobs
  <2>2. {} \in SUBSET Rules  OBVIOUS
  <2>3. worker' \in [Workers -> States]
    BY <1>4, <2>1, <2>2, LaunchType DEF StartRetry
  <2>4. QED  BY <1>4, <2>3 DEF StartRetry, States
<1>5. QED  BY <1>1, <1>2, <1>3, <1>4 DEF Begin

LEMMA PlanType ==
  ASSUME TypeOK, NEW w \in Workers, Plan(w)
  PROVE  worker' \in [Workers -> States] /\ \A v \in Workers \ {w} : worker'[v] = worker[v]
<1>1. worker \in [Workers -> States] /\ worker[w] \in States  BY DEF TypeOK, States
<1>2. want \in SUBSET Rules /\ nodes \subseteq Nodes  BY DEF TypeOK
<1>3. CASE Collect(w)  BY <1>1, <1>2, <1>3 DEF Collect, States
<1>4. CASE CollectFailed(w)  BY <1>1, <1>4 DEF CollectFailed, States
<1>5. CASE ListNodes(w)
  <2>1. JobsOf(nodes) \in SUBSET Jobs  BY <1>2, JobsType, Blanks
  <2>2. QED  BY <1>1, <1>5, <2>1 DEF ListNodes, States
<1>6. CASE ListNodesFailed(w) \/ Finish(w)
  BY <1>6, Turn, Blanks DEF ListNodesFailed, Finish, Idle
<1>7. CASE Pick(w)
  <2>1. PICK j \in worker[w].todo :
          worker' = [worker EXCEPT
              ![w].pc = IF worker[w].kind = "recompute" THEN "failed" ELSE "list",
              ![w].job = j, ![w].todo = @ \ {j}]
    BY <1>7 DEF Pick
  <2>2. j \in Jobs /\ worker[w].todo \ {j} \in SUBSET Jobs  BY <1>1 DEF States
  <2>3. QED  BY <1>1, <2>1, <2>2 DEF States
<1>8. QED  BY <1>3, <1>4, <1>5, <1>6, <1>7 DEF Plan

LEMMA ReconcileType ==
  ASSUME TypeOK, NEW w \in Workers, Reconcile(w)
  PROVE  /\ worker' \in [Workers -> States] /\ \A v \in Workers \ {w} : worker'[v] = worker[v]
         /\ fw' \in [Machines -> Seq(Rules \cup {Manual})]
         /\ forgotten' \subseteq Targets /\ crossed' \subseteq Workers
<1>1. worker \in [Workers -> States] /\ worker[w] \in States  BY DEF TypeOK, States
<1>2. /\ worker[w].job.t \in Targets /\ fw \in [Machines -> Seq(Rules \cup {Manual})]
      /\ MachineOf(worker[w].job.t) \in Machines /\ worker[w].at \in Machines \cup {Nowhere}
      /\ fw[MachineOf(worker[w].job.t)] \in Seq(Rules \cup {Manual})
      /\ forgotten \subseteq Targets /\ crossed \subseteq Workers
  <2>1. \A t \in Targets : MachineOf(t) \in Machines  BY DEF Targets, MachineOf, TypeOK
  <2>2. QED  BY <1>1, <2>1 DEF States, Jobs, TypeOK
<1>3. CASE List(w)
  <2> DEFINE m == MachineOf(worker[w].job.t)
             q == [worker[w] EXCEPT !.pc = "apply", !.at = m,
                                    !.del = ToDelete(fw[m], worker[w].want),
                                    !.add = ToAdd(fw[m], worker[w].want)]
  <2>1. ToDelete(fw[m], worker[w].want) \in SUBSET Nat
    <3>1. DOMAIN fw[m] \subseteq Nat  BY <1>2
    <3>2. QED  BY <3>1 DEF ToDelete
  <2>2. ToAdd(fw[m], worker[w].want) \in SUBSET Rules  BY <1>1 DEF ToAdd, States
  <2>3. q \in States  BY <1>1, <1>2, <2>1, <2>2 DEF States
  <2>4. worker' = [worker EXCEPT ![w] = q]  BY <1>3 DEF List
  <2>5. fw' = fw /\ crossed' \subseteq Workers /\ forgotten' \subseteq Targets
    BY <1>2, <1>3 DEF List, Forget, TreatingAt, TargetsAt
  <2> HIDE DEF q, m
  <2>6. QED  BY <1>2, <2>3, <2>4, <2>5, Turn
<1>4. CASE ListGone(w) \/ ListPermanent(w) \/ ListFailed(w) \/ Applied(w)
  <2>1. PICK l \in {"ok", "failed"} : Goto(w, l)
    BY <1>4 DEF ListGone, ListPermanent, ListFailed, Applied
  <2>2. UNCHANGED <<fw, forgotten, crossed>>
    BY <1>4 DEF ListGone, ListPermanent, ListFailed, Applied
  <2>3. QED  BY <1>1, <1>2, <2>1, <2>2 DEF States, Goto
<1>5. CASE ApplyFailed(w)
  <2> DEFINE q == [worker[w] EXCEPT !.pc = "failed", !.at = Nowhere, !.del = {}, !.add = {}]
  <2>1. q \in States /\ worker' = [worker EXCEPT ![w] = q] /\ UNCHANGED <<fw, forgotten, crossed>>
    BY <1>1, <1>5 DEF ApplyFailed, States
  <2> HIDE DEF q
  <2>2. QED  BY <1>2, <2>1, Turn
<1>6. CASE Delete(w)
  <2> DEFINE m == worker[w].at
             n == Max(worker[w].del)
  <2>1. /\ n \in Rows(m) /\ fw' = [fw EXCEPT ![m] = DeleteRow(@, n)]
        /\ worker' = [worker EXCEPT ![w].del = @ \ {n}] /\ UNCHANGED <<forgotten, crossed>>
    BY <1>6 DEF Delete
  <2>2. m \in Machines => DeleteRow(fw[m], n) \in Seq(Rules \cup {Manual})
    BY <1>2, <2>1, Deleted DEF Rows
  <2>3. m \notin Machines => fw' = fw  BY <1>2, <2>1
  <2>4. worker[w].del \ {n} \in SUBSET Nat  BY <1>1 DEF States
  <2>5. worker' \in [Workers -> States] /\ \A v \in Workers \ {w} : worker'[v] = worker[v]
    BY <1>1, <2>1, <2>4 DEF States
  <2>6. fw' \in [Machines -> Seq(Rules \cup {Manual})]  BY <1>2, <2>1, <2>2, <2>3
  <2>7. QED  BY <1>2, <2>1, <2>5, <2>6
<1>7. CASE AllowRule(w)
  <2> DEFINE m == worker[w].at
  <2>1. PICK r \in worker[w].add :
          /\ fw' = [fw EXCEPT ![m] = Allow(@, r)]
          /\ worker' = [worker EXCEPT ![w].add = @ \ {r}]
    BY <1>7 DEF AllowRule
  <2>2. r \in Rules \cup {Manual} /\ worker[w].add \ {r} \in SUBSET Rules  BY <1>1 DEF States
  <2>3. m \in Machines => Allow(fw[m], r) \in Seq(Rules \cup {Manual})  BY <1>2, <2>2, Allowed
  <2>4. m \notin Machines => fw' = fw  BY <1>2, <2>1
  <2>5. worker' \in [Workers -> States] /\ \A v \in Workers \ {w} : worker'[v] = worker[v]
    BY <1>1, <2>1, <2>2 DEF States
  <2>6. UNCHANGED <<forgotten, crossed>>  BY <1>7 DEF AllowRule
  <2>7. fw' \in [Machines -> Seq(Rules \cup {Manual})]  BY <1>2, <2>1, <2>3, <2>4
  <2>8. QED  BY <1>2, <2>5, <2>6, <2>7
<1>8. QED  BY <1>3, <1>4, <1>5, <1>6, <1>7 DEF Reconcile

LEMMA SettleType ==
  ASSUME TypeOK, NEW w \in Workers, Settle(w)
  PROVE  /\ worker' \in [Workers -> States] /\ \A v \in Workers \ {w} : worker'[v] = worker[v]
         /\ tasks' \in [TaskIds -> [t : Targets, st : {"none", "due", "later"}]]
         /\ forgotten' \subseteq Targets /\ crossed' \subseteq Workers
<1>1. worker \in [Workers -> States] /\ worker[w] \in States  BY DEF TypeOK, States
<1>2. worker[w].job.t \in Targets /\ worker[w].job.id \in TaskIds \cup {0} /\ worker[w].job \in Jobs
  BY <1>1 DEF States, Jobs
<1>3. tasks \in [TaskIds -> [t : Targets, st : {"none", "due", "later"}]]  BY DEF TypeOK
<1>4. [t |-> worker[w].job.t, st |-> "later"] \in [t : Targets, st : {"none", "due", "later"}]
  BY <1>2
<1>5. NextJob(w) => /\ worker' \in [Workers -> States]
                    /\ \A v \in Workers \ {w} : worker'[v] = worker[v]
                    /\ crossed' \subseteq Workers
  <2> DEFINE q == [worker[w] EXCEPT !.pc = "next", !.job = NoTask, !.at = Nowhere]
  <2>1. q \in States  BY <1>1, Blanks DEF States
  <2>2. NextJob(w) => worker' = [worker EXCEPT ![w] = q]  BY DEF NextJob
  <2> HIDE DEF q
  <2>3. NextJob(w) => crossed' \subseteq Workers  BY DEF NextJob, TypeOK
  <2>4. QED  BY <2>1, <2>2, <2>3, Turn
<1>0. forgotten' \subseteq Targets
  BY <1>2 DEF Settle, Succeeded, SucceededUndeleted, PutOff, FindTask, UpsertTask, Unqueued, Forget, TypeOK
<1>6. CASE Succeeded(w) \/ SucceededUndeleted(w) \/ Unqueued(w)
  <2>1. [tasks EXCEPT ![worker[w].job.id] = NoRow]
           \in [TaskIds -> [t : Targets, st : {"none", "due", "later"}]]
    BY <1>3, Blanks
  <2>2. QED  BY <1>0, <1>3, <1>5, <1>6, <2>1 DEF Succeeded, SucceededUndeleted, Unqueued
<1>7. CASE PutOff(w)  BY <1>0, <1>3, <1>4, <1>5, <1>7 DEF PutOff, Save
<1>8. CASE FindTask(w)
  <2>1. PICK i \in (IF QueuedFor(worker[w].job.t) = {} THEN {0} ELSE QueuedFor(worker[w].job.t)) :
          worker' = [worker EXCEPT ![w].pc = "upsert", ![w].job.id = i]
    BY <1>8 DEF FindTask
  <2>2. i \in TaskIds \cup {0}  BY <2>1 DEF QueuedFor, Queued
  <2>3. [worker[w].job EXCEPT !.id = i] \in Jobs  BY <1>2, <2>2 DEF Jobs
  <2> DEFINE q == [worker[w] EXCEPT !.pc = "upsert", !.job = [worker[w].job EXCEPT !.id = i]]
  <2>4. q \in States  BY <1>1, <2>3 DEF States
  <2>5. worker' = [worker EXCEPT ![w] = q]  BY <2>1
  <2> HIDE DEF q
  <2>6. QED  BY <1>0, <1>3, <1>8, <2>4, <2>5, Turn DEF FindTask, TypeOK
<1>9. CASE UpsertTask(w)
  <2>1. PICK i : Save(i, worker[w].job.t, "later")  BY <1>9 DEF UpsertTask
  <2>2. QED  BY <1>0, <1>3, <1>4, <1>5, <1>9, <2>1 DEF UpsertTask, Save
<1>10. QED  BY <1>6, <1>7, <1>8, <1>9 DEF Settle

LEMMA TypeContinue ==
  ASSUME TypeOK, Triggers, NEW w \in Workers, Continue(w)
  PROVE  TypeOK' /\ Triggers'
<1>1. CASE Plan(w)
  <2>1. /\ UNCHANGED <<want, nodes, addr, fw, tasks, syncs, nodeSyncs, events, crossed>>
        /\ forgotten' = forgotten \/ forgotten' = forgotten \cup nodes
    BY <1>1 DEF Plan, Collect, CollectFailed, ListNodes, ListNodesFailed, Pick, Finish, Forget
  <2>2. forgotten' \subseteq Targets  BY <2>1, Blanks DEF TypeOK
  <2>3. QED  BY <1>1, <2>1, <2>2, PlanType DEF TypeOK, Triggers, States
<1>2. CASE Reconcile(w)
  <2>1. UNCHANGED <<want, nodes, addr, tasks, syncs, nodeSyncs, events>>
    BY <1>2 DEF Reconcile, List, ListGone, ListPermanent, ListFailed, Delete, AllowRule,
                ApplyFailed, Applied
  <2>2. QED  BY <1>2, <2>1, ReconcileType DEF TypeOK, Triggers, States
<1>3. CASE Settle(w)
  <2>1. UNCHANGED <<want, nodes, addr, fw, syncs, nodeSyncs, events>>
    BY <1>3 DEF Settle, Succeeded, SucceededUndeleted, PutOff, FindTask, UpsertTask, Unqueued
  <2>2. QED  BY <1>3, <2>1, SettleType DEF TypeOK, Triggers, States
<1>4. QED  BY <1>1, <1>2, <1>3 DEF Continue

LEMMA TypeHappens ==
  ASSUME TypeOK, Triggers, Happens \/ \E i \in TaskIds : TaskDue(i)
  PROVE  TypeOK' /\ Triggers'
<1> USE DEF TypeOK, Triggers
<1>1. ASSUME NEW e, Event(e) PROVE events' = events + 1 /\ events' \in 0..MaxEvents
  BY <1>1 DEF Event
<1>2. CASE SaveInbounds \/ AskForSync
  <2>1. events' = events + 1 /\ events' \in 0..MaxEvents  BY <1>1, <1>2 DEF SaveInbounds, AskForSync
  <2>2. syncs' \in 0..(MaxEvents + 1) /\ syncs' <= events' + 1
    BY <1>2, <2>1 DEF SaveInbounds, AskForSync
  <2>3. /\ want' \in SUBSET Rules /\ UNCHANGED <<nodes, addr, fw, tasks, nodeSyncs, worker, crossed>>
        /\ forgotten' \subseteq Targets
    BY <1>2 DEF SaveInbounds, AskForSync
  <2>4. QED  BY <2>1, <2>2, <2>3
<1>3. CASE ClearTasks
  <2>1. events' = events + 1 /\ events' \in 0..MaxEvents  BY <1>1, <1>3 DEF ClearTasks
  <2>2. tasks' \in [TaskIds -> [t : Targets, st : {"none", "due", "later"}]]
    BY <1>3, Blanks DEF ClearTasks
  <2>3. forgotten' \subseteq Targets  BY <1>3, Blanks DEF ClearTasks, Forget
  <2>4. QED  BY <1>3, <2>1, <2>2, <2>3 DEF ClearTasks
<1>4. CASE Crash
  <2>1. events' = events + 1 /\ events' \in 0..MaxEvents  BY <1>1, <1>4 DEF Crash
  <2>2. syncs' \in 0..(MaxEvents + 1) /\ syncs' <= events' + 1  BY <1>4, <2>1 DEF Crash
  <2>3. worker' \in [Workers -> States]  BY <1>4, Blanks DEF Crash
  <2>4. QED  BY <1>4, <2>1, <2>2, <2>3 DEF Crash, States
<1>5. ASSUME NEW n \in Nodes, DeployNode(n) \/ SaveNode(n) \/ RemoveNode(n) PROVE TypeOK' /\ Triggers'
  <2>1. events' = events + 1 /\ events' \in 0..MaxEvents
    BY <1>1, <1>5 DEF DeployNode, SaveNode, RemoveNode
  <2>2. CASE SaveNode(n)
    <3>1. PICK m \in Machines : addr' = [addr EXCEPT ![n] = m]  BY <2>2 DEF SaveNode
    <3>2. addr' \in [Nodes -> Machines] /\ nodes' \subseteq Nodes /\ forgotten' \subseteq Targets
      BY <2>2, <3>1, Blanks DEF SaveNode, Forget
    <3>3. QED  BY <2>1, <2>2, <3>2 DEF SaveNode
  <2>3. CASE DeployNode(n) \/ RemoveNode(n)  BY <2>1, <2>3 DEF DeployNode, RemoveNode
  <2>4. QED  BY <1>5, <2>2, <2>3
<1>6. ASSUME NEW i \in TaskIds, TaskDue(i) PROVE TypeOK' /\ Triggers'
  <2>1. tasks' \in [TaskIds -> [t : Targets, st : {"none", "due", "later"}]]
    BY <1>6 DEF TaskDue
  <2>2. QED  BY <1>6, <2>1 DEF TaskDue
<1>7. QED  BY <1>2, <1>3, <1>4, <1>5, <1>6 DEF Happens

LEMMA TypeNext == TypeOK /\ Triggers /\ [Next]_vars => TypeOK' /\ Triggers'
<1> SUFFICES ASSUME TypeOK, Triggers, [Next]_vars PROVE TypeOK' /\ Triggers'
  OBVIOUS
<1>1. CASE UNCHANGED vars  BY <1>1 DEF vars, TypeOK, Triggers
<1>2. QED  BY <1>1, TypeBegin, TypeContinue, TypeHappens DEF Next

\* For any number of workers that overlap, rules, nodes and tasks the state keeps its
\* type; and no more reconciliations wait than were asked for.
THEOREM TypeCorrect == Spec => []TypeOK
<1>1. Spec => [](TypeOK /\ Triggers)  BY TypeInit, TypeNext, PTL DEF Spec
<1>2. QED  BY <1>1, PTL

-----------------------------------------------------------------------------
(* Rows of the administrator.                                              *)

\* The target of a worker, the machine it is connected to, and the row it deletes next.
Target(w) == worker[w].job.t
Spot(w) == worker[w].at
Doomed(w) == Max(worker[w].del)

\* A worker with a plan is at a machine, and one that has not listed yet is nowhere.
Placed(w) ==
  /\ At(w, "apply") => Spot(w) \in Machines
  /\ worker[w].pc \in {"idle", "collect", "next", "list"} => Spot(w) = Nowhere /\ w \notin crossed

\* The numbers a worker is about to delete are those of managed rows.
Aimed(w) ==
  At(w, "apply") => \A n \in worker[w].del : n \in Rows(Spot(w)) /\ fw[Spot(w)][n] \in Rules

\* No two workers have rows left to delete at one machine.
Deleting(w) == At(w, "apply") /\ worker[w].del # {}
Apart == \A v, w \in Workers : v # w /\ Deleting(v) /\ Deleting(w) => Spot(v) # Spot(w)

\* A worker that starts has no plan yet.
LEMMA Launched ==
  ASSUME TypeOK, NEW w \in Workers, Begin(w)
  PROVE  /\ UNCHANGED <<want, nodes, addr, fw, tasks, events, crossed>>
         /\ worker' = worker \/ (worker'[w].pc \in {"collect", "next"} /\ worker'[w].at = Nowhere)
         /\ worker[w].pc = "idle"
         /\ \A v \in Workers \ {w} : worker'[v] = worker[v]
<1>1. CASE StartSync(w)
  <2>1. JobsOf({Local}) \in SUBSET Jobs /\ want \in SUBSET Rules  BY JobsType, Blanks DEF TypeOK
  <2>2. Launch(w, "local", "next", want, JobsOf({Local}))  BY <1>1 DEF StartSync
  <2>3. /\ worker'[w].pc = "next" /\ worker'[w].at = Nowhere
        /\ \A v \in Workers \ {w} : worker'[v] = worker[v]
    BY <2>1, <2>2, LaunchType
  <2>4. QED  BY <1>1, <2>3 DEF StartSync, At
<1>2. CASE StartNodeSync(w)
  <2>1. PICK n \in nodeSyncs : Launch(w, "node", "next", want, JobsOf({n}))
    BY <1>2 DEF StartNodeSync
  <2>2. JobsOf({n}) \in SUBSET Jobs /\ want \in SUBSET Rules  BY JobsType, Blanks DEF TypeOK
  <2>3. /\ worker'[w].pc = "next" /\ worker'[w].at = Nowhere
        /\ \A v \in Workers \ {w} : worker'[v] = worker[v]
    BY <2>1, <2>2, LaunchType
  <2>4. QED  BY <1>2, <2>3 DEF StartNodeSync, At
<1>3. CASE SyncUnread(w)  BY <1>3 DEF SyncUnread, At
<1>4. CASE StartRetry(w)
  <2>1. {[t |-> tasks[i].t, id |-> i] : i \in {i \in TaskIds : tasks[i].st = "due"}} \in SUBSET Jobs
    BY DEF Jobs, TypeOK
  <2>2. {} \in SUBSET Rules  OBVIOUS
  <2>3. QED  BY <1>4, <2>1, <2>2, LaunchType DEF StartRetry, At
<1>5. QED  BY <1>1, <1>2, <1>3, <1>4 DEF Begin

LEMMA Planned ==
  ASSUME TypeOK, NEW w \in Workers, Plan(w)
  PROVE  /\ worker[w].pc \in {"collect", "next"} /\ worker'[w].pc \in {"idle", "next", "list", "failed"}
         /\ worker'[w].at \in {worker[w].at, Nowhere}
         /\ UNCHANGED <<want, nodes, addr, fw, tasks, syncs, nodeSyncs, events, crossed>>
<1>1. worker \in [Workers -> States] /\ worker[w] \in States  BY DEF TypeOK, States
<1>2. CASE Collect(w) \/ CollectFailed(w)
  BY <1>1, <1>2 DEF Collect, CollectFailed, States, At
<1>3. CASE ListNodes(w)  BY <1>1, <1>3 DEF ListNodes, At, States
<1>4. CASE ListNodesFailed(w) \/ Finish(w)
  BY <1>1, <1>4, Blanks DEF ListNodesFailed, Finish, Idle, At
<1>5. CASE Pick(w)  BY <1>1, <1>5 DEF Pick, States, At
<1>6. QED  BY <1>2, <1>3, <1>4, <1>5 DEF Plan

LEMMA Settled ==
  ASSUME TypeOK, NEW w \in Workers, Settle(w)
  PROVE  /\ worker[w].pc \in {"ok", "failed", "upsert"}
         /\ \/ worker'[w].pc = "next" /\ worker'[w].at = Nowhere /\ crossed' = crossed \ {w}
            \/ worker'[w].pc = "upsert" /\ crossed' = crossed
         /\ UNCHANGED <<want, nodes, addr, fw, syncs, nodeSyncs, events>>
<1>1. worker \in [Workers -> States] /\ worker[w] \in States  BY DEF TypeOK, States
<1>2. CASE Succeeded(w) \/ SucceededUndeleted(w) \/ PutOff(w) \/ UpsertTask(w) \/ Unqueued(w)
  BY <1>1, <1>2 DEF Succeeded, SucceededUndeleted, PutOff, UpsertTask, Unqueued, NextJob, States, At
<1>3. CASE FindTask(w)
  <2>1. PICK i : worker' = [worker EXCEPT ![w].pc = "upsert", ![w].job.id = i]
    BY <1>3 DEF FindTask
  <2>2. worker'[w].pc = "upsert"  BY <1>1, <2>1 DEF States
  <2>3. QED  BY <1>3, <2>2 DEF FindTask, At
<1>4. QED  BY <1>2, <1>3 DEF Settle

\* What a listing plans.
LEMMA Listed ==
  ASSUME TypeOK, NEW w \in Workers, List(w)
  PROVE  /\ Target(w) \in Targets /\ MachineOf(Target(w)) \in Machines
         /\ worker'[w].pc = "apply" /\ worker'[w].at = MachineOf(Target(w))
         /\ worker'[w].del = ToDelete(fw[MachineOf(Target(w))], worker[w].want)
         /\ worker'[w].add = ToAdd(fw[MachineOf(Target(w))], worker[w].want)
         /\ worker[w].pc = "list" /\ fw' = fw
<1> DEFINE m == MachineOf(Target(w))
<1>1. worker \in [Workers -> States] /\ worker[w] \in States  BY DEF TypeOK, States
<1>2. Target(w) \in Targets  BY <1>1 DEF States, Jobs, Target
<1>3. m \in Machines  BY <1>2 DEF MachineOf, Targets, TypeOK
<1>4. worker' = [worker EXCEPT ![w].pc = "apply", ![w].at = m,
                    ![w].del = ToDelete(fw[m], worker[w].want), ![w].add = ToAdd(fw[m], worker[w].want)]
  BY DEF List, Target
<1>5. worker[w].pc = "list" /\ fw' = fw  BY DEF List, At
<1> HIDE DEF m
<1>6. QED  BY <1>1, <1>2, <1>3, <1>4, <1>5 DEF m, States

\* What stays the same while a target is reconciled.
LEMMA Reconciled ==
  ASSUME TypeOK, NEW w \in Workers, Reconcile(w)
  PROVE  /\ worker'[w].want = worker[w].want /\ worker'[w].kind = worker[w].kind
         /\ worker'[w].todo = worker[w].todo /\ worker'[w].job = worker[w].job
         /\ worker[w].pc \in {"list", "apply"} /\ worker'[w].pc \in {"apply", "ok", "failed"}
         /\ UNCHANGED <<want, nodes, addr, tasks, syncs, nodeSyncs>>
         /\ \A m \in Machines \ {Spot(w)} : fw'[m] = fw[m]
         /\ ~List(w) => UNCHANGED <<forgotten, crossed>>
         /\ ~Delete(w) /\ ~AllowRule(w) => fw' = fw
         /\ List(w) \/ worker'[w].pc = "failed" \/ worker'[w].at = worker[w].at
<1>1. worker \in [Workers -> States] /\ worker[w] \in States /\ fw \in [Machines -> Seq(Rules \cup {Manual})]
  BY DEF TypeOK, States
<1>2. CASE List(w)  BY <1>1, <1>2 DEF List, States, At
<1>3. CASE ListGone(w) \/ ListPermanent(w) \/ ListFailed(w) \/ Applied(w)
  <2>1. PICK l \in {"ok", "failed"} : Goto(w, l)
    BY <1>3 DEF ListGone, ListPermanent, ListFailed, Applied
  <2>2. At(w, "list") \/ At(w, "apply")
    BY <1>3 DEF ListGone, ListPermanent, ListFailed, Applied
  <2>3. QED  BY <1>1, <1>3, <2>1, <2>2 DEF ListGone, ListPermanent, ListFailed, Applied, Goto, At, States
<1>4. CASE ApplyFailed(w)  BY <1>1, <1>4 DEF ApplyFailed, States, At
<1>5. CASE Delete(w)  BY <1>1, <1>5 DEF Delete, States, At, Spot
<1>6. CASE AllowRule(w)
  <2>1. PICK r \in worker[w].add :
          /\ fw' = [fw EXCEPT ![Spot(w)] = Allow(@, r)]
          /\ worker' = [worker EXCEPT ![w].add = @ \ {r}]
    BY <1>6 DEF AllowRule, Spot
  <2>2. QED  BY <1>1, <1>6, <2>1 DEF AllowRule, States, At
<1>7. QED  BY <1>2, <1>3, <1>4, <1>5, <1>6 DEF Reconcile

\* A worker that works at a machine is one of those that a listing there finds.
LEMMA PlacedKept ==
  ASSUME TypeOK, \A w \in Workers : Placed(w), [Next]_vars
  PROVE  \A w \in Workers : Placed(w)'
<1>1. ASSUME NEW w \in Workers, Begin(w) \/ Continue(w) PROVE \A v \in Workers : Placed(v)'
  <2>1. \A v \in Workers \ {w} : worker'[v] = worker[v]
    BY <1>1, Launched, PlanType, ReconcileType, SettleType DEF Continue
  <2>2. ASSUME NEW v \in Workers \ {w} PROVE Placed(v)'
    <3>1. v \in crossed' => v \in crossed \/ worker[v].pc \in {"apply", "ok"}
      <4>1. CASE List(w)  BY <4>1 DEF List, TreatingAt
      <4>2. CASE ~List(w)
        <5>1. crossed' = crossed \/ crossed' = crossed \ {w}
          BY <1>1, <4>2, Launched, Planned, Reconciled, Settled DEF Continue
        <5>2. QED  BY <5>1
      <4>3. QED  BY <4>1, <4>2
    <3>2. QED  BY <2>1, <2>2, <3>1 DEF Placed, At, Spot
  <2>3. Placed(w)'
    <3>1. CASE Begin(w)  BY <3>1, Launched DEF Placed, At, Spot
    <3>2. CASE Plan(w)  BY <3>2, Planned DEF Placed, At, Spot
    <3>3. CASE Settle(w)  BY <3>3, Settled DEF Placed, At, Spot
    <3>4. CASE List(w)
      <4>1. worker'[w].pc = "apply" /\ worker'[w].at \in Machines  BY <3>4, Listed
      <4>2. QED  BY <4>1 DEF Placed, At, Spot
    <3>5. CASE Reconcile(w) /\ ~List(w)
      <4>1. At(w, "list") => worker'[w].pc # "apply"
        <5>1. worker \in [Workers -> States]  BY DEF TypeOK, States
        <5>2. QED
          BY <3>5, <5>1 DEF Reconcile, ListGone, ListPermanent, ListFailed, Delete, AllowRule,
                            ApplyFailed, Applied, Goto, At, States
      <4>2. QED  BY <3>5, <4>1, Reconciled DEF Placed, At, Spot
    <3>6. QED  BY <1>1, <3>1, <3>2, <3>3, <3>4, <3>5 DEF Continue, Reconcile
  <2>4. QED  BY <2>2, <2>3
<1>2. CASE Crash
  <2>1. \A w \in Workers : worker'[w] = IdleWorker  BY <1>2 DEF Crash
  <2>2. crossed' = {}  BY <1>2 DEF Crash
  <2>3. QED  BY <2>1, <2>2, Blanks DEF Placed, At, Spot
<1>3. CASE \/ UNCHANGED vars \/ SaveInbounds \/ AskForSync \/ ClearTasks
           \/ \E n \in Nodes : DeployNode(n) \/ SaveNode(n) \/ RemoveNode(n)
           \/ \E i \in TaskIds : TaskDue(i)
  <2>1. UNCHANGED <<worker, crossed>>
    BY <1>3 DEF vars, SaveInbounds, AskForSync, ClearTasks, DeployNode, SaveNode, RemoveNode, TaskDue
  <2>2. QED  BY <2>1 DEF Placed, At, Spot
<1>4. QED  BY <1>1, <1>2, <1>3 DEF Next, Happens

\* The row a worker deletes, and the rest of its plan.
LEMMA Dropped ==
  ASSUME TypeOK, NEW w \in Workers, Delete(w), Aimed(w), Placed(w)
  PROVE  /\ Doomed(w) \in Rows(Spot(w)) /\ Doomed(w) \in worker[w].del
         /\ fw[Spot(w)][Doomed(w)] \in Rules /\ \A m \in worker[w].del \ {Doomed(w)} : m < Doomed(w)
         /\ fw' = [fw EXCEPT ![Spot(w)] = DeleteRow(fw[Spot(w)], Doomed(w))] /\ Spot(w) \in Machines
         /\ fw[Spot(w)] \in Seq(Rules \cup {Manual})
         /\ fw'[Spot(w)] = DeleteRow(fw[Spot(w)], Doomed(w))
         /\ worker'[w] = [worker[w] EXCEPT !.del = worker[w].del \ {Doomed(w)}]
<1> DEFINE t == Spot(w)
           n == Doomed(w)
<1>1. worker \in [Workers -> States] /\ worker[w] \in States  BY DEF TypeOK, States
<1>2. /\ t \in Machines /\ fw \in [Machines -> Seq(Rules \cup {Manual})]
      /\ fw[t] \in Seq(Rules \cup {Manual})
  BY DEF TypeOK, Placed, Delete
<1>3. \A m \in worker[w].del : m \in Rows(t) /\ fw[t][m] \in Rules  BY DEF Delete, Aimed
<1>4. Len(fw[t]) \in Nat /\ DOMAIN fw[t] = 1..Len(fw[t])  BY <1>2
<1>5. \A m \in worker[w].del : m \in Nat /\ m <= Len(fw[t])  BY <1>3, <1>4 DEF Rows
<1>6. worker[w].del \in SUBSET Nat /\ worker[w].del # {}  BY <1>5 DEF Delete
<1>7. n \in worker[w].del /\ \A m \in worker[w].del : m <= n
  BY <1>4, <1>5, <1>6, Greatest DEF Doomed
<1>8. /\ fw' = [fw EXCEPT ![t] = DeleteRow(fw[t], n)]
      /\ worker' = [worker EXCEPT ![w].del = worker[w].del \ {n}]
  BY DEF Delete, Spot, Doomed
<1>9. \A m \in worker[w].del \ {n} : m < n  BY <1>5, <1>7
<1>10. QED  BY <1>1, <1>2, <1>3, <1>7, <1>8, <1>9

\* What is left at a machine when another worker allows a rule there.
LEMMA AllowedThere ==
  ASSUME TypeOK, NEW w \in Workers, AllowRule(w), Placed(w)
  PROVE  \E r \in worker[w].add :
            /\ r \in Rules /\ Spot(w) \in Machines /\ fw[Spot(w)] \in Seq(Rules \cup {Manual})
            /\ fw' = [fw EXCEPT ![Spot(w)] = Allow(fw[Spot(w)], r)]
            /\ fw'[Spot(w)] = Allow(fw[Spot(w)], r)
            /\ worker'[w] = [worker[w] EXCEPT !.add = worker[w].add \ {r}]
<1>1. /\ worker \in [Workers -> States] /\ worker[w] \in States
      /\ fw \in [Machines -> Seq(Rules \cup {Manual})]
  BY DEF TypeOK, States
<1>2. PICK r \in worker[w].add :
          /\ fw' = [fw EXCEPT ![Spot(w)] = Allow(@, r)]
          /\ worker' = [worker EXCEPT ![w].add = @ \ {r}]
  BY DEF AllowRule, Spot
<1>3. r \in Rules  BY <1>1 DEF States
<1>4. Spot(w) \in Machines  BY DEF Placed, AllowRule
<1>5. QED  BY <1>1, <1>2, <1>3, <1>4

\* The numbers a worker holds stay right as long as no other deletes a row at its machine.
LEMMA AimedKept ==
  ASSUME TypeOK, \A w \in Workers : Placed(w), [Next]_vars, NEW v \in Workers, Aimed(v),
         \A w \in Workers \ {v} : Delete(w) /\ At(v, "apply") /\ worker[v].del # {} => Spot(w) # Spot(v)
  PROVE  Aimed(v)'
<1>1. ASSUME NEW w \in Workers, Reconcile(w), At(v, "apply")', NEW m \in worker'[v].del
      PROVE  m \in DOMAIN fw'[Spot(v)'] /\ fw'[Spot(v)'][m] \in Rules
  <2>1. worker \in [Workers -> States] /\ worker[w] \in States /\ Placed(w)  BY DEF TypeOK, States
  <2>2. CASE v = w
    <3>1. CASE List(w)
      <4> DEFINE h == MachineOf(Target(w))
      <4>1. fw' = fw /\ Spot(w)' = h /\ worker'[w].del = ToDelete(fw[h], worker[w].want)
        BY <3>1, Listed DEF Spot
      <4>2. QED  BY <1>1, <2>2, <4>1 DEF ToDelete
    <3>2. CASE ListGone(w) \/ ListPermanent(w) \/ ListFailed(w) \/ ApplyFailed(w) \/ Applied(w)
      <4>1. worker'[w].pc # "apply"
        BY <2>1, <3>2 DEF ListGone, ListPermanent, ListFailed, ApplyFailed, Applied, Goto, States
      <4>2. QED  BY <1>1, <2>2, <4>1 DEF At
    <3>3. CASE Delete(w)
      <4> DEFINE n == Doomed(w)
                 t == Spot(w)
                 rows == fw[t]
      <4>1. /\ n \in DOMAIN rows /\ \A k \in worker[w].del \ {n} : k < n
            /\ rows \in Seq(Rules \cup {Manual}) /\ fw'[t] = DeleteRow(rows, n)
            /\ worker'[w] = [worker[w] EXCEPT !.del = worker[w].del \ {n}]
        BY <2>1, <2>2, <3>3, Dropped DEF Rows
      <4>2. worker'[w].del = worker[w].del \ {n} /\ Spot(w)' = t  BY <2>1, <4>1 DEF States, Spot
      <4>3. \A k \in worker[w].del : k \in DOMAIN rows /\ rows[k] \in Rules
        BY <2>2, <3>3 DEF Delete, Aimed, Rows
      <4>4. m \in worker[w].del \ {n}  BY <1>1, <2>2, <4>2
      <4> HIDE DEF n, t, rows
      <4>5. Len(rows) \in Nat /\ DOMAIN rows = 1..Len(rows)  BY <4>1
      <4>6. m \in 1..(Len(rows) - 1) /\ m < n  BY <4>1, <4>3, <4>4, <4>5
      <4>7. m \in DOMAIN fw'[t] /\ fw'[t][m] \in Rules  BY <4>1, <4>3, <4>4, <4>6, Deleted
      <4>8. QED  BY <2>2, <4>2, <4>7
    <3>4. CASE AllowRule(w)
      <4>1. worker'[w].del = {}  BY <2>1, <3>4 DEF AllowRule, States
      <4>2. QED  BY <1>1, <2>2, <4>1
    <3>5. QED  BY <1>1, <3>1, <3>2, <3>3, <3>4 DEF Reconcile
  <2>3. CASE v # w
    <3>1. worker'[v] = worker[v] /\ Spot(v)' = Spot(v)  BY <1>1, <2>3, ReconcileType DEF Spot
    <3>2. /\ m \in worker[v].del /\ m \in DOMAIN fw[Spot(v)] /\ fw[Spot(v)][m] \in Rules
          /\ Spot(v) \in Machines /\ At(v, "apply")
      BY <1>1, <3>1 DEF Aimed, Placed, At, Rows, Spot
    <3>3. CASE fw'[Spot(v)] = fw[Spot(v)]  BY <3>1, <3>2, <3>3
    <3>4. CASE Spot(v) = Spot(w)
      <4>1. ~Delete(w)  BY <2>3, <3>2, <3>4
      <4>2. CASE AllowRule(w)
        <5>1. PICK r \in Rules : /\ fw[Spot(w)] \in Seq(Rules \cup {Manual})
                                 /\ fw'[Spot(w)] = Allow(fw[Spot(w)], r)
          BY <2>1, <4>2, AllowedThere
        <5> DEFINE rows == fw[Spot(v)]
        <5>2. rows \in Seq(Rules \cup {Manual}) /\ r \in Rules \cup {Manual} /\ fw'[Spot(v)] = Allow(rows, r)
          BY <3>4, <5>1
        <5> HIDE DEF rows
        <5>3. fw'[Spot(v)] = rows \/ fw'[Spot(v)] = Append(rows, r)  BY <5>2, Allowed
        <5>4. \A k \in DOMAIN rows : k \in DOMAIN Append(rows, r) /\ Append(rows, r)[k] = rows[k]
          BY <5>2
        <5>5. m \in DOMAIN rows /\ rows[m] \in Rules  BY <3>2 DEF rows
        <5>6. m \in DOMAIN fw'[Spot(v)] /\ fw'[Spot(v)][m] \in Rules  BY <5>3, <5>4, <5>5
        <5>7. QED  BY <3>1, <5>6
      <4>3. CASE ~AllowRule(w)  BY <1>1, <3>3, <4>1, <4>3, Reconciled
      <4>4. QED  BY <4>2, <4>3
    <3>5. CASE Spot(v) # Spot(w)  BY <1>1, <3>2, <3>3, <3>5, Reconciled
    <3>6. QED  BY <3>4, <3>5
  <2>4. QED  BY <2>2, <2>3
<1>2. ASSUME NEW w \in Workers, Begin(w) \/ Plan(w) \/ Settle(w) PROVE Aimed(v)'
  <2>1. fw' = fw /\ (worker' = worker \/ worker'[w].pc # "apply")
    BY <1>2, Launched, Planned, Settled
  <2>2. \A u \in Workers \ {w} : worker'[u] = worker[u]
    BY <1>2, Launched, PlanType, SettleType
  <2>3. At(v, "apply")' => worker'[v] = worker[v]  BY <2>1, <2>2 DEF At
  <2>4. QED  BY <2>1, <2>3 DEF Aimed, At, Rows, Spot
<1>3. CASE Crash
  <2>1. worker'[v].pc = "idle"  BY <1>3, Blanks DEF Crash
  <2>2. QED  BY <2>1 DEF Aimed, At
<1>4. CASE \/ UNCHANGED vars \/ SaveInbounds \/ AskForSync \/ ClearTasks
           \/ \E n \in Nodes : DeployNode(n) \/ SaveNode(n) \/ RemoveNode(n)
           \/ \E i \in TaskIds : TaskDue(i)
  <2>1. fw' = fw /\ worker' = worker
    BY <1>4 DEF vars, SaveInbounds, AskForSync, ClearTasks, DeployNode, SaveNode, RemoveNode, TaskDue
  <2>2. QED  BY <2>1 DEF Aimed, At, Rows, Spot
<1>5. ASSUME NEW w \in Workers, Reconcile(w) PROVE Aimed(v)'
  BY <1>1, <1>5 DEF Aimed, Rows, Spot
<1>6. QED  BY <1>2, <1>3, <1>4, <1>5 DEF Next, Continue, Happens

\* Only the deletion and the addition of managed rules change a firewall.
LEMMA ForeignKept ==
  ASSUME TypeOK, \A w \in Workers : Aimed(w) /\ Placed(w), [Next]_vars, NEW t \in Machines
  PROVE  Cardinality(ManualRows(fw'[t])) = Cardinality(ManualRows(fw[t]))
<1>1. ASSUME NEW w \in Workers, Delete(w)
      PROVE  Cardinality(ManualRows(fw'[t])) = Cardinality(ManualRows(fw[t]))
  <2> DEFINE u == Spot(w)
             n == Doomed(w)
  <2>1. /\ n \in DOMAIN fw[u] /\ fw[u][n] \in Rules
        /\ fw[u] \in Seq(Rules \cup {Manual}) /\ fw'[u] = DeleteRow(fw[u], n)
        /\ fw' = [fw EXCEPT ![u] = DeleteRow(fw[u], n)]
    BY <1>1, Dropped DEF Rows
  <2> HIDE DEF u, n
  <2>2. Cardinality(ManualRows(fw'[u])) = Cardinality(ManualRows(fw[u]))
    BY <2>1, ManualKept
  <2>3. t # u => fw'[t] = fw[t]  BY <2>1
  <2>4. QED  BY <2>2, <2>3
<1>2. ASSUME NEW w \in Workers, AllowRule(w)
      PROVE  Cardinality(ManualRows(fw'[t])) = Cardinality(ManualRows(fw[t]))
  <2> DEFINE u == Spot(w)
  <2>1. PICK r \in Rules : /\ fw[u] \in Seq(Rules \cup {Manual}) /\ fw'[u] = Allow(fw[u], r)
                           /\ fw' = [fw EXCEPT ![u] = Allow(fw[u], r)]
    BY <1>2, AllowedThere
  <2> HIDE DEF u
  <2>2. r # Manual  OBVIOUS
  <2>3. Allow(fw[u], r) = fw[u] \/ Allow(fw[u], r) = Append(fw[u], r)  BY DEF Allow
  <2>4. ManualRows(Append(fw[u], r)) = ManualRows(fw[u])
    <3>1. /\ DOMAIN Append(fw[u], r) = 1..(Len(fw[u]) + 1) /\ DOMAIN fw[u] = 1..Len(fw[u])
          /\ Len(fw[u]) \in Nat /\ Append(fw[u], r)[Len(fw[u]) + 1] = r
          /\ \A m \in 1..Len(fw[u]) : Append(fw[u], r)[m] = fw[u][m]
      BY <2>1
    <3>2. QED  BY <2>2, <3>1 DEF ManualRows
  <2>5. ManualRows(fw'[u]) = ManualRows(fw[u])  BY <2>1, <2>3, <2>4
  <2>6. t # u => fw'[t] = fw[t]  BY <2>1
  <2>7. QED  BY <2>5, <2>6
<1>3. CASE fw' = fw  BY <1>3
<1>4. ASSUME NEW w \in Workers, Reconcile(w), ~Delete(w), ~AllowRule(w) PROVE fw' = fw
  BY <1>4, Reconciled
<1>5. ASSUME NEW w \in Workers, Begin(w) \/ Plan(w) \/ Settle(w) PROVE fw' = fw
  BY <1>5, Launched, Planned, Settled
<1>6. Happens \/ (\E i \in TaskIds : TaskDue(i)) \/ UNCHANGED vars => fw' = fw
  BY DEF Happens, SaveInbounds, AskForSync, ClearTasks, Crash, DeployNode, SaveNode, RemoveNode,
         TaskDue, vars
<1>7. QED  BY <1>1, <1>2, <1>3, <1>4, <1>5, <1>6 DEF Next, Continue

\* The type of the state, and where the workers are.
Basics == TypeOK /\ Triggers /\ \A w \in Workers : Placed(w)

LEMMA BasicsInit == Init => Basics /\ \A w \in Workers : worker[w] = IdleWorker
<1>1. ASSUME Init, NEW w \in Workers PROVE worker[w] = IdleWorker /\ Placed(w)
  BY <1>1, Blanks DEF Init, Placed, At, Spot
<1>2. QED  BY <1>1, TypeInit DEF Basics

LEMMA BasicsNext == Basics /\ [Next]_vars => Basics'
  BY TypeNext, PlacedKept DEF Basics

\* For any number of workers, rules, machines and nodes, any firewalls and any failures: as
\* long as no two workers have rows left to delete at one machine, no step deletes, or
\* adds, a row without our comment.
THEOREM ForeignHolds == Spec /\ []Apart => ForeignUntouched
<1> DEFINE Inv == Basics /\ \A w \in Workers : Aimed(w)
           Same == \A m \in Machines :
                     Cardinality(ManualRows(fw'[m])) = Cardinality(ManualRows(fw[m]))
<1>1. Init => Inv
  <2>1. ASSUME Init, NEW w \in Workers PROVE Aimed(w)
    BY <2>1, BasicsInit, Blanks DEF Aimed, At
  <2>2. QED  BY <2>1, BasicsInit
<1>2. Inv /\ Apart /\ [Next]_vars => Inv'
  <2> SUFFICES ASSUME Inv, Apart, [Next]_vars PROVE Inv'
    OBVIOUS
  <2>1. ASSUME NEW v \in Workers PROVE Aimed(v)'
    <3>1. \A w \in Workers \ {v} : Delete(w) /\ At(v, "apply") /\ worker[v].del # {} => Spot(w) # Spot(v)
      BY DEF Apart, Deleting, Delete
    <3>2. QED  BY <3>1, AimedKept DEF Basics
  <2>2. QED  BY <2>1, BasicsNext
<1>3. Inv /\ [Next]_vars => [Same]_vars  BY ForeignKept DEF Basics
<1>4. QED  BY <1>1, <1>2, <1>3, PTL DEF Spec, ForeignUntouched

\* One worker at a time.
Serial == \A v, w \in Workers : v = w

\* With one worker, and any other failure, rows without our comment are left alone.
COROLLARY ForeignSerial == Serial /\ Spec => ForeignUntouched
<1>1. Serial => Apart  BY DEF Serial, Apart
<1>2. Serial /\ [Next]_vars => Serial'  BY DEF Serial
<1>3. QED  BY <1>1, <1>2, ForeignHolds, PTL DEF Spec


-----------------------------------------------------------------------------
(* The tasks that workers remember.                                        *)

\* Only a retry has a batch of tasks, and each of its jobs is one of them.
Busy(w) == worker[w].pc \in {"list", "apply", "ok", "failed"}
Batch(w) ==
  /\ At(w, "collect") => worker[w].kind = "retry"
  /\ worker[w].kind = "recompute" => worker[w].pc \in {"next", "failed"}
  /\ worker[w].kind \in {"retry", "recompute"} =>
        /\ \A j \in worker[w].todo : j.id \in TaskIds
        /\ Busy(w) => worker[w].job.id \in TaskIds

\* A worker takes the tasks of the queue for those of their targets, and no two
\* workers take one for those of different targets: a key is not given to another
\* task as long as a worker remembers it.
Memory(w) == worker[w].todo \cup {worker[w].job}
Rightful == \A w \in Workers : \A j \in Memory(w) : j.id \in Queued => tasks[j.id].t = j.t
Agreed ==
  \A v, w \in Workers : \A j \in Memory(v), k \in Memory(w) :
     j.id = k.id /\ j.id \in TaskIds => j.t = k.t
Named == Rightful /\ Agreed

\* What workers learn is in the queue.
LEMMA LearntNamed ==
  ASSUME Named, tasks' = tasks,
         \A w \in Workers : \A j \in Memory(w)' :
            j \in Memory(w) \/ j.id = 0 \/ (j.id \in Queued /\ tasks[j.id].t = j.t)
  PROVE  Named'
<1>1. UNCHANGED Queued /\ Queued \subseteq TaskIds  BY DEF Queued
<1>2. Rightful'  BY <1>1 DEF Named, Rightful
<1>3. ASSUME NEW v \in Workers, NEW w \in Workers, NEW j \in Memory(v)', NEW k \in Memory(w)',
             j.id = k.id, j.id \in TaskIds
      PROVE  j.t = k.t
  <2>1. j \in Memory(v) \/ (j.id \in Queued /\ tasks[j.id].t = j.t)  BY <1>3
  <2>2. k \in Memory(w) \/ (k.id \in Queued /\ tasks[k.id].t = k.t)  BY <1>3
  <2>3. QED  BY <1>3, <2>1, <2>2 DEF Named, Rightful, Agreed
<1>4. Agreed'  BY <1>3 DEF Agreed
<1>5. QED  BY <1>2, <1>4 DEF Named

\* What is put in the queue is what workers remember.
LEMMA QueuedNamed ==
  ASSUME Named,
         \A w \in Workers : \A j \in Memory(w)' : j \in Memory(w) \/ j.id = 0,
         \A i \in Queued' :
            \/ i \in Queued /\ tasks'[i].t = tasks[i].t
            \/ \A w \in Workers : \A j \in Memory(w) : j.id = i => j.t = tasks'[i].t
  PROVE  Named'
<1>1. Queued' \subseteq TaskIds  BY DEF Queued
<1>2. ASSUME NEW w \in Workers, NEW j \in Memory(w)', j.id \in Queued' PROVE tasks'[j.id].t = j.t
  <2>1. j \in Memory(w)  BY <1>1, <1>2
  <2>2. QED  BY <1>2, <2>1 DEF Named, Rightful
<1>3. Agreed'
  <2> SUFFICES ASSUME NEW v \in Workers, NEW w \in Workers, NEW j \in Memory(v)',
                      NEW k \in Memory(w)', j.id = k.id, j.id \in TaskIds
               PROVE  j.t = k.t
    BY DEF Agreed
  <2>1. j \in Memory(v) /\ k \in Memory(w)  OBVIOUS
  <2>2. QED  BY <2>1 DEF Named, Agreed
<1>4. QED  BY <1>2, <1>3 DEF Named, Rightful

LEMMA NamedBegin ==
  ASSUME TypeOK, Named, NEW w \in Workers, Begin(w)
  PROVE  Named'
<1>1. tasks' = tasks /\ \A v \in Workers \ {w} : worker'[v] = worker[v]  BY Launched
<1>2. \A v \in Workers \ {w} : Memory(v)' = Memory(v)  BY <1>1 DEF Memory
<1>3. ASSUME NEW jobs, worker'[w].todo = jobs, worker'[w].job = NoTask,
             \A j \in jobs : j.id = 0 \/ (j.id \in Queued /\ tasks[j.id].t = j.t)
      PROVE  Named'
  <2>1. \A j \in Memory(w)' : j.id = 0 \/ (j.id \in Queued /\ tasks[j.id].t = j.t)
    BY <1>3 DEF Memory, NoTask
  <2>2. QED  BY <1>1, <1>2, <2>1, LearntNamed
<1>4. CASE StartSync(w)
  <2> DEFINE jobs == JobsOf({Local})
  <2>1. jobs \in SUBSET Jobs /\ want \in SUBSET Rules  BY JobsType, Blanks DEF TypeOK
  <2>2. \A j \in jobs : j.id = 0  BY DEF JobsOf
  <2>3. Launch(w, "local", "next", want, jobs)  BY <1>4 DEF StartSync
  <2> HIDE DEF jobs
  <2>4. worker'[w].todo = jobs /\ worker'[w].job = NoTask  BY <2>1, <2>3, LaunchType
  <2>5. QED  BY <1>3, <2>2, <2>4
<1>5. CASE StartNodeSync(w)
  <2>1. PICK n \in nodeSyncs : Launch(w, "node", "next", want, JobsOf({n}))
    BY <1>5 DEF StartNodeSync
  <2> DEFINE jobs == JobsOf({n})
  <2>2. jobs \in SUBSET Jobs /\ want \in SUBSET Rules  BY JobsType, Blanks DEF TypeOK
  <2>3. \A j \in jobs : j.id = 0  BY DEF JobsOf
  <2>4. Launch(w, "node", "next", want, jobs)  BY <2>1
  <2> HIDE DEF jobs
  <2>5. worker'[w].todo = jobs /\ worker'[w].job = NoTask  BY <2>2, <2>4, LaunchType
  <2>6. QED  BY <1>3, <2>3, <2>5
<1>6. CASE SyncUnread(w)
  <2>1. \A v \in Workers : Memory(v)' = Memory(v)  BY <1>6 DEF SyncUnread, Memory
  <2>2. QED  BY <1>1, <2>1, LearntNamed
<1>7. CASE StartRetry(w)
  <2> DEFINE jobs == {[t |-> tasks[i].t, id |-> i] : i \in {i \in TaskIds : tasks[i].st = "due"}}
  <2>1. jobs \in SUBSET Jobs /\ {} \in SUBSET Rules  BY DEF Jobs, TypeOK
  <2>2. \A j \in jobs : j.id \in Queued /\ tasks[j.id].t = j.t  BY DEF Queued
  <2>3. Launch(w, "retry", "collect", {}, jobs)  BY <1>7 DEF StartRetry
  <2> HIDE DEF jobs
  <2>4. worker'[w].todo = jobs /\ worker'[w].job = NoTask  BY <2>1, <2>3, LaunchType
  <2>5. QED  BY <1>3, <2>2, <2>4
<1>8. QED  BY <1>4, <1>5, <1>6, <1>7 DEF Begin

LEMMA NamedPlan ==
  ASSUME TypeOK, Named, NEW w \in Workers, Plan(w)
  PROVE  Named'
<1>1. tasks' = tasks /\ \A v \in Workers \ {w} : Memory(v)' = Memory(v)
  BY Planned, PlanType DEF Memory
<1>2. worker \in [Workers -> States] /\ worker[w] \in States  BY DEF TypeOK, States
<1>3. \A j \in Memory(w)' : j \in Memory(w) \/ j.id = 0
  <2>1. CASE Collect(w) \/ CollectFailed(w)
    BY <1>2, <2>1 DEF Collect, CollectFailed, Memory, States
  <2>2. CASE ListNodes(w)
    <3>1. worker'[w].todo = JobsOf(nodes) /\ worker'[w].job = worker[w].job
      BY <1>2, <2>2 DEF ListNodes, States
    <3>2. QED  BY <3>1 DEF Memory, JobsOf
  <2>3. CASE ListNodesFailed(w) \/ Finish(w)
    <3>1. worker'[w] = IdleWorker  BY <1>2, <2>3 DEF ListNodesFailed, Finish, Idle
    <3>2. QED  BY <3>1 DEF Memory, IdleWorker, NoTask
  <2>4. CASE Pick(w)
    <3>1. PICK j \in worker[w].todo : worker'[w].job = j /\ worker'[w].todo = worker[w].todo \ {j}
      BY <1>2, <2>4 DEF Pick, States
    <3>2. QED  BY <3>1 DEF Memory
  <2>5. QED  BY <2>1, <2>2, <2>3, <2>4 DEF Plan
<1>4. QED  BY <1>1, <1>3, LearntNamed

\* The row that a worker saves is its target's, or is no worker's.
LEMMA SavesOwn ==
  ASSUME TypeOK, Named, NEW w \in Workers, PutOff(w) \/ UpsertTask(w),
         At(w, "upsert") \/ worker[w].job.id \in TaskIds
  PROVE  \E i \in TaskIds :
            /\ Save(i, Target(w), "later")
            /\ i \in Queued => tasks[i].t = Target(w)
            /\ \A v \in Workers : \A j \in Memory(v) : j.id = i => j.t = Target(w)
<1>1. worker[w] \in States /\ worker[w].job.id \in TaskIds \cup {0} /\ worker[w].job \in Memory(w)
  BY DEF TypeOK, States, Jobs, Memory
<1>2. CASE worker[w].job.id \in TaskIds
  <2> DEFINE i == worker[w].job.id
  <2>1. Save(i, Target(w), "later")  BY <1>2 DEF PutOff, UpsertTask, Target
  <2>2. i \in Queued => tasks[i].t = Target(w)  BY <1>1 DEF Named, Rightful, Target
  <2>3. \A v \in Workers : \A j \in Memory(v) : j.id = i => j.t = Target(w)
    BY <1>1, <1>2 DEF Named, Agreed, Target
  <2>4. QED  BY <1>2, <2>1, <2>2, <2>3
<1>3. CASE worker[w].job.id = 0
  <2>1. PICK i \in FreeIds : Save(i, Target(w), "later")
    BY <1>3 DEF UpsertTask, PutOff, Target, At
  <2>2. i \in TaskIds /\ i \notin Queued /\ \A v \in Workers : \A j \in Memory(v) : j.id # i
    BY <2>1 DEF FreeIds, Memory
  <2>3. QED  BY <2>1, <2>2
<1>4. QED  BY <1>1, <1>2, <1>3

\* On to the next job, a worker forgets this one.
LEMMA OnToNext ==
  ASSUME TypeOK, NEW w \in Workers, NextJob(w)
  PROVE  /\ worker'[w].pc = "next" /\ worker'[w].want = worker[w].want
         /\ worker'[w].kind = worker[w].kind /\ worker'[w].todo = worker[w].todo
         /\ worker'[w].job = NoTask
         /\ \A v \in Workers : \A j \in Memory(v)' : j \in Memory(v) \/ j.id = 0
<1>1. worker \in [Workers -> States] /\ worker[w] \in States  BY DEF TypeOK, States
<1>2. /\ worker'[w].pc = "next" /\ worker'[w].want = worker[w].want
      /\ worker'[w].kind = worker[w].kind /\ worker'[w].todo = worker[w].todo
      /\ worker'[w].job = NoTask /\ \A v \in Workers \ {w} : worker'[v] = worker[v]
  BY <1>1 DEF NextJob, States
<1>3. \A j \in Memory(w)' : j \in Memory(w) \/ j.id = 0  BY <1>2 DEF Memory, NoTask
<1>4. \A v \in Workers \ {w} : Memory(v)' = Memory(v)  BY <1>2 DEF Memory
<1>5. QED  BY <1>2, <1>3, <1>4

LEMMA NamedSettle ==
  ASSUME TypeOK, Named, NEW w \in Workers, Settle(w), Batch(w)
  PROVE  Named'
<1>1. /\ worker \in [Workers -> States] /\ worker[w] \in States
      /\ tasks \in [TaskIds -> [t : Targets, st : {"none", "due", "later"}]]
  BY DEF TypeOK, States
<1>2. CASE Succeeded(w)
  <2>1. NextJob(w) /\ tasks' \in {tasks, [tasks EXCEPT ![worker[w].job.id] = NoRow]}
    BY <1>2 DEF Succeeded
  <2>2. \A i \in Queued' : i \in Queued /\ tasks'[i].t = tasks[i].t
    <3>1. \A i \in TaskIds : tasks'[i] = tasks[i] \/ tasks'[i] = NoRow  BY <1>1, <2>1
    <3>2. QED  BY <3>1, Blanks DEF Queued
  <2>3. QED  BY <2>1, <2>2, OnToNext, QueuedNamed
<1>3. CASE PutOff(w) \/ UpsertTask(w)
  <2>1. NextJob(w)  BY <1>3 DEF PutOff, UpsertTask
  <2>2. At(w, "upsert") \/ worker[w].job.id \in TaskIds
    BY <1>3 DEF PutOff, UpsertTask, Batch, Busy, Retrying, At
  <2>3. PICK i \in TaskIds :
               /\ Save(i, Target(w), "later")
               /\ \A v \in Workers : \A j \in Memory(v) : j.id = i => j.t = Target(w)
    BY <1>3, <2>2, SavesOwn
  <2>4. tasks'[i].t = Target(w) /\ \A k \in TaskIds \ {i} : tasks'[k] = tasks[k]
    BY <1>1, <2>3 DEF Save
  <2>5. \A k \in Queued' :
           \/ k \in Queued /\ tasks'[k].t = tasks[k].t
           \/ \A v \in Workers : \A j \in Memory(v) : j.id = k => j.t = tasks'[k].t
    BY <2>3, <2>4 DEF Queued
  <2>6. QED  BY <2>1, <2>5, OnToNext, QueuedNamed
<1>4. CASE FindTask(w)
  <2>1. PICK i \in (IF QueuedFor(Target(w)) = {} THEN {0} ELSE QueuedFor(Target(w))) :
          worker' = [worker EXCEPT ![w].pc = "upsert", ![w].job.id = i]
    BY <1>4 DEF FindTask, Target
  <2>2. /\ tasks' = tasks /\ \A v \in Workers \ {w} : worker'[v] = worker[v]
        /\ worker'[w].todo = worker[w].todo /\ worker'[w].job = [worker[w].job EXCEPT !.id = i]
    BY <1>1, <1>4, <2>1 DEF FindTask, States
  <2>3. worker'[w].job.id = i /\ worker'[w].job.t = Target(w)
    BY <1>1, <2>2 DEF States, Jobs, Target
  <2>4. i = 0 \/ (i \in Queued /\ tasks[i].t = Target(w))  BY <2>1 DEF QueuedFor
  <2>5. \A j \in Memory(w)' : j \in Memory(w) \/ j.id = 0 \/ (j.id \in Queued /\ tasks[j.id].t = j.t)
    BY <2>2, <2>3, <2>4 DEF Memory
  <2>6. \A v \in Workers \ {w} : Memory(v)' = Memory(v)  BY <2>2 DEF Memory
  <2>7. QED  BY <2>2, <2>5, <2>6, LearntNamed
<1>5. CASE SucceededUndeleted(w) \/ Unqueued(w)
  <2>1. NextJob(w) /\ tasks' = tasks  BY <1>5 DEF SucceededUndeleted, Unqueued
  <2>2. Queued' = Queued  BY <2>1 DEF Queued
  <2>3. QED  BY <2>1, <2>2, OnToNext, QueuedNamed
<1>6. QED  BY <1>2, <1>3, <1>4, <1>5 DEF Settle

LEMMA NamedKept ==
  ASSUME TypeOK, Named, \A w \in Workers : Batch(w), [Next]_vars
  PROVE  Named'
<1>1. ASSUME NEW w \in Workers, Reconcile(w) PROVE Named'
  <2>1. /\ tasks' = tasks /\ worker'[w].todo = worker[w].todo /\ worker'[w].job = worker[w].job
        /\ \A v \in Workers \ {w} : worker'[v] = worker[v]
    BY <1>1, Reconciled, ReconcileType
  <2>2. \A v \in Workers : Memory(v)' = Memory(v)  BY <2>1 DEF Memory
  <2>3. QED  BY <2>1, <2>2, LearntNamed
<1>2. CASE Crash
  <2>1. tasks' = tasks /\ \A w \in Workers : worker'[w] = IdleWorker  BY <1>2 DEF Crash
  <2>2. \A w \in Workers : \A j \in Memory(w)' : j.id = 0
    BY <2>1 DEF Memory, IdleWorker, NoTask
  <2>3. QED  BY <2>1, <2>2, LearntNamed
<1>3. CASE ClearTasks \/ \E i \in TaskIds : TaskDue(i)
  <2>1. worker' = worker /\ \A i \in Queued' : i \in Queued /\ tasks'[i].t = tasks[i].t
    <3>1. tasks \in [TaskIds -> [t : Targets, st : {"none", "due", "later"}]]  BY DEF TypeOK
    <3>2. CASE ClearTasks
      <4>1. \A i \in TaskIds : tasks'[i] = tasks[i] \/ tasks'[i] = NoRow  BY <3>2 DEF ClearTasks
      <4>2. QED  BY <3>2, <4>1, Blanks DEF ClearTasks, Queued
    <3>3. CASE \E i \in TaskIds : TaskDue(i)  BY <3>1, <3>3 DEF TaskDue, Queued
    <3>4. QED  BY <1>3, <3>2, <3>3
  <2>2. \A v \in Workers : Memory(v)' = Memory(v)  BY <2>1 DEF Memory
  <2>3. QED  BY <2>1, <2>2, QueuedNamed
<1>4. CASE \/ UNCHANGED vars \/ SaveInbounds \/ AskForSync
           \/ \E n \in Nodes : DeployNode(n) \/ SaveNode(n) \/ RemoveNode(n)
  <2>1. tasks' = tasks /\ worker' = worker
    BY <1>4 DEF vars, SaveInbounds, AskForSync, DeployNode, SaveNode, RemoveNode
  <2>2. \A v \in Workers : Memory(v)' = Memory(v)  BY <2>1 DEF Memory
  <2>3. QED  BY <2>1, <2>2, LearntNamed
<1>5. QED  BY <1>1, <1>2, <1>3, <1>4, NamedBegin, NamedPlan, NamedSettle DEF Next, Continue, Happens


\* The jobs of a worker that starts, and how each outcome leaves them.
LEMMA BatchKept ==
  ASSUME TypeOK, \A w \in Workers : Batch(w), [Next]_vars
  PROVE  \A w \in Workers : Batch(w)'
<1>1. ASSUME NEW w \in Workers, Begin(w) \/ Continue(w)
      PROVE  (\A v \in Workers \ {w} : worker'[v] = worker[v]) /\ Batch(w)'
  <2>1. worker \in [Workers -> States] /\ worker[w] \in States /\ Batch(w)  BY DEF TypeOK, States
  <2>2. CASE Begin(w)
    <3>1. CASE StartSync(w) \/ StartNodeSync(w)
      <4>1. PICK k \in {"local", "node"}, x \in Targets : Launch(w, k, "next", want, JobsOf({x}))
        BY <3>1, Blanks DEF StartSync, StartNodeSync, TypeOK
      <4> DEFINE jobs == JobsOf({x})
      <4>2. jobs \in SUBSET Jobs /\ want \in SUBSET Rules  BY JobsType DEF TypeOK
      <4>3. k \in {"local", "fleet", "node", "retry"} /\ Launch(w, k, "next", want, jobs)  BY <4>1
      <4> HIDE DEF jobs
      <4>4. worker'[w].pc = "next" /\ worker'[w].kind = k  BY <4>2, <4>3, LaunchType
      <4>5. QED  BY <2>2, <4>1, <4>4, Launched DEF Batch, At, Busy
    <3>2. CASE SyncUnread(w)
      <4>1. worker' = worker  BY <3>2 DEF SyncUnread
      <4>2. QED  BY <2>1, <4>1 DEF Batch, At, Busy
    <3>3. CASE StartRetry(w)
      <4> DEFINE jobs == {[t |-> tasks[i].t, id |-> i] : i \in {i \in TaskIds : tasks[i].st = "due"}}
      <4>1. jobs \in SUBSET Jobs /\ {} \in SUBSET Rules  BY DEF Jobs, TypeOK
      <4>2. Launch(w, "retry", "collect", {}, jobs)  BY <3>3 DEF StartRetry
      <4>3. \A j \in jobs : j.id \in TaskIds  OBVIOUS
      <4> HIDE DEF jobs
      <4>4. worker'[w].pc = "collect" /\ worker'[w].kind = "retry" /\ worker'[w].todo = jobs
        BY <4>1, <4>2, LaunchType
      <4>5. QED  BY <2>2, <4>3, <4>4, Launched DEF Batch, At, Busy
    <3>4. QED  BY <2>2, <3>1, <3>2, <3>3 DEF Begin
  <2>3. CASE Plan(w)
    <3>1. CASE Collect(w) \/ CollectFailed(w)
      BY <2>1, <2>3, <3>1, PlanType DEF Collect, CollectFailed, Batch, At, Busy, States
    <3>2. CASE ListNodes(w)
      BY <2>1, <2>3, <3>2, PlanType DEF ListNodes, Batch, At, Busy, States
    <3>3. CASE ListNodesFailed(w) \/ Finish(w)
      <4>1. worker'[w] = IdleWorker  BY <2>1, <3>3 DEF ListNodesFailed, Finish, Idle
      <4>2. QED  BY <2>3, <4>1, PlanType DEF Batch, At, Busy, IdleWorker
    <3>4. CASE Pick(w)
      <4>1. PICK j \in worker[w].todo :
              worker' = [worker EXCEPT
                  ![w].pc = IF worker[w].kind = "recompute" THEN "failed" ELSE "list",
                  ![w].job = j, ![w].todo = @ \ {j}]
        BY <3>4 DEF Pick
      <4>2. /\ worker'[w].pc = IF worker[w].kind = "recompute" THEN "failed" ELSE "list"
            /\ worker'[w].job = j /\ worker'[w].todo = worker[w].todo \ {j}
            /\ worker'[w].kind = worker[w].kind
        BY <2>1, <4>1 DEF States
      <4>3. QED  BY <2>1, <2>3, <4>1, <4>2, PlanType DEF Batch, At, Busy
    <3>5. QED  BY <2>3, <3>1, <3>2, <3>3, <3>4 DEF Plan
  <2>4. CASE Reconcile(w)  BY <2>1, <2>4, Reconciled, ReconcileType DEF Batch, At, Busy
  <2>5. CASE Settle(w)
    <3>1. CASE NextJob(w)
      BY <2>1, <2>5, <3>1, OnToNext, Settled, SettleType DEF Batch, At, Busy
    <3>2. CASE FindTask(w)
      <4>1. PICK i : worker' = [worker EXCEPT ![w].pc = "upsert", ![w].job.id = i]
        BY <3>2 DEF FindTask
      <4>2. /\ worker'[w].pc = "upsert" /\ worker'[w].kind = worker[w].kind
            /\ worker'[w].todo = worker[w].todo /\ worker[w].kind \notin {"retry", "recompute"}
        BY <2>1, <3>2, <4>1 DEF States, FindTask, Retrying
      <4>3. QED  BY <2>1, <2>5, <4>2, SettleType DEF Batch, At, Busy
    <3>3. QED
      BY <2>5, <3>1, <3>2 DEF Settle, Succeeded, SucceededUndeleted, PutOff, UpsertTask, Unqueued
  <2>6. QED  BY <1>1, <2>2, <2>3, <2>4, <2>5 DEF Continue
<1>2. CASE Crash
  <2>1. \A w \in Workers : worker'[w] = IdleWorker  BY <1>2 DEF Crash
  <2>2. QED  BY <2>1 DEF IdleWorker, Batch, At, Busy
<1>3. CASE \/ UNCHANGED vars \/ SaveInbounds \/ AskForSync \/ ClearTasks
           \/ \E n \in Nodes : DeployNode(n) \/ SaveNode(n) \/ RemoveNode(n)
           \/ \E i \in TaskIds : TaskDue(i)
  <2>1. worker' = worker
    BY <1>3 DEF vars, SaveInbounds, AskForSync, ClearTasks, DeployNode, SaveNode, RemoveNode, TaskDue
  <2>2. QED  BY <2>1 DEF Batch, At, Busy
<1>4. ASSUME NEW w \in Workers, Begin(w) \/ Continue(w) PROVE \A v \in Workers : Batch(v)'
  <2>1. ASSUME NEW v \in Workers \ {w} PROVE Batch(v)'
    <3>1. worker'[v] = worker[v] /\ Batch(v)  BY <1>1, <1>4
    <3>2. QED  BY <3>1 DEF Batch, At, Busy
  <2>2. QED  BY <1>1, <1>4, <2>1
<1>5. QED  BY <1>2, <1>3, <1>4 DEF Next, Happens

-----------------------------------------------------------------------------
(* Workers at one machine.                                                 *)

\* Two workers that are between listing and outcome at one machine are both crossed.
Treating(w) == worker[w].pc \in {"apply", "ok"}
Crossing ==
  \A v, w \in Workers :
     v # w /\ Treating(v) /\ Treating(w) /\ Spot(v) = Spot(w) /\ Spot(v) \in Machines => v \in crossed

\* What a step does to the set: a listing adds to it; only the worker itself, when it
\* goes on to its next job, or a crash takes it out.
LEMMA CrossedStep ==
  ASSUME TypeOK, NEW w \in Workers, Begin(w) \/ Continue(w)
  PROVE  /\ \A v \in Workers \ {w} : worker'[v] = worker[v] /\ (v \in crossed => v \in crossed')
         /\ w \in crossed /\ w \notin crossed' => worker'[w].pc = "next"
<1>1. \A v \in Workers \ {w} : worker'[v] = worker[v]
  BY Launched, PlanType, ReconcileType, SettleType DEF Continue
<1>2. CASE List(w)  BY <1>1, <1>2 DEF List
<1>3. CASE ~List(w)
  BY <1>1, <1>3, Launched, Planned, Reconciled, Settled DEF Continue
<1>4. QED  BY <1>2, <1>3

LEMMA CrossingKept ==
  ASSUME TypeOK, \A w \in Workers : Placed(w), Crossing, [Next]_vars
  PROVE  Crossing'
<1>1. ASSUME NEW w \in Workers, Begin(w) \/ Continue(w) PROVE Crossing'
  <2>1. \A v \in Workers \ {w} : worker'[v] = worker[v] /\ (v \in crossed => v \in crossed')
    BY <1>1, CrossedStep
  <2>2. CASE ~Treating(w)'
    BY <2>1, <2>2 DEF Crossing, Treating, Spot
  <2>3. CASE List(w)
    <3>1. worker'[w].at = MachineOf(Target(w)) /\ worker'[w].pc = "apply"  BY <2>3, Listed
    <3>2. ASSUME NEW v \in Workers \ {w}, Treating(v)', Spot(v)' = Spot(w)'
          PROVE  v \in crossed' /\ w \in crossed'
      <4>1. v \in TreatingAt(MachineOf(Target(w)))
        BY <2>1, <3>1, <3>2 DEF Treating, Spot, TreatingAt
      <4>2. QED  BY <2>3, <4>1 DEF List, Target
    <3>3. QED  BY <2>1, <3>2 DEF Crossing, Treating, Spot
  <2>4. CASE Treating(w)' /\ ~List(w)
    <3>1. Reconcile(w)
      BY <1>1, <2>4, Launched, Planned, Settled DEF Continue, Treating
    <3>2. worker'[w].at = worker[w].at /\ crossed' = crossed /\ worker[w].pc \in {"list", "apply"}
      BY <2>4, <3>1, Reconciled DEF Treating
    <3>3. CASE worker[w].pc = "apply"  BY <2>1, <3>2, <3>3 DEF Crossing, Treating, Spot
    <3>4. CASE worker[w].pc = "list"
      <4>1. Spot(w)' \notin Machines  BY <3>2, <3>4 DEF Placed, Spot
      <4>2. QED  BY <2>1, <3>2, <4>1 DEF Crossing, Treating, Spot
    <3>5. QED  BY <3>2, <3>3, <3>4
  <2>5. QED  BY <2>2, <2>3, <2>4
<1>2. CASE Crash
  <2>1. \A w \in Workers : worker'[w].pc = "idle"  BY <1>2, Blanks DEF Crash
  <2>2. QED  BY <2>1 DEF Crossing, Treating
<1>3. CASE \/ UNCHANGED vars \/ SaveInbounds \/ AskForSync \/ ClearTasks
           \/ \E n \in Nodes : DeployNode(n) \/ SaveNode(n) \/ RemoveNode(n)
           \/ \E i \in TaskIds : TaskDue(i)
  <2>1. UNCHANGED <<worker, crossed>>
    BY <1>3 DEF vars, SaveInbounds, AskForSync, ClearTasks, DeployNode, SaveNode, RemoveNode, TaskDue
  <2>2. QED  BY <2>1 DEF Crossing, Treating, Spot
<1>4. QED  BY <1>1, <1>2, <1>3 DEF Next, Happens

\* The numbers of a worker that is not crossed are right.
Straight(w) == w \notin crossed => Aimed(w)

LEMMA StraightKept ==
  ASSUME TypeOK, \A w \in Workers : Placed(w), Crossing, [Next]_vars, NEW v \in Workers, Straight(v)
  PROVE  Straight(v)'
<1>1. CASE v \notin crossed
  <2>1. \A w \in Workers \ {v} : Delete(w) /\ At(v, "apply") /\ worker[v].del # {} => Spot(w) # Spot(v)
    BY <1>1 DEF Crossing, Treating, Delete, At, Placed
  <2>2. QED  BY <1>1, <2>1, AimedKept DEF Straight
<1>2. CASE v \in crossed /\ v \notin crossed'
  <2>1. ASSUME NEW w \in Workers, Begin(w) \/ Continue(w) PROVE worker'[v].pc = "next"
    BY <1>2, <2>1, CrossedStep
  <2>2. CASE Crash
    <3>1. worker'[v].pc = "idle"  BY <2>2, Blanks DEF Crash
    <3>2. QED  BY <3>1 DEF Straight, Aimed, At
  <2>3. CASE \E w \in Workers : Begin(w) \/ Continue(w)
    BY <2>1, <2>3 DEF Straight, Aimed, At
  <2>4. CASE \/ UNCHANGED vars \/ SaveInbounds \/ AskForSync \/ ClearTasks
             \/ \E n \in Nodes : DeployNode(n) \/ SaveNode(n) \/ RemoveNode(n)
             \/ \E i \in TaskIds : TaskDue(i)
    BY <1>2, <2>4 DEF vars, SaveInbounds, AskForSync, ClearTasks, DeployNode, SaveNode, RemoveNode, TaskDue
  <2>5. QED  BY <2>2, <2>3, <2>4 DEF Next, Happens
<1>3. CASE v \in crossed'  BY <1>3 DEF Straight
<1>4. QED  BY <1>1, <1>2, <1>3

-----------------------------------------------------------------------------
(* What a worker that is not crossed knows of its machine.                 *)

\* A plan, carried out, leaves exactly the rules the worker wants, and each of its
\* commands does something: the rows to delete are not wanted, the rules to add not there.
Rest(w) == {fw[Spot(w)][n] : n \in Rows(Spot(w)) \ worker[w].del}
Exact(w) ==
  At(w, "apply") /\ w \notin crossed =>
     /\ worker[w].want = (Rest(w) \cap Rules) \cup worker[w].add
     /\ \A n \in worker[w].del : fw[Spot(w)][n] \notin worker[w].want
     /\ worker[w].add \cap ToSet(fw[Spot(w)]) = {}

\* What a worker reports as done is done.
Done(w) ==
  At(w, "ok") /\ w \notin crossed /\ Spot(w) \in Machines =>
     ToSet(fw[Spot(w)]) \cap Rules = worker[w].want

\* Deleting the highest of the planned rows leaves the rows that are not planned.
LEMMA RestKept ==
  ASSUME NEW S, NEW rows \in Seq(S), NEW D \in SUBSET (DOMAIN rows), NEW n \in D,
         \A m \in D \ {n} : m < n
  PROVE  {DeleteRow(rows, n)[m] : m \in (DOMAIN DeleteRow(rows, n)) \ (D \ {n})}
            = {rows[m] : m \in (DOMAIN rows) \ D}
<1> DEFINE less == DeleteRow(rows, n)
           L == Len(rows)
<1>1. /\ n \in 1..L /\ L \in Nat /\ DOMAIN rows = 1..L /\ DOMAIN less = 1..(L - 1)
      /\ \A m \in 1..(L - 1) : less[m] = IF m < n THEN rows[m] ELSE rows[m + 1]
  BY Deleted
<1> HIDE DEF less, L
<1>2. ASSUME NEW m \in (DOMAIN less) \ (D \ {n})
      PROVE  \E k \in (DOMAIN rows) \ D : rows[k] = less[m]
  <2>1. CASE m < n
    <3>1. m \in (DOMAIN rows) \ D /\ rows[m] = less[m]  BY <1>1, <1>2, <2>1
    <3>2. QED  BY <3>1
  <2>2. CASE ~(m < n)
    <3>1. m + 1 \in DOMAIN rows /\ m + 1 > n /\ rows[m + 1] = less[m]  BY <1>1, <1>2, <2>2
    <3>2. m + 1 \notin D  BY <1>1, <3>1
    <3>3. QED  BY <3>1, <3>2
  <2>3. QED  BY <2>1, <2>2
<1>3. ASSUME NEW k \in (DOMAIN rows) \ D
      PROVE  \E m \in (DOMAIN less) \ (D \ {n}) : rows[k] = less[m]
  <2>1. CASE k < n
    <3>1. k \in (DOMAIN less) \ (D \ {n}) /\ rows[k] = less[k]  BY <1>1, <1>3, <2>1
    <3>2. QED  BY <3>1
  <2>2. CASE ~(k < n)
    <3>1. k - 1 \in DOMAIN less /\ ~(k - 1 < n) /\ rows[k] = less[k - 1]  BY <1>1, <1>3, <2>2
    <3>2. k - 1 \notin D \ {n}  BY <1>1, <3>1
    <3>3. QED  BY <3>1, <3>2
  <2>3. QED  BY <2>1, <2>2
<1>4. QED  BY <1>2, <1>3 DEF less

\* A listing plans what is missing; each command does its part of the plan.
LEMMA ExactKept ==
  ASSUME TypeOK, NEW w \in Workers, Reconcile(w), Placed(w), Straight(w), Exact(w)
  PROVE  Exact(w)'
<1>1. worker \in [Workers -> States] /\ worker[w] \in States  BY DEF TypeOK, States
<1>2. /\ worker'[w].want = worker[w].want /\ worker[w].want \subseteq Rules
      /\ fw \in [Machines -> Seq(Rules \cup {Manual})]
  BY <1>1, Reconciled DEF States, TypeOK
<1>3. CASE List(w)
  <2> DEFINE m == MachineOf(Target(w))
             rows == fw[m]
  <2>1. /\ fw' = fw /\ worker'[w].del = ToDelete(rows, worker[w].want) /\ m \in Machines
        /\ worker'[w].add = ToAdd(rows, worker[w].want) /\ worker'[w].at = m
    BY <1>3, Listed
  <2>2. fw'[Spot(w)'] = rows  BY <2>1 DEF Spot
  <2>3. Rest(w)' = {rows[n] : n \in (DOMAIN rows) \ ToDelete(rows, worker[w].want)}
    BY <2>1 DEF Rest, Rows, Spot
  <2> HIDE DEF m, rows
  <2>4. worker[w].want = (Rest(w)' \cap Rules) \cup ToAdd(rows, worker[w].want)
    <3>1. ASSUME NEW r \in worker[w].want, r \in ToSet(rows) PROVE r \in Rest(w)' \cap Rules
      <4>1. PICK n \in DOMAIN rows : rows[n] = r  BY <3>1 DEF ToSet
      <4>2. n \notin ToDelete(rows, worker[w].want)  BY <4>1 DEF ToDelete
      <4>3. QED  BY <1>2, <2>3, <4>1, <4>2
    <3>2. ASSUME NEW r \in Rest(w)' \cap Rules PROVE r \in worker[w].want
      <4>1. PICK n \in (DOMAIN rows) \ ToDelete(rows, worker[w].want) : rows[n] = r  BY <2>3, <3>2
      <4>2. QED  BY <3>2, <4>1 DEF ToDelete
    <3>3. QED  BY <3>1, <3>2 DEF ToAdd
  <2>5. /\ \A n \in ToDelete(rows, worker[w].want) : rows[n] \notin worker[w].want
        /\ ToAdd(rows, worker[w].want) \cap ToSet(rows) = {}
    BY DEF ToDelete, ToAdd
  <2>6. QED  BY <1>2, <2>1, <2>2, <2>4, <2>5 DEF Exact
<1>4. CASE Delete(w) /\ w \notin crossed
  <2> DEFINE n == Doomed(w)
             t == Spot(w)
             rows == fw[t]
  <2>1. /\ n \in worker[w].del /\ n \in DOMAIN rows /\ \A m \in worker[w].del \ {n} : m < n
        /\ fw'[t] = DeleteRow(rows, n) /\ rows \in Seq(Rules \cup {Manual})
        /\ worker'[w] = [worker[w] EXCEPT !.del = worker[w].del \ {n}]
    BY <1>4, Dropped DEF Straight, Rows
  <2>2. worker'[w].del = worker[w].del \ {n} /\ worker'[w].add = worker[w].add /\ Spot(w)' = t
    BY <1>1, <2>1 DEF States, Spot
  <2>3. worker[w].del \in SUBSET (DOMAIN rows) /\ At(w, "apply")
    BY <1>4 DEF Delete, Straight, Aimed, Rows
  <2>4. Rest(w) = {rows[m] : m \in (DOMAIN rows) \ worker[w].del}  BY DEF Rest, Rows
  <2>5. Rest(w)' = {fw'[t][m] : m \in (DOMAIN fw'[t]) \ (worker[w].del \ {n})}
    BY <2>2 DEF Rest, Rows
  <2>0. /\ worker[w].want = (Rest(w) \cap Rules) \cup worker[w].add
        /\ \A m \in worker[w].del : rows[m] \notin worker[w].want
        /\ worker[w].add \cap ToSet(rows) = {}
    BY <1>4, <2>3 DEF Exact
  <2> HIDE DEF n, t, rows
  <2>6. Rest(w)' = Rest(w)
    <3> DEFINE D == worker[w].del
               S == Rules \cup {Manual}
    <3>1. /\ rows \in Seq(S) /\ D \in SUBSET (DOMAIN rows) /\ n \in D
          /\ \A m \in D \ {n} : m < n
      BY <2>1, <2>3
    <3>2. /\ Rest(w) = {rows[m] : m \in (DOMAIN rows) \ D}
          /\ Rest(w)' = {DeleteRow(rows, n)[m] : m \in (DOMAIN DeleteRow(rows, n)) \ (D \ {n})}
      BY <2>1, <2>4, <2>5
    <3> HIDE DEF D, S
    <3>3. {DeleteRow(rows, n)[m] : m \in (DOMAIN DeleteRow(rows, n)) \ (D \ {n})}
            = {rows[m] : m \in (DOMAIN rows) \ D}
      BY <3>1, RestKept
    <3>4. QED  BY <3>2, <3>3
  <2>7. /\ Len(rows) \in Nat /\ DOMAIN rows = 1..Len(rows) /\ DOMAIN fw'[t] = 1..(Len(rows) - 1)
        /\ \A m \in 1..(Len(rows) - 1) : fw'[t][m] = IF m < n THEN rows[m] ELSE rows[m + 1]
    BY <2>1, Deleted
  <2>8. \A m \in worker[w].del \ {n} : fw'[t][m] = rows[m]  BY <2>1, <2>3, <2>7
  <2>9. \A r \in ToSet(fw'[t]) : r \in ToSet(rows)
    <3> SUFFICES ASSUME NEW m \in DOMAIN fw'[t] PROVE fw'[t][m] \in ToSet(rows)
      BY DEF ToSet
    <3>1. /\ m \in 1..Len(rows) /\ m + 1 \in 1..Len(rows)
          /\ fw'[t][m] = rows[m] \/ fw'[t][m] = rows[m + 1]
      BY <2>7
    <3>2. QED  BY <2>7, <3>1 DEF ToSet
  <2>10. QED  BY <1>2, <2>0, <2>2, <2>6, <2>8, <2>9 DEF Exact
<1>5. CASE AllowRule(w) /\ w \notin crossed
  <2> DEFINE t == Spot(w)
             rows == fw[t]
  <2>1. PICK r \in worker[w].add :
          /\ r \in Rules /\ rows \in Seq(Rules \cup {Manual}) /\ fw'[t] = Allow(rows, r)
          /\ worker'[w] = [worker[w] EXCEPT !.add = worker[w].add \ {r}]
    BY <1>5, AllowedThere
  <2>2. /\ worker'[w].del = {} /\ worker'[w].add = worker[w].add \ {r}
        /\ worker[w].del = {} /\ At(w, "apply") /\ Spot(w)' = t
    BY <1>1, <1>5, <2>1 DEF AllowRule, States, Spot
  <2>3. Rest(w) = ToSet(rows) /\ Rest(w)' = ToSet(fw'[t])
    BY <2>2 DEF Rest, Rows, ToSet
  <2>0. /\ worker[w].want = (Rest(w) \cap Rules) \cup worker[w].add
        /\ worker[w].add \cap ToSet(rows) = {}
    BY <1>5, <2>2 DEF Exact
  <2> HIDE DEF t, rows
  <2>4. ToSet(fw'[t]) = ToSet(rows) \cup {r}
    <3> DEFINE S == Rules \cup {Manual}
    <3>1. r \in S /\ rows \in Seq(S)  BY <2>1
    <3> HIDE DEF S
    <3>2. ToSet(Allow(rows, r)) = ToSet(rows) \cup {r}  BY <3>1, Allowed
    <3>3. QED  BY <2>1, <3>2
  <2>5. QED  BY <1>2, <2>0, <2>1, <2>2, <2>3, <2>4 DEF Exact
<1>6. CASE ListGone(w) \/ ListPermanent(w) \/ ListFailed(w) \/ ApplyFailed(w) \/ Applied(w)
  <2>1. worker'[w].pc # "apply"
    BY <1>1, <1>6 DEF ListGone, ListPermanent, ListFailed, ApplyFailed, Applied, Goto, States
  <2>2. QED  BY <2>1 DEF Exact, At
<1>7. CASE ~List(w) /\ w \in crossed
  BY <1>7, Reconciled DEF Exact
<1>8. QED  BY <1>3, <1>4, <1>5, <1>6, <1>7 DEF Reconcile

\* A worker says that it is done when there was nothing to do, or its plan is.
LEMMA DoneKept ==
  ASSUME TypeOK, NEW w \in Workers, Reconcile(w), Placed(w), Exact(w)
  PROVE  Done(w)'
<1>1. worker \in [Workers -> States] /\ worker[w] \in States  BY DEF TypeOK, States
<1>2. worker'[w].want = worker[w].want  BY Reconciled
<1>3. CASE ListGone(w) \/ ListPermanent(w)
  <2>1. worker[w].pc = "list" /\ (worker'[w].pc = "failed" \/ worker'[w].at = worker[w].at)
    BY <1>1, <1>3 DEF ListGone, ListPermanent, Goto, At, States
  <2>2. QED  BY <2>1 DEF Done, Placed, Spot, At
<1>4. CASE Applied(w)
  <2>1. /\ worker[w].del = {} /\ worker[w].add = {} /\ At(w, "apply") /\ fw' = fw
        /\ crossed' = crossed /\ Spot(w)' = Spot(w)
    BY <1>1, <1>4 DEF Applied, Goto, Spot, States
  <2>2. Rest(w) = ToSet(fw[Spot(w)])  BY <2>1 DEF Rest, Rows, ToSet
  <2>3. w \notin crossed => ToSet(fw[Spot(w)]) \cap Rules = worker[w].want  BY <2>1, <2>2 DEF Exact
  <2>4. QED  BY <1>2, <2>1, <2>3 DEF Done
<1>5. CASE List(w) \/ ListFailed(w) \/ ApplyFailed(w) \/ Delete(w) \/ AllowRule(w)
  <2>1. worker'[w].pc # "ok"
    <3>1. CASE List(w)  BY <3>1, Listed
    <3>2. CASE ListFailed(w) \/ ApplyFailed(w)
      BY <1>1, <3>2 DEF ListFailed, ApplyFailed, Goto, States
    <3>3. CASE Delete(w)  BY <1>1, <3>3 DEF Delete, At, States
    <3>4. CASE AllowRule(w)  BY <1>1, <3>4 DEF AllowRule, At, States
    <3>5. QED  BY <1>5, <3>1, <3>2, <3>3, <3>4
  <2>2. QED  BY <2>1 DEF Done, At
<1>6. QED  BY <1>3, <1>4, <1>5 DEF Reconcile

\* No other worker changes the firewall under a worker that is not crossed.
LEMMA Unmoved ==
  ASSUME TypeOK, \A w \in Workers : Placed(w), Crossing, NEW w \in Workers, Begin(w) \/ Continue(w),
         NEW v \in Workers \ {w}, v \notin crossed', Treating(v), Spot(v) \in Machines
  PROVE  fw'[Spot(v)] = fw[Spot(v)]
<1>1. v \notin crossed  BY CrossedStep
<1>2. CASE ~Reconcile(w)  BY <1>2, Launched, Planned, Settled DEF Continue
<1>3. CASE Reconcile(w) /\ Spot(w) # Spot(v)  BY <1>3, Reconciled
<1>4. CASE Reconcile(w) /\ Spot(w) = Spot(v)
  <2>1. ~Treating(w)  BY <1>1, <1>4 DEF Crossing
  <2>2. ~Delete(w) /\ ~AllowRule(w)  BY <2>1 DEF Treating, Delete, AllowRule, At
  <2>3. QED  BY <1>4, <2>2, Reconciled
<1>5. QED  BY <1>2, <1>3, <1>4

LEMMA KnowledgeKept ==
  ASSUME TypeOK, Crossing, [Next]_vars,
         \A w \in Workers : Placed(w) /\ Straight(w) /\ Exact(w) /\ Done(w), NEW v \in Workers
  PROVE  Exact(v)' /\ Done(v)'
<1>1. ASSUME NEW w \in Workers \ {v}, Begin(w) \/ Continue(w) PROVE Exact(v)' /\ Done(v)'
  <2>1. worker'[v] = worker[v] /\ (v \notin crossed' => v \notin crossed)  BY <1>1, CrossedStep
  <2>2. Treating(v) /\ v \notin crossed' /\ Spot(v) \in Machines => fw'[Spot(v)] = fw[Spot(v)]
    BY <1>1, Unmoved
  <2>3. At(v, "apply") => Treating(v) /\ Spot(v) \in Machines  BY DEF Placed, At, Treating
  <2>4. Exact(v)'
    <3> SUFFICES ASSUME At(v, "apply")', v \notin crossed' PROVE Exact(v)'
      BY DEF Exact
    <3>1. At(v, "apply") /\ Spot(v)' = Spot(v)  BY <2>1 DEF At, Spot
    <3>2. fw'[Spot(v)] = fw[Spot(v)]  BY <2>2, <2>3, <3>1
    <3>3. Rest(v)' = Rest(v)  BY <2>1, <3>1, <3>2 DEF Rest, Rows
    <3>4. QED  BY <2>1, <3>1, <3>2, <3>3 DEF Exact
  <2>5. Done(v)'
    <3> SUFFICES ASSUME At(v, "ok")', v \notin crossed', Spot(v)' \in Machines PROVE Done(v)'
      BY DEF Done
    <3>1. At(v, "ok") /\ Spot(v)' = Spot(v) /\ Treating(v)  BY <2>1 DEF At, Spot, Treating
    <3>2. fw'[Spot(v)] = fw[Spot(v)]  BY <2>2, <3>1
    <3>3. QED  BY <2>1, <3>1, <3>2 DEF Done
  <2>6. QED  BY <2>4, <2>5
<1>2. CASE Reconcile(v)  BY <1>2, ExactKept, DoneKept
<1>3. CASE Begin(v) \/ Plan(v) \/ Settle(v)
  <2>1. worker'[v].pc \notin {"apply", "ok"}
    <3>1. CASE Begin(v)  BY <3>1, Launched
    <3>2. CASE Plan(v)  BY <3>2, Planned
    <3>3. CASE Settle(v)  BY <3>3, Settled
    <3>4. QED  BY <1>3, <3>1, <3>2, <3>3
  <2>2. QED  BY <2>1 DEF Exact, Done, At
<1>4. CASE Crash
  <2>1. worker'[v].pc = "idle"  BY <1>4, Blanks DEF Crash
  <2>2. QED  BY <2>1 DEF Exact, Done, At
<1>5. CASE \/ UNCHANGED vars \/ SaveInbounds \/ AskForSync \/ ClearTasks
           \/ \E n \in Nodes : DeployNode(n) \/ SaveNode(n) \/ RemoveNode(n)
           \/ \E i \in TaskIds : TaskDue(i)
  <2>1. UNCHANGED <<fw, worker, crossed>>
    BY <1>5 DEF vars, SaveInbounds, AskForSync, ClearTasks, DeployNode, SaveNode, RemoveNode, TaskDue
  <2>2. QED  BY <2>1 DEF Exact, Done, At, Rest, Rows, Spot
<1>6. QED  BY <1>1, <1>2, <1>3, <1>4, <1>5 DEF Next, Continue, Happens

-----------------------------------------------------------------------------
(* No drift is forgotten.                                                  *)

\* The targets to which a repair is owed, and a repair that is still to come.
Owed == Managed \ forgotten
Coming(t) ==
  syncs > 0 \/ t \in nodeSyncs \/ QueuedFor(t) # {} \/ \E w \in Workers : Covers(w, t)

\* A target is as the inbounds need it, and nobody has a plan left for its machine.
Repaired(t) ==
  Ours(t) = want /\ \A v \in Workers : At(v, "apply") => Spot(v) # MachineOf(t)

\* The plan of a worker that is crossed, or goes by other inbounds, may spoil a target:
\* a repair of it is then still to come.
Harmless(w) ==
  At(w, "apply") /\ (w \in crossed \/ worker[w].want # want) =>
     \A t \in Owed : MachineOf(t) = Spot(w) => Coming(t)

Sound == \A w \in Workers : Straight(w) /\ Exact(w) /\ Done(w) /\ Harmless(w)

IInv ==
  /\ Basics /\ Named /\ (\A w \in Workers : Batch(w))
  /\ Crossing /\ Sound /\ NoLostDrift

LEMMA OwedType ==
  ASSUME TypeOK
  PROVE  \A t \in Owed : t \in Targets /\ MachineOf(t) \in Machines /\ t \in TargetsAt(MachineOf(t))
  BY DEF Owed, Managed, Targets, MachineOf, TypeOK, TargetsAt

\* What a step of a worker leaves alone, and the repairs of the others that it leaves.
LEMMA OthersCome ==
  ASSUME TypeOK, NEW w \in Workers, Begin(w) \/ Continue(w), NEW t \in Owed'
  PROVE  /\ UNCHANGED db /\ t \in Owed /\ MachineOf(t)' = MachineOf(t)
         /\ (fw' = fw => Ours(t)' = Ours(t))
         /\ \A v \in Workers \ {w} : Covers(v, t) => Covers(v, t)'
<1>1. UNCHANGED <<want, nodes, addr>>
  BY Launched, Planned, Reconciled, Settled DEF Continue
<1>2. forgotten \subseteq forgotten'
  <2>1. CASE Begin(w)
    BY <2>1 DEF Begin, StartSync, StartNodeSync, SyncUnread, StartRetry, Forget
  <2>2. CASE Plan(w)
    BY <2>2 DEF Plan, Collect, CollectFailed, ListNodes, ListNodesFailed, Pick, Finish, Forget
  <2>3. CASE Reconcile(w)
    <3>1. CASE List(w)  BY <3>1 DEF List, Forget
    <3>2. QED  BY <2>3, <3>1, Reconciled
  <2>4. CASE Settle(w)
    BY <2>4 DEF Settle, Succeeded, SucceededUndeleted, PutOff, FindTask, UpsertTask, Unqueued, Forget
  <2>5. QED  BY <2>1, <2>2, <2>3, <2>4 DEF Continue
<1>3. UNCHANGED Managed /\ MachineOf(t)' = MachineOf(t)  BY <1>1 DEF Managed, MachineOf
<1>4. t \in Owed  BY <1>2, <1>3 DEF Owed
<1>5. ASSUME NEW v \in Workers \ {w}, Covers(v, t) PROVE Covers(v, t)'
  <2>1. worker'[v] = worker[v]  BY CrossedStep
  <2>2. CASE List(w)
    <3> DEFINE m == MachineOf(Target(w))
               others == TreatingAt(m)
    <3>1. /\ crossed' = crossed \/ (crossed' = crossed \cup others \cup {w} /\ others # {})
          /\ others # {} => TargetsAt(m) \subseteq forgotten'
      BY <2>2 DEF List, Forget, Target
    <3>2. t \notin forgotten'  BY DEF Owed
    <3> HIDE DEF m
    <3>3. t \in TargetsAt(MachineOf(t))  BY <1>4, OwedType
    <3>4. CASE /\ worker[v].job.t = t /\ worker[v].pc \in {"apply", "ok"}
               /\ v \notin crossed /\ worker[v].at = MachineOf(t)
      <4>1. v \notin crossed'  BY <3>1, <3>2, <3>3, <3>4 DEF TreatingAt
      <4>2. QED  BY <1>1, <1>3, <1>5, <2>1, <3>4, <4>1 DEF Covers
    <3>5. QED  BY <1>1, <1>3, <1>5, <2>1, <3>4 DEF Covers
  <2>3. CASE ~List(w)
    <3>1. v \in crossed' => v \in crossed
      BY <2>3, Launched, Planned, Reconciled, Settled DEF Continue
    <3>2. QED  BY <1>1, <1>3, <1>5, <2>1, <3>1 DEF Covers
  <2>4. QED  BY <2>2, <2>3
<1>6. fw' = fw => Ours(t)' = Ours(t)  BY <1>3 DEF Ours
<1>7. QED  BY <1>1, <1>3, <1>4, <1>5, <1>6 DEF db

\* A worker that starts takes over the repair it was spawned for.
LEMMA ComingBegin ==
  ASSUME TypeOK, NEW w \in Workers, Begin(w), NEW t \in Owed', Coming(t)
  PROVE  Coming(t)'
<1>1. /\ UNCHANGED <<want, nodes, addr, fw, tasks>> /\ worker[w].pc = "idle"
      /\ \A v \in Workers \ {w} : Covers(v, t) => Covers(v, t)'
  BY Launched, OthersCome
<1>2. QueuedFor(t)' = QueuedFor(t) /\ t \in Targets  BY <1>1, OthersCome, OwedType DEF QueuedFor, Queued
<1>3. ~Covers(w, t)  BY <1>1 DEF Covers
<1>4. ASSUME (syncs > 0 => Coming(t)') /\ (t \in nodeSyncs => Coming(t)') PROVE Coming(t)'
  BY <1>1, <1>2, <1>3, <1>4 DEF Coming
<1>5. CASE StartSync(w)
  <2> DEFINE jobs == JobsOf({Local})
  <2>1. jobs \in SUBSET Jobs /\ want \in SUBSET Rules /\ Launch(w, "local", "next", want, jobs)
    BY <1>5, JobsType, Blanks DEF TypeOK, StartSync
  <2>2. [t |-> Local, id |-> 0] \in jobs  BY DEF JobsOf
  <2> HIDE DEF jobs
  <2>3. /\ worker'[w].pc = "next" /\ worker'[w].kind = "local" /\ worker'[w].want = want
        /\ worker'[w].todo = jobs
    <3>1. worker'[w].pc = "next" /\ worker'[w].kind = "local"  BY <2>1, LaunchType
    <3>2. worker'[w].want = want /\ worker'[w].todo = jobs  BY <2>1, LaunchType
    <3>3. QED  BY <3>1, <3>2
  <2>4. Covers(w, t)'  BY <1>1, <2>2, <2>3 DEF Covers
  <2>5. QED  BY <2>4 DEF Coming
<1>6. CASE StartNodeSync(w)
  <2>1. PICK n \in nodeSyncs : nodeSyncs' = nodeSyncs \ {n} /\ Launch(w, "node", "next", want, JobsOf({n}))
    BY <1>6 DEF StartNodeSync
  <2> DEFINE jobs == JobsOf({n})
  <2>2. jobs \in SUBSET Jobs /\ want \in SUBSET Rules /\ Launch(w, "node", "next", want, jobs)
    BY <2>1, JobsType, Blanks DEF TypeOK
  <2>3. [t |-> n, id |-> 0] \in jobs  BY DEF JobsOf
  <2> HIDE DEF jobs
  <2>4. worker'[w].pc = "next" /\ worker'[w].want = want /\ worker'[w].todo = jobs
    BY <2>2, LaunchType
  <2>5. t = n => Covers(w, t)'  BY <1>1, <2>3, <2>4 DEF Covers
  <2>6. syncs' = syncs  BY <1>6 DEF StartNodeSync
  <2>7. QED  BY <1>4, <2>1, <2>5, <2>6 DEF Coming
<1>7. CASE SyncUnread(w)
  <2>1. t \notin forgotten'  BY DEF Owed
  <2>2. \/ Targets \subseteq forgotten'
        \/ \E n \in nodeSyncs : nodeSyncs' = nodeSyncs \ {n} /\ syncs' = syncs /\ n \in forgotten'
    BY <1>7 DEF SyncUnread, Forget
  <2>3. QED  BY <1>2, <1>4, <2>1, <2>2 DEF Coming
<1>8. CASE StartRetry(w)
  <2>1. UNCHANGED <<syncs, nodeSyncs>>  BY <1>8 DEF StartRetry
  <2>2. QED  BY <1>4, <2>1 DEF Coming
<1>9. QED  BY <1>5, <1>6, <1>7, <1>8 DEF Begin

\* A worker keeps the repairs it has planned, also those it is to put off.
LEMMA ComingPlan ==
  ASSUME TypeOK, NEW w \in Workers, Batch(w), Plan(w), NEW t \in Owed', Coming(t)
  PROVE  Coming(t)'
<1>1. worker \in [Workers -> States] /\ worker[w] \in States  BY DEF TypeOK, States
<1>2. /\ UNCHANGED <<want, nodes, addr, fw, tasks, syncs, nodeSyncs, crossed>>
      /\ \A v \in Workers \ {w} : Covers(v, t) => Covers(v, t)'
      /\ t \in {Local} \cup nodes /\ t \notin forgotten'
  BY Planned, OthersCome DEF Continue, Owed, Managed
<1>3. QueuedFor(t)' = QueuedFor(t)  BY <1>2 DEF QueuedFor, Queued
<1>4. Covers(w, t) => Covers(w, t)'
  <2> SUFFICES ASSUME Covers(w, t) PROVE Covers(w, t)'
    OBVIOUS
  <2>1. CASE Collect(w)
    <3>1. /\ worker'[w].pc = "next" /\ worker'[w].want = want /\ worker'[w].todo = worker[w].todo
          /\ worker'[w].kind = worker[w].kind /\ worker[w].pc = "collect"
      BY <1>1, <2>1 DEF Collect, States, At
    <3>2. QED  BY <1>2, <3>1 DEF Covers
  <2>2. CASE CollectFailed(w)
    <3>1. /\ worker'[w].pc = "next" /\ worker'[w].todo = worker[w].todo
          /\ worker'[w].kind = "recompute" /\ worker[w].pc = "collect"
      BY <1>1, <2>2 DEF CollectFailed, States, At
    <3>2. worker[w].kind = "retry"  BY <3>1 DEF Batch, At
    <3>3. QED  BY <1>2, <3>1, <3>2 DEF Covers
  <2>3. CASE ListNodes(w)
    <3>1. /\ worker'[w].pc = "next" /\ worker'[w].want = worker[w].want
          /\ worker'[w].todo = JobsOf(nodes) /\ worker'[w].kind = "fleet" /\ worker[w].pc = "next"
          /\ worker[w].todo = {} /\ worker[w].kind = "local"
      BY <1>1, <2>3 DEF ListNodes, States, At
    <3>2. t # Local /\ worker[w].want = want  BY <3>1 DEF Covers
    <3>3. [t |-> t, id |-> 0] \in JobsOf(nodes)  BY <1>2, <3>2 DEF JobsOf
    <3>4. QED  BY <1>2, <3>1, <3>2, <3>3 DEF Covers
  <2>4. CASE ListNodesFailed(w)
    <3>1. t = Local  BY <1>2, <2>4 DEF ListNodesFailed, Forget
    <3>2. QED  BY <2>4, <3>1 DEF Covers, ListNodesFailed, At
  <2>5. CASE Finish(w)  BY <2>5 DEF Covers, Finish, At
  <2>6. CASE Pick(w)
    <3>1. PICK j \in worker[w].todo :
            worker' = [worker EXCEPT
                ![w].pc = IF worker[w].kind = "recompute" THEN "failed" ELSE "list",
                ![w].job = j, ![w].todo = @ \ {j}]
      BY <2>6 DEF Pick
    <3>2. /\ worker'[w].pc \in {"failed", "list"} /\ worker'[w].want = worker[w].want
          /\ worker'[w].job = j /\ worker[w].pc = "next"
          /\ worker'[w].todo = worker[w].todo \ {j} /\ worker'[w].kind = worker[w].kind
      BY <1>1, <2>6, <3>1 DEF States, Pick, At
    <3>3. QED  BY <1>2, <3>2 DEF Covers
  <2>7. QED  BY <2>1, <2>2, <2>3, <2>4, <2>5, <2>6 DEF Plan
<1>5. QED  BY <1>2, <1>3, <1>4 DEF Coming

\* At its target a worker covers it up to the outcome, unless another works there too.
LEMMA ComingReconcile ==
  ASSUME TypeOK, NEW w \in Workers, Placed(w), Reconcile(w), NEW t \in Owed', Coming(t)
  PROVE  Coming(t)'
<1>1. worker \in [Workers -> States] /\ worker[w] \in States  BY DEF TypeOK, States
<1>2. /\ worker'[w].want = worker[w].want /\ worker'[w].kind = worker[w].kind
      /\ worker'[w].todo = worker[w].todo /\ worker'[w].job = worker[w].job
      /\ worker[w].pc \in {"list", "apply"} /\ worker'[w].pc \in {"apply", "ok", "failed"}
      /\ UNCHANGED <<want, nodes, addr, tasks, syncs, nodeSyncs>>
      /\ List(w) \/ UNCHANGED crossed
      /\ List(w) \/ worker'[w].pc = "failed" \/ worker'[w].at = worker[w].at
  BY Reconciled
<1>3. /\ \A v \in Workers \ {w} : Covers(v, t) => Covers(v, t)'
      /\ t \in Owed /\ MachineOf(t)' = MachineOf(t) /\ t \in TargetsAt(MachineOf(t))
      /\ t \notin forgotten' /\ t \in Managed
  BY OthersCome, OwedType DEF Continue, Owed
<1>4. QueuedFor(t)' = QueuedFor(t)  BY <1>2 DEF QueuedFor, Queued
<1>5. Covers(w, t) => Covers(w, t)'
  <2> SUFFICES ASSUME Covers(w, t), worker[w].job.t = t, worker'[w].pc # "failed" PROVE Covers(w, t)'
    <3>1. Covers(w, t) /\ worker[w].job.t # t => Covers(w, t)'  BY <1>2 DEF Covers
    <3>2. Covers(w, t) /\ worker[w].job.t = t /\ worker'[w].pc = "failed" => Covers(w, t)'
      BY <1>2 DEF Covers
    <3>3. QED  BY <3>1, <3>2
  <2>1. CASE List(w)
    <3>1. worker'[w].pc = "apply" /\ worker'[w].at = MachineOf(t)  BY <2>1, Listed DEF Target
    <3>2. TreatingAt(MachineOf(t)) = {}  BY <1>3, <2>1 DEF List, Forget
    <3>3. w \notin crossed'  BY <2>1, <3>2 DEF List, Placed, At
    <3>4. QED  BY <1>2, <1>3, <2>1, <3>1, <3>3 DEF Covers, List, At
  <2>2. CASE ListGone(w) \/ ListPermanent(w)
    <3>1. FALSE
      BY <1>3, <2>2 DEF ListGone, ListPermanent, Gone, Permanent, Managed
    <3>2. QED  BY <3>1
  <2>3. CASE ListFailed(w) \/ ApplyFailed(w)
    <3>1. worker'[w].pc = "failed"  BY <1>1, <2>3 DEF ListFailed, ApplyFailed, Goto, States
    <3>2. QED  BY <3>1
  <2>4. CASE Delete(w) \/ AllowRule(w) \/ Applied(w)
    <3>1. worker[w].pc = "apply" /\ ~List(w)  BY <2>4 DEF Delete, AllowRule, Applied, List, At
    <3>2. worker'[w].at = worker[w].at /\ worker'[w].pc \in {"apply", "ok"} /\ crossed' = crossed
      BY <1>2, <3>1
    <3>3. QED  BY <1>2, <1>3, <3>1, <3>2 DEF Covers
  <2>5. QED  BY <2>1, <2>2, <2>3, <2>4 DEF Reconcile
<1>6. QED  BY <1>2, <1>3, <1>4, <1>5 DEF Coming

\* The outcome: the repair is done, or back in the queue, or known to be lost.
LEMMA ComingSettle ==
  ASSUME TypeOK, Named, Crossing, \A v \in Workers : Placed(v),
         NEW w \in Workers, Batch(w), Done(w), Settle(w), NEW t \in Owed', Coming(t)
  PROVE  Coming(t)' \/ Repaired(t)'
<1>1. worker \in [Workers -> States] /\ worker[w] \in States  BY DEF TypeOK, States
<1>2. /\ Target(w) \in Targets /\ worker[w].job \in Jobs /\ worker[w].job.id \in TaskIds \cup {0}
      /\ worker[w].job \in Memory(w)
  BY <1>1 DEF States, Jobs, Target, Memory
<1>3. /\ UNCHANGED <<want, nodes, addr, fw, syncs, nodeSyncs>>
      /\ \A v \in Workers \ {w} : worker'[v] = worker[v] /\ (Covers(v, t) => Covers(v, t)')
      /\ t \in Owed /\ MachineOf(t)' = MachineOf(t) /\ Ours(t)' = Ours(t)
      /\ t \in Targets /\ MachineOf(t) \in Machines /\ t \notin forgotten'
      /\ worker[w].pc \in {"ok", "failed", "upsert"}
  BY Settled, SettleType, OthersCome, OwedType DEF Continue, Owed
<1>4. ASSUME NextJob(w)
      PROVE  /\ worker'[w].pc = "next" /\ worker'[w].want = worker[w].want
             /\ worker'[w].kind = worker[w].kind /\ worker'[w].todo = worker[w].todo
  BY <1>4, OnToNext
<1>5. ASSUME NextJob(w), Target(w) # t, Covers(w, t) PROVE Covers(w, t)'
  BY <1>3, <1>4, <1>5 DEF Covers, Target
<1>6. ASSUME NextJob(w), At(w, "ok"), w \notin crossed, Spot(w) = MachineOf(t), worker[w].want = want
      PROVE  Repaired(t)'
  <2>1. Ours(t) = want  BY <1>3, <1>6 DEF Done, Ours
  <2>2. ASSUME NEW v \in Workers \ {w}, At(v, "apply") PROVE Spot(v) # MachineOf(t)
    BY <1>3, <1>6, <2>2 DEF Crossing, Treating, At
  <2>3. ~At(w, "apply")'  BY <1>4, <1>6 DEF At
  <2>4. \A v \in Workers \ {w} : At(v, "apply")' = At(v, "apply") /\ Spot(v)' = Spot(v)
    BY <1>3 DEF At, Spot
  <2>5. QED  BY <1>3, <2>1, <2>2, <2>3, <2>4 DEF Repaired
\* All that a worker covers of its target at "ok" is done.
<1>7. ASSUME NextJob(w), At(w, "ok"), Covers(w, t), Target(w) = t PROVE Coming(t)' \/ Repaired(t)'
  <2>1. CASE (\E j \in worker[w].todo : j.t = t) \/ (worker[w].kind = "local" /\ t # Local)
    <3>1. Covers(w, t)'  BY <1>3, <1>4, <1>7, <2>1 DEF Covers, At
    <3>2. QED  BY <3>1 DEF Coming
  <2>2. CASE w \notin crossed /\ Spot(w) = MachineOf(t)
    <3>1. worker[w].want = want  BY <1>7 DEF Covers, At, Batch
    <3>2. QED  BY <1>6, <1>7, <2>2, <3>1
  <2>3. QED  BY <1>7, <2>1, <2>2 DEF Covers, At, Spot
<1>8. ASSUME NextJob(w), QueuedFor(t) # {} => QueuedFor(t)' # {} \/ Repaired(t)',
             Covers(w, t) /\ Target(w) = t => Coming(t)' \/ Repaired(t)'
      PROVE  Coming(t)' \/ Repaired(t)'
  <2>1. Covers(w, t) => Coming(t)' \/ Repaired(t)'  BY <1>5, <1>8 DEF Coming
  <2>2. QED  BY <1>3, <1>8, <2>1 DEF Coming
<1>9. CASE Succeeded(w)
  <2>1. NextJob(w) /\ At(w, "ok")  BY <1>9 DEF Succeeded
  <2>2. ASSUME QueuedFor(t) # {}, QueuedFor(t)' = {} PROVE Coming(t)' \/ Repaired(t)'
    <3>1. PICK k \in QueuedFor(t) : TRUE  BY <2>2
    <3>2. k \in TaskIds /\ k \in Queued /\ tasks[k].t = t  BY <3>1 DEF QueuedFor, Queued
    <3>3. tasks'[k] # tasks[k]  BY <2>2, <3>2 DEF QueuedFor, Queued
    <3>4. Retrying(w) /\ k = worker[w].job.id  BY <1>9, <3>2, <3>3 DEF Succeeded, TypeOK
    <3>5. Target(w) = t  BY <1>2, <3>2, <3>4 DEF Named, Rightful, Target
    <3>6. ~Vain(w)  BY <1>3, <1>9, <3>4, <3>5 DEF Succeeded, Forget, Target
    <3>7. w \notin crossed /\ Spot(w) = MachineOf(t) /\ (worker[w].want = want \/ syncs > 0)
      BY <3>5, <3>6 DEF Vain, Outdated, Spot, Target, TypeOK
    <3>8. CASE syncs > 0  BY <1>3, <3>8 DEF Coming
    <3>9. CASE worker[w].want = want  BY <1>6, <2>1, <3>7, <3>9
    <3>10. QED  BY <3>7, <3>8, <3>9
  <2>3. QED  BY <1>7, <1>8, <2>1, <2>2
<1>10. CASE SucceededUndeleted(w)
  <2>1. NextJob(w) /\ At(w, "ok") /\ tasks' = tasks  BY <1>10 DEF SucceededUndeleted
  <2>2. QueuedFor(t)' = QueuedFor(t)  BY <2>1 DEF QueuedFor, Queued
  <2>3. QED  BY <1>7, <1>8, <2>1, <2>2
<1>11. CASE PutOff(w) \/ UpsertTask(w)
  <2>1. NextJob(w) /\ worker[w].pc \in {"failed", "upsert"}
    BY <1>11 DEF PutOff, UpsertTask, At
  <2>2. At(w, "upsert") \/ worker[w].job.id \in TaskIds
    BY <1>11 DEF PutOff, UpsertTask, Batch, Busy, At, Retrying
  <2>3. PICK i \in TaskIds : Save(i, Target(w), "later") /\ (i \in Queued => tasks[i].t = Target(w))
    BY <1>11, <2>2, SavesOwn
  <2>0. PICK h \in Targets : h = Target(w)  BY <1>2
  <2>4. Save(i, h, "later") /\ (i \in Queued => tasks[i].t = h) /\ t \in Targets  BY <1>3, <2>0, <2>3
  <2>5. Target(w) = t => QueuedFor(t)' # {}
    <3>1. ASSUME Target(w) = t, QueuedFor(t)' = {} PROVE FALSE
      <4>1. tasks'[i].t = h /\ tasks'[i].st = "later"  BY <2>4 DEF Save, TypeOK
      <4>2. i \in QueuedFor(t)'  BY <2>0, <3>1, <4>1 DEF QueuedFor, Queued
      <4>3. QED  BY <3>1, <4>2
    <3>2. QED  BY <3>1
  <2>6. ASSUME QueuedFor(t) # {} PROVE QueuedFor(t)' # {}
    <3>1. PICK k \in QueuedFor(t) : TRUE  BY <2>6
    <3>2. k \in TaskIds /\ tasks[k].t = t /\ tasks[k].st # "none"  BY <3>1 DEF QueuedFor, Queued
    <3>3. tasks' = [tasks EXCEPT ![i] = [t |-> h, st |-> "later"]]  BY <2>4 DEF Save
    <3>4. tasks'[k].t = t /\ tasks'[k].st # "none"
      BY <2>4, <3>2, <3>3 DEF TypeOK, Queued
    <3>5. k \in QueuedFor(t)'  BY <3>2, <3>4 DEF QueuedFor, Queued
    <3>6. QED  BY <3>5
  <2>7. QED  BY <1>8, <2>1, <2>5, <2>6 DEF Coming
<1>12. CASE FindTask(w)
  <2>1. PICK i : worker' = [worker EXCEPT ![w].pc = "upsert", ![w].job.id = i]
    BY <1>12 DEF FindTask
  <2>2. /\ worker'[w].pc = "upsert" /\ worker'[w].want = worker[w].want
        /\ worker'[w].kind = worker[w].kind /\ worker'[w].todo = worker[w].todo
        /\ worker'[w].job = [worker[w].job EXCEPT !.id = i]
    BY <1>1, <2>1 DEF States
  <2>3. worker'[w].job.t = worker[w].job.t  BY <1>2, <2>2 DEF Jobs
  <2>4. tasks' = tasks /\ worker[w].pc = "failed"  BY <1>12 DEF FindTask, At
  <2>5. QueuedFor(t)' = QueuedFor(t)  BY <2>4 DEF QueuedFor, Queued
  <2>6. Covers(w, t) => Covers(w, t)'  BY <1>3, <2>2, <2>3, <2>4 DEF Covers
  <2>7. QED  BY <1>3, <2>5, <2>6 DEF Coming
<1>13. CASE Unqueued(w)
  <2>1. NextJob(w) /\ tasks' = tasks  BY <1>13 DEF Unqueued
  <2>2. QueuedFor(t)' = QueuedFor(t)  BY <2>1 DEF QueuedFor, Queued
  <2>3. Target(w) = t => QueuedFor(t)' # {}
    BY <1>3, <1>13, <2>2 DEF Unqueued, Forget, Target
  <2>4. QED  BY <1>8, <2>1, <2>2, <2>3 DEF Coming
<1>14. QED  BY <1>9, <1>10, <1>11, <1>12, <1>13 DEF Settle

\* Only a worker whose plan may spoil a target makes it drift.
LEMMA Spoiled ==
  ASSUME TypeOK, Sound, \A v \in Workers : Placed(v), NEW w \in Workers, Delete(w) \/ AllowRule(w),
         NEW t \in Owed, Ours(t) = want, Ours(t)' # want, UNCHANGED db
  PROVE  Coming(t)
<1>1. MachineOf(t)' = MachineOf(t) /\ MachineOf(t) \in Machines  BY OwedType DEF MachineOf, db
<1>2. Spot(w) = MachineOf(t)
  BY <1>1, Reconciled DEF Reconcile, Ours
<1>3. CASE w \in crossed \/ worker[w].want # want
  BY <1>2, <1>3 DEF Sound, Harmless, Delete, AllowRule
<1>4. CASE w \notin crossed /\ worker[w].want = want
  <2>1. /\ \A n \in worker[w].del : fw[Spot(w)][n] \notin want
        /\ want = (Rest(w) \cap Rules) \cup worker[w].add
        /\ worker[w].add \cap ToSet(fw[Spot(w)]) = {} /\ Aimed(w)
    BY <1>4 DEF Sound, Exact, Straight, Delete, AllowRule
  <2>2. Ours(t) = ToSet(fw[Spot(w)]) \cap Rules  BY <1>2 DEF Ours
  <2>3. CASE Delete(w)
    <3>1. Doomed(w) \in worker[w].del /\ Doomed(w) \in Rows(Spot(w)) /\ fw[Spot(w)][Doomed(w)] \in Rules
      BY <2>1, <2>3, Dropped
    <3>2. fw[Spot(w)][Doomed(w)] \in ToSet(fw[Spot(w)])  BY <3>1 DEF ToSet, Rows
    <3>3. QED  BY <2>1, <2>2, <3>1, <3>2
  <2>4. CASE AllowRule(w)
    <3>1. PICK r \in worker[w].add : TRUE  BY <2>4, AllowedThere
    <3>2. QED  BY <2>1, <2>2, <3>1
  <2>5. QED  BY <2>3, <2>4
<1>5. QED  BY <1>3, <1>4

\* A step of a worker leaves every owed repair to come.
LEMMA ComingStep ==
  ASSUME IInv, NEW w \in Workers, Begin(w) \/ Continue(w), NEW t \in Owed', Coming(t)
  PROVE  Coming(t)' \/ Repaired(t)'
<1>1. /\ TypeOK /\ Named /\ Crossing /\ (\A v \in Workers : Placed(v)) /\ Placed(w) /\ Batch(w)
      /\ Done(w)
  BY DEF IInv, Basics, Sound
<1>2. CASE Begin(w)  BY <1>1, <1>2, ComingBegin
<1>3. CASE Plan(w)  BY <1>1, <1>3, ComingPlan
<1>4. CASE Reconcile(w)  BY <1>1, <1>4, ComingReconcile
<1>5. CASE Settle(w)  BY <1>1, <1>5, ComingSettle
<1>6. QED  BY <1>2, <1>3, <1>4, <1>5 DEF Continue

LEMMA DriftStep ==
  ASSUME IInv, NEW w \in Workers, Begin(w) \/ Continue(w)
  PROVE  NoLostDrift' /\ \A v \in Workers : Harmless(v)'
<1>1. TypeOK /\ Sound /\ NoLostDrift /\ \A v \in Workers : Placed(v) /\ Harmless(v)
  BY DEF IInv, Basics, Sound
<1>2. ASSUME NEW t \in Owed'
      PROVE  /\ UNCHANGED db /\ t \in Owed /\ MachineOf(t)' = MachineOf(t)
             /\ (fw' = fw => Ours(t)' = Ours(t)) /\ t \in TargetsAt(MachineOf(t)) /\ t \notin forgotten'
  BY <1>1, <1>2, OthersCome, OwedType DEF Owed
<1>3. ASSUME NEW t \in Owed', Ours(t)' # want' PROVE Coming(t)'
  <2>1. UNCHANGED db /\ t \in Owed /\ (fw' = fw => Ours(t)' = Ours(t))  BY <1>2
  <2>2. Coming(t)
    <3>1. CASE Ours(t) # want  BY <1>1, <2>1, <3>1 DEF NoLostDrift, Owed, Coming
    <3>2. CASE Ours(t) = want
      <4>1. fw' # fw  BY <1>3, <2>1, <3>2 DEF db
      <4>2. Reconcile(w) /\ (Delete(w) \/ AllowRule(w))
        BY <1>1, <4>1, Launched, Planned, Reconciled, Settled DEF Continue
      <4>3. Ours(t)' # want  BY <1>3, <2>1 DEF db
      <4>4. QED  BY <1>1, <2>1, <3>2, <4>2, <4>3, Spoiled
    <3>3. QED  BY <3>1, <3>2
  <2>3. QED  BY <1>3, <2>2, ComingStep DEF Repaired
<1>4. NoLostDrift'
  BY <1>3 DEF NoLostDrift, Owed, Coming
<1>5. ASSUME NEW v \in Workers, At(v, "apply")', v \in crossed' \/ worker'[v].want # want',
             NEW t \in Owed', MachineOf(t)' = Spot(v)'
      PROVE  Coming(t)'
  <2>1. /\ UNCHANGED db /\ t \in Owed /\ MachineOf(t)' = MachineOf(t)
        /\ t \in TargetsAt(MachineOf(t)) /\ t \notin forgotten'
    BY <1>2
  <2>2. ASSUME At(v, "apply"), v \in crossed \/ worker[v].want # want, MachineOf(t) = Spot(v)
        PROVE  Coming(t)'
    <3>1. Coming(t)  BY <1>1, <2>1, <2>2 DEF Harmless
    <3>2. QED  BY <1>5, <3>1, ComingStep DEF Repaired
  <2>3. CASE List(w)
    <3> DEFINE m == MachineOf(Target(w))
               others == TreatingAt(m)
    <3>1. /\ crossed' = crossed \/ (crossed' = crossed \cup others \cup {w} /\ others # {})
          /\ others # {} \/ Outdated(w) => TargetsAt(m) \subseteq forgotten'
          /\ others = {} => crossed' = crossed
          /\ UNCHANGED syncs /\ worker[w].pc = "list" /\ worker'[w].at = m
      BY <1>1, <2>3, Listed DEF List, Forget, Target
    <3>2. worker'[w].want = worker[w].want  BY <1>1, <2>3, Reconciled DEF Reconcile
    <3> HIDE DEF m
    <3>3. CASE v = w
      <4>1. MachineOf(t) = m  BY <1>5, <2>1, <3>1, <3>3 DEF Spot
      <4>2. others = {} /\ ~Outdated(w)  BY <2>1, <3>1, <4>1
      <4>3. w \notin crossed'  BY <1>1, <3>1, <4>2 DEF Placed
      <4>4. worker[w].want # want  BY <1>5, <2>1, <3>2, <3>3, <4>3 DEF db
      <4>5. syncs > 0  BY <1>1, <4>2, <4>4 DEF Outdated, TypeOK
      <4>6. QED  BY <3>1, <4>5 DEF Coming
    <3>4. CASE v # w
      <4>1. worker'[v] = worker[v]  BY <1>1, <3>4, CrossedStep
      <4>2. At(v, "apply") /\ MachineOf(t) = Spot(v)  BY <1>5, <2>1, <4>1 DEF At, Spot
      <4>3. CASE v \in crossed \/ worker[v].want # want  BY <2>2, <4>2, <4>3
      <4>4. CASE v \notin crossed /\ worker[v].want = want
        <5>1. v \in others  BY <1>5, <2>1, <3>1, <3>4, <4>1, <4>4 DEF db
        <5>2. MachineOf(t) = m  BY <4>2, <5>1 DEF TreatingAt, Spot
        <5>3. QED  BY <2>1, <3>1, <5>1, <5>2
      <4>5. QED  BY <4>3, <4>4
    <3>5. QED  BY <3>3, <3>4
  <2>4. CASE ~List(w)
    <3>1. v \in crossed' => v \in crossed
      BY <1>1, <2>4, Launched, Planned, Reconciled, Settled DEF Continue
    <3>2. CASE v = w
      <4>1. Reconcile(w)
        BY <1>1, <1>5, <3>2, Launched, Planned, Settled DEF Continue, At
      <4>2. worker'[w].at = worker[w].at /\ worker'[w].want = worker[w].want
        BY <1>1, <1>5, <2>4, <3>2, <4>1, Reconciled DEF At
      <4>3. worker[w].pc = "apply"
        <5>1. worker[w].pc # "list"
          <6>1. worker[w].pc = "list" => worker[w].at \notin Machines  BY <1>1 DEF Placed, Spot
          <6>2. worker'[w].at \in Machines
            BY <1>1, <1>5, <2>1, <3>2, OwedType DEF Spot
          <6>3. QED  BY <4>2, <6>1, <6>2
        <5>2. QED  BY <1>1, <4>1, <5>1, Reconciled
      <4>4. QED  BY <1>5, <2>1, <2>2, <3>1, <3>2, <4>2, <4>3 DEF At, Spot, db
    <3>3. CASE v # w
      <4>1. worker'[v] = worker[v]  BY <1>1, <3>3, CrossedStep
      <4>2. QED  BY <1>5, <2>1, <2>2, <3>1, <4>1 DEF At, Spot, db
    <3>4. QED  BY <3>2, <3>3
  <2>5. QED  BY <2>3, <2>4
<1>6. \A v \in Workers : Harmless(v)'  BY <1>5 DEF Harmless
<1>7. QED  BY <1>4, <1>6

\* Around the workers, whoever may take a repair away triggers another, or is named.
LEMMA ComingHappens ==
  ASSUME TypeOK, Happens \/ (\E i \in TaskIds : TaskDue(i)) \/ UNCHANGED vars, NEW t \in Owed'
  PROVE  \/ Coming(t)'
         \/ /\ t \in Owed /\ UNCHANGED <<want, fw, worker, crossed>> /\ MachineOf(t)' = MachineOf(t)
            /\ Coming(t) => Coming(t)'
<1>1. CASE SaveInbounds \/ AskForSync \/ Crash
  <2>1. syncs' > 0  BY <1>1 DEF SaveInbounds, AskForSync, Crash, TypeOK
  <2>2. QED  BY <2>1 DEF Coming
<1>2. t \notin forgotten' /\ t \in Targets
  BY DEF Owed, Managed, TypeOK, Targets, Happens, SaveInbounds, AskForSync, ClearTasks, Crash,
         DeployNode, SaveNode, RemoveNode, TaskDue, vars
<1>3. ASSUME NEW n \in Nodes, DeployNode(n), t # n
      PROVE  t \in Owed /\ MachineOf(t)' = MachineOf(t) /\ (Coming(t) => Coming(t)')
  <2>1. t \in Owed /\ MachineOf(t)' = MachineOf(t)
    BY <1>3 DEF DeployNode, Owed, Managed, MachineOf
  <2>2. Coming(t) => Coming(t)'
    BY <1>3 DEF DeployNode, Coming, Covers, QueuedFor, Queued, MachineOf
  <2>3. QED  BY <2>1, <2>2
<1>4. ASSUME NEW n \in Nodes, DeployNode(n), t = n PROVE Coming(t)'
  BY <1>4 DEF DeployNode, Coming
<1>5. ASSUME NEW n \in Nodes, SaveNode(n)
      PROVE  t \in Owed /\ MachineOf(t)' = MachineOf(t) /\ (Coming(t) => Coming(t)')
  <2>1. t # n /\ t \notin forgotten  BY <1>2, <1>5 DEF SaveNode, Forget
  <2>2. PICK m \in Machines : addr' = [addr EXCEPT ![n] = m]  BY <1>5 DEF SaveNode
  <2>3. MachineOf(t)' = MachineOf(t)  BY <2>1, <2>2 DEF MachineOf, TypeOK
  <2>4. t \in Owed  BY <1>5, <2>1, <2>3 DEF SaveNode, Owed, Managed
  <2>5. \A w : Covers(w, t)' = Covers(w, t)  BY <1>5, <2>3 DEF SaveNode, Covers
  <2>6. QED  BY <1>5, <2>3, <2>4, <2>5 DEF SaveNode, Coming, QueuedFor, Queued
<1>6. ASSUME NEW n \in Nodes, RemoveNode(n)
      PROVE  t \in Owed /\ MachineOf(t)' = MachineOf(t) /\ (Coming(t) => Coming(t)')
  <2>1. MachineOf(t)' = MachineOf(t) /\ t \in Owed
    BY <1>6 DEF RemoveNode, Owed, Managed, MachineOf
  <2>2. \A w : Covers(w, t)' = Covers(w, t)  BY <1>6, <2>1 DEF RemoveNode, Covers
  <2>3. QED  BY <1>6, <2>1, <2>2 DEF RemoveNode, Coming, QueuedFor, Queued
<1>7. CASE ClearTasks
  <2>1. /\ UNCHANGED <<want, nodes, addr, fw, syncs, nodeSyncs, worker, crossed>>
        /\ t \notin forgotten
    BY <1>2, <1>7 DEF ClearTasks, Forget
  <2>2. MachineOf(t)' = MachineOf(t) /\ t \in Owed  BY <2>1 DEF Owed, Managed, MachineOf
  <2>3. \A w : Covers(w, t)' = Covers(w, t)  BY <2>1, <2>2 DEF Covers
  <2>4. ASSUME QueuedFor(t) # {} PROVE QueuedFor(t)' # {}
    <3>1. PICK ts : /\ tasks' = [i \in TaskIds |-> IF tasks[i].t \in ts THEN NoRow ELSE tasks[i]]
                    /\ Forget({u \in ts : QueuedFor(u) # {}})
      BY <1>7 DEF ClearTasks
    <3>2. t \notin ts  BY <1>2, <2>4, <3>1 DEF Forget
    <3>3. \A i \in QueuedFor(t) : i \in QueuedFor(t)'  BY <3>1, <3>2 DEF QueuedFor, Queued
    <3>4. QED  BY <2>4, <3>3
  <2>5. QED  BY <2>1, <2>2, <2>3, <2>4 DEF Coming
<1>8. ASSUME NEW i \in TaskIds, TaskDue(i)
      PROVE  t \in Owed /\ MachineOf(t)' = MachineOf(t) /\ (Coming(t) => Coming(t)')
  <2>1. /\ UNCHANGED <<want, nodes, addr, syncs, nodeSyncs, worker, forgotten, crossed>>
        /\ tasks' = [tasks EXCEPT ![i].st = "due"] /\ tasks[i].st # "none"
    BY <1>8 DEF TaskDue
  <2>2. \A k \in TaskIds : tasks'[k].t = tasks[k].t /\ (tasks'[k].st = "none" <=> tasks[k].st = "none")
    BY <2>1 DEF TypeOK
  <2>3. QueuedFor(t)' = QueuedFor(t)  BY <2>2 DEF QueuedFor, Queued
  <2>4. MachineOf(t)' = MachineOf(t) /\ t \in Owed  BY <2>1 DEF Owed, Managed, MachineOf
  <2>5. \A w : Covers(w, t)' = Covers(w, t)  BY <2>1, <2>4 DEF Covers
  <2>6. QED  BY <2>1, <2>3, <2>4, <2>5 DEF Coming
<1>9. CASE UNCHANGED vars
  BY <1>9 DEF vars, Owed, Managed, MachineOf, Coming, Covers, QueuedFor, Queued
<1>10. (\E n \in Nodes : DeployNode(n) \/ SaveNode(n) \/ RemoveNode(n)) \/ ClearTasks
         \/ (\E i \in TaskIds : TaskDue(i)) => UNCHANGED <<want, fw, worker, crossed>>
  BY DEF DeployNode, SaveNode, RemoveNode, ClearTasks, TaskDue
<1>11. QED  BY <1>1, <1>3, <1>4, <1>5, <1>6, <1>7, <1>8, <1>9, <1>10 DEF Happens, vars

LEMMA DriftHappens ==
  ASSUME IInv, Happens \/ (\E i \in TaskIds : TaskDue(i)) \/ UNCHANGED vars
  PROVE  NoLostDrift' /\ \A v \in Workers : Harmless(v)'
<1>1. TypeOK /\ NoLostDrift /\ \A v \in Workers : Harmless(v)  BY DEF IInv, Basics, Sound
<1>2. ASSUME NEW t \in Owed', Ours(t)' # want' PROVE Coming(t)'
  <2> SUFFICES ASSUME t \in Owed, UNCHANGED <<want, fw>>, MachineOf(t)' = MachineOf(t),
                      Coming(t) => Coming(t)'
               PROVE  Coming(t)'
    BY <1>1, <1>2, ComingHappens
  <2>1. Ours(t) # want  BY <1>2 DEF Ours
  <2>2. QED  BY <1>1, <2>1 DEF NoLostDrift, Owed, Coming
<1>3. ASSUME NEW v \in Workers, At(v, "apply")', v \in crossed' \/ worker'[v].want # want',
             NEW t \in Owed', MachineOf(t)' = Spot(v)'
      PROVE  Coming(t)'
  <2> SUFFICES ASSUME t \in Owed, UNCHANGED <<want, worker, crossed>>, MachineOf(t)' = MachineOf(t),
                      Coming(t) => Coming(t)'
               PROVE  Coming(t)'
    BY <1>1, <1>3, ComingHappens
  <2>1. QED  BY <1>1, <1>3 DEF Harmless, At, Spot
<1>4. NoLostDrift'  BY <1>2 DEF NoLostDrift, Owed, Coming
<1>5. \A v \in Workers : Harmless(v)'  BY <1>3 DEF Harmless
<1>6. QED  BY <1>4, <1>5

LEMMA IInvInit == Init => IInv
<1> SUFFICES ASSUME Init PROVE IInv
  OBVIOUS
<1>1. Basics /\ \A w \in Workers : worker[w] = IdleWorker  BY BasicsInit
<1>2. Named
  <2>1. \A w \in Workers : \A j \in Memory(w) : j.id = 0
    BY <1>1 DEF Memory, IdleWorker, NoTask
  <2>2. Queued \subseteq TaskIds  BY DEF Queued
  <2>3. QED  BY <2>1, <2>2 DEF Named, Rightful, Agreed
<1>3. (\A w \in Workers : Batch(w)) /\ Crossing /\ Sound
  BY <1>1 DEF IdleWorker, Batch, At, Busy, Crossing, Treating, Sound, Straight, Aimed, Exact, Done, Harmless
<1>4. NoLostDrift
  <2>1. syncs > 0  BY DEF Init
  <2>2. QED  BY <2>1 DEF NoLostDrift
<1>5. QED  BY <1>1, <1>2, <1>3, <1>4 DEF IInv

LEMMA IInvNext == IInv /\ [Next]_vars => IInv'
<1> SUFFICES ASSUME IInv, [Next]_vars PROVE IInv'
  OBVIOUS
<1>1. /\ Basics /\ TypeOK /\ Named /\ (\A w \in Workers : Placed(w) /\ Batch(w)) /\ Crossing /\ NoLostDrift
      /\ \A w \in Workers : Straight(w) /\ Exact(w) /\ Done(w) /\ Harmless(w)
  BY DEF IInv, Basics, Sound
<1>2. Basics'  BY <1>1, BasicsNext
<1>3. Named'  BY <1>1, NamedKept
<1>4. \A w \in Workers : Batch(w)'  BY <1>1, BatchKept
<1>5. Crossing'  BY <1>1, CrossingKept
<1>6. \A w \in Workers : Straight(w)'  BY <1>1, StraightKept
<1>7. \A w \in Workers : Exact(w)' /\ Done(w)'  BY <1>1, KnowledgeKept
<1>8. NoLostDrift' /\ \A w \in Workers : Harmless(w)'  BY DriftStep, DriftHappens DEF Next
<1>9. QED  BY <1>2, <1>3, <1>4, <1>5, <1>6, <1>7, <1>8 DEF IInv, Sound

\* For any number of workers that overlap, rules, machines, nodes, tasks and events, and
\* through every failure, crash, removal and re-addressing of the module: a target that
\* drifts and is not forgotten for one of the causes that NoLostDrift names has a repair
\* still to come.
THEOREM DriftHolds == Spec => []NoLostDrift
<1>1. IInv => NoLostDrift  BY DEF IInv
<1>2. QED  BY <1>1, IInvInit, IInvNext, PTL DEF Spec
=============================================================================
