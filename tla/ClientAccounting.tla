-------------------------- MODULE ClientAccounting --------------------------
(***************************************************************************)
(* The clients: their rows, the traffic counted for them, and the users of *)
(* the running inbounds (service/client.go, stats.go, RestartInbounds of   *)
(* inbounds.go, core/tracker_stats.go, and the jobs of cronjob/).          *)
(*                                                                         *)
(* A worker is a run of the statistics job, a run of the depletion job, or *)
(* a request of an administrator together with the page it was sent from.  *)
(* The database is SQLite in WAL mode: one transaction writes at a time,   *)
(* and one that has read before another commits can no longer write.  So a *)
(* transaction that touches nothing but the database is one step, and a    *)
(* request that goes on to touch the core keeps the others from writing.   *)
(***************************************************************************)
EXTENDS Naturals, FiniteSets

CONSTANTS
    Clients,     \* names of clients
    Inbounds,    \* inbounds, which an administrator leaves alone here
    Workers,     \* goroutines that may run at once
    Plans,       \* kinds of clients: records of delay and auto
    Volume,      \* traffic a client may use between two resets
    MaxTraffic,  \* bound: units of traffic each client sends
    MaxEdits,    \* bound: requests of administrators
    MaxMishaps   \* bound: failures and restarts of the core

ASSUME WorkersAssumption == IsFiniteSet(Workers)
ASSUME PlansAssumption == Plans \subseteq [delay : BOOLEAN, auto : BOOLEAN]
ASSUME BoundsAssumption == {Volume, MaxTraffic, MaxEdits, MaxMishaps} \subseteq Nat

VARIABLES
    rows,     \* the table clients
    core,     \* "up", "down", or "starting" with the users it has read
    boot,     \* the users a starting core has read, per inbound
    inb,      \* each inbound of the core: whether it is there, and its users
    counter,  \* counters of the running core's StatsTracker
    worker,   \* the state of each worker
    sent,     \* traffic each client really sent
    broken,   \* the core stopped, an inbound was not put back, a request that had
              \* changed the core was rolled back, or an inbound was made anew
              \* without the changes of a request that was past it
    edits, mishaps

vars == <<rows, core, boot, inb, counter, worker, sent, broken, edits, mishaps>>

Traffic == 0..MaxTraffic

\* expired: expiry is set and past; due: next_reset is past.
Row == [present : BOOLEAN, enable : BOOLEAN, used : Traffic, total : Traffic,
        delay : BOOLEAN, auto : BOOLEAN, expired : BOOLEAN, due : BOOLEAN,
        ins : SUBSET Inbounds]

NoRow == [present |-> FALSE, enable |-> FALSE, used |-> 0, total |-> 0,
          delay |-> FALSE, auto |-> FALSE, expired |-> FALSE, due |-> FALSE, ins |-> {}]

NewRow(plan) == [NoRow EXCEPT !.present = TRUE, !.enable = TRUE, !.ins = Inbounds,
                              !.delay = plan.delay, !.auto = plan.auto]

Out == [up |-> FALSE, users |-> {}]
Zero == [c \in Clients |-> 0]

IdleWorker == [pc |-> "idle", kind |-> "none", delta |-> Zero, who |-> {},
               row |-> NoRow, todo |-> {}, at |-> {}, users |-> {}]

TypeOK ==
    /\ rows \in [Clients -> Row]
    /\ core \in {"up", "down", "starting"}
    /\ boot \in [Inbounds -> SUBSET Clients]
    /\ inb \in [Inbounds -> [up : BOOLEAN, users : SUBSET Clients]]
    /\ counter \in [Clients -> Traffic]
    /\ worker \in [Workers ->
           [pc : {"idle", "store", "page", "begin", "restart", "read", "add", "done"},
            kind : {"none", "stats", "deplete", "save"},
            delta : [Clients -> Traffic], who : SUBSET Clients, row : Row,
            todo : SUBSET Inbounds, at : SUBSET Inbounds, users : SUBSET Clients]]
    /\ sent \in [Clients -> Traffic]
    /\ broken \in BOOLEAN
    /\ edits \in 0..MaxEdits
    /\ mishaps \in 0..MaxMishaps

\* The users of an inbound: enabled clients that list it.
Users(rs, i) == {c \in Clients : rs[c].enable /\ i \in rs[c].ins}

\* The panel has started, and the core with it.
Init ==
    /\ rows \in [Clients -> {NoRow} \cup {NewRow(plan) : plan \in Plans}]
    /\ core = "up"
    /\ boot = [i \in Inbounds |-> {}]
    /\ inb = [i \in Inbounds |-> [up |-> TRUE, users |-> Users(rows, i)]]
    /\ counter = Zero
    /\ worker = [w \in Workers |-> IdleWorker]
    /\ sent = Zero
    /\ broken = FALSE
    /\ edits = 0 /\ mishaps = 0

At(w, l) == worker[w].pc = l
Idle(w) == worker' = [worker EXCEPT ![w] = IdleWorker]
Mishap == mishaps < MaxMishaps /\ mishaps' = mishaps + 1
Edit == edits < MaxEdits /\ edits' = edits + 1

\* A request that has written keeps every other transaction from writing.
Writing(w) == worker[w].kind = "save" /\ ~At(w, "page")
Unlocked == \A w \in Workers : ~Writing(w)

\* What a worker's queries see: its own transaction's row, or what is committed.
View(w) == [c \in Clients |-> IF Writing(w) /\ c \in worker[w].who THEN worker[w].row
                              ELSE rows[c]]

-----------------------------------------------------------------------------
(* Traffic and the statistics job.                                          *)

\* A user of a running inbound sends something, which the tracker counts.
Send(c) ==
    /\ core = "up" /\ \E i \in Inbounds : inb[i].up /\ c \in inb[i].users
    /\ sent[c] < MaxTraffic
    /\ sent' = [sent EXCEPT ![c] = @ + 1]
    /\ counter' = [counter EXCEPT ![c] = @ + 1]
    /\ UNCHANGED <<rows, core, boot, inb, worker, broken, edits, mishaps>>

\* Mutated form: the counters are read, not swapped with zero.
TakeCountersKept(w) ==
    /\ At(w, "idle") /\ core = "up" /\ counter # Zero
    /\ worker' = [worker EXCEPT ![w] = [IdleWorker EXCEPT
                      !.pc = "store", !.kind = "stats", !.delta = counter]]
    /\ UNCHANGED <<rows, core, boot, inb, counter, sent, broken, edits, mishaps>>

\* GetStats swaps the counters with zero ...
TakeCounters(w) ==
    /\ At(w, "idle") /\ core = "up" /\ counter # Zero
    /\ counter' = Zero
    /\ worker' = [worker EXCEPT ![w] = [IdleWorker EXCEPT
                      !.pc = "store", !.kind = "stats", !.delta = counter]]
    /\ UNCHANGED <<rows, core, boot, inb, sent, broken, edits, mishaps>>

\* ... and SaveStats adds them to the rows that there are ...
Store(w) ==
    /\ At(w, "store") /\ Unlocked
    /\ rows' = [c \in Clients |-> IF rows[c].present
                                  THEN [rows[c] EXCEPT !.used = @ + worker[w].delta[c]]
                                  ELSE rows[c]]
    /\ Idle(w)
    /\ UNCHANGED <<core, boot, inb, counter, sent, broken, edits, mishaps>>

\* ... or fails, and they are lost.
StoreFailed(w) ==
    /\ At(w, "store") /\ Mishap
    /\ Idle(w)
    /\ UNCHANGED <<rows, core, boot, inb, counter, sent, broken, edits>>

-----------------------------------------------------------------------------
(* The depletion job: ResetClients, then the depleted clients, in one       *)
(* transaction, then RestartInbounds outside of it.                         *)

Starts(r) == r.enable /\ r.delay /\ r.used > 0
Resets(r) == r.present /\ ~r.delay /\ r.auto /\ r.due
Depleted(r) == r.enable /\ (r.used > Volume \/ r.expired)

\* Mutated forms: the traffic of the last period is kept as well as added to the
\* total, or it is forgotten.
ResetKept(r) ==
    IF Starts(r)
    THEN [r EXCEPT !.delay = FALSE, !.due = IF r.auto THEN FALSE ELSE @,
                   !.expired = IF r.auto THEN @ ELSE FALSE]
    ELSE IF Resets(r)
    THEN [r EXCEPT !.due = FALSE, !.enable = TRUE, !.total = @ + r.used]
    ELSE r

ResetForgotten(r) ==
    IF Starts(r)
    THEN [r EXCEPT !.delay = FALSE, !.due = IF r.auto THEN FALSE ELSE @,
                   !.expired = IF r.auto THEN @ ELSE FALSE]
    ELSE IF Resets(r)
    THEN [r EXCEPT !.due = FALSE, !.enable = TRUE, !.used = 0]
    ELSE r

\* A delayed client's first traffic sets its expiry, or its first reset; at a reset
\* a client starts afresh, enabled.
Reset(r) ==
    IF Starts(r)
    THEN [r EXCEPT !.delay = FALSE, !.due = IF r.auto THEN FALSE ELSE @,
                   !.expired = IF r.auto THEN @ ELSE FALSE]
    ELSE IF Resets(r)
    THEN [r EXCEPT !.due = FALSE, !.enable = TRUE, !.total = @ + r.used, !.used = 0]
    ELSE r

Deplete(r) == IF Depleted(r) THEN [r EXCEPT !.enable = FALSE] ELSE r

\* Mutated form: clients are disabled, but their inbounds are not restarted.
DepleteClientsOnly(w) ==
    /\ At(w, "idle") /\ Unlocked
    /\ rows' = [c \in Clients |-> Deplete(Reset(rows[c]))]
    /\ rows' # rows
    /\ worker' = [worker EXCEPT ![w] = [IdleWorker EXCEPT !.pc = "begin", !.kind = "deplete"]]
    /\ UNCHANGED <<core, boot, inb, counter, sent, broken, edits, mishaps>>

DepleteClients(w) ==
    /\ At(w, "idle") /\ Unlocked
    /\ LET reset == [c \in Clients |-> Reset(rows[c])]
           changed == {c \in Clients : reset[c].enable # rows[c].enable \/ Depleted(reset[c])}
       IN  /\ rows' = [c \in Clients |-> Deplete(reset[c])]
           /\ rows' # rows
           /\ worker' = [worker EXCEPT ![w] = [IdleWorker EXCEPT
                  !.pc = "begin", !.kind = "deplete",
                  !.todo = UNION {rows[c].ins : c \in changed}]]
    /\ UNCHANGED <<core, boot, inb, counter, sent, broken, edits, mishaps>>

-----------------------------------------------------------------------------
(* ConfigService.Save of a client.                                          *)

\* An administrator opens the page of a client: its row, as it is now.
OpenPage(w, c) ==
    /\ At(w, "idle") /\ rows[c].present /\ edits < MaxEdits
    /\ worker' = [worker EXCEPT ![w] = [IdleWorker EXCEPT
                      !.pc = "page", !.kind = "save", !.who = {c}, !.row = rows[c]]]
    /\ UNCHANGED <<rows, core, boot, inb, counter, sent, broken, edits, mishaps>>

\* The page may enable, disable or renew the client, or give it other inbounds.
Edited(r, enable, renew, ins) ==
    [r EXCEPT !.enable = enable, !.expired = @ /\ ~renew, !.ins = ins]

\* Mutated form: the inbounds that a client loses are forgotten.
ChangesGained(old, new) ==
    IF old.enable # new.enable THEN old.ins \cup new.ins ELSE new.ins \ old.ins

\* findInboundsChanges: the inbounds of a client whose name, credentials or enabling
\* changed, or those it gains or loses.
Changes(old, new) ==
    IF old.enable # new.enable THEN old.ins \cup new.ins
    ELSE (old.ins \ new.ins) \cup (new.ins \ old.ins)

\* The whole row is written as the page had it, counters included.
SaveClient(w) ==
    /\ At(w, "page") /\ Unlocked /\ Edit
    /\ worker[w].row.present
    /\ \E c \in worker[w].who, enable, renew \in BOOLEAN, ins \in SUBSET Inbounds :
          LET r == Edited(worker[w].row, enable, renew, ins)
          IN  \E todo \in {Changes(rows[c], r), rows[c].ins \cup r.ins} :
                worker' = [worker EXCEPT ![w].pc = IF todo = {} THEN "done" ELSE "begin",
                                         ![w].row = r, ![w].todo = todo]
    /\ UNCHANGED <<rows, core, boot, inb, counter, sent, broken, mishaps>>

\* The page is closed, or its request fails, before anything is written.
ClosePage(w) ==
    /\ At(w, "page")
    /\ Idle(w)
    /\ UNCHANGED <<rows, core, boot, inb, counter, sent, broken, edits, mishaps>>

Request(w, c, r, todo) ==
    worker' = [worker EXCEPT ![w] = [IdleWorker EXCEPT !.pc = "begin", !.kind = "save",
                   !.who = {c}, !.row = r, !.todo = todo]]

NewClient(w, c) ==
    /\ At(w, "idle") /\ ~rows[c].present /\ Unlocked /\ Edit
    /\ \E plan \in Plans : Request(w, c, NewRow(plan), Inbounds)
    /\ UNCHANGED <<rows, core, boot, inb, counter, sent, broken, mishaps>>

DeleteClient(w, c) ==
    /\ At(w, "idle") /\ rows[c].present /\ Unlocked /\ Edit
    /\ Request(w, c, NoRow, rows[c].ins)
    /\ UNCHANGED <<rows, core, boot, inb, counter, sent, broken, mishaps>>

\* Pages of a client that is gone have an id that no row has any more.
Commit(w) ==
    /\ At(w, "done") /\ worker[w].kind = "save"
    /\ rows' = View(w)
    /\ worker' = [v \in Workers |->
           IF v = w THEN IdleWorker
           ELSE IF At(v, "page") /\ \E c \in worker[v].who : ~View(w)[c].present
           THEN [worker[v] EXCEPT !.row = NoRow]
           ELSE worker[v]]
    /\ UNCHANGED <<core, boot, inb, counter, sent, broken, edits, mishaps>>

\* The record of the change, or the commit, fails: the transaction is rolled back,
\* the core stays as it was made.
CommitFailed(w) ==
    /\ At(w, "done") /\ worker[w].kind = "save" /\ Mishap
    /\ broken' = TRUE
    /\ Idle(w)
    /\ UNCHANGED <<rows, core, boot, inb, counter, sent, edits>>

DepletionDone(w) ==
    /\ At(w, "done") /\ worker[w].kind = "deplete"
    /\ Idle(w)
    /\ UNCHANGED <<rows, core, boot, inb, counter, sent, broken, edits, mishaps>>

-----------------------------------------------------------------------------
(* RestartInbounds.                                                         *)

Goto(w, l) == worker' = [worker EXCEPT ![w].pc = l]

\* A core that does not run is left alone.
BeginRestart(w) ==
    /\ At(w, "begin")
    /\ Goto(w, IF core = "up" /\ worker[w].todo # {} THEN "restart" ELSE "done")
    /\ UNCHANGED <<rows, core, boot, inb, counter, sent, broken, edits, mishaps>>

\* The inbound is removed, if it is there, and its connections are closed.
RemoveInbound(w) ==
    /\ At(w, "restart") /\ core = "up"
    /\ \E i \in worker[w].todo :
          /\ inb' = [inb EXCEPT ![i] = Out]
          /\ worker' = [worker EXCEPT ![w].pc = "read", ![w].at = {i}, ![w].todo = @ \ {i}]
    /\ UNCHANGED <<rows, core, boot, counter, sent, broken, edits, mishaps>>

\* A request that is still open has restarted the inbound, for users that a worker's
\* queries do not see yet.
Crossed(w, i) == \E v \in Workers :
    /\ Writing(v) /\ i \notin worker[v].todo \cup worker[v].at
    /\ Users(View(v), i) # Users(View(w), i)

\* Mutated form: the query is not part of the request's transaction.
AddUsersCommitted(w) ==
    /\ At(w, "read")
    /\ \E i \in worker[w].at :
          /\ worker' = [worker EXCEPT ![w].pc = "add", ![w].users = Users(rows, i)]
          /\ broken' = (broken \/ Crossed(w, i))
    /\ UNCHANGED <<rows, core, boot, inb, counter, sent, edits, mishaps>>

\* addUsers queries the users ...
AddUsers(w) ==
    /\ At(w, "read")
    /\ \E i \in worker[w].at :
          /\ worker' = [worker EXCEPT ![w].pc = "add", ![w].users = Users(View(w), i)]
          /\ broken' = (broken \/ Crossed(w, i))
    /\ UNCHANGED <<rows, core, boot, inb, counter, sent, edits, mishaps>>

\* ... and the inbound is made anew; its port must be free.
AddInbound(w) ==
    /\ At(w, "add") /\ core = "up"
    /\ \E i \in worker[w].at :
          /\ ~inb[i].up
          /\ inb' = [inb EXCEPT ![i] = [up |-> TRUE, users |-> worker[w].users]]
    /\ worker' = [worker EXCEPT ![w].pc = IF worker[w].todo = {} THEN "done" ELSE "restart",
                                ![w].at = {}, ![w].users = {}]
    /\ UNCHANGED <<rows, core, boot, counter, sent, broken, edits, mishaps>>

\* A call of the core or a query fails: the job logs it, the request is rolled back.
RestartFailed(w) ==
    /\ worker[w].pc \in {"restart", "read", "add"} /\ Mishap
    /\ broken' = TRUE
    /\ Idle(w)
    /\ UNCHANGED <<rows, core, boot, inb, counter, sent, edits>>

\* It must: the core went down, or another worker put the inbound back.
RestartRefused(w) ==
    /\ \/ worker[w].pc \in {"restart", "add"} /\ core # "up"
       \/ At(w, "add") /\ \E i \in worker[w].at : inb[i].up
    /\ broken' = TRUE
    /\ Idle(w)
    /\ UNCHANGED <<rows, core, boot, inb, counter, sent, edits, mishaps>>

-----------------------------------------------------------------------------
(* The core, which CoreLifecycle models, and the clock.                     *)

\* The instance is closed, and its tracker with it.
CoreStops ==
    /\ core = "up" /\ Mishap
    /\ core' = "down"
    /\ inb' = [i \in Inbounds |-> Out]
    /\ counter' = Zero
    /\ broken' = TRUE
    /\ UNCHANGED <<rows, boot, worker, sent, edits>>

CoreReads ==
    /\ core = "down"
    /\ core' = "starting"
    /\ boot' = [i \in Inbounds |-> Users(rows, i)]
    /\ UNCHANGED <<rows, inb, counter, worker, sent, broken, edits, mishaps>>

CoreUp ==
    /\ core = "starting"
    /\ core' = "up"
    /\ inb' = [i \in Inbounds |-> [up |-> TRUE, users |-> boot[i]]]
    /\ boot' = [i \in Inbounds |-> {}]
    /\ UNCHANGED <<rows, counter, worker, sent, broken, edits, mishaps>>

\* expiry or next_reset, an absolute time, passes: in the row and in copies of it.
Passes(c, time) ==
    /\ rows[c].present /\ ~rows[c][time]
    /\ rows' = [rows EXCEPT ![c][time] = TRUE]
    /\ worker' = [w \in Workers |-> IF c \in worker[w].who /\ worker[w].row.present
                                    THEN [worker[w] EXCEPT !.row[time] = TRUE] ELSE worker[w]]
    /\ UNCHANGED <<core, boot, inb, counter, sent, broken, edits, mishaps>>

Expire(c) == Passes(c, "expired")
FallDue(c) == rows[c].auto /\ Passes(c, "due")

Job(w) == TakeCounters(w) \/ DepleteClients(w)

Administrator(w) ==
    \/ SaveClient(w) \/ ClosePage(w)
    \/ \E c \in Clients : OpenPage(w, c) \/ NewClient(w, c) \/ DeleteClient(w, c)

Continue(w) ==
    \/ Store(w) \/ BeginRestart(w) \/ RemoveInbound(w) \/ AddUsers(w) \/ AddInbound(w)
    \/ RestartRefused(w) \/ DepletionDone(w) \/ Commit(w)

Failure(w) == StoreFailed(w) \/ RestartFailed(w) \/ CommitFailed(w)

Next ==
    \/ \E w \in Workers : Job(w) \/ Administrator(w) \/ Continue(w) \/ Failure(w)
    \/ \E c \in Clients : Send(c) \/ Expire(c) \/ FallDue(c)
    \/ CoreStops \/ CoreReads \/ CoreUp

Spec == Init /\ [][Next]_vars

\* Goroutines are scheduled, the cron job keeps running, a page is not left open
\* for ever, and a core that is down is started.
Fairness ==
    /\ WF_vars(CoreReads) /\ WF_vars(CoreUp)
    /\ SF_vars(\E w \in Workers : DepleteClients(w))
    /\ \A w \in Workers : SF_vars(Continue(w)) /\ WF_vars(ClosePage(w))
FairSpec == Spec /\ Fairness

-----------------------------------------------------------------------------
(* Properties.                                                              *)

Charged(c) == rows[c].used + rows[c].total

\* Traffic that running jobs have taken, unit by unit: the sum of their deltas.
InFlight(c) ==
    Cardinality({u \in Workers \X (1..MaxTraffic) : u[2] <= worker[u[1]].delta[c]})

\* No client is ever charged for more than it sent: not by jobs that overlap, nor by
\* a page that writes old counters back after a reset, nor after any failure.
NeverOvercharged ==
    \A c \in Clients : Charged(c) + counter[c] + InFlight(c) <= sent[c]

\* As long as nothing fails, no core stops and no administrator writes rows back,
\* every unit is in a counter, in a running job or in the row, resets included.
NothingLost ==
    edits = 0 /\ mishaps = 0 =>
        \A c \in Clients : Charged(c) + counter[c] + InFlight(c) = sent[c]

Connected(c) == core = "up" /\ \E i \in Inbounds : inb[i].up /\ c \in inb[i].users

Over(c) == rows[c].used > Volume \/ rows[c].expired

\* "Expiry: ... the client is automatically disabled", "Volume cap: ...": a client
\* beyond its volume or its time ends up disabled and cut off, at every inbound.
Enforced == \A c \in Clients :
    Over(c) ~> ~Over(c) \/ (~rows[c].enable /\ ~Connected(c)) \/ broken

\* Between jobs and requests, the inbounds of the core have the users that the
\* table says: neither a disabled client nor one too few.
CoreAgrees ==
    ~broken /\ (\A w \in Workers : At(w, "idle")) =>
        \A i \in Inbounds : inb[i] = [up |-> TRUE, users |-> Users(rows, i)]

=============================================================================
