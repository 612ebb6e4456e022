----------------------- MODULE ClientAccountingProofs -----------------------
(***************************************************************************)
(* For any number of clients, inbounds, plans and workers that overlap:    *)
(* between jobs and requests, and unless one of the named causes has come  *)
(* up, every inbound of the core has the users of the table.               *)
(***************************************************************************)
EXTENDS ClientAccounting, TLAPS

USE PlansAssumption, BoundsAssumption

-----------------------------------------------------------------------------
(* Shapes.  Traffic is only known to be a natural number here: that it is   *)
(* within its bound is NeverOvercharged, a sum over all workers.            *)

Rows == [present : BOOLEAN, enable : BOOLEAN, used : Nat, total : Nat,
         delay : BOOLEAN, auto : BOOLEAN, expired : BOOLEAN, due : BOOLEAN,
         ins : SUBSET Inbounds]

States == [pc : {"idle", "store", "page", "begin", "restart", "read", "add", "done"},
           kind : {"none", "stats", "deplete", "save"},
           delta : [Clients -> Nat], who : SUBSET Clients, row : Rows,
           todo : SUBSET Inbounds, at : SUBSET Inbounds, users : SUBSET Clients]

Shaped ==
  /\ rows \in [Clients -> Rows]
  /\ worker \in [Workers -> States]
  /\ counter \in [Clients -> Nat]
  /\ inb \in [Inbounds -> [up : BOOLEAN, users : SUBSET Clients]]
  /\ boot \in [Inbounds -> SUBSET Clients]

LEMMA Blanks ==
  /\ NoRow \in Rows /\ NoRow.enable = FALSE /\ NoRow.ins = {}
  /\ Zero \in [Clients -> Nat]
  /\ IdleWorker \in States /\ IdleWorker.pc = "idle" /\ IdleWorker.kind = "none"
  /\ IdleWorker.who = {} /\ IdleWorker.todo = {} /\ IdleWorker.at = {}
  /\ \A plan \in Plans : NewRow(plan) \in Rows
  /\ Out \in [up : BOOLEAN, users : SUBSET Clients]
<1>1. NoRow \in Rows /\ NoRow.enable = FALSE /\ NoRow.ins = {}  BY DEF NoRow, Rows
<1>2. Zero \in [Clients -> Nat]  BY DEF Zero
<1>3. IdleWorker \in States  BY <1>1, <1>2 DEF IdleWorker, States
<1>4. \A plan \in Plans : NewRow(plan) \in Rows  BY DEF NewRow, NoRow, Rows
<1>5. QED  BY <1>1, <1>2, <1>3, <1>4 DEF IdleWorker, Out

\* The record of a worker that goes on.
LEMMA Turn ==
  ASSUME Shaped, NEW w \in Workers, NEW q \in States, worker' = [worker EXCEPT ![w] = q]
  PROVE  worker'[w] = q /\ worker' \in [Workers -> States]
  BY DEF Shaped

LEMMA UsersType == \A rs, i : Users(rs, i) \in SUBSET Clients
  BY DEF Users

\* A row after the depletion job has the same inbounds and a row's fields.
LEMMA ResetRow ==
  ASSUME NEW r \in Rows
  PROVE  /\ Reset(r) \in Rows /\ Reset(r).ins = r.ins
         /\ Deplete(Reset(r)) \in Rows /\ Deplete(Reset(r)).ins = r.ins
         /\ ~Depleted(Reset(r)) => Deplete(Reset(r)) = Reset(r)
<1>1. CASE Starts(r)
  <2> DEFINE d == IF r.auto THEN FALSE ELSE r.due
             e == IF r.auto THEN r.expired ELSE FALSE
  <2>1. Reset(r) = [r EXCEPT !.delay = FALSE, !.due = d, !.expired = e]  BY <1>1 DEF Reset
  <2>2. d \in BOOLEAN /\ e \in BOOLEAN  BY DEF Rows
  <2> HIDE DEF d, e
  <2>3. Reset(r) \in Rows /\ Reset(r).ins = r.ins  BY <2>1, <2>2 DEF Rows
  <2>4. QED  BY <2>3 DEF Deplete, Rows
<1>2. CASE ~Starts(r) /\ Resets(r)
  <2> DEFINE t == r.total + r.used
  <2>1. Reset(r) = [r EXCEPT !.due = FALSE, !.enable = TRUE, !.total = t, !.used = 0]
    BY <1>2 DEF Reset
  <2>2. t \in Nat /\ 0 \in Nat  BY DEF Rows
  <2> HIDE DEF t
  <2>3. Reset(r) \in Rows /\ Reset(r).ins = r.ins  BY <2>1, <2>2 DEF Rows
  <2>4. QED  BY <2>3 DEF Deplete, Rows
<1>3. CASE ~Starts(r) /\ ~Resets(r)
  <2>1. Reset(r) = r  BY <1>3 DEF Reset
  <2>2. QED  BY <2>1 DEF Deplete, Rows
<1>4. QED  BY <1>1, <1>2, <1>3

LEMMA Idled ==
  ASSUME Shaped, NEW w \in Workers, Idle(w)
  PROVE  worker'[w] = IdleWorker /\ worker' \in [Workers -> States]
  BY Blanks DEF Shaped, Idle

LEMMA EditedRows ==
  \A row \in Rows, enable, renew \in BOOLEAN, ins \in SUBSET Inbounds :
     Edited(row, enable, renew, ins) \in Rows
<1> SUFFICES ASSUME NEW row \in Rows, NEW enable \in BOOLEAN, NEW renew \in BOOLEAN,
                    NEW ins \in SUBSET Inbounds
             PROVE  Edited(row, enable, renew, ins) \in Rows
  OBVIOUS
<1>1. PICK x \in BOOLEAN : x = (row.expired /\ ~renew)  OBVIOUS
<1>2. Edited(row, enable, renew, ins) = [row EXCEPT !.enable = enable, !.expired = x, !.ins = ins]
  BY <1>1 DEF Edited
<1>3. QED  BY <1>2 DEF Rows

-----------------------------------------------------------------------------
(* Workers, whatever overlaps.                                             *)

Listed(r, i) == r.enable /\ i \in r.ins
Same(r, s) == r.enable = s.enable /\ r.ins = s.ins

\* Only a request writes; only RestartInbounds has inbounds to restart, one at a time;
\* a request is about one client.
Proper(q) ==
  /\ q.pc \in {"idle", "store"} => q.kind # "save"
  /\ q.pc = "page" => q.kind = "save"
  /\ q.pc \in {"idle", "store", "page"} => q.todo = {}
  /\ q.pc \notin {"read", "add"} => q.at = {}
  /\ \A i, j \in q.at : i = j
  /\ \A c, d \in q.who : c = d

\* SQLite lets one transaction write at a time.
Lone == \A v, w \in Workers : Writing(v) /\ Writing(w) => v = w

Orderly == Shaped /\ Lone /\ \A w \in Workers : Proper(worker[w])

\* The users of an inbound, with what the open request has written already.
Written(c) == \E v \in Workers : Writing(v) /\ c \in worker[v].who
Truth(i) == {c \in Clients :
  IF Written(c)
  THEN \E v \in Workers : Writing(v) /\ c \in worker[v].who /\ Listed(worker[v].row, i)
  ELSE Listed(rows[c], i)}

\* An inbound is still to be restarted, ...
Coming(i) == \E v \in Workers : i \in worker[v].todo

\* ... or somebody restarts it whom another will refuse, ...
Crowded(i) ==
  \/ \E v \in Workers : i \in worker[v].at /\ inb[i].up
  \/ \E v, w \in Workers : v # w /\ i \in worker[v].at /\ i \in worker[w].at

\* ... or it has the right users, or will get them from the one who is at it.
Right(i) ==
  /\ (\A v \in Workers : i \notin worker[v].at) => inb[i] = [up |-> TRUE, users |-> Truth(i)]
  /\ \A v \in Workers : At(v, "add") /\ i \in worker[v].at => worker[v].users = Truth(i)

Agreeing == ~broken =>
  /\ core = "up"
  /\ \A w \in Workers : At(w, "done") => worker[w].todo = {}
  /\ \A i \in Inbounds : Coming(i) \/ Crowded(i) \/ Right(i)

IInv == Orderly /\ Agreeing

LEMMA ProperIdle == Proper(IdleWorker)
  BY DEF Proper, IdleWorker

-----------------------------------------------------------------------------
(* Who the users are.                                                      *)

\* No request has written: the table says it.
LEMMA TruthFree ==
  /\ Unlocked => \A i : Truth(i) = Users(rows, i)
  /\ Unlocked' => \A i : Truth(i)' = Users(rows', i)
<1>1. Unlocked => \A i : Truth(i) = Users(rows, i)
  BY DEF Unlocked, Truth, Written, Users, Listed
<1>2. Unlocked' => \A i : Truth(i)' = Users(rows', i)
  BY DEF Unlocked, Truth, Written, Users, Listed
<1>3. QED  BY <1>1, <1>2

\* One has: its own queries say it.
LEMMA TruthOpen ==
  ASSUME Lone, NEW w \in Workers, Writing(w)
  PROVE  \A i : Truth(i) = Users(View(w), i)
<1>1. \A c \in Clients : Written(c) <=> c \in worker[w].who  BY DEF Written, Lone
<1>2. ASSUME NEW i, NEW c \in Clients PROVE c \in Truth(i) <=> c \in Users(View(w), i)
  <2>1. CASE c \in worker[w].who
    <3>1. c \in Truth(i) <=> Listed(worker[w].row, i)  BY <1>1, <2>1 DEF Truth, Lone
    <3>2. View(w)[c] = worker[w].row  BY <2>1 DEF View
    <3>3. QED  BY <3>1, <3>2 DEF Users, Listed
  <2>2. CASE c \notin worker[w].who
    <3>1. c \in Truth(i) <=> Listed(rows[c], i)  BY <1>1, <2>2 DEF Truth
    <3>2. View(w)[c] = rows[c]  BY <2>2 DEF View
    <3>3. QED  BY <3>1, <3>2 DEF Users, Listed
  <2>3. QED  BY <2>1, <2>2
<1>3. QED  BY <1>2 DEF Truth, Users

\* A job's queries see the table.
LEMMA ViewFree ==
  ASSUME NEW w \in Workers, ~Writing(w)
  PROVE  \A i : Users(View(w), i) = Users(rows, i)
  BY DEF View, Users

\* What neither writes nor changes who is a user.
LEMMA TruthStays ==
  ASSUME \A v \in Workers : Writing(v)' = Writing(v),
         \A v \in Workers : Writing(v) => /\ worker'[v].who = worker[v].who
                                          /\ Same(worker'[v].row, worker[v].row),
         \A c \in Clients : Same(rows'[c], rows[c])
  PROVE  \A i : Truth(i)' = Truth(i)
<1>1. \A c : Written(c)' = Written(c)  BY DEF Written
<1>2. ASSUME NEW i, NEW c \in Clients PROVE c \in Truth(i)' <=> c \in Truth(i)
  <2>1. Listed(rows[c], i)' = Listed(rows[c], i)  BY DEF Listed, Same
  <2>2. \A v \in Workers : Writing(v) => Listed(worker[v].row, i)' = Listed(worker[v].row, i)
    BY DEF Listed, Same
  <2>3. QED  BY <1>1, <2>1, <2>2 DEF Truth
<1>3. QED  BY <1>2 DEF Truth

-----------------------------------------------------------------------------
(* One step of one worker.                                                 *)

\* The record a worker has after its step, the table and the counters.
LEMMA OrderlyTurn ==
  ASSUME Orderly, NEW w \in Workers, NEW q \in States, worker' = [worker EXCEPT ![w] = q],
         Proper(q), q.kind = "save" /\ q.pc # "page" => Writing(w) \/ Unlocked,
         rows' \in [Clients -> Rows], counter' \in [Clients -> Nat],
         inb' \in [Inbounds -> [up : BOOLEAN, users : SUBSET Clients]], boot' = boot
  PROVE  /\ Orderly' /\ worker'[w] = q
         /\ \A v \in Workers : v # w => worker'[v] = worker[v]
<1>1. worker'[w] = q /\ \A v \in Workers : v # w => worker'[v] = worker[v]
  BY DEF Orderly, Shaped
<1>2. Shaped'  BY DEF Orderly, Shaped
<1>3. \A v \in Workers : Proper(worker'[v])  BY <1>1 DEF Orderly
<1>4. Lone'
  <2>1. Writing(w)' => Writing(w) \/ Unlocked  BY <1>1 DEF Writing, At
  <2>2. \A v \in Workers : v # w => Writing(v)' = Writing(v)  BY <1>1 DEF Writing, At
  <2>3. QED  BY <2>1, <2>2 DEF Lone, Unlocked, Orderly
<1>5. QED  BY <1>1, <1>2, <1>3, <1>4 DEF Orderly

\* A step that restarts nothing and leaves alone the inbounds whose users it does
\* not change.
LEMMA Kept ==
  ASSUME Agreeing, UNCHANGED <<core, inb, broken>>,
         \A v \in Workers : worker'[v].at = worker[v].at,
         \A v \in Workers : worker'[v].pc = "add" =>
             worker[v].pc = "add" /\ worker'[v].users = worker[v].users,
         ~broken => \A v \in Workers :
             /\ worker[v].todo \subseteq worker'[v].todo
             /\ worker'[v].pc = "done" => worker'[v].todo = {},
         \A i \in Inbounds : Coming(i)' \/ Truth(i)' = Truth(i)
  PROVE  Agreeing'
<1> SUFFICES ASSUME ~broken, NEW i \in Inbounds
             PROVE  Coming(i)' \/ Crowded(i)' \/ Right(i)'
  BY DEF Agreeing, At
<1>1. CASE Coming(i)  BY <1>1 DEF Coming
<1>2. CASE Crowded(i)  BY <1>2 DEF Crowded
<1>3. CASE Right(i) /\ Truth(i)' = Truth(i)  BY <1>3 DEF Right, At
<1>4. QED  BY <1>1, <1>2, <1>3 DEF Agreeing

\* A step that ends in one of the named causes.
LEMMA Broke ==
  ASSUME Orderly, NEW w \in Workers, Idle(w), broken', UNCHANGED <<rows, boot, inb, counter>>
  PROVE  Orderly' /\ Agreeing'
<1>1. worker' = [worker EXCEPT ![w] = IdleWorker] /\ IdleWorker \in States
  BY Blanks DEF Idle
<1>2. IdleWorker.kind # "save"  BY Blanks
<1>3. Orderly'  BY <1>1, <1>2, ProperIdle, OrderlyTurn DEF Orderly, Shaped
<1>4. QED  BY <1>3 DEF Agreeing

-----------------------------------------------------------------------------
(* Steps that restart nothing.                                             *)

\* A worker that is not at an inbound, before and after its step.
LEMMA KeptTurn ==
  ASSUME Orderly, Agreeing, NEW w \in Workers, NEW q \in States,
         worker' = [worker EXCEPT ![w] = q], Proper(q),
         q.kind = "save" /\ q.pc # "page" => Writing(w) \/ Unlocked,
         worker[w].at = {}, q.at = {}, q.pc # "add",
         ~broken => /\ worker[w].todo \subseteq q.todo
                    /\ q.pc = "done" => q.todo = {},
         rows' \in [Clients -> Rows], counter' \in [Clients -> Nat],
         UNCHANGED <<core, boot, inb, broken>>,
         \A i \in Inbounds \ q.todo : Truth(i)' = Truth(i)
  PROVE  Orderly' /\ Agreeing'
<1>1. inb' \in [Inbounds -> [up : BOOLEAN, users : SUBSET Clients]]  BY DEF Orderly, Shaped
<1>2. /\ Orderly' /\ worker'[w] = q
      /\ \A v \in Workers : v # w => worker'[v] = worker[v]
  BY <1>1, OrderlyTurn
<1>3. \A v \in Workers : worker'[v].at = worker[v].at  BY <1>2
<1>4. \A v \in Workers : worker'[v].pc = "add" =>
         worker[v].pc = "add" /\ worker'[v].users = worker[v].users
  BY <1>2
<1>5. ~broken => \A v \in Workers :
         /\ worker[v].todo \subseteq worker'[v].todo
         /\ worker'[v].pc = "done" => worker'[v].todo = {}
  BY <1>2 DEF Agreeing, At
<1>6. \A i \in Inbounds : Coming(i)' \/ Truth(i)' = Truth(i)  BY <1>2 DEF Coming
<1>7. Agreeing'  BY <1>3, <1>4, <1>5, <1>6, Kept
<1>8. QED  BY <1>2, <1>7

\* One that does not write, and changes no user.
LEMMA QuietTurn ==
  ASSUME Orderly, Agreeing, NEW w \in Workers, NEW q \in States,
         worker' = [worker EXCEPT ![w] = q], Proper(q),
         ~Writing(w), q.kind = "save" => q.pc = "page",
         worker[w].at = {}, q.at = {}, q.pc \notin {"add", "done"},
         ~broken => worker[w].todo = {},
         rows' \in [Clients -> Rows], counter' \in [Clients -> Nat],
         UNCHANGED <<core, boot, inb, broken>>,
         \A c \in Clients : Same(rows'[c], rows[c])
  PROVE  Orderly' /\ Agreeing'
<1>1. worker'[w] = q /\ \A v \in Workers : v # w => worker'[v] = worker[v]
  BY DEF Orderly, Shaped
<1>2. \A v \in Workers : Writing(v)' = Writing(v)  BY <1>1 DEF Writing, At
<1>3. \A v \in Workers : Writing(v) => /\ worker'[v].who = worker[v].who
                                       /\ Same(worker'[v].row, worker[v].row)
  BY <1>1 DEF Same
<1>4. \A i : Truth(i)' = Truth(i)  BY <1>2, <1>3, TruthStays
<1>5. QED  BY <1>4, KeptTurn

LEMMA StatsStep ==
  ASSUME IInv, NEW w \in Workers, TakeCounters(w) \/ Store(w) \/ StoreFailed(w)
  PROVE  IInv'
<1>1. Orderly /\ Agreeing /\ Shaped /\ Proper(worker[w])  BY DEF IInv, Orderly
<1>2. UNCHANGED <<core, boot, inb, broken>>  BY DEF TakeCounters, Store, StoreFailed
<1>3. worker[w].at = {} /\ worker[w].todo = {} /\ ~Writing(w)
  BY <1>1 DEF TakeCounters, Store, StoreFailed, At, Proper, Writing
<1>4. CASE TakeCounters(w)
  <2> DEFINE q == [IdleWorker EXCEPT !.pc = "store", !.kind = "stats", !.delta = counter]
  <2>1. /\ q \in States /\ q.pc = "store" /\ q.kind = "stats" /\ q.todo = {} /\ q.at = {}
        /\ q.who = {}
    BY <1>1, Blanks DEF States, Shaped
  <2>2. worker' = [worker EXCEPT ![w] = q] /\ counter' = Zero /\ rows' = rows
    BY <1>4 DEF TakeCounters
  <2> HIDE DEF q
  <2>3. Proper(q)  BY <2>1 DEF Proper
  <2>4. rows' \in [Clients -> Rows] /\ counter' \in [Clients -> Nat]
        /\ \A c \in Clients : Same(rows'[c], rows[c])
    BY <1>1, <2>2, Blanks DEF Shaped, Same
  <2>5. QED  BY <1>1, <1>2, <1>3, <2>1, <2>2, <2>3, <2>4, QuietTurn DEF IInv
<1>5. CASE Store(w)
  <2>1. ASSUME NEW c \in Clients PROVE rows'[c] \in Rows /\ Same(rows'[c], rows[c])
    <3>1. rows[c] \in Rows /\ worker[w].delta[c] \in Nat  BY <1>1 DEF Shaped, States
    <3>2. rows[c].used + worker[w].delta[c] \in Nat  BY <3>1 DEF Rows
    <3>3. [rows[c] EXCEPT !.used = rows[c].used + worker[w].delta[c]] \in Rows  BY <3>1, <3>2 DEF Rows
    <3>4. rows'[c] = IF rows[c].present
                     THEN [rows[c] EXCEPT !.used = rows[c].used + worker[w].delta[c]] ELSE rows[c]
      BY <1>5 DEF Store
    <3>5. QED  BY <3>1, <3>3, <3>4 DEF Same, Rows
  <2>2. rows' \in [Clients -> Rows] /\ counter' \in [Clients -> Nat]
    BY <1>1, <1>5, <2>1 DEF Store, Shaped
  <2>3. worker' = [worker EXCEPT ![w] = IdleWorker]  BY <1>5 DEF Store, Idle
  <2>4. QED  BY <1>1, <1>2, <1>3, <2>1, <2>2, <2>3, Blanks, ProperIdle, QuietTurn DEF IInv
<1>6. CASE StoreFailed(w)
  <2>1. worker' = [worker EXCEPT ![w] = IdleWorker] /\ UNCHANGED <<rows, counter>>
    BY <1>6 DEF StoreFailed, Idle
  <2>2. rows' \in [Clients -> Rows] /\ counter' \in [Clients -> Nat]
        /\ \A c \in Clients : Same(rows'[c], rows[c])
    BY <1>1, <2>1 DEF Shaped, Same
  <2>3. QED  BY <1>1, <1>2, <1>3, <2>1, <2>2, Blanks, ProperIdle, QuietTurn DEF IInv
<1>7. QED  BY <1>4, <1>5, <1>6

\* The depletion job names the inbounds of every client that it enables or disables.
LEMMA DepleteStep ==
  ASSUME IInv, NEW w \in Workers, DepleteClients(w)
  PROVE  IInv'
<1> DEFINE reset == [c \in Clients |-> Reset(rows[c])]
           changed == {c \in Clients : reset[c].enable # rows[c].enable \/ Depleted(reset[c])}
           jobs == UNION {rows[c].ins : c \in changed}
           q == [IdleWorker EXCEPT !.pc = "begin", !.kind = "deplete", !.todo = jobs]
<1>1. Orderly /\ Agreeing /\ Shaped /\ Proper(worker[w])  BY DEF IInv, Orderly
<1>2. /\ UNCHANGED <<core, boot, inb, counter, broken>> /\ At(w, "idle") /\ Unlocked
      /\ rows' = [c \in Clients |-> Deplete(reset[c])] /\ worker' = [worker EXCEPT ![w] = q]
  BY DEF DepleteClients
<1>3. \A c \in Clients : /\ rows[c] \in Rows /\ rows[c].ins \subseteq Inbounds
                         /\ reset[c] = Reset(rows[c]) /\ rows'[c] = Deplete(reset[c])
  BY <1>1, <1>2 DEF Shaped, Rows
<1>4. jobs \in SUBSET Inbounds  BY <1>3
<1>5. ASSUME NEW c \in Clients
      PROVE  /\ rows'[c] \in Rows /\ rows'[c].ins = rows[c].ins
             /\ c \notin changed => rows'[c].enable = rows[c].enable
  <2>1. /\ rows'[c] \in Rows /\ rows'[c].ins = rows[c].ins
        /\ ~Depleted(reset[c]) => rows'[c] = reset[c]
    BY <1>3, ResetRow
  <2>2. QED  BY <2>1
<1>6. ASSUME NEW i \in Inbounds \ jobs PROVE Users(rows', i) = Users(rows, i)
  <2>1. \A c \in Clients : i \in rows[c].ins => c \notin changed  BY <1>6
  <2>2. QED  BY <1>5, <2>1 DEF Users
<1>7. q \in States /\ q.pc = "begin" /\ q.kind = "deplete" /\ q.todo = jobs /\ q.at = {} /\ q.who = {}
  BY <1>4, Blanks DEF States
<1> HIDE DEF reset, changed, jobs, q
<1>8. rows' \in [Clients -> Rows] /\ counter' \in [Clients -> Nat]
  <2>1. rows' = [c \in Clients |-> rows'[c]]  BY <1>2
  <2>2. rows' \in [Clients -> Rows]  BY <1>5, <2>1
  <2>3. QED  BY <1>1, <1>2, <2>2 DEF Shaped
<1>9. Proper(q)  BY <1>7 DEF Proper
<1>10. Unlocked'
  <2>1. \A v \in Workers : worker'[v] = IF v = w THEN q ELSE worker[v]
    BY <1>1, <1>2 DEF Shaped
  <2>2. QED  BY <1>2, <1>7, <2>1 DEF Unlocked, Writing, At
<1>11. \A i \in Inbounds \ q.todo : Truth(i)' = Truth(i)
  BY <1>2, <1>6, <1>7, <1>10, TruthFree
<1>12. worker[w].at = {} /\ worker[w].todo = {}  BY <1>1, <1>2 DEF Proper, At
<1>13. QED  BY <1>1, <1>2, <1>7, <1>8, <1>9, <1>11, <1>12, KeptTurn DEF IInv

-----------------------------------------------------------------------------
(* Requests.                                                               *)

LEMMA PageStep ==
  ASSUME IInv, NEW w \in Workers,
         ClosePage(w) \/ (\E c \in Clients : OpenPage(w, c)) \/ DepletionDone(w)
  PROVE  IInv'
<1>1. Orderly /\ Agreeing /\ Shaped /\ Proper(worker[w])  BY DEF IInv, Orderly
<1>2. UNCHANGED <<rows, core, boot, inb, counter, broken>>
  BY DEF ClosePage, OpenPage, DepletionDone
<1>3. /\ worker[w].at = {} /\ ~Writing(w)
      /\ ~broken => worker[w].todo = {}
  BY <1>1 DEF ClosePage, OpenPage, DepletionDone, At, Proper, Writing, Agreeing
<1>4. rows' \in [Clients -> Rows] /\ counter' \in [Clients -> Nat]
      /\ \A c \in Clients : Same(rows'[c], rows[c])
  BY <1>1, <1>2 DEF Shaped, Same
<1>5. CASE ClosePage(w) \/ DepletionDone(w)
  <2>1. worker' = [worker EXCEPT ![w] = IdleWorker]  BY <1>5 DEF ClosePage, DepletionDone, Idle
  <2>2. QED  BY <1>1, <1>2, <1>3, <1>4, <2>1, Blanks, ProperIdle, QuietTurn DEF IInv
<1>6. ASSUME NEW c \in Clients, OpenPage(w, c) PROVE IInv'
  <2> DEFINE q == [IdleWorker EXCEPT !.pc = "page", !.kind = "save", !.who = {c}, !.row = rows[c]]
  <2>1. /\ q \in States /\ q.pc = "page" /\ q.kind = "save" /\ q.todo = {} /\ q.at = {}
        /\ q.who = {c}
    BY <1>1, Blanks DEF States, Shaped
  <2>2. worker' = [worker EXCEPT ![w] = q]  BY <1>6 DEF OpenPage
  <2> HIDE DEF q
  <2>3. Proper(q)  BY <2>1 DEF Proper
  <2>4. QED  BY <1>1, <1>2, <1>3, <1>4, <2>1, <2>2, <2>3, QuietTurn DEF IInv
<1>7. QED  BY <1>5, <1>6

\* A request writes one row: its queries see that row, and the table for the rest.
LEMMA WriteTurn ==
  ASSUME IInv, NEW w \in Workers, NEW q \in States, worker' = [worker EXCEPT ![w] = q],
         Proper(q), q.kind = "save", Unlocked, NEW c \in Clients, q.who = {c},
         worker[w].at = {}, worker[w].todo = {}, q.at = {},
         q.pc = "begin" \/ (q.pc = "done" /\ q.todo = {}),
         UNCHANGED <<rows, counter, core, boot, inb, broken>>,
         \A i \in Inbounds \ q.todo : Listed(q.row, i) <=> Listed(rows[c], i)
  PROVE  IInv'
<1>1. Orderly /\ Agreeing /\ Shaped  BY DEF IInv, Orderly
<1>2. \A v \in Workers : worker'[v] = IF v = w THEN q ELSE worker[v]  BY <1>1 DEF Shaped
<1>3. \A v \in Workers : Writing(v)' <=> v = w  BY <1>2 DEF Writing, At, Unlocked
<1>4. \A d : Written(d)' <=> d = c  BY <1>2, <1>3 DEF Written
<1>5. ASSUME NEW i \in Inbounds \ q.todo PROVE Truth(i)' = Truth(i)
  <2>1. Truth(i) = Users(rows, i)  BY TruthFree
  <2>2. ASSUME NEW d \in Clients PROVE d \in Truth(i)' <=> Listed(rows[d], i)
    <3>1. CASE d = c
      <4>1. d \in Truth(i)' <=> Listed(q.row, i)  BY <1>2, <1>3, <1>4, <3>1 DEF Truth
      <4>2. QED  BY <3>1, <4>1
    <3>2. CASE d # c
      <4>1. Listed(rows[d], i)' = Listed(rows[d], i)  BY DEF Listed
      <4>2. QED  BY <1>4, <3>2, <4>1 DEF Truth
    <3>3. QED  BY <3>1, <3>2
  <2>3. QED  BY <2>1, <2>2 DEF Truth, Users, Listed
<1>6. rows' \in [Clients -> Rows] /\ counter' \in [Clients -> Nat]  BY <1>1 DEF Shaped
<1>7. QED  BY <1>1, <1>5, <1>6, KeptTurn DEF IInv

LEMMA RequestStep ==
  ASSUME IInv, NEW w \in Workers, NEW c \in Clients, NewClient(w, c) \/ DeleteClient(w, c)
  PROVE  IInv'
<1>1. Shaped /\ Proper(worker[w])  BY DEF IInv, Orderly
<1>2. UNCHANGED <<rows, core, boot, inb, counter, broken>> /\ At(w, "idle") /\ Unlocked
  BY DEF NewClient, DeleteClient
<1>3. \E r \in Rows, todo \in SUBSET Inbounds :
         /\ Request(w, c, r, todo)
         /\ \A i \in Inbounds \ todo : Listed(r, i) <=> Listed(rows[c], i)
  <2>1. CASE NewClient(w, c)
    <3>1. PICK plan \in Plans : Request(w, c, NewRow(plan), Inbounds)  BY <2>1 DEF NewClient
    <3>2. QED  BY <3>1, Blanks
  <2>2. CASE DeleteClient(w, c)
    <3>1. rows[c].ins \in SUBSET Inbounds  BY <1>1 DEF Shaped, Rows
    <3>2. QED  BY <2>2, <3>1, Blanks DEF DeleteClient, Listed
  <2>3. QED  BY <2>1, <2>2
<1>4. PICK r \in Rows, todo \in SUBSET Inbounds :
         /\ Request(w, c, r, todo)
         /\ \A i \in Inbounds \ todo : Listed(r, i) <=> Listed(rows[c], i)
  BY <1>3
<1> DEFINE q == [IdleWorker EXCEPT !.pc = "begin", !.kind = "save", !.who = {c},
                                   !.row = r, !.todo = todo]
<1>5. /\ q \in States /\ q.pc = "begin" /\ q.kind = "save" /\ q.todo = todo /\ q.at = {}
      /\ q.who = {c} /\ q.row = r
  BY Blanks DEF States
<1>6. worker' = [worker EXCEPT ![w] = q]  BY <1>4 DEF Request
<1> HIDE DEF q
<1>7. Proper(q)  BY <1>5 DEF Proper
<1>8. worker[w].at = {} /\ worker[w].todo = {}  BY <1>1, <1>2 DEF Proper, At
<1>9. \A i \in Inbounds \ q.todo : Listed(q.row, i) <=> Listed(rows[c], i)  BY <1>4, <1>5
<1>10. QED  BY <1>2, <1>5, <1>6, <1>7, <1>8, <1>9, WriteTurn

\* findInboundsChanges names the inbounds at which the client's place changes.
LEMMA ChangesNamed ==
  ASSUME NEW old \in Rows, NEW new \in Rows, NEW todo \in {Changes(old, new), old.ins \cup new.ins}
  PROVE  /\ todo \in SUBSET Inbounds
         /\ \A i \in Inbounds \ todo : Listed(new, i) <=> Listed(old, i)
<1>1. old.ins \in SUBSET Inbounds /\ new.ins \in SUBSET Inbounds  BY DEF Rows
<1>2. CASE todo = old.ins \cup new.ins  BY <1>1, <1>2 DEF Listed
<1>3. CASE todo = Changes(old, new) /\ old.enable # new.enable
  <2>1. todo = old.ins \cup new.ins  BY <1>3 DEF Changes
  <2>2. QED  BY <1>1, <2>1 DEF Listed
<1>4. CASE todo = Changes(old, new) /\ old.enable = new.enable
  <2>1. todo = (old.ins \ new.ins) \cup (new.ins \ old.ins)  BY <1>4 DEF Changes
  <2>2. QED  BY <1>1, <1>4, <2>1 DEF Listed
<1>5. QED  BY <1>2, <1>3, <1>4

LEMMA SaveStep ==
  ASSUME IInv, NEW w \in Workers, SaveClient(w)
  PROVE  IInv'
<1>1. Shaped /\ Proper(worker[w])  BY DEF IInv, Orderly
<1>2. UNCHANGED <<rows, core, boot, inb, counter, broken>> /\ At(w, "page") /\ Unlocked
  BY DEF SaveClient
<1>3. worker[w].kind = "save" /\ worker[w].at = {} /\ worker[w].todo = {}
  BY <1>1, <1>2 DEF Proper, At
<1>4. worker[w] \in States /\ worker[w].who \subseteq Clients /\ worker[w].row \in Rows
  BY <1>1 DEF Shaped, States
<1>5. PICK c \in worker[w].who, enable \in BOOLEAN, renew \in BOOLEAN, ins \in SUBSET Inbounds :
         LET r == Edited(worker[w].row, enable, renew, ins)
         IN  \E todo \in {Changes(rows[c], r), rows[c].ins \cup r.ins} :
                worker' = [worker EXCEPT ![w].pc = IF todo = {} THEN "done" ELSE "begin",
                                         ![w].row = r, ![w].todo = todo]
  BY DEF SaveClient
<1> PICK r : r = Edited(worker[w].row, enable, renew, ins)  OBVIOUS
<1> PICK todo \in {Changes(rows[c], r), rows[c].ins \cup r.ins} :
         worker' = [worker EXCEPT ![w].pc = IF todo = {} THEN "done" ELSE "begin",
                                  ![w].row = r, ![w].todo = todo]
  BY <1>5
<1>6. c \in Clients /\ worker[w].who = {c}  BY <1>1, <1>4 DEF Proper
<1>7. r \in Rows /\ rows[c] \in Rows  BY <1>1, <1>4, <1>6, EditedRows DEF Shaped
<1>8. /\ todo \in SUBSET Inbounds
      /\ \A i \in Inbounds \ todo : Listed(r, i) <=> Listed(rows[c], i)
  BY <1>7, ChangesNamed
<1>9. PICK p \in {"done", "begin"} : p = IF todo = {} THEN "done" ELSE "begin"  OBVIOUS
<1> DEFINE q == [worker[w] EXCEPT !.pc = p, !.row = r, !.todo = todo]
<1>10. /\ q \in States /\ q.pc = p /\ q.kind = "save" /\ q.todo = todo /\ q.at = {}
       /\ q.who = {c} /\ q.row = r
  BY <1>3, <1>4, <1>6, <1>7, <1>8, <1>9 DEF States
<1>11. worker' = [worker EXCEPT ![w] = q]  BY <1>1, <1>9 DEF Shaped
<1> HIDE DEF q
<1>12. Proper(q)  BY <1>9, <1>10 DEF Proper
<1>13. \A i \in Inbounds \ q.todo : Listed(q.row, i) <=> Listed(rows[c], i)  BY <1>8, <1>10
<1>14. q.pc = "begin" \/ (q.pc = "done" /\ q.todo = {})  BY <1>9, <1>10
<1>15. QED  BY <1>2, <1>3, <1>6, <1>10, <1>11, <1>12, <1>13, <1>14, WriteTurn

\* The commit: the table becomes what the request's queries saw.
LEMMA CommitStep ==
  ASSUME IInv, NEW w \in Workers, Commit(w)
  PROVE  IInv'
<1>1. Orderly /\ Agreeing /\ Shaped /\ Lone /\ Proper(worker[w])  BY DEF IInv, Orderly
<1>2. /\ UNCHANGED <<core, boot, inb, counter, broken>> /\ At(w, "done") /\ rows' = View(w)
      /\ worker[w].kind = "save"
      /\ worker' = [v \in Workers |->
           IF v = w THEN IdleWorker
           ELSE IF At(v, "page") /\ \E c \in worker[v].who : ~View(w)[c].present
           THEN [worker[v] EXCEPT !.row = NoRow]
           ELSE worker[v]]
  BY DEF Commit
<1>3. Writing(w)  BY <1>2 DEF Writing, At
<1>4. ASSUME NEW v \in Workers
      PROVE  /\ worker'[v] \in States /\ Proper(worker'[v]) /\ ~Writing(v)'
             /\ worker'[v].at = worker[v].at
             /\ worker'[v].pc = "add" => worker[v].pc = "add"
             /\ worker'[v].users = worker[v].users \/ v = w
             /\ v # w => worker'[v].todo = worker[v].todo /\ worker'[v].pc = worker[v].pc
  <2>1. CASE v = w
    <3>1. worker'[v] = IdleWorker  BY <1>2, <2>1
    <3>2. worker[w].at = {}  BY <1>1, <1>2 DEF Proper, At
    <3>3. QED  BY <2>1, <3>1, <3>2, Blanks, ProperIdle DEF Writing
  <2>2. CASE v # w
    <3>1. PICK r \in Rows : worker'[v] = [worker[v] EXCEPT !.row = r]
      <4>1. worker[v] \in States /\ worker[v].row \in Rows  BY <1>1 DEF Shaped, States
      <4>2. worker[v] = [worker[v] EXCEPT !.row = worker[v].row]  BY <4>1 DEF States
      <4>3. CASE At(v, "page") /\ \E c \in worker[v].who : ~View(w)[c].present
        <5>1. worker'[v] = [worker[v] EXCEPT !.row = NoRow]  BY <1>2, <2>2, <4>3
        <5>2. QED  BY <5>1, Blanks
      <4>4. CASE ~(At(v, "page") /\ \E c \in worker[v].who : ~View(w)[c].present)
        <5>1. worker'[v] = worker[v]  BY <1>2, <2>2, <4>4
        <5>2. QED  BY <4>1, <4>2, <5>1
      <4>5. QED  BY <4>3, <4>4
    <3>2. /\ worker'[v] \in States /\ worker'[v].pc = worker[v].pc
          /\ worker'[v].kind = worker[v].kind /\ worker'[v].who = worker[v].who
          /\ worker'[v].todo = worker[v].todo /\ worker'[v].at = worker[v].at
          /\ worker'[v].users = worker[v].users
      <4>1. worker[v] \in States  BY <1>1 DEF Shaped
      <4>2. QED  BY <3>1, <4>1 DEF States
    <3>3. Proper(worker[v]) /\ ~Writing(v)  BY <1>1, <1>3, <2>2 DEF Orderly, Lone
    <3>4. Proper(worker'[v]) /\ ~Writing(v)'  BY <3>2, <3>3 DEF Proper, Writing, At
    <3>5. QED  BY <2>2, <3>2, <3>4
  <2>3. QED  BY <2>1, <2>2
<1>5. rows' \in [Clients -> Rows]
  <2>1. worker[w].row \in Rows /\ \A c \in Clients : rows[c] \in Rows
    BY <1>1 DEF Shaped, States
  <2>2. QED  BY <1>2, <2>1 DEF View
<1>6. Orderly'
  <2>1. worker' \in [Workers -> States]
    <3>1. worker' = [v \in Workers |-> worker'[v]]  BY <1>2
    <3>2. QED  BY <1>4, <3>1
  <2>2. Shaped'  BY <1>1, <1>2, <1>5, <2>1 DEF Shaped
  <2>3. Lone'  BY <1>4 DEF Lone
  <2>4. QED  BY <1>4, <2>2, <2>3 DEF Orderly
<1>7. \A i : Truth(i)' = Truth(i)
  <2>1. Unlocked'  BY <1>4 DEF Unlocked
  <2>2. \A i : Truth(i)' = Users(rows', i)  BY <2>1, TruthFree
  <2>3. \A i : Truth(i) = Users(View(w), i)  BY <1>1, <1>3, TruthOpen
  <2>4. QED  BY <1>2, <2>2, <2>3
<1>8. ~broken => \A v \in Workers :
             /\ worker[v].todo \subseteq worker'[v].todo
             /\ worker'[v].pc = "done" => worker'[v].todo = {}
  <2> SUFFICES ASSUME ~broken, NEW v \in Workers
               PROVE  /\ worker[v].todo \subseteq worker'[v].todo
                      /\ worker'[v].pc = "done" => worker'[v].todo = {}
    OBVIOUS
  <2>1. \A u \in Workers : At(u, "done") => worker[u].todo = {}  BY <1>1 DEF Agreeing
  <2>2. worker'[w].pc = "idle"  BY <1>2, Blanks
  <2>3. QED  BY <1>2, <1>4, <2>1, <2>2 DEF At
<1>9. \A v \in Workers : worker'[v].pc = "add" =>
             worker[v].pc = "add" /\ worker'[v].users = worker[v].users
  <2>1. worker'[w].pc = "idle"  BY <1>2, Blanks
  <2>2. QED  BY <1>4, <2>1
<1>10. Agreeing'  BY <1>1, <1>2, <1>4, <1>7, <1>8, <1>9, Kept
<1>11. QED  BY <1>6, <1>10 DEF IInv

-----------------------------------------------------------------------------
(* RestartInbounds.                                                        *)

\* It writes nothing, so that the users stay what they are.
LEMMA Onward ==
  ASSUME Orderly, NEW w \in Workers, NEW q \in States, worker' = [worker EXCEPT ![w] = q],
         rows' = rows, q.kind = worker[w].kind, q.who = worker[w].who, q.row = worker[w].row,
         q.pc # "page", worker[w].pc # "page"
  PROVE  /\ \A i : Truth(i)' = Truth(i)
         /\ q.kind = "save" /\ q.pc # "page" => Writing(w) \/ Unlocked
<1>1. \A v \in Workers : worker'[v] = IF v = w THEN q ELSE worker[v]
  BY DEF Orderly, Shaped
<1>2. \A v \in Workers : Writing(v)' = Writing(v)  BY <1>1 DEF Writing, At
<1>3. \A v \in Workers : Writing(v) => /\ worker'[v].who = worker[v].who
                                       /\ Same(worker'[v].row, worker[v].row)
  BY <1>1 DEF Same
<1>4. \A c \in Clients : Same(rows'[c], rows[c])  BY DEF Same
<1>5. \A i : Truth(i)' = Truth(i)  BY <1>2, <1>3, <1>4, TruthStays
<1>6. QED  BY <1>5 DEF Writing, At

LEMMA BeginStep ==
  ASSUME IInv, NEW w \in Workers, BeginRestart(w)
  PROVE  IInv'
<1>1. Orderly /\ Agreeing /\ Shaped /\ Proper(worker[w]) /\ worker[w] \in States
  BY DEF IInv, Orderly, Shaped
<1>2. UNCHANGED <<rows, core, boot, inb, counter, broken>> /\ worker[w].pc = "begin"
  BY DEF BeginRestart, At
<1>3. PICK p \in {"restart", "done"} :
         p = IF core = "up" /\ worker[w].todo # {} THEN "restart" ELSE "done"
  OBVIOUS
<1> DEFINE q == [worker[w] EXCEPT !.pc = p]
<1>4. worker' = [worker EXCEPT ![w] = q]  BY <1>1, <1>3 DEF BeginRestart, Goto, Shaped
<1>5. /\ q \in States /\ q.pc = p /\ q.kind = worker[w].kind /\ q.who = worker[w].who
      /\ q.row = worker[w].row /\ q.todo = worker[w].todo /\ q.at = worker[w].at
  BY <1>1, <1>3 DEF States
<1> HIDE DEF q
<1>6. worker[w].at = {} /\ q.at = {} /\ Proper(q)  BY <1>1, <1>2, <1>3, <1>5 DEF Proper
<1>7. ~broken => /\ worker[w].todo \subseteq q.todo
                 /\ q.pc = "done" => q.todo = {}
  BY <1>1, <1>3, <1>5 DEF Agreeing
<1>8. /\ \A i \in Inbounds \ q.todo : Truth(i)' = Truth(i)
      /\ q.kind = "save" /\ q.pc # "page" => Writing(w) \/ Unlocked
  BY <1>1, <1>2, <1>3, <1>4, <1>5, Onward
<1>9. q.pc # "add"  BY <1>3, <1>5
<1>10. rows' \in [Clients -> Rows] /\ counter' \in [Clients -> Nat]  BY <1>1, <1>2 DEF Shaped
<1>11. QED  BY <1>1, <1>2, <1>4, <1>5, <1>6, <1>7, <1>8, <1>9, <1>10, KeptTurn DEF IInv

\* Whoever removes an inbound is at it: alone, and the users are still to be read, or
\* with another, and one of the two will be refused.
LEMMA RemoveStep ==
  ASSUME IInv, NEW w \in Workers, RemoveInbound(w)
  PROVE  IInv'
<1>1. Orderly /\ Agreeing /\ Shaped /\ Proper(worker[w]) /\ worker[w] \in States
  BY DEF IInv, Orderly, Shaped
<1>2. UNCHANGED <<rows, core, boot, counter, broken>> /\ worker[w].pc = "restart"
  BY DEF RemoveInbound, At
<1>3. PICK i \in worker[w].todo :
         /\ inb' = [inb EXCEPT ![i] = Out]
         /\ worker' = [worker EXCEPT ![w].pc = "read", ![w].at = {i}, ![w].todo = @ \ {i}]
  BY DEF RemoveInbound
<1>4. PICK t \in SUBSET Inbounds : t = worker[w].todo \ {i}  BY <1>1 DEF States
<1>5. i \in Inbounds  BY <1>1 DEF States
<1> DEFINE q == [worker[w] EXCEPT !.pc = "read", !.at = {i}, !.todo = t]
<1>6. worker' = [worker EXCEPT ![w] = q]  BY <1>1, <1>3, <1>4 DEF Shaped
<1>7. /\ q \in States /\ q.pc = "read" /\ q.kind = worker[w].kind /\ q.who = worker[w].who
      /\ q.row = worker[w].row /\ q.todo = t /\ q.at = {i}
  BY <1>1, <1>5 DEF States
<1> HIDE DEF q
<1>8. Proper(q)  BY <1>1, <1>2, <1>7 DEF Proper
<1>9. /\ \A j : Truth(j)' = Truth(j)
      /\ q.kind = "save" /\ q.pc # "page" => Writing(w) \/ Unlocked
  BY <1>1, <1>2, <1>6, <1>7, Onward
<1>10. rows' \in [Clients -> Rows] /\ counter' \in [Clients -> Nat]
       /\ inb' \in [Inbounds -> [up : BOOLEAN, users : SUBSET Clients]]
  BY <1>1, <1>2, <1>3, Blanks DEF Shaped
<1>11. /\ Orderly' /\ worker'[w] = q
       /\ \A v \in Workers : v # w => worker'[v] = worker[v]
  BY <1>1, <1>2, <1>6, <1>7, <1>8, <1>9, <1>10, OrderlyTurn
<1>12. worker[w].at = {}  BY <1>1, <1>2 DEF Proper
<1>13. \A j \in Inbounds : j # i => inb'[j] = inb[j]  BY <1>1, <1>3 DEF Shaped
<1>14. ASSUME ~broken, NEW j \in Inbounds
       PROVE  Coming(j)' \/ Crowded(j)' \/ Right(j)'
  <2>1. CASE j # i
    <3>1. Coming(j) => Coming(j)'  BY <1>4, <1>7, <1>11, <2>1 DEF Coming
    <3>2. \A v \in Workers : j \in worker'[v].at <=> j \in worker[v].at
      BY <1>7, <1>11, <1>12, <2>1
    <3>3. Crowded(j) => Crowded(j)'  BY <1>13, <2>1, <3>2 DEF Crowded
    <3>4. \A v \in Workers : worker'[v].pc = "add" => worker'[v] = worker[v]  BY <1>7, <1>11
    <3>5. Right(j) => Right(j)'  BY <1>9, <1>13, <2>1, <3>2, <3>4 DEF Right, At
    <3>6. QED  BY <1>1, <1>14, <3>1, <3>3, <3>5 DEF Agreeing
  <2>2. CASE j = i /\ \E v \in Workers : v # w /\ i \in worker[v].at
    BY <1>7, <1>11, <2>2 DEF Crowded
  <2>3. CASE j = i /\ \A v \in Workers : v # w => i \notin worker[v].at
    BY <1>7, <1>11, <2>3 DEF Right, At
  <2>4. QED  BY <2>1, <2>2, <2>3
<1>15. Agreeing'
  <2>1. \A v \in Workers : worker'[v].pc = "done" => worker'[v] = worker[v]  BY <1>7, <1>11
  <2>2. QED  BY <1>1, <1>2, <1>14, <2>1 DEF Agreeing, At
<1>16. QED  BY <1>11, <1>15 DEF IInv

\* Unless a request has passed it, a worker reads the users of its inbound as they are.
LEMMA ReadsTruth ==
  ASSUME Lone, NEW w \in Workers, NEW i, ~Crossed(w, i), i \in worker[w].at,
         ~Coming(i), ~Crowded(i)
  PROVE  Users(View(w), i) = Truth(i)
<1>1. CASE Unlocked
  BY <1>1, TruthFree, ViewFree DEF Unlocked
<1>2. ASSUME NEW v \in Workers, Writing(v) PROVE Users(View(w), i) = Truth(i)
  <2>1. Truth(i) = Users(View(v), i)  BY <1>2, TruthOpen
  <2>2. CASE v = w  BY <2>1, <2>2
  <2>3. CASE v # w
    <3>1. i \notin worker[v].todo \cup worker[v].at  BY <2>3 DEF Coming, Crowded
    <3>2. QED  BY <1>2, <2>1, <3>1 DEF Crossed
  <2>4. QED  BY <2>2, <2>3
<1>3. QED  BY <1>1, <1>2 DEF Unlocked

LEMMA ReadStep ==
  ASSUME IInv, NEW w \in Workers, AddUsers(w)
  PROVE  IInv'
<1>1. Orderly /\ Agreeing /\ Shaped /\ Lone /\ Proper(worker[w]) /\ worker[w] \in States
  BY DEF IInv, Orderly, Shaped
<1>2. UNCHANGED <<rows, core, boot, inb, counter>> /\ worker[w].pc = "read"
  BY DEF AddUsers, At
<1>3. PICK i \in worker[w].at :
         /\ worker' = [worker EXCEPT ![w].pc = "add", ![w].users = Users(View(w), i)]
         /\ broken' = (broken \/ Crossed(w, i))
  BY DEF AddUsers
<1>4. PICK u \in SUBSET Clients : u = Users(View(w), i)  BY UsersType
<1> DEFINE q == [worker[w] EXCEPT !.pc = "add", !.users = u]
<1>5. worker' = [worker EXCEPT ![w] = q]  BY <1>1, <1>3, <1>4 DEF Shaped
<1>6. /\ q \in States /\ q.pc = "add" /\ q.kind = worker[w].kind /\ q.who = worker[w].who
      /\ q.row = worker[w].row /\ q.todo = worker[w].todo /\ q.at = worker[w].at
      /\ q.users = u
  BY <1>1 DEF States
<1> HIDE DEF q
<1>7. Proper(q)  BY <1>1, <1>6 DEF Proper
<1>8. /\ \A j : Truth(j)' = Truth(j)
      /\ q.kind = "save" /\ q.pc # "page" => Writing(w) \/ Unlocked
  BY <1>1, <1>2, <1>5, <1>6, Onward
<1>9. rows' \in [Clients -> Rows] /\ counter' \in [Clients -> Nat]
      /\ inb' \in [Inbounds -> [up : BOOLEAN, users : SUBSET Clients]]
  BY <1>1, <1>2 DEF Shaped
<1>10. /\ Orderly' /\ worker'[w] = q
       /\ \A v \in Workers : v # w => worker'[v] = worker[v]
  BY <1>1, <1>2, <1>5, <1>6, <1>7, <1>8, <1>9, OrderlyTurn
<1>11. \A v \in Workers : /\ worker'[v].at = worker[v].at /\ worker'[v].todo = worker[v].todo
                          /\ worker'[v].pc = "done" => worker[v].pc = "done"
  BY <1>6, <1>10
<1>12. ASSUME ~broken, ~broken', NEW j \in Inbounds
       PROVE  Coming(j)' \/ Crowded(j)' \/ Right(j)'
  <2>1. (Coming(j) => Coming(j)') /\ (Crowded(j) => Crowded(j)')
    BY <1>2, <1>11 DEF Coming, Crowded
  <2>2. ASSUME ~Coming(j), ~Crowded(j), Right(j) PROVE Right(j)'
    <3>1. CASE j \in worker[w].at
      <4>1. j = i  BY <1>1, <3>1 DEF Proper
      <4>2. u = Truth(j)  BY <1>1, <1>3, <1>4, <1>12, <2>2, <4>1, ReadsTruth
      <4>3. \A v \in Workers : v # w => j \notin worker[v].at  BY <2>2, <3>1 DEF Crowded
      <4>4. QED  BY <1>6, <1>8, <1>10, <3>1, <4>2, <4>3 DEF Right, At
    <3>2. CASE j \notin worker[w].at
      BY <1>2, <1>6, <1>8, <1>10, <2>2, <3>2 DEF Right, At
    <3>3. QED  BY <3>1, <3>2
  <2>3. QED  BY <1>1, <1>12, <2>1, <2>2 DEF Agreeing
<1>13. Agreeing'
  <2>1. ~broken' => ~broken  BY <1>3
  <2>2. QED  BY <1>1, <1>2, <1>11, <1>12, <2>1 DEF Agreeing, At
<1>14. QED  BY <1>10, <1>13 DEF IInv

\* Whoever makes an inbound gives it the users it read, or leaves another to be refused.
LEMMA AddStep ==
  ASSUME IInv, NEW w \in Workers, AddInbound(w)
  PROVE  IInv'
<1>1. Orderly /\ Agreeing /\ Shaped /\ Proper(worker[w]) /\ worker[w] \in States
  BY DEF IInv, Orderly, Shaped
<1>2. UNCHANGED <<rows, core, boot, counter, broken>> /\ worker[w].pc = "add"
  BY DEF AddInbound, At
<1>3. PICK i \in worker[w].at :
         ~inb[i].up /\ inb' = [inb EXCEPT ![i] = [up |-> TRUE, users |-> worker[w].users]]
  BY DEF AddInbound
<1>4. PICK p \in {"done", "restart"} : p = IF worker[w].todo = {} THEN "done" ELSE "restart"
  OBVIOUS
<1> DEFINE q == [worker[w] EXCEPT !.pc = p, !.at = {}, !.users = {}]
<1>5. worker' = [worker EXCEPT ![w] = q]  BY <1>1, <1>4 DEF AddInbound, Shaped
<1>6. /\ q \in States /\ q.pc = p /\ q.kind = worker[w].kind /\ q.who = worker[w].who
      /\ q.row = worker[w].row /\ q.todo = worker[w].todo /\ q.at = {}
  BY <1>1, <1>4 DEF States
<1> HIDE DEF q
<1>7. Proper(q)  BY <1>1, <1>4, <1>6 DEF Proper
<1>8. /\ \A j : Truth(j)' = Truth(j)
      /\ q.kind = "save" /\ q.pc # "page" => Writing(w) \/ Unlocked
  BY <1>1, <1>2, <1>4, <1>5, <1>6, Onward
<1>9. i \in Inbounds /\ worker[w].users \in SUBSET Clients  BY <1>1 DEF States
<1>10. rows' \in [Clients -> Rows] /\ counter' \in [Clients -> Nat]
       /\ inb' \in [Inbounds -> [up : BOOLEAN, users : SUBSET Clients]]
  BY <1>1, <1>2, <1>3, <1>9 DEF Shaped
<1>11. /\ Orderly' /\ worker'[w] = q
       /\ \A v \in Workers : v # w => worker'[v] = worker[v]
  BY <1>1, <1>2, <1>5, <1>6, <1>7, <1>8, <1>10, OrderlyTurn
<1>12. /\ inb'[i] = [up |-> TRUE, users |-> worker[w].users]
       /\ \A j \in Inbounds : j # i => inb'[j] = inb[j]
  BY <1>1, <1>3, <1>9 DEF Shaped
<1>13. \A v \in Workers : worker'[v].todo = worker[v].todo  BY <1>6, <1>11
<1>14. ASSUME ~broken, NEW j \in Inbounds
       PROVE  Coming(j)' \/ Crowded(j)' \/ Right(j)'
  <2>1. Coming(j) => Coming(j)'  BY <1>13 DEF Coming
  <2>2. CASE j # i
    <3>1. \A v \in Workers : j \in worker'[v].at <=> j \in worker[v].at
      BY <1>1, <1>6, <1>11, <2>2 DEF Proper
    <3>2. \A v \in Workers : worker'[v].pc = "add" => worker'[v] = worker[v]
      BY <1>4, <1>6, <1>11
    <3>3. \A v \in Workers : j \in worker[v].at => v # w  BY <1>1, <2>2 DEF Proper
    <3>4. Crowded(j) => Crowded(j)'  BY <1>12, <2>2, <3>1 DEF Crowded
    <3>5. Right(j) => Right(j)'  BY <1>8, <1>12, <2>2, <3>1, <3>2 DEF Right, At
    <3>6. QED  BY <1>1, <1>14, <2>1, <3>4, <3>5 DEF Agreeing
  <2>3. CASE j = i /\ \E v \in Workers : v # w /\ i \in worker[v].at
    BY <1>11, <1>12, <2>3 DEF Crowded
  <2>4. CASE j = i /\ \A v \in Workers : v # w => i \notin worker[v].at
    <3>1. ~Crowded(j)  BY <1>3, <2>4 DEF Crowded
    <3>2. ASSUME Right(j) PROVE Right(j)'
      <4>1. worker[w].users = Truth(j)  BY <1>2, <1>3, <2>4, <3>2 DEF Right, At
      <4>2. \A v \in Workers : j \notin worker'[v].at  BY <1>6, <1>11, <2>4
      <4>3. QED  BY <1>8, <1>12, <2>4, <4>1, <4>2 DEF Right, At
    <3>3. QED  BY <1>1, <1>14, <2>1, <3>1, <3>2 DEF Agreeing
  <2>5. QED  BY <2>2, <2>3, <2>4
<1>15. Agreeing'
  <2>1. ASSUME ~broken, NEW v \in Workers, worker'[v].pc = "done" PROVE worker'[v].todo = {}
    <3>1. CASE v = w  BY <1>4, <1>6, <1>11, <2>1, <3>1
    <3>2. CASE v # w  BY <1>1, <1>11, <2>1, <3>2 DEF Agreeing, At
    <3>3. QED  BY <3>1, <3>2
  <2>2. QED  BY <1>1, <1>2, <1>14, <2>1 DEF Agreeing, At
<1>16. QED  BY <1>11, <1>15 DEF IInv

LEMMA FailedStep ==
  ASSUME IInv, NEW w \in Workers, RestartFailed(w) \/ RestartRefused(w) \/ CommitFailed(w)
  PROVE  IInv'
<1>1. Idle(w) /\ broken' /\ UNCHANGED <<rows, boot, inb, counter>>
  BY DEF RestartFailed, RestartRefused, CommitFailed
<1>2. QED  BY <1>1, Broke DEF IInv

-----------------------------------------------------------------------------
(* The core and the clock.                                                 *)

LEMMA CoreStep ==
  ASSUME IInv, CoreStops \/ CoreReads \/ CoreUp
  PROVE  IInv'
<1>1. Orderly /\ Agreeing /\ Shaped  BY DEF IInv, Orderly
<1>2. rows' = rows /\ worker' = worker  BY DEF CoreStops, CoreReads, CoreUp
<1>3. Agreeing'
  <2>1. broken'
    <3>1. CASE CoreStops  BY <3>1 DEF CoreStops
    <3>2. CASE CoreReads \/ CoreUp
      <4>1. core # "up" /\ broken' = broken  BY <3>2 DEF CoreReads, CoreUp
      <4>2. QED  BY <1>1, <4>1 DEF Agreeing
    <3>3. QED  BY <3>1, <3>2
  <2>2. QED  BY <2>1 DEF Agreeing
<1>4. Shaped'
  <2>1. CASE CoreStops  BY <1>1, <2>1, Blanks DEF CoreStops, Shaped
  <2>2. CASE CoreReads  BY <1>1, <2>2, UsersType DEF CoreReads, Shaped
  <2>3. CASE CoreUp  BY <1>1, <2>3 DEF CoreUp, Shaped
  <2>4. QED  BY <2>1, <2>2, <2>3
<1>5. Orderly'  BY <1>1, <1>2, <1>4 DEF Orderly, Lone, Writing, At
<1>6. QED  BY <1>3, <1>5 DEF IInv

\* Steps that neither move a worker nor change who is a user.
LEMMA StandStill ==
  ASSUME IInv, Shaped', UNCHANGED <<core, inb, broken>>,
         \A c \in Clients : Same(rows'[c], rows[c]),
         \A v \in Workers :
            /\ worker'[v].pc = worker[v].pc /\ worker'[v].kind = worker[v].kind
            /\ worker'[v].who = worker[v].who /\ worker'[v].todo = worker[v].todo
            /\ worker'[v].at = worker[v].at /\ worker'[v].users = worker[v].users
            /\ Same(worker'[v].row, worker[v].row)
  PROVE  IInv'
<1>1. Orderly /\ Agreeing  BY DEF IInv
<1>2. \A v \in Workers : Writing(v)' = Writing(v)  BY DEF Writing, At
<1>3. \A v \in Workers : Proper(worker'[v])
  <2> SUFFICES ASSUME NEW v \in Workers PROVE Proper(worker'[v])
    OBVIOUS
  <2>1. Proper(worker[v])  BY <1>1 DEF Orderly
  <2>2. QED  BY <2>1 DEF Proper
<1>4. Orderly'  BY <1>1, <1>2, <1>3 DEF Orderly, Lone
<1>5. \A i : Truth(i)' = Truth(i)  BY <1>2, TruthStays
<1>6. ~broken => \A v \in Workers :
             /\ worker[v].todo \subseteq worker'[v].todo
             /\ worker'[v].pc = "done" => worker'[v].todo = {}
  BY <1>1 DEF Agreeing, At
<1>7. Agreeing'  BY <1>1, <1>5, <1>6, Kept
<1>8. QED  BY <1>4, <1>7 DEF IInv

\* The two times of a row, as one step shows them.
LEMMA PassesStep ==
  ASSUME IInv, NEW c \in Clients, NEW time \in {"expired", "due"}, Passes(c, time)
  PROVE  IInv'
<1>1. Shaped  BY DEF IInv, Orderly
<1>2. UNCHANGED <<core, boot, inb, counter, broken>>  BY DEF Passes
<1>3. \A r \in Rows : [r EXCEPT ![time] = TRUE] \in Rows /\ Same([r EXCEPT ![time] = TRUE], r)
  <2>1. CASE time = "expired"  BY <2>1 DEF Rows, Same
  <2>2. CASE time = "due"  BY <2>2 DEF Rows, Same
  <2>3. QED  BY <2>1, <2>2
<1>4. \A r \in Rows : Same(r, r)  BY DEF Same
<1>5. rows[c] \in Rows  BY <1>1 DEF Shaped
<1>6. rows' = [rows EXCEPT ![c] = [rows[c] EXCEPT ![time] = TRUE]]
  BY <1>1 DEF Passes, Shaped
<1>7. PICK s \in Rows : s = [rows[c] EXCEPT ![time] = TRUE]  BY <1>3, <1>5
<1>8. rows' \in [Clients -> Rows] /\ \A d \in Clients : Same(rows'[d], rows[d])
  <2>1. rows' = [rows EXCEPT ![c] = s] /\ Same(s, rows[c])  BY <1>3, <1>5, <1>6, <1>7
  <2>2. QED  BY <1>1, <2>1 DEF Shaped, Same
<1>9. ASSUME NEW v \in Workers
      PROVE  /\ worker'[v] \in States
             /\ worker'[v].pc = worker[v].pc /\ worker'[v].kind = worker[v].kind
             /\ worker'[v].who = worker[v].who /\ worker'[v].todo = worker[v].todo
             /\ worker'[v].at = worker[v].at /\ worker'[v].users = worker[v].users
             /\ Same(worker'[v].row, worker[v].row)
  <2>1. worker[v] \in States /\ worker[v].row \in Rows  BY <1>1 DEF Shaped, States
  <2>2. PICK r \in Rows : /\ Same(r, worker[v].row)
                          /\ worker'[v] = [worker[v] EXCEPT !.row = r]
    <3>1. worker'[v] = IF c \in worker[v].who /\ worker[v].row.present
                       THEN [worker[v] EXCEPT !.row[time] = TRUE] ELSE worker[v]
      BY DEF Passes
    <3>2. PICK t \in Rows : t = [worker[v].row EXCEPT ![time] = TRUE]  BY <1>3, <2>1
    <3>3. [worker[v] EXCEPT !.row[time] = TRUE] = [worker[v] EXCEPT !.row = t]
      BY <3>2
    <3>4. worker[v] = [worker[v] EXCEPT !.row = worker[v].row]  BY <2>1 DEF States
    <3>5. QED  BY <1>3, <1>4, <2>1, <3>1, <3>2, <3>3, <3>4
  <2>3. QED  BY <2>1, <2>2 DEF States
<1>10. worker' \in [Workers -> States]
  <2>1. worker' = [v \in Workers |-> worker'[v]]  BY DEF Passes
  <2>2. QED  BY <1>9, <2>1
<1>11. Shaped'  BY <1>1, <1>2, <1>8, <1>10 DEF Shaped
<1>12. QED  BY <1>2, <1>8, <1>9, <1>11, StandStill

LEMMA SendStep ==
  ASSUME IInv, (\E c \in Clients : Send(c)) \/ UNCHANGED vars
  PROVE  IInv'
<1>1. Shaped  BY DEF IInv, Orderly
<1>2. UNCHANGED <<rows, core, boot, inb, worker, broken>>  BY DEF Send, vars
<1>3. counter' \in [Clients -> Nat]
  <2>1. ASSUME NEW c \in Clients, Send(c) PROVE counter' \in [Clients -> Nat]
    <3>1. counter' = [counter EXCEPT ![c] = counter[c] + 1] /\ counter \in [Clients -> Nat]
      BY <1>1, <2>1 DEF Send, Shaped
    <3>2. QED  BY <3>1
  <2>2. CASE UNCHANGED vars  BY <1>1, <2>2 DEF vars, Shaped
  <2>3. QED  BY <2>1, <2>2
<1>4. Shaped'  BY <1>1, <1>2, <1>3 DEF Shaped
<1>5. \A c \in Clients : Same(rows'[c], rows[c])  BY <1>2 DEF Same
<1>6. \A v \in Workers : Same(worker'[v].row, worker[v].row)  BY <1>2 DEF Same
<1>7. QED  BY <1>2, <1>4, <1>5, <1>6, StandStill

-----------------------------------------------------------------------------

LEMMA AgreeNext == IInv /\ [Next]_vars => IInv'
<1> SUFFICES ASSUME IInv, [Next]_vars PROVE IInv'
  OBVIOUS
<1>1. ASSUME NEW w \in Workers, Job(w) \/ Administrator(w) \/ Continue(w) \/ Failure(w)
      PROVE  IInv'
  <2>1. CASE Job(w)  BY <2>1, StatsStep, DepleteStep DEF Job
  <2>2. CASE Administrator(w)  BY <2>2, SaveStep, PageStep, RequestStep DEF Administrator
  <2>3. CASE Continue(w)
    BY <2>3, StatsStep, BeginStep, RemoveStep, ReadStep, AddStep, FailedStep, PageStep, CommitStep
    DEF Continue
  <2>4. CASE Failure(w)  BY <2>4, StatsStep, FailedStep DEF Failure
  <2>5. QED  BY <1>1, <2>1, <2>2, <2>3, <2>4
<1>2. CASE (\E c \in Clients : Send(c)) \/ UNCHANGED vars  BY <1>2, SendStep
<1>3. CASE \E c \in Clients : Expire(c) \/ FallDue(c)
  <2>1. PICK c \in Clients, time \in {"expired", "due"} : Passes(c, time)
    BY <1>3 DEF Expire, FallDue
  <2>2. QED  BY <2>1, PassesStep
<1>4. CASE CoreStops \/ CoreReads \/ CoreUp  BY <1>4, CoreStep
<1>5. QED  BY <1>1, <1>2, <1>3, <1>4 DEF Next

LEMMA AgreeInit == Init => IInv
<1> SUFFICES ASSUME Init PROVE IInv
  OBVIOUS
<1>1. rows \in [Clients -> Rows]
  <2>1. \A r \in {NoRow} \cup {NewRow(plan) : plan \in Plans} : r \in Rows  BY Blanks
  <2>2. QED  BY <2>1 DEF Init
<1>2. worker \in [Workers -> States] /\ \A w \in Workers : worker[w] = IdleWorker
  BY Blanks DEF Init
<1>3. /\ counter \in [Clients -> Nat] /\ boot \in [Inbounds -> SUBSET Clients]
      /\ inb \in [Inbounds -> [up : BOOLEAN, users : SUBSET Clients]]
  BY Blanks, UsersType DEF Init
<1>4. Shaped  BY <1>1, <1>2, <1>3 DEF Shaped
<1>5. Unlocked  BY <1>2, Blanks DEF Unlocked, Writing
<1>6. Orderly  BY <1>2, <1>4, <1>5, ProperIdle DEF Orderly, Lone, Unlocked
<1>7. \A w \in Workers : At(w, "idle")  BY <1>2, Blanks DEF At
<1>8. core = "up" /\ \A i \in Inbounds : Right(i)
  <2>1. core = "up" /\ \A i \in Inbounds : inb[i] = [up |-> TRUE, users |-> Truth(i)]
    BY <1>5, TruthFree DEF Init
  <2>2. QED  BY <1>7, <2>1 DEF Right, At
<1>9. Agreeing  BY <1>7, <1>8 DEF Agreeing, At
<1>10. QED  BY <1>6, <1>9 DEF IInv

\* When nobody is at work, nothing is still to come and nobody is at an inbound.
LEMMA AgreeIdle == IInv => CoreAgrees
<1> SUFFICES ASSUME IInv, ~broken, \A w \in Workers : At(w, "idle"), NEW i \in Inbounds
             PROVE  inb[i] = [up |-> TRUE, users |-> Users(rows, i)]
  BY DEF CoreAgrees
<1>1. \A w \in Workers : Proper(worker[w]) /\ worker[w].pc = "idle"  BY DEF IInv, Orderly, At
<1>2. \A w \in Workers : worker[w].todo = {} /\ worker[w].at = {} /\ worker[w].kind # "save"
  BY <1>1 DEF Proper
<1>3. Right(i)  BY <1>2 DEF IInv, Agreeing, Coming, Crowded
<1>4. Truth(i) = Users(rows, i)  BY <1>2, TruthFree DEF Unlocked, Writing
<1>5. QED  BY <1>2, <1>3, <1>4 DEF Right

\* Between jobs and requests, however many have overlapped, and unless the core stopped,
\* a restart of an inbound failed, a request was rolled back or one was crossed, every
\* inbound of the core has exactly the users that the table says (RestartInbounds of
\* inbounds.go after a save, a depletion or a reset).
THEOREM CoreAgreesHolds == Spec => []CoreAgrees
<1>1. Init => IInv  BY AgreeInit
<1>2. IInv /\ [Next]_vars => IInv'  BY AgreeNext
<1>3. IInv => CoreAgrees  BY AgreeIdle
<1>4. QED  BY <1>1, <1>2, <1>3, PTL DEF Spec

=============================================================================
