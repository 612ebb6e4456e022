------------------------- MODULE ClientLedgerProofs -------------------------
(***************************************************************************)
(* For any number of clients, inbounds, plans and workers that overlap in  *)
(* any way: ClientAccounting is type correct, no client is charged for     *)
(* more than it sent, and nothing is lost unless something fails or an     *)
(* administrator writes a row back.                                        *)
(***************************************************************************)
EXTENDS ClientAccountingProofs, FiniteSetTheorems

USE PlansAssumption, BoundsAssumption, WorkersAssumption

-----------------------------------------------------------------------------
(* Counting units.                                                         *)

Marks(D) == {u \in Workers \X (1..MaxTraffic) : u[2] <= D[u[1]]}

\* The units of one worker are counted apart from those of the others.
LEMMA Apart ==
  ASSUME NEW D \in [Workers -> Traffic], NEW w \in Workers
  PROVE  LET R == {u \in Marks(D) : u[1] # w}
         IN  Cardinality(R) \in Nat /\ Cardinality(Marks(D)) = Cardinality(R) + D[w]
<1> DEFINE R == {u \in Marks(D) : u[1] # w}
           O == {w} \X (1..D[w])
<1>1. MaxTraffic \in Nat /\ D[w] \in Nat /\ D[w] <= MaxTraffic  BY DEF Traffic
<1>2. IsFiniteSet(Marks(D))
  <2>1. IsFiniteSet(1..MaxTraffic)  BY <1>1, FS_Interval
  <2>2. IsFiniteSet(Workers \X (1..MaxTraffic))  BY <2>1, FS_Product
  <2>3. Marks(D) \in SUBSET (Workers \X (1..MaxTraffic))  BY DEF Marks
  <2>4. QED  BY <2>2, <2>3, FS_Subset
<1>3. IsFiniteSet(R) /\ Cardinality(R) \in Nat
  <2>1. R \in SUBSET Marks(D)  OBVIOUS
  <2>2. QED  BY <1>2, <2>1, FS_Subset, FS_CardinalityType
<1>4. IsFiniteSet(O) /\ Cardinality(O) = D[w]
  <2>1. IsFiniteSet(1..D[w]) /\ Cardinality(1..D[w]) = D[w]  BY <1>1, FS_Interval
  <2>2. IsFiniteSet({w}) /\ Cardinality({w}) = 1  BY FS_Singleton
  <2>3. IsFiniteSet(O) /\ Cardinality(O) = Cardinality({w}) * Cardinality(1..D[w])
    BY <2>1, <2>2, FS_Product
  <2>4. QED  BY <1>1, <2>1, <2>2, <2>3
<1>5. Marks(D) = R \cup O /\ R \cap O = {}  BY <1>1 DEF Marks
<1> HIDE DEF R, O
<1>6. Cardinality(Marks(D)) = Cardinality(R) + D[w]
  <2>1. Cardinality(R \cup O) = Cardinality(R) + Cardinality(O) - Cardinality(R \cap O)
    BY <1>3, <1>4, FS_Union
  <2>2. Cardinality(R \cap O) = 0  BY <1>5, FS_EmptySet
  <2>3. QED  BY <1>1, <1>3, <1>4, <1>5, <2>1, <2>2
<1>7. QED  BY <1>3, <1>6 DEF R

\* What one worker takes or gives back is what the sum gains or loses.
LEMMA Moves ==
  ASSUME NEW D \in [Workers -> Traffic], NEW E \in [Workers -> Traffic], NEW w \in Workers,
         \A v \in Workers : v # w => D[v] = E[v]
  PROVE  /\ Cardinality(Marks(D)) \in Nat /\ Cardinality(Marks(E)) \in Nat
         /\ D[w] <= Cardinality(Marks(D))
         /\ Cardinality(Marks(D)) + E[w] = Cardinality(Marks(E)) + D[w]
<1>1. {u \in Marks(D) : u[1] # w} = {u \in Marks(E) : u[1] # w}  BY DEF Marks
<1>2. D[w] \in Nat /\ E[w] \in Nat  BY DEF Traffic
<1>3. PICK n \in Nat : /\ Cardinality(Marks(D)) = n + D[w]
                       /\ Cardinality(Marks(E)) = n + E[w]
  BY <1>1, Apart
<1>4. QED  BY <1>2, <1>3

LEMMA None == Cardinality(Marks([v \in Workers |-> 0])) = 0
<1>1. Marks([v \in Workers |-> 0]) = {}  BY DEF Marks
<1>2. QED  BY <1>1, FS_EmptySet

-----------------------------------------------------------------------------
(* The ledger.                                                             *)

Deltas == \A w \in Workers : worker[w].delta \in [Clients -> Traffic]

\* Only a job between the counters and the rows holds traffic.
Carrying == \A w \in Workers : worker[w].pc # "store" => worker[w].delta = Zero

LEMMA InFlightMoves ==
  ASSUME Deltas, Deltas', NEW c \in Clients, NEW w \in Workers,
         \A v \in Workers : v # w => worker'[v].delta[c] = worker[v].delta[c]
  PROVE  /\ InFlight(c) \in Nat /\ InFlight(c)' \in Nat
         /\ worker[w].delta[c] \in Nat /\ worker[w].delta[c] <= InFlight(c)
         /\ InFlight(c) + worker'[w].delta[c] = InFlight(c)' + worker[w].delta[c]
<1>1. PICK D : D = [v \in Workers |-> worker[v].delta[c]]  OBVIOUS
<1>2. PICK E : E = [v \in Workers |-> worker'[v].delta[c]]  OBVIOUS
<1>3. D \in [Workers -> Traffic] /\ E \in [Workers -> Traffic]  BY <1>1, <1>2 DEF Deltas
<1>4. InFlight(c) = Cardinality(Marks(D)) /\ InFlight(c)' = Cardinality(Marks(E))
  BY <1>1, <1>2 DEF InFlight, Marks
<1>5. D[w] = worker[w].delta[c] /\ E[w] = worker'[w].delta[c] /\ D[w] \in Nat
  BY <1>1, <1>2, <1>3 DEF Traffic
<1>6. \A v \in Workers : v # w => D[v] = E[v]  BY <1>1, <1>2
<1>7. QED  BY <1>3, <1>4, <1>5, <1>6, Moves

LEMMA InFlightStays ==
  ASSUME Deltas, NEW c \in Clients,
         \A v \in Workers : worker'[v].delta = worker[v].delta
  PROVE  InFlight(c)' = InFlight(c)
  BY DEF InFlight

LEMMA InFlightType ==
  ASSUME Deltas, NEW c \in Clients
  PROVE  /\ InFlight(c) \in Nat
         /\ \A w \in Workers : worker[w].delta[c] \in Nat /\ worker[w].delta[c] <= InFlight(c)
<1>1. PICK D : D = [v \in Workers |-> worker[v].delta[c]]  OBVIOUS
<1>2. D \in [Workers -> Traffic]  BY <1>1 DEF Deltas
<1>3. InFlight(c) = Cardinality(Marks(D))  BY <1>1 DEF InFlight, Marks
<1>4. ASSUME NEW w \in Workers
      PROVE  InFlight(c) \in Nat /\ worker[w].delta[c] \in Nat /\ worker[w].delta[c] <= InFlight(c)
  <2>1. D[w] = worker[w].delta[c] /\ D[w] \in Nat  BY <1>1, <1>2 DEF Traffic
  <2>2. QED  BY <1>2, <1>3, <2>1, Moves
<1>5. CASE Workers = {}
  <2>1. Marks(D) = {}  BY <1>5 DEF Marks
  <2>2. QED  BY <1>3, <1>5, <2>1, FS_EmptySet
<1>6. CASE Workers # {}  BY <1>4, <1>6
<1>7. QED  BY <1>5, <1>6

-----------------------------------------------------------------------------
(* Types, for any number of workers: Shaped, with what a worker holds.      *)

Jobs == {q \in States : /\ q.delta \in [Clients -> Traffic]
                        /\ q.pc # "store" => q.delta = Zero
                        /\ q.who = {} => q.row = NoRow}

Types ==
  /\ Shaped
  /\ worker \in [Workers -> Jobs]
  /\ sent \in [Clients -> Traffic]
  /\ core \in {"up", "down", "starting"}
  /\ broken \in BOOLEAN
  /\ edits \in 0..MaxEdits
  /\ mishaps \in 0..MaxMishaps

Charge(r) == r.used + r.total
Held(c) == counter[c] + InFlight(c)

\* Neither the table nor a row that a page or a request has is charged for more
\* than the client sent, less what is still to be added to it.
Ledger ==
  \A c \in Clients :
     /\ Charge(rows[c]) + Held(c) <= sent[c]
     /\ \A w \in Workers : c \in worker[w].who => Charge(worker[w].row) + Held(c) <= sent[c]

\* A charge that is made already, in the table or in a copy of the row, or none.
Made(c, n) ==
  \/ n = 0 \/ n = Charge(rows[c])
  \/ \E w \in Workers : c \in worker[w].who /\ n = Charge(worker[w].row)

Books == Types /\ Ledger

LEMMA IdleJob ==
  /\ IdleWorker \in Jobs /\ IdleWorker.delta = Zero /\ IdleWorker.row = NoRow
  /\ Zero \in [Clients -> Traffic] /\ Charge(NoRow) = 0
  /\ \A plan \in Plans : Charge(NewRow(plan)) = 0
<1>1. Zero \in [Clients -> Traffic]  BY DEF Zero, Traffic
<1>2. IdleWorker.delta = Zero /\ IdleWorker.row = NoRow  BY DEF IdleWorker
<1>3. Charge(NoRow) = 0  BY DEF Charge, NoRow
<1>4. \A plan \in Plans : Charge(NewRow(plan)) = 0  BY DEF Charge, NewRow, NoRow
<1>5. QED  BY <1>1, <1>2, <1>3, <1>4, Blanks DEF Jobs

LEMMA Amounts ==
  ASSUME Types, NEW c \in Clients
  PROVE  /\ Deltas /\ Charge(rows[c]) \in Nat /\ counter[c] \in Nat /\ sent[c] \in Nat
         /\ InFlight(c) \in Nat /\ Held(c) \in Nat
         /\ \A w \in Workers : Charge(worker[w].row) \in Nat
<1>1. Deltas  BY DEF Types, Deltas, Jobs
<1>2. counter[c] \in Nat /\ sent[c] \in Nat  BY DEF Types, Shaped, Traffic
<1>3. \A r \in Rows : Charge(r) \in Nat  BY DEF Rows, Charge
<1>4. rows[c] \in Rows /\ \A w \in Workers : worker[w].row \in Rows
  BY DEF Types, Shaped, States
<1>5. InFlight(c) \in Nat  BY <1>1, InFlightType
<1>6. QED  BY <1>1, <1>2, <1>3, <1>4, <1>5 DEF Held

LEMMA MadeCovered ==
  ASSUME Books, NEW c \in Clients, NEW n, Made(c, n)
  PROVE  n \in Nat /\ n + Held(c) <= sent[c]
<1>1. /\ Charge(rows[c]) \in Nat /\ Held(c) \in Nat /\ sent[c] \in Nat
      /\ \A w \in Workers : Charge(worker[w].row) \in Nat
  BY Amounts DEF Books
<1>2. Charge(rows[c]) + Held(c) <= sent[c]  BY DEF Books, Ledger
<1>3. CASE n = 0  BY <1>1, <1>2, <1>3
<1>4. CASE n = Charge(rows[c])  BY <1>1, <1>2, <1>4
<1>5. CASE \E w \in Workers : c \in worker[w].who /\ n = Charge(worker[w].row)
  BY <1>1, <1>5 DEF Books, Ledger
<1>6. QED  BY <1>3, <1>4, <1>5 DEF Made

\* A step that neither takes nor stores traffic, and copies rows at most.
LEMMA Still ==
  ASSUME Books, Types', sent' = sent,
         \A c \in Clients : counter'[c] <= counter[c],
         \A w \in Workers : worker'[w].delta = worker[w].delta,
         \A c \in Clients :
            /\ Made(c, Charge(rows'[c]))
            /\ \A w \in Workers : c \in worker'[w].who => Made(c, Charge(worker'[w].row))
  PROVE  Ledger'
<1> SUFFICES ASSUME NEW c \in Clients
             PROVE  /\ Charge(rows[c])' + Held(c)' <= sent'[c]
                    /\ \A w \in Workers : c \in worker'[w].who =>
                          Charge(worker[w].row)' + Held(c)' <= sent'[c]
  BY DEF Ledger
<1>1. /\ counter[c] \in Nat /\ counter'[c] \in Nat /\ sent[c] \in Nat
      /\ InFlight(c) \in Nat /\ Deltas
  <2>1. counter'[c] \in Nat  BY DEF Types, Shaped
  <2>2. QED  BY <2>1, Amounts DEF Books
<1>2. InFlight(c)' = InFlight(c)  BY <1>1, InFlightStays
<1>3. Held(c)' = counter'[c] + InFlight(c)  BY <1>2 DEF Held
<1>4. ASSUME NEW n, Made(c, n) PROVE n + Held(c)' <= sent'[c]
  <2>1. n \in Nat /\ n + Held(c) <= sent[c]  BY <1>4, MadeCovered
  <2>2. counter'[c] <= counter[c]  OBVIOUS
  <2>3. QED  BY <1>1, <1>3, <2>1, <2>2 DEF Held
<1>5. Charge(rows[c])' = Charge(rows'[c]) /\ \A w \in Workers : Charge(worker[w].row)' = Charge(worker'[w].row)
  BY DEF Charge
<1>6. QED  BY <1>4, <1>5

\* The same for a step of one worker that leaves the table alone.
LEMMA OneTurn ==
  ASSUME Books, NEW w \in Workers, NEW q \in Jobs, worker' = [worker EXCEPT ![w] = q],
         q.delta = worker[w].delta, UNCHANGED <<rows, counter, sent>>,
         boot' \in [Inbounds -> SUBSET Clients],
         inb' \in [Inbounds -> [up : BOOLEAN, users : SUBSET Clients]],
         core' \in {"up", "down", "starting"}, broken' \in BOOLEAN,
         edits' \in 0..MaxEdits, mishaps' \in 0..MaxMishaps,
         \A c \in q.who : Made(c, Charge(q.row))
  PROVE  Books'
<1>1. worker \in [Workers -> Jobs] /\ Shaped /\ sent \in [Clients -> Traffic]
  BY DEF Books, Types
<1>2. q \in States /\ worker'[w] = q /\ \A v \in Workers : v # w => worker'[v] = worker[v]
  BY <1>1 DEF Jobs
<1>3. worker' \in [Workers -> Jobs] /\ worker' \in [Workers -> States]
  BY <1>1, <1>2 DEF Shaped
<1>4. Types'  BY <1>1, <1>3 DEF Types, Shaped
<1>5. \A v \in Workers : worker'[v].delta = worker[v].delta  BY <1>2
<1>6. ASSUME NEW c \in Clients
      PROVE  /\ counter'[c] <= counter[c] /\ Made(c, Charge(rows'[c]))
             /\ \A v \in Workers : c \in worker'[v].who => Made(c, Charge(worker'[v].row))
  <2>1. counter[c] \in Nat  BY <1>1 DEF Shaped
  <2>2. ASSUME NEW v \in Workers, c \in worker'[v].who PROVE Made(c, Charge(worker'[v].row))
    <3>1. CASE v = w  BY <1>2, <2>2, <3>1
    <3>2. CASE v # w
      <4>1. worker'[v] = worker[v]  BY <1>2, <3>2
      <4>2. QED  BY <2>2, <4>1 DEF Made
    <3>3. QED  BY <3>1, <3>2
  <2>3. QED  BY <2>1, <2>2 DEF Made
<1>7. Ledger'  BY <1>4, <1>5, <1>6, Still
<1>8. QED  BY <1>4, <1>7 DEF Books

-----------------------------------------------------------------------------
(* Steps of one worker.                                                     *)

LEMMA Known ==
  ASSUME Books, NEW w \in Workers
  PROVE  /\ worker[w] \in States /\ worker[w] \in Jobs /\ worker[w].row \in Rows
         /\ worker[w].pc # "store" => worker[w].delta = Zero
         /\ worker[w].who \subseteq Clients
         /\ worker = [worker EXCEPT ![w] = worker[w]]
         /\ boot \in [Inbounds -> SUBSET Clients]
         /\ inb \in [Inbounds -> [up : BOOLEAN, users : SUBSET Clients]]
         /\ core \in {"up", "down", "starting"} /\ broken \in BOOLEAN
         /\ edits \in 0..MaxEdits /\ mishaps \in 0..MaxMishaps
  BY DEF Books, Types, Shaped, States, Jobs

LEMMA Bounds ==
  /\ (edits \in 0..MaxEdits /\ Edit) => edits' \in 0..MaxEdits
  /\ (mishaps \in 0..MaxMishaps /\ Mishap) => mishaps' \in 0..MaxMishaps
  BY DEF Edit, Mishap

LEMMA LedgerIdled ==
  ASSUME Books, NEW w \in Workers,
         \/ ClosePage(w) \/ DepletionDone(w)
         \/ CommitFailed(w) \/ RestartFailed(w) \/ RestartRefused(w)
  PROVE  Books'
<1>1. /\ Idle(w) /\ UNCHANGED <<rows, core, boot, inb, counter, sent, edits>>
      /\ worker[w].pc # "store" /\ (broken' = broken \/ broken' = TRUE)
      /\ (mishaps' = mishaps \/ Mishap)
  BY DEF ClosePage, DepletionDone, CommitFailed, RestartFailed, RestartRefused, At
<1>2. worker' = [worker EXCEPT ![w] = IdleWorker]  BY <1>1 DEF Idle
<1>3. IdleWorker.delta = worker[w].delta /\ IdleWorker.who = {} /\ IdleWorker \in Jobs
  BY <1>1, Known, IdleJob, Blanks
<1>4. broken' \in BOOLEAN /\ mishaps' \in 0..MaxMishaps  BY <1>1, Known, Bounds
<1>5. QED  BY <1>1, <1>2, <1>3, <1>4, Known, OneTurn

LEMMA LedgerOpened ==
  ASSUME Books, NEW w \in Workers, NEW c \in Clients,
         OpenPage(w, c) \/ NewClient(w, c) \/ DeleteClient(w, c)
  PROVE  Books'
<1>1. /\ UNCHANGED <<rows, core, boot, inb, counter, sent, broken, mishaps>>
      /\ worker[w].pc # "store" /\ (edits' = edits \/ Edit)
  BY DEF OpenPage, NewClient, DeleteClient, At
<1>2. rows[c] \in Rows /\ rows[c].ins \in SUBSET Inbounds  BY DEF Books, Types, Shaped, Rows
<1>3. \E p \in {"page", "begin"}, r \in Rows, t \in SUBSET Inbounds :
         /\ Made(c, Charge(r))
         /\ worker' = [worker EXCEPT ![w] = [IdleWorker EXCEPT
               !.pc = p, !.kind = "save", !.who = {c}, !.row = r, !.todo = t]]
  <2>1. CASE OpenPage(w, c)
    <3>1. worker' = [worker EXCEPT ![w] = [IdleWorker EXCEPT
               !.pc = "page", !.kind = "save", !.who = {c}, !.row = rows[c]]]
      BY <2>1 DEF OpenPage
    <3>2. [IdleWorker EXCEPT !.pc = "page", !.kind = "save", !.who = {c}, !.row = rows[c]]
          = [IdleWorker EXCEPT !.pc = "page", !.kind = "save", !.who = {c}, !.row = rows[c],
                               !.todo = {}]
      BY Blanks DEF States
    <3>3. worker' = [worker EXCEPT ![w] = [IdleWorker EXCEPT
               !.pc = "page", !.kind = "save", !.who = {c}, !.row = rows[c], !.todo = {}]]
      BY <3>1, <3>2, Zenon
    <3>4. QED  BY <1>2, <3>3 DEF Made
  <2>2. CASE NewClient(w, c)
    <3>1. PICK plan \in Plans : Request(w, c, NewRow(plan), Inbounds)  BY <2>2 DEF NewClient
    <3>2. NewRow(plan) \in Rows /\ Charge(NewRow(plan)) = 0  BY Blanks, IdleJob
    <3>3. QED  BY <3>1, <3>2 DEF Made, Request
  <2>3. CASE DeleteClient(w, c)
    <3>1. Request(w, c, NoRow, rows[c].ins)  BY <2>3 DEF DeleteClient
    <3>2. NoRow \in Rows /\ Charge(NoRow) = 0  BY Blanks, IdleJob
    <3>3. QED  BY <1>2, <3>1, <3>2 DEF Made, Request
  <2>4. QED  BY <2>1, <2>2, <2>3
<1>4. PICK p \in {"page", "begin"}, r \in Rows, t \in SUBSET Inbounds :
         /\ Made(c, Charge(r))
         /\ worker' = [worker EXCEPT ![w] = [IdleWorker EXCEPT
               !.pc = p, !.kind = "save", !.who = {c}, !.row = r, !.todo = t]]
  BY <1>3
<1> DEFINE q == [IdleWorker EXCEPT
               !.pc = p, !.kind = "save", !.who = {c}, !.row = r, !.todo = t]
<1>5. q \in States /\ q.pc = p /\ q.who = {c} /\ q.row = r /\ q.delta = Zero
  BY Blanks, IdleJob DEF States
<1>6. worker' = [worker EXCEPT ![w] = q]  BY <1>4
<1> HIDE DEF q
<1>7. q \in Jobs  BY <1>5, IdleJob DEF Jobs
<1>8. q.delta = worker[w].delta  BY <1>1, <1>5, Known
<1>9. edits' \in 0..MaxEdits  BY <1>1, Known, Bounds
<1>10. \A d \in q.who : Made(d, Charge(q.row))  BY <1>4, <1>5
<1>11. QED  BY <1>1, <1>6, <1>7, <1>8, <1>9, <1>10, Known, OneTurn

\* A save writes the traffic that its page shows.
LEMMA LedgerSaved ==
  ASSUME Books, NEW w \in Workers, SaveClient(w)
  PROVE  Books'
<1>1. /\ UNCHANGED <<rows, core, boot, inb, counter, sent, broken, mishaps>>
      /\ worker[w].pc = "page" /\ Edit
  BY DEF SaveClient, At
<1>2. PICK c \in worker[w].who, enable \in BOOLEAN, renew \in BOOLEAN, ins \in SUBSET Inbounds :
         LET r == Edited(worker[w].row, enable, renew, ins)
         IN  \E todo \in {Changes(rows[c], r), rows[c].ins \cup r.ins} :
                worker' = [worker EXCEPT ![w].pc = IF todo = {} THEN "done" ELSE "begin",
                                         ![w].row = r, ![w].todo = todo]
  BY DEF SaveClient
<1> PICK r : r = Edited(worker[w].row, enable, renew, ins)  OBVIOUS
<1> PICK todo \in {Changes(rows[c], r), rows[c].ins \cup r.ins} :
         worker' = [worker EXCEPT ![w].pc = IF todo = {} THEN "done" ELSE "begin",
                                  ![w].row = r, ![w].todo = todo]
  BY <1>2
<1>3. r \in Rows /\ c \in Clients /\ Charge(r) = Charge(worker[w].row)
  <2>1. worker[w].row \in Rows /\ c \in Clients  BY Known
  <2>2. r \in Rows  BY <2>1, EditedRows
  <2>3. r.used = worker[w].row.used /\ r.total = worker[w].row.total
    BY <2>1 DEF Edited, Rows
  <2>4. QED  BY <2>1, <2>2, <2>3 DEF Charge
<1>4. rows[c] \in Rows  BY <1>3 DEF Books, Types, Shaped
<1>5. todo \in SUBSET Inbounds  BY <1>3, <1>4 DEF Changes, Rows
<1> DEFINE p == IF todo = {} THEN "done" ELSE "begin"
           q == [worker[w] EXCEPT !.pc = p, !.row = r, !.todo = todo]
<1>6. worker' = [worker EXCEPT ![w] = q]  BY Known DEF Books, Types, Shaped
<1>7. p \in {"done", "begin"}  OBVIOUS
<1> HIDE DEF p
<1>8. /\ q \in States /\ q.pc = p /\ q.delta = worker[w].delta /\ q.row = r
      /\ q.who = worker[w].who /\ q.who # {}
  BY <1>3, <1>5, <1>7, Known DEF States
<1> HIDE DEF q
<1>9. worker[w].delta = Zero  BY <1>1, Known
<1>10. q \in Jobs  BY <1>8, <1>9, IdleJob DEF Jobs
<1>11. \A d \in q.who : Made(d, Charge(q.row))  BY <1>3, <1>8 DEF Made
<1>12. edits' \in 0..MaxEdits  BY <1>1, Known, Bounds
<1>13. QED  BY <1>1, <1>6, <1>8, <1>10, <1>11, <1>12, Known, OneTurn

LEMMA LedgerRestarts ==
  ASSUME Books, NEW w \in Workers,
         BeginRestart(w) \/ RemoveInbound(w) \/ AddUsers(w) \/ AddInbound(w)
  PROVE  Books'
<1>1. /\ UNCHANGED <<rows, core, boot, counter, sent, edits, mishaps>>
      /\ worker[w].pc # "store" /\ broken' \in BOOLEAN
  <2>1. CASE AddUsers(w)
    <3>1. PICK i : broken' = (broken \/ Crossed(w, i))  BY <2>1 DEF AddUsers
    <3>2. QED  BY <2>1, <3>1 DEF AddUsers, At
  <2>2. CASE BeginRestart(w) \/ RemoveInbound(w) \/ AddInbound(w)
    BY <2>2, Known DEF BeginRestart, RemoveInbound, AddInbound, At
  <2>3. QED  BY <2>1, <2>2
<1>2. inb' \in [Inbounds -> [up : BOOLEAN, users : SUBSET Clients]]
  <2>1. /\ inb \in [Inbounds -> [up : BOOLEAN, users : SUBSET Clients]]
        /\ worker[w].users \in SUBSET Clients
    BY Known DEF States
  <2>2. CASE BeginRestart(w) \/ AddUsers(w)  BY <2>1, <2>2 DEF BeginRestart, AddUsers
  <2>3. CASE RemoveInbound(w)
    <3>1. PICK i : inb' = [inb EXCEPT ![i] = Out]  BY <2>3 DEF RemoveInbound
    <3>2. QED  BY <2>1, <3>1, Blanks
  <2>4. CASE AddInbound(w)
    <3>1. PICK i : inb' = [inb EXCEPT ![i] = [up |-> TRUE, users |-> worker[w].users]]
      BY <2>4 DEF AddInbound
    <3>2. QED  BY <2>1, <3>1
  <2>5. QED  BY <2>2, <2>3, <2>4
<1>3. \E p \in {"restart", "done", "read", "add"}, t \in SUBSET Inbounds,
         a \in SUBSET Inbounds, u \in SUBSET Clients :
         worker' = [worker EXCEPT ![w] = [worker[w] EXCEPT
                        !.pc = p, !.todo = t, !.at = a, !.users = u]]
  <2>1. /\ worker[w].todo \in SUBSET Inbounds /\ worker[w].at \in SUBSET Inbounds
        /\ worker[w].users \in SUBSET Clients /\ worker[w] \in States
        /\ worker \in [Workers -> States]
    BY Known DEF States, Books, Types, Shaped
  <2>2. CASE BeginRestart(w)
    <3>1. PICK p \in {"restart", "done"} : worker' = [worker EXCEPT ![w].pc = p]
      BY <2>2 DEF BeginRestart, Goto
    <3>2. worker' = [worker EXCEPT ![w] = [worker[w] EXCEPT !.pc = p, !.todo = worker[w].todo,
                        !.at = worker[w].at, !.users = worker[w].users]]
      BY <2>1, <3>1 DEF States
    <3>3. QED  BY <2>1, <3>2
  <2>3. CASE RemoveInbound(w)
    <3>1. PICK i \in worker[w].todo : worker' = [worker EXCEPT
              ![w].pc = "read", ![w].at = {i}, ![w].todo = @ \ {i}]
      BY <2>3 DEF RemoveInbound
    <3>2. PICK t \in SUBSET Inbounds : t = worker[w].todo \ {i}  BY <2>1
    <3>3. worker' = [worker EXCEPT ![w] = [worker[w] EXCEPT !.pc = "read", !.todo = t,
                        !.at = {i}, !.users = worker[w].users]]
      BY <2>1, <3>1, <3>2 DEF States
    <3>4. {i} \in SUBSET Inbounds  BY <2>1
    <3>5. QED  BY <2>1, <3>3, <3>4
  <2>4. CASE AddUsers(w)
    <3>1. PICK i \in worker[w].at : worker' = [worker EXCEPT
              ![w].pc = "add", ![w].users = Users(View(w), i)]
      BY <2>4 DEF AddUsers
    <3>2. PICK u \in SUBSET Clients : u = Users(View(w), i)  BY UsersType
    <3>3. worker' = [worker EXCEPT ![w] = [worker[w] EXCEPT !.pc = "add",
                        !.todo = worker[w].todo, !.at = worker[w].at, !.users = u]]
      BY <2>1, <3>1, <3>2 DEF States
    <3>4. QED  BY <2>1, <3>3
  <2>5. CASE AddInbound(w)
    <3>1. PICK p \in {"restart", "done"} : worker' = [worker EXCEPT
              ![w].pc = p, ![w].at = {}, ![w].users = {}]
      BY <2>5 DEF AddInbound
    <3>2. worker' = [worker EXCEPT ![w] = [worker[w] EXCEPT !.pc = p,
                        !.todo = worker[w].todo, !.at = {}, !.users = {}]]
      BY <2>1, <3>1 DEF States
    <3>3. QED  BY <2>1, <3>2
  <2>6. QED  BY <2>2, <2>3, <2>4, <2>5
<1>4. PICK p \in {"restart", "done", "read", "add"}, t \in SUBSET Inbounds,
           a \in SUBSET Inbounds, u \in SUBSET Clients :
         worker' = [worker EXCEPT ![w] = [worker[w] EXCEPT
                        !.pc = p, !.todo = t, !.at = a, !.users = u]]
  BY <1>3
<1> DEFINE q == [worker[w] EXCEPT !.pc = p, !.todo = t, !.at = a, !.users = u]
<1>5. /\ q \in States /\ q.pc = p /\ q.delta = worker[w].delta /\ q.row = worker[w].row
      /\ q.who = worker[w].who
  BY Known DEF States
<1>6. worker' = [worker EXCEPT ![w] = q]  BY <1>4
<1> HIDE DEF q
<1>7. q \in Jobs  BY <1>1, <1>5, Known, IdleJob DEF Jobs
<1>8. \A d \in q.who : Made(d, Charge(q.row))  BY <1>5 DEF Made
<1>9. QED  BY <1>1, <1>2, <1>5, <1>6, <1>7, <1>8, Known, OneTurn

-----------------------------------------------------------------------------
(* Steps that change rows, and those of the core and the clock.             *)

\* A reset moves what a client used to its total: it is charged for as much as before.
LEMMA ResetCharge ==
  ASSUME NEW r \in Rows
  PROVE  /\ Charge(Deplete(Reset(r))) = Charge(r)
         /\ Deplete(Reset(r)).present = r.present
         /\ (~r.present /\ ~r.enable) => Deplete(Reset(r)) = r
<1>1. \A s \in Rows : Charge(Deplete(s)) = Charge(s) /\ Deplete(s).present = s.present
  BY DEF Deplete, Charge, Rows
<1>2. CASE Starts(r)
  <2> DEFINE d == IF r.auto THEN FALSE ELSE r.due
             e == IF r.auto THEN r.expired ELSE FALSE
  <2>1. Reset(r) = [r EXCEPT !.delay = FALSE, !.due = d, !.expired = e]  BY <1>2 DEF Reset
  <2> HIDE DEF d, e
  <2>2. Charge(Reset(r)) = Charge(r) /\ Reset(r).present = r.present  BY <2>1 DEF Charge, Rows
  <2>3. r.enable  BY <1>2 DEF Starts
  <2>4. QED  BY <1>1, <2>2, <2>3, ResetRow
<1>3. CASE ~Starts(r) /\ Resets(r)
  <2> DEFINE t == r.total + r.used
  <2>1. Reset(r) = [r EXCEPT !.due = FALSE, !.enable = TRUE, !.total = t, !.used = 0]
    BY <1>3 DEF Reset
  <2>2. t \in Nat /\ t = Charge(r)  BY DEF Rows, Charge
  <2> HIDE DEF t
  <2>3. Reset(r).used = 0 /\ Reset(r).total = t /\ Reset(r).present = r.present  BY <2>1 DEF Rows
  <2>4. Charge(Reset(r)) = Charge(r)  BY <2>2, <2>3 DEF Charge
  <2>5. r.present  BY <1>3 DEF Resets
  <2>6. QED  BY <1>1, <2>3, <2>4, <2>5, ResetRow
<1>4. CASE ~Starts(r) /\ ~Resets(r)
  <2>1. Reset(r) = r  BY <1>4 DEF Reset
  <2>2. ~r.enable => Deplete(r) = r  BY DEF Deplete, Depleted
  <2>3. QED  BY <1>1, <2>1, <2>2
<1>5. QED  BY <1>2, <1>3, <1>4

LEMMA LedgerDepletes ==
  ASSUME Books, NEW w \in Workers, DepleteClients(w)
  PROVE  Books'
<1> DEFINE reset == [c \in Clients |-> Reset(rows[c])]
           changed == {c \in Clients : reset[c].enable # rows[c].enable \/ Depleted(reset[c])}
           jobs == UNION {rows[c].ins : c \in changed}
           q == [IdleWorker EXCEPT !.pc = "begin", !.kind = "deplete", !.todo = jobs]
<1>1. /\ UNCHANGED <<core, boot, inb, counter, sent, broken, edits, mishaps>>
      /\ worker[w].pc = "idle"
      /\ rows' = [c \in Clients |-> Deplete(reset[c])] /\ worker' = [worker EXCEPT ![w] = q]
  BY DEF DepleteClients, At
<1>2. \A c \in Clients : rows[c] \in Rows /\ rows'[c] = Deplete(Reset(rows[c]))
  BY <1>1 DEF Books, Types, Shaped
<1>3. jobs \in SUBSET Inbounds  BY <1>2 DEF Rows
<1> HIDE DEF reset, changed, jobs
<1>4. q \in States /\ q.pc = "begin" /\ q.delta = Zero /\ q.who = {} /\ q.row = NoRow
  BY <1>3, Blanks, IdleJob DEF States
<1> HIDE DEF q
<1>5. q \in Jobs  BY <1>4, IdleJob DEF Jobs
<1>6. /\ worker'[w] = q /\ \A v \in Workers : v # w => worker'[v] = worker[v]
      /\ worker' \in [Workers -> Jobs] /\ worker' \in [Workers -> States]
  BY <1>1, <1>4, <1>5 DEF Books, Types, Shaped
<1>7. rows' \in [Clients -> Rows]
  <2>1. \A c \in Clients : rows'[c] \in Rows  BY <1>2, ResetRow
  <2>2. rows' = [c \in Clients |-> rows'[c]]  BY <1>1
  <2>3. QED  BY <2>1, <2>2
<1>8. Types'  BY <1>1, <1>6, <1>7 DEF Books, Types, Shaped
<1>9. \A v \in Workers : worker'[v].delta = worker[v].delta  BY <1>1, <1>4, <1>6, Known
<1>10. ASSUME NEW c \in Clients
       PROVE  /\ counter'[c] <= counter[c] /\ Made(c, Charge(rows'[c]))
              /\ \A v \in Workers : c \in worker'[v].who => Made(c, Charge(worker'[v].row))
  <2>1. counter'[c] <= counter[c]  BY <1>1 DEF Books, Types, Shaped
  <2>2. Charge(rows'[c]) = Charge(rows[c])  BY <1>2, ResetCharge
  <2>3. \A v \in Workers : c \in worker'[v].who => worker'[v] = worker[v]  BY <1>4, <1>6
  <2>4. QED  BY <2>1, <2>2, <2>3 DEF Made
<1>11. Ledger'  BY <1>1, <1>8, <1>9, <1>10, Still
<1>12. QED  BY <1>8, <1>11 DEF Books

LEMMA LedgerCommits ==
  ASSUME Books, NEW w \in Workers, Commit(w)
  PROVE  Books'
<1>1. /\ UNCHANGED <<core, boot, inb, counter, sent, broken, edits, mishaps>>
      /\ worker[w].pc = "done" /\ rows' = View(w)
  BY DEF Commit, At
<1>2. ASSUME NEW v \in Workers
      PROVE  \/ worker'[v] = IdleWorker /\ worker[v].delta = Zero
             \/ worker'[v] = [worker[v] EXCEPT !.row = NoRow]
             \/ worker'[v] = worker[v]
  BY <1>1, Known DEF Commit
<1>3. ASSUME NEW v \in Workers
      PROVE  /\ worker'[v] \in States /\ worker'[v] \in Jobs
             /\ worker'[v].delta = worker[v].delta
             /\ worker'[v].row = NoRow
                \/ (worker'[v].who = worker[v].who /\ worker'[v].row = worker[v].row)
  <2>1. worker[v] \in States /\ worker[v] \in Jobs  BY Known
  <2>2. CASE worker'[v] = IdleWorker /\ worker[v].delta = Zero  BY <2>2, IdleJob, Blanks
  <2>3. CASE worker'[v] = [worker[v] EXCEPT !.row = NoRow]
    <3>1. /\ worker'[v] \in States /\ worker'[v].row = NoRow /\ worker'[v].pc = worker[v].pc
          /\ worker'[v].delta = worker[v].delta
      BY <2>1, <2>3, Blanks DEF States
    <3>2. QED  BY <2>1, <3>1 DEF Jobs
  <2>4. CASE worker'[v] = worker[v]  BY <2>1, <2>4
  <2>5. QED  BY <1>2, <2>2, <2>3, <2>4
<1>4. worker' \in [Workers -> States] /\ worker' \in [Workers -> Jobs]
  <2>1. worker' = [v \in Workers |-> worker'[v]]  BY DEF Commit
  <2>2. QED  BY <1>3, <2>1
<1>5. ASSUME NEW c \in Clients
      PROVE  rows'[c] \in Rows /\ (rows'[c] = rows[c] \/ (c \in worker[w].who /\ rows'[c] = worker[w].row))
  BY <1>1, Known DEF View, Books, Types, Shaped
<1>6. rows' \in [Clients -> Rows]
  <2>1. rows' = [c \in Clients |-> rows'[c]]  BY <1>1 DEF View
  <2>2. QED  BY <1>5, <2>1
<1>7. Types'  BY <1>1, <1>4, <1>6 DEF Books, Types, Shaped
<1>8. \A v \in Workers : worker'[v].delta = worker[v].delta  BY <1>3
<1>9. ASSUME NEW c \in Clients
      PROVE  /\ counter'[c] <= counter[c] /\ Made(c, Charge(rows'[c]))
             /\ \A v \in Workers : c \in worker'[v].who => Made(c, Charge(worker'[v].row))
  <2>1. counter'[c] <= counter[c]  BY <1>1 DEF Books, Types, Shaped
  <2>2. Made(c, Charge(rows'[c]))  BY <1>5 DEF Made
  <2>3. ASSUME NEW v \in Workers, c \in worker'[v].who PROVE Made(c, Charge(worker'[v].row))
    <3>1. CASE worker'[v].row = NoRow  BY <3>1, IdleJob DEF Made
    <3>2. CASE worker'[v].who = worker[v].who /\ worker'[v].row = worker[v].row
      BY <2>3, <3>2 DEF Made
    <3>3. QED  BY <1>3, <3>1, <3>2
  <2>4. QED  BY <2>1, <2>2, <2>3
<1>10. Ledger'  BY <1>1, <1>7, <1>8, <1>9, Still
<1>11. QED  BY <1>7, <1>10 DEF Books

LEMMA PassedRow ==
  ASSUME NEW r \in Rows, NEW time \in {"expired", "due"}
  PROVE  /\ [r EXCEPT ![time] = TRUE] \in Rows
         /\ Charge([r EXCEPT ![time] = TRUE]) = Charge(r)
         /\ [r EXCEPT ![time] = TRUE].present = r.present
         /\ [r EXCEPT ![time] = TRUE].enable = r.enable
<1>1. CASE time = "expired"  BY <1>1 DEF Rows, Charge
<1>2. CASE time = "due"  BY <1>2 DEF Rows, Charge
<1>3. QED  BY <1>1, <1>2

LEMMA LedgerPasses ==
  ASSUME Books, NEW c \in Clients, NEW time \in {"expired", "due"}, Passes(c, time)
  PROVE  Books'
<1>1. UNCHANGED <<core, boot, inb, counter, sent, broken, edits, mishaps>>  BY DEF Passes
<1>2. rows[c] \in Rows /\ rows \in [Clients -> Rows]  BY DEF Books, Types, Shaped
<1>3. PICK s \in Rows : s = [rows[c] EXCEPT ![time] = TRUE] /\ Charge(s) = Charge(rows[c])
  BY <1>2, PassedRow
<1>4. rows' = [rows EXCEPT ![c] = s]  BY <1>2, <1>3 DEF Passes
<1>5. rows' \in [Clients -> Rows] /\ \A d \in Clients : Charge(rows'[d]) = Charge(rows[d])
  BY <1>2, <1>3, <1>4
<1>6. ASSUME NEW v \in Workers
      PROVE  /\ worker'[v] \in States /\ worker'[v] \in Jobs
             /\ worker'[v].delta = worker[v].delta /\ worker'[v].who = worker[v].who
             /\ Charge(worker'[v].row) = Charge(worker[v].row)
  <2>1. worker[v] \in States /\ worker[v] \in Jobs /\ worker[v].row \in Rows  BY Known
  <2>2. CASE ~(c \in worker[v].who /\ worker[v].row.present)
    <3>1. worker'[v] = worker[v]  BY <2>2 DEF Passes
    <3>2. QED  BY <2>1, <3>1
  <2>3. CASE c \in worker[v].who /\ worker[v].row.present
    <3>1. PICK t \in Rows : /\ t = [worker[v].row EXCEPT ![time] = TRUE]
                            /\ Charge(t) = Charge(worker[v].row)
      BY <2>1, PassedRow
    <3>2. worker'[v] = [worker[v] EXCEPT !.row = t]  BY <2>3, <3>1 DEF Passes
    <3>3. /\ worker'[v] \in States /\ worker'[v].row = t /\ worker'[v].pc = worker[v].pc
          /\ worker'[v].delta = worker[v].delta /\ worker'[v].who = worker[v].who
      BY <2>1, <3>2 DEF States
    <3>4. QED  BY <2>1, <2>3, <3>1, <3>3 DEF Jobs
  <2>4. QED  BY <2>2, <2>3
<1>7. worker' \in [Workers -> States] /\ worker' \in [Workers -> Jobs]
  <2>1. worker' = [v \in Workers |-> worker'[v]]  BY DEF Passes
  <2>2. QED  BY <1>6, <2>1
<1>8. Types'  BY <1>1, <1>5, <1>7 DEF Books, Types, Shaped
<1>9. \A d \in Clients : counter'[d] <= counter[d]  BY <1>1 DEF Books, Types, Shaped
<1>10. \A d \in Clients :
          /\ Made(d, Charge(rows'[d]))
          /\ \A v \in Workers : d \in worker'[v].who => Made(d, Charge(worker'[v].row))
  BY <1>5, <1>6 DEF Made
<1>11. \A v \in Workers : worker'[v].delta = worker[v].delta  BY <1>6
<1>12. Ledger'  BY <1>1, <1>8, <1>9, <1>10, <1>11, Still
<1>13. QED  BY <1>8, <1>12 DEF Books

LEMMA LedgerCore ==
  ASSUME Books, CoreStops \/ CoreReads \/ CoreUp \/ UNCHANGED vars
  PROVE  Books'
<1>1. UNCHANGED <<rows, worker, sent, edits>>  BY DEF CoreStops, CoreReads, CoreUp, vars
<1>2. Types'
  <2>1. CASE CoreStops
    <3>1. /\ core' = "down" /\ counter' = Zero /\ broken' = TRUE /\ boot' = boot
          /\ inb' \in [Inbounds -> [up : BOOLEAN, users : SUBSET Clients]]
      BY <2>1, Blanks DEF CoreStops
    <3>2. mishaps' \in 0..MaxMishaps  BY <2>1, Bounds DEF CoreStops, Books, Types
    <3>3. QED  BY <1>1, <3>1, <3>2, Blanks DEF Books, Types, Shaped
  <2>2. CASE CoreReads
    <3>1. core' = "starting" /\ boot' \in [Inbounds -> SUBSET Clients]
      BY <2>2, UsersType DEF CoreReads
    <3>2. UNCHANGED <<inb, counter, broken, mishaps>>  BY <2>2 DEF CoreReads
    <3>3. QED  BY <1>1, <3>1, <3>2 DEF Books, Types, Shaped
  <2>3. CASE CoreUp
    <3>1. /\ core' = "up" /\ boot' \in [Inbounds -> SUBSET Clients]
          /\ inb' \in [Inbounds -> [up : BOOLEAN, users : SUBSET Clients]]
      BY <2>3 DEF CoreUp, Books, Types, Shaped
    <3>2. UNCHANGED <<counter, broken, mishaps>>  BY <2>3 DEF CoreUp
    <3>3. QED  BY <1>1, <3>1, <3>2 DEF Books, Types, Shaped
  <2>4. CASE UNCHANGED vars  BY <2>4 DEF vars, Books, Types, Shaped
  <2>5. QED  BY <2>1, <2>2, <2>3, <2>4
<1>3. \A c \in Clients : counter'[c] <= counter[c]
  <2>1. counter' = Zero \/ counter' = counter  BY DEF CoreStops, CoreReads, CoreUp, vars
  <2>2. QED  BY <2>1 DEF Zero, Books, Types, Shaped
<1>4. \A c \in Clients :
          /\ Made(c, Charge(rows'[c]))
          /\ \A v \in Workers : c \in worker'[v].who => Made(c, Charge(worker'[v].row))
  BY <1>1 DEF Made
<1>5. Ledger'  BY <1>1, <1>2, <1>3, <1>4, Still
<1>6. QED  BY <1>2, <1>5 DEF Books

-----------------------------------------------------------------------------
(* Steps that count, take, store or lose traffic.                           *)

LEMMA LedgerSends ==
  ASSUME Books, NEW c \in Clients, Send(c)
  PROVE  Books'
<1>1. /\ UNCHANGED <<rows, core, boot, inb, worker, broken, edits, mishaps>>
      /\ sent[c] < MaxTraffic
      /\ sent' = [sent EXCEPT ![c] = sent[c] + 1]
      /\ counter' = [counter EXCEPT ![c] = counter[c] + 1]
  BY DEF Send
<1>2. /\ sent \in [Clients -> Traffic] /\ counter \in [Clients -> Nat]
      /\ MaxTraffic \in Nat
  BY DEF Books, Types, Shaped
<1>3. sent' \in [Clients -> Traffic] /\ counter' \in [Clients -> Nat]
  <2>1. sent[c] + 1 \in Traffic /\ counter[c] + 1 \in Nat  BY <1>1, <1>2 DEF Traffic
  <2>2. QED  BY <1>1, <1>2, <2>1
<1>4. Types'  BY <1>1, <1>3 DEF Books, Types, Shaped
<1>5. Ledger'
  <2> SUFFICES ASSUME NEW d \in Clients
               PROVE  /\ Charge(rows[d])' + Held(d)' <= sent'[d]
                      /\ \A v \in Workers : d \in worker'[v].who =>
                            Charge(worker[v].row)' + Held(d)' <= sent'[d]
    BY DEF Ledger
  <2>1. /\ counter[d] \in Nat /\ sent[d] \in Nat /\ InFlight(d) \in Nat /\ Deltas
        /\ Charge(rows[d]) \in Nat /\ \A v \in Workers : Charge(worker[v].row) \in Nat
    BY Amounts DEF Books
  <2>2. InFlight(d)' = InFlight(d)  BY <1>1, <2>1, InFlightStays
  <2>3. Held(d)' = counter'[d] + InFlight(d) /\ Held(d) = counter[d] + InFlight(d)
    BY <2>2 DEF Held
  <2>4. \/ counter'[d] = counter[d] /\ sent'[d] = sent[d]
        \/ counter'[d] = counter[d] + 1 /\ sent'[d] = sent[d] + 1
    BY <1>1, <1>2
  <2>5. ASSUME NEW n \in Nat, n + Held(d) <= sent[d] PROVE n + Held(d)' <= sent'[d]
    BY <2>1, <2>3, <2>4, <2>5
  <2>6. Charge(rows[d])' = Charge(rows[d]) /\ \A v \in Workers : Charge(worker[v].row)' = Charge(worker[v].row)
    BY <1>1 DEF Charge
  <2>7. QED  BY <1>1, <2>1, <2>5, <2>6 DEF Books, Ledger
<1>6. QED  BY <1>4, <1>5 DEF Books

\* A statistics job leaves the rows and the pages of the others as they are.
LEMMA JobRows ==
  ASSUME Books, Types', NEW w \in Workers, worker'[w].who = {}, sent' = sent,
         \A v \in Workers : v # w => worker'[v] = worker[v],
         \A c \in Clients : /\ Held(c)' <= Held(c)
                            /\ Charge(rows'[c]) + Held(c)' <= Charge(rows[c]) + Held(c)
  PROVE  Books'
<1> SUFFICES ASSUME NEW c \in Clients
             PROVE  /\ Charge(rows[c])' + Held(c)' <= sent'[c]
                    /\ \A v \in Workers : c \in worker'[v].who =>
                          Charge(worker[v].row)' + Held(c)' <= sent'[c]
  BY DEF Books, Ledger
<1>1. /\ Charge(rows[c]) \in Nat /\ Held(c) \in Nat /\ sent[c] \in Nat
      /\ \A v \in Workers : Charge(worker[v].row) \in Nat
  BY Amounts DEF Books
<1>2. Charge(rows[c])' \in Nat /\ Held(c)' \in Nat
  <2>1. Deltas /\ Deltas'  BY DEF Books, Types, Deltas, Jobs
  <2>2. InFlight(c)' \in Nat  BY <2>1, InFlightMoves
  <2>3. rows'[c] \in Rows /\ counter'[c] \in Nat  BY DEF Types, Shaped
  <2>4. QED  BY <2>2, <2>3 DEF Charge, Held, Rows
<1>3. Charge(rows[c])' = Charge(rows'[c])  BY DEF Charge
<1>4. Charge(rows[c])' + Held(c)' <= sent'[c]  BY <1>1, <1>2, <1>3 DEF Books, Ledger
<1>5. ASSUME NEW v \in Workers, c \in worker'[v].who
      PROVE  Charge(worker[v].row)' + Held(c)' <= sent'[c]
  <2>1. worker'[v] = worker[v]  BY <1>5
  <2>2. Charge(worker[v].row)' = Charge(worker[v].row)  BY <2>1 DEF Charge
  <2>3. Charge(worker[v].row) + Held(c) <= sent[c]  BY <1>5, <2>1 DEF Books, Ledger
  <2>4. Held(c)' <= Held(c)  OBVIOUS
  <2>5. QED  BY <1>1, <1>2, <2>2, <2>3, <2>4
<1>6. QED  BY <1>4, <1>5

LEMMA LedgerTakes ==
  ASSUME Books, NEW w \in Workers, TakeCounters(w)
  PROVE  Books' /\ \A c \in Clients : Held(c)' = Held(c)
<1> DEFINE q == [IdleWorker EXCEPT !.pc = "store", !.kind = "stats", !.delta = counter]
<1>1. /\ UNCHANGED <<rows, core, boot, inb, sent, broken, edits, mishaps>>
      /\ worker[w].pc = "idle" /\ counter' = Zero /\ worker' = [worker EXCEPT ![w] = q]
  BY DEF TakeCounters, At
<1>2. counter \in [Clients -> Nat] /\ sent \in [Clients -> Traffic] /\ MaxTraffic \in Nat
  BY DEF Books, Types, Shaped
<1>3. counter \in [Clients -> Traffic]
  <2>1. ASSUME NEW c \in Clients PROVE counter[c] \in Traffic
    <3>1. /\ Charge(rows[c]) \in Nat /\ InFlight(c) \in Nat /\ counter[c] \in Nat
          /\ sent[c] \in Nat /\ sent[c] <= MaxTraffic
      BY <1>2, Amounts DEF Books, Traffic
    <3>2. Charge(rows[c]) + (counter[c] + InFlight(c)) <= sent[c]  BY DEF Books, Ledger, Held
    <3>3. QED  BY <1>2, <3>1, <3>2 DEF Traffic
  <2>2. QED  BY <1>2, <2>1
<1>4. /\ q \in States /\ q.pc = "store" /\ q.delta = counter /\ q.who = {} /\ q.row = NoRow
  BY <1>2, IdleJob, Blanks DEF States
<1> HIDE DEF q
<1>5. q \in Jobs  BY <1>3, <1>4 DEF Jobs
<1>6. /\ worker'[w] = q /\ \A v \in Workers : v # w => worker'[v] = worker[v]
      /\ worker' \in [Workers -> Jobs] /\ worker' \in [Workers -> States]
  BY <1>1, <1>4, <1>5 DEF Books, Types, Shaped
<1>7. Types'  BY <1>1, <1>6, Blanks DEF Books, Types, Shaped
<1>8. Deltas /\ Deltas'
  <2>1. Deltas  BY DEF Books, Types, Deltas, Jobs
  <2>2. Deltas'  BY <1>6 DEF Deltas, Jobs
  <2>3. QED  BY <2>1, <2>2
<1>9. ASSUME NEW c \in Clients PROVE Held(c)' = Held(c)
  <2>1. /\ InFlight(c) \in Nat /\ InFlight(c)' \in Nat
        /\ InFlight(c) + worker'[w].delta[c] = InFlight(c)' + worker[w].delta[c]
    BY <1>6, <1>8, InFlightMoves
  <2>2. worker'[w].delta[c] = counter[c] /\ worker[w].delta[c] = 0 /\ counter'[c] = 0
    BY <1>1, <1>4, <1>6, Known DEF Zero
  <2>3. counter[c] \in Nat  BY <1>2
  <2>4. QED  BY <2>1, <2>2, <2>3 DEF Held
<1>10. \A c \in Clients : /\ Held(c)' <= Held(c)
                          /\ Charge(rows'[c]) + Held(c)' <= Charge(rows[c]) + Held(c)
  <2>1. \A c \in Clients : Held(c) \in Nat /\ Charge(rows[c]) \in Nat  BY Amounts DEF Books
  <2>2. QED  BY <1>1, <1>9, <2>1
<1>11. Books'  BY <1>1, <1>4, <1>6, <1>7, <1>10, JobRows
<1>12. QED  BY <1>9, <1>11

\* The traffic that a job had is added to the rows there are, or is lost.
LEMMA LedgerStores ==
  ASSUME Books, NEW w \in Workers, Store(w) \/ StoreFailed(w)
  PROVE  /\ Books'
         /\ \A c \in Clients : Held(c)' + worker[w].delta[c] = Held(c)
<1>1. /\ UNCHANGED <<core, boot, inb, counter, sent, broken, edits>>
      /\ Idle(w) /\ (mishaps' = mishaps \/ Mishap)
  BY DEF Store, StoreFailed
<1>2. /\ worker'[w] = IdleWorker /\ \A v \in Workers : v # w => worker'[v] = worker[v]
      /\ worker' \in [Workers -> Jobs] /\ worker' \in [Workers -> States]
  BY <1>1, IdleJob, Blanks DEF Idle, Books, Types, Shaped
<1>3. ASSUME NEW c \in Clients
      PROVE  /\ rows'[c] \in Rows
             /\ Charge(rows'[c]) <= Charge(rows[c]) + worker[w].delta[c]
  <2>1. rows[c] \in Rows /\ worker[w].delta[c] \in Nat  BY DEF Books, Types, Shaped, States
  <2>2. CASE rows'[c] = rows[c]  BY <2>1, <2>2 DEF Rows, Charge
  <2>3. CASE Store(w) /\ rows[c].present
    <3>1. PICK n : n = rows[c].used + worker[w].delta[c]  OBVIOUS
    <3>2. rows'[c] = [rows[c] EXCEPT !.used = n]  BY <2>3, <3>1 DEF Store
    <3>3. n \in Nat /\ rows[c].used \in Nat /\ rows[c].total \in Nat  BY <2>1, <3>1 DEF Rows
    <3>4. rows'[c] \in Rows /\ rows'[c].used = n /\ rows'[c].total = rows[c].total
      BY <2>1, <3>2, <3>3 DEF Rows
    <3>5. QED  BY <2>1, <3>1, <3>3, <3>4 DEF Charge
  <2>4. rows'[c] = rows[c] \/ (Store(w) /\ rows[c].present)  BY DEF Store, StoreFailed
  <2>5. QED  BY <2>2, <2>3, <2>4
<1>4. rows' \in [Clients -> Rows]
  <2>1. CASE Store(w)
    <3>1. rows' = [c \in Clients |-> rows'[c]]  BY <2>1 DEF Store
    <3>2. QED  BY <1>3, <3>1
  <2>2. CASE StoreFailed(w)  BY <2>2 DEF StoreFailed, Books, Types, Shaped
  <2>3. QED  BY <2>1, <2>2
<1>5. mishaps' \in 0..MaxMishaps  BY <1>1, Known, Bounds
<1>6. Types'  BY <1>1, <1>2, <1>4, <1>5 DEF Books, Types, Shaped
<1>7. Deltas /\ Deltas'
  <2>1. Deltas  BY DEF Books, Types, Deltas, Jobs
  <2>2. Deltas'  BY <1>2 DEF Deltas, Jobs
  <2>3. QED  BY <2>1, <2>2
<1>8. ASSUME NEW c \in Clients
      PROVE  /\ Held(c)' + worker[w].delta[c] = Held(c)
             /\ Held(c)' \in Nat /\ worker[w].delta[c] \in Nat
  <2>1. /\ InFlight(c) \in Nat /\ InFlight(c)' \in Nat /\ worker[w].delta[c] \in Nat
        /\ InFlight(c) + worker'[w].delta[c] = InFlight(c)' + worker[w].delta[c]
    BY <1>2, <1>7, InFlightMoves
  <2>2. worker'[w].delta[c] = 0  BY <1>2, IdleJob DEF Zero
  <2>3. counter[c] \in Nat /\ counter'[c] = counter[c]  BY <1>1 DEF Books, Types, Shaped
  <2>4. QED  BY <2>1, <2>2, <2>3 DEF Held
<1>9. \A c \in Clients : /\ Held(c)' <= Held(c)
                         /\ Charge(rows'[c]) + Held(c)' <= Charge(rows[c]) + Held(c)
  <2>1. \A c \in Clients : Charge(rows[c]) \in Nat /\ Charge(rows'[c]) \in Nat
    BY <1>3, Amounts DEF Books, Charge, Rows
  <2>2. QED  BY <1>3, <1>8, <2>1
<1>10. Books'  BY <1>1, <1>2, <1>6, <1>9, Blanks, JobRows
<1>11. QED  BY <1>8, <1>10

-----------------------------------------------------------------------------

LEMMA LedgerInit == Init => Books
<1> SUFFICES ASSUME Init PROVE Books
  OBVIOUS
<1>1. /\ rows \in [Clients -> Rows]
      /\ \A c \in Clients : Charge(rows[c]) = 0
  <2>1. \A r \in {NoRow} \cup {NewRow(plan) : plan \in Plans} : r \in Rows /\ Charge(r) = 0
    BY Blanks, IdleJob
  <2>2. QED  BY <2>1 DEF Init
<1>2. /\ worker \in [Workers -> States] /\ worker \in [Workers -> Jobs]
      /\ \A w \in Workers : worker[w] = IdleWorker
  BY Blanks, IdleJob DEF Init
<1>3. /\ counter \in [Clients -> Nat] /\ boot \in [Inbounds -> SUBSET Clients]
      /\ inb \in [Inbounds -> [up : BOOLEAN, users : SUBSET Clients]]
      /\ sent \in [Clients -> Traffic]
  BY Blanks, IdleJob, UsersType DEF Init
<1>4. Types
  <2>1. 0 \in 0..MaxEdits /\ 0 \in 0..MaxMishaps  OBVIOUS
  <2>2. QED  BY <1>1, <1>2, <1>3, <2>1 DEF Init, Types, Shaped
<1>5. ASSUME NEW c \in Clients PROVE Held(c) = 0 /\ sent[c] = 0
  <2>1. InFlight(c) = 0
    <3>1. \A v \in Workers : worker[v].delta[c] = 0  BY <1>2, IdleJob DEF Zero
    <3>2. {u \in Workers \X (1..MaxTraffic) : u[2] <= worker[u[1]].delta[c]} = {}  BY <3>1
    <3>3. QED  BY <3>2, FS_EmptySet DEF InFlight
  <2>2. QED  BY <2>1 DEF Init, Held, Zero
<1>6. Ledger  BY <1>1, <1>2, <1>5, Blanks DEF Ledger
<1>7. QED  BY <1>4, <1>6 DEF Books

LEMMA LedgerNext == Books /\ [Next]_vars => Books'
<1> SUFFICES ASSUME Books, [Next]_vars PROVE Books'
  OBVIOUS
<1>1. ASSUME NEW w \in Workers, Job(w) PROVE Books'
  BY <1>1, LedgerTakes, LedgerDepletes DEF Job
<1>2. ASSUME NEW w \in Workers, Administrator(w) PROVE Books'
  BY <1>2, LedgerSaved, LedgerIdled, LedgerOpened DEF Administrator
<1>3. ASSUME NEW w \in Workers, Continue(w) PROVE Books'
  BY <1>3, LedgerStores, LedgerRestarts, LedgerIdled, LedgerCommits DEF Continue
<1>4. ASSUME NEW w \in Workers, Failure(w) PROVE Books'
  BY <1>4, LedgerStores, LedgerIdled DEF Failure
<1>5. ASSUME NEW c \in Clients, Send(c) \/ Expire(c) \/ FallDue(c) PROVE Books'
  BY <1>5, LedgerSends, LedgerPasses DEF Expire, FallDue
<1>6. CASE CoreStops \/ CoreReads \/ CoreUp \/ UNCHANGED vars  BY <1>6, LedgerCore
<1>7. QED  BY <1>1, <1>2, <1>3, <1>4, <1>5, <1>6 DEF Next

LEMMA LedgerCharges == Books => NeverOvercharged
<1> SUFFICES ASSUME Books, NEW c \in Clients
             PROVE  Charged(c) + counter[c] + InFlight(c) <= sent[c]
  BY DEF NeverOvercharged
<1>1. /\ Charge(rows[c]) \in Nat /\ counter[c] \in Nat /\ InFlight(c) \in Nat
      /\ sent[c] \in Nat
  BY Amounts DEF Books
<1>2. Charge(rows[c]) + (counter[c] + InFlight(c)) <= sent[c]  BY DEF Books, Ledger, Held
<1>3. Charged(c) = Charge(rows[c])  BY DEF Charged, Charge
<1>4. QED  BY <1>1, <1>2, <1>3

\* What is charged was sent, and so much is within the bound of a row's counters.
LEMMA LedgerTypes == Books => TypeOK
<1> SUFFICES ASSUME Books PROVE TypeOK
  OBVIOUS
<1>1. MaxTraffic \in Nat /\ sent \in [Clients -> Traffic]  BY DEF Books, Types
<1>2. ASSUME NEW r \in Rows, NEW c \in Clients, Charge(r) + Held(c) <= sent[c]
      PROVE  r \in Row
  <2>1. r.used \in Nat /\ r.total \in Nat /\ Held(c) \in Nat /\ sent[c] \in Nat
    BY Amounts DEF Books, Rows
  <2>2. sent[c] <= MaxTraffic  BY <1>1 DEF Traffic
  <2>3. r.used \in Traffic /\ r.total \in Traffic
    BY <1>1, <1>2, <2>1, <2>2 DEF Traffic, Charge
  <2>4. QED  BY <2>3 DEF Rows, Row
<1>3. rows \in [Clients -> Row]  BY <1>2 DEF Books, Types, Shaped, Ledger
<1>4. counter \in [Clients -> Traffic]
  <2>1. ASSUME NEW c \in Clients PROVE counter[c] \in Traffic
    <3>1. /\ Charge(rows[c]) \in Nat /\ InFlight(c) \in Nat /\ counter[c] \in Nat
          /\ sent[c] \in Nat /\ sent[c] <= MaxTraffic
      BY <1>1, Amounts DEF Books, Traffic
    <3>2. Charge(rows[c]) + (counter[c] + InFlight(c)) <= sent[c]  BY DEF Books, Ledger, Held
    <3>3. QED  BY <1>1, <3>1, <3>2 DEF Traffic
  <2>2. QED  BY <2>1 DEF Books, Types, Shaped
<1>5. ASSUME NEW w \in Workers
      PROVE  worker[w] \in
           [pc : {"idle", "store", "page", "begin", "restart", "read", "add", "done"},
            kind : {"none", "stats", "deplete", "save"},
            delta : [Clients -> Traffic], who : SUBSET Clients, row : Row,
            todo : SUBSET Inbounds, at : SUBSET Inbounds, users : SUBSET Clients]
  <2>1. worker[w] \in States /\ worker[w] \in Jobs /\ worker[w].row \in Rows  BY Known
  <2>2. worker[w].row \in Row
    <3>1. CASE worker[w].who = {}
      <4>1. worker[w].row = NoRow  BY <2>1, <3>1 DEF Jobs
      <4>2. QED  BY <1>1, <4>1 DEF NoRow, Row, Traffic
    <3>2. CASE worker[w].who # {}
      <4>1. PICK c \in Clients : c \in worker[w].who  BY <2>1, <3>2 DEF States
      <4>2. QED  BY <1>2, <2>1, <4>1 DEF Books, Ledger
    <3>3. QED  BY <3>1, <3>2
  <2>3. worker[w].delta \in [Clients -> Traffic]  BY <2>1 DEF Jobs
  <2>4. QED  BY <2>1, <2>2, <2>3 DEF States
<1>6. QED  BY <1>3, <1>4, <1>5 DEF TypeOK, Books, Types, Shaped

\* Every row, counter, job and page holds traffic within what a client can send: the
\* sums of client.go and stats.go never leave it, whatever overlaps or fails.
THEOREM TypeCorrect == Spec => []TypeOK
<1>1. Init => Books  BY LedgerInit
<1>2. Books /\ [Next]_vars => Books'  BY LedgerNext
<1>3. Books => TypeOK  BY LedgerTypes
<1>4. QED  BY <1>1, <1>2, <1>3, PTL DEF Spec

\* For any number of jobs, requests and open pages that overlap, and any failures, no
\* client is charged for more than it sent (SaveStats of stats.go, ResetClients and
\* DepleteClients of client.go, and rows written back by ClientService.Save).
THEOREM NeverOverchargedHolds == Spec => []NeverOvercharged
<1>1. Init => Books  BY LedgerInit
<1>2. Books /\ [Next]_vars => Books'  BY LedgerNext
<1>3. Books => NeverOvercharged  BY LedgerCharges
<1>4. QED  BY <1>1, <1>2, <1>3, PTL DEF Spec

-----------------------------------------------------------------------------
(* Nothing is lost.                                                        *)

\* Until something fails or an administrator asks for something, the core is up, the
\* only requests are open pages, ...
Calm == edits = 0 /\ mishaps = 0
Waiting == core = "up" /\ \A w \in Workers : worker[w].kind = "save" => worker[w].pc = "page"

\* ... nobody who has no row is a user, or has sent anything, and accounts are exact.
Strangers ==
  \A c \in Clients : ~rows[c].present =>
     /\ ~rows[c].enable /\ sent[c] = 0
     /\ \A i \in Inbounds : c \notin inb[i].users
     /\ \A w \in Workers : c \notin worker[w].users
Balanced == \A c \in Clients : Charge(rows[c]) + Held(c) = sent[c]

Exact == Calm => Waiting /\ Strangers /\ Balanced

\* What a step must keep for the accounts to stay exact.
LEMMA Keeps ==
  ASSUME Books, Exact, Calm, core' = core,
         \A v \in Workers :
            /\ worker'[v].kind = "save" => worker'[v].pc = "page"
            /\ \A c \in worker'[v].users : c \in worker[v].users \/ rows[c].enable,
         \A i \in Inbounds : \A c \in inb'[i].users :
            c \in inb[i].users \/ \E v \in Workers : c \in worker[v].users,
         \A c \in Clients :
            /\ rows'[c].present = rows[c].present
            /\ (~rows[c].present /\ ~rows[c].enable) => ~rows'[c].enable
            /\ ~rows[c].present => sent'[c] = sent[c]
            /\ Charge(rows'[c]) + Held(c)' = sent'[c]
  PROVE  Exact'
<1>1. Waiting /\ Strangers /\ Balanced  BY DEF Exact
<1>2. Waiting'  BY <1>1 DEF Waiting
<1>3. Strangers'  BY <1>1 DEF Strangers
<1>4. Balanced'  BY DEF Balanced, Charge
<1>5. QED  BY <1>2, <1>3, <1>4 DEF Exact

\* Steps that take no traffic, count none and store none.
LEMMA KeepsHeld ==
  ASSUME Books, Exact, Calm, UNCHANGED <<core, counter, sent>>,
         \A v \in Workers :
            /\ worker'[v].delta = worker[v].delta
            /\ worker'[v].kind = "save" => worker'[v].pc = "page"
            /\ \A c \in worker'[v].users : c \in worker[v].users \/ rows[c].enable,
         \A i \in Inbounds : \A c \in inb'[i].users :
            c \in inb[i].users \/ \E v \in Workers : c \in worker[v].users,
         \A c \in Clients :
            /\ rows'[c].present = rows[c].present
            /\ (~rows[c].present /\ ~rows[c].enable) => ~rows'[c].enable
            /\ Charge(rows'[c]) = Charge(rows[c])
  PROVE  Exact'
<1>1. ASSUME NEW c \in Clients
      PROVE  Charge(rows'[c]) + Held(c)' = sent'[c] /\ sent'[c] = sent[c]
  <2>1. Deltas  BY Amounts DEF Books
  <2>2. InFlight(c)' = InFlight(c)  BY <2>1, InFlightStays
  <2>3. Held(c)' = Held(c)  BY <2>2 DEF Held
  <2>4. Charge(rows[c]) + Held(c) = sent[c]  BY DEF Exact, Balanced
  <2>5. QED  BY <2>3, <2>4
<1>2. QED  BY <1>1, Keeps

\* Steps of one worker that leave the table and the traffic alone.
LEMMA ExactTurns ==
  ASSUME Books, Exact, Calm, NEW w \in Workers,
         \/ ClosePage(w) \/ DepletionDone(w) \/ RestartRefused(w)
         \/ (\E c \in Clients : OpenPage(w, c))
         \/ BeginRestart(w) \/ RemoveInbound(w) \/ AddUsers(w) \/ AddInbound(w)
  PROVE  Exact'
<1>1. /\ UNCHANGED <<rows, core, counter, sent>> /\ worker[w].pc # "store"
  BY DEF ClosePage, DepletionDone, RestartRefused, OpenPage, BeginRestart, RemoveInbound,
         AddUsers, AddInbound, At
<1>2. /\ worker[w] \in States /\ worker[w].delta = Zero /\ worker \in [Workers -> States]
      /\ worker[w].kind = "save" => worker[w].pc = "page"
      /\ inb \in [Inbounds -> [up : BOOLEAN, users : SUBSET Clients]]
  BY <1>1, Known DEF Exact, Waiting, Books, Types, Shaped
<1>3. \A v \in Workers : v # w => worker'[v] = worker[v]
  BY <1>2 DEF ClosePage, DepletionDone, RestartRefused, OpenPage, BeginRestart, RemoveInbound,
         AddUsers, AddInbound, Idle, Goto
<1>4. /\ worker'[w].delta = Zero
      /\ worker'[w].kind = "save" => worker'[w].pc = "page"
      /\ \A c \in worker'[w].users : c \in worker[w].users \/ rows[c].enable
  <2>1. CASE Idle(w)
    <3>1. worker'[w] = IdleWorker  BY <1>2, <2>1 DEF Idle
    <3>2. IdleWorker.users = {}  BY DEF IdleWorker
    <3>3. QED  BY <3>1, <3>2, IdleJob, Blanks
  <2>2. ASSUME NEW c \in Clients, OpenPage(w, c)
        PROVE  /\ worker'[w].delta = Zero /\ worker'[w].pc = "page" /\ worker'[w].users = {}
    <3>1. worker'[w] = [IdleWorker EXCEPT
                    !.pc = "page", !.kind = "save", !.who = {c}, !.row = rows[c]]
      BY <1>2, <2>2 DEF OpenPage
    <3>2. IdleWorker \in States /\ IdleWorker.users = {} /\ IdleWorker.delta = Zero
      BY IdleJob, Blanks DEF IdleWorker
    <3>3. QED  BY <3>1, <3>2 DEF States
  <2>3. CASE BeginRestart(w) \/ RemoveInbound(w) \/ AddUsers(w) \/ AddInbound(w)
    <3>1. worker[w].kind # "save"
      BY <1>2, <2>3 DEF BeginRestart, RemoveInbound, AddUsers, AddInbound, At
    <3>2. View(w) = [c \in Clients |-> rows[c]]  BY <3>1 DEF View, Writing
    <3>3. \A i : \A c \in Users(View(w), i) : rows[c].enable  BY <3>2 DEF Users
    <3>4. /\ worker'[w].delta = worker[w].delta /\ worker'[w].kind = worker[w].kind
          /\ \/ worker'[w].users = worker[w].users \/ worker'[w].users = {}
             \/ \E i : worker'[w].users = Users(View(w), i)
      <4>1. CASE BeginRestart(w)
        <5>1. PICK p : worker' = [worker EXCEPT ![w].pc = p]  BY <4>1 DEF BeginRestart, Goto
        <5>2. QED  BY <1>2, <5>1 DEF States
      <4>2. CASE RemoveInbound(w)
        <5>1. PICK i, t : worker' = [worker EXCEPT ![w].pc = "read", ![w].at = {i}, ![w].todo = t]
          BY <4>2 DEF RemoveInbound
        <5>2. QED  BY <1>2, <5>1 DEF States
      <4>3. CASE AddUsers(w)
        <5>1. PICK i, u : /\ worker' = [worker EXCEPT ![w].pc = "add", ![w].users = u]
                          /\ u = Users(View(w), i)
          BY <4>3 DEF AddUsers
        <5>2. QED  BY <1>2, <5>1 DEF States
      <4>4. CASE AddInbound(w)
        <5>1. PICK p : worker' = [worker EXCEPT ![w].pc = p, ![w].at = {}, ![w].users = {}]
          BY <4>4 DEF AddInbound
        <5>2. QED  BY <1>2, <5>1 DEF States
      <4>5. QED  BY <2>3, <4>1, <4>2, <4>3, <4>4
    <3>5. QED  BY <1>2, <3>1, <3>3, <3>4
  <2>4. Idle(w) \/ (\E c \in Clients : OpenPage(w, c))
        \/ (BeginRestart(w) \/ RemoveInbound(w) \/ AddUsers(w) \/ AddInbound(w))
    BY DEF ClosePage, DepletionDone, RestartRefused
  <2>5. QED  BY <2>1, <2>2, <2>3, <2>4
<1>5. ASSUME NEW i \in Inbounds, NEW c \in inb'[i].users
      PROVE  c \in inb[i].users \/ \E v \in Workers : c \in worker[v].users
  <2>1. inb'[i] = inb[i] \/ inb'[i] = Out \/ inb'[i] = [up |-> TRUE, users |-> worker[w].users]
    BY <1>2 DEF ClosePage, DepletionDone, RestartRefused, OpenPage, BeginRestart, RemoveInbound,
         AddUsers, AddInbound
  <2>2. QED  BY <1>5, <2>1 DEF Out
<1>6. \A v \in Workers :
            /\ worker'[v].delta = worker[v].delta
            /\ worker'[v].kind = "save" => worker'[v].pc = "page"
            /\ \A c \in worker'[v].users : c \in worker[v].users \/ rows[c].enable
  BY <1>2, <1>3, <1>4 DEF Exact, Waiting
<1>7. QED  BY <1>1, <1>5, <1>6, KeepsHeld

\* A reset starts no client that is not there.
LEMMA ExactDepletes ==
  ASSUME Books, Exact, Calm, NEW w \in Workers, DepleteClients(w)
  PROVE  Exact'
<1>1. /\ UNCHANGED <<core, inb, counter, sent>> /\ worker[w].pc = "idle"
      /\ \A c \in Clients : rows[c] \in Rows /\ rows'[c] = Deplete(Reset(rows[c]))
  BY DEF DepleteClients, At, Books, Types, Shaped
<1>2. /\ worker'[w].delta = Zero /\ worker'[w].kind = "deplete" /\ worker'[w].users = {}
      /\ \A v \in Workers : v # w => worker'[v] = worker[v]
  <2>1. PICK t : worker' = [worker EXCEPT ![w] = [IdleWorker EXCEPT
                      !.pc = "begin", !.kind = "deplete", !.todo = t]]
    BY DEF DepleteClients
  <2>2. IdleWorker \in States /\ IdleWorker.users = {} /\ IdleWorker.delta = Zero
    BY IdleJob, Blanks DEF IdleWorker
  <2>3. QED  BY <2>1, <2>2 DEF States, Books, Types, Shaped
<1>3. worker[w].delta = Zero  BY <1>1, Known
<1>4. \A c \in Clients :
            /\ rows'[c].present = rows[c].present
            /\ (~rows[c].present /\ ~rows[c].enable) => ~rows'[c].enable
            /\ Charge(rows'[c]) = Charge(rows[c])
  BY <1>1, ResetCharge
<1>5. \A v \in Workers :
            /\ worker'[v].delta = worker[v].delta
            /\ worker'[v].kind = "save" => worker'[v].pc = "page"
            /\ \A c \in worker'[v].users : c \in worker[v].users \/ rows[c].enable
  BY <1>2, <1>3 DEF Exact, Waiting
<1>6. QED  BY <1>1, <1>4, <1>5, KeepsHeld

LEMMA ExactPasses ==
  ASSUME Books, Exact, Calm, NEW c \in Clients, NEW time \in {"expired", "due"},
         Passes(c, time)
  PROVE  Exact'
<1>1. UNCHANGED <<core, inb, counter, sent>>  BY DEF Passes
<1>2. ASSUME NEW d \in Clients
      PROVE  /\ rows'[d].present = rows[d].present /\ rows'[d].enable = rows[d].enable
             /\ Charge(rows'[d]) = Charge(rows[d])
  <2>1. rows[d] \in Rows /\ rows \in [Clients -> Rows]  BY DEF Books, Types, Shaped
  <2>2. PICK s : s = [rows[d] EXCEPT ![time] = TRUE]  OBVIOUS
  <2>3. Charge(s) = Charge(rows[d]) /\ s.present = rows[d].present /\ s.enable = rows[d].enable
    BY <2>1, <2>2, PassedRow
  <2>4. rows'[d] = rows[d] \/ rows'[d] = s  BY <2>1, <2>2 DEF Passes
  <2>5. QED  BY <2>3, <2>4
<1>3. ASSUME NEW v \in Workers
      PROVE  /\ worker'[v].delta = worker[v].delta /\ worker'[v].kind = worker[v].kind
             /\ worker'[v].pc = worker[v].pc /\ worker'[v].users = worker[v].users
  <2>1. worker[v] \in States /\ worker[v].row \in Rows  BY Known
  <2>2. PICK t : t = [worker[v].row EXCEPT ![time] = TRUE]  OBVIOUS
  <2>3. worker'[v] = worker[v] \/ worker'[v] = [worker[v] EXCEPT !.row = t]
    BY <2>2 DEF Passes
  <2>4. QED  BY <2>1, <2>3 DEF States
<1>4. \A v \in Workers :
            /\ worker'[v].delta = worker[v].delta
            /\ worker'[v].kind = "save" => worker'[v].pc = "page"
            /\ \A d \in worker'[v].users : d \in worker[v].users \/ rows[d].enable
  BY <1>3 DEF Exact, Waiting
<1>5. QED  BY <1>1, <1>2, <1>4, KeepsHeld

\* Only a user of an inbound sends, and has a row.
LEMMA ExactSends ==
  ASSUME Books, Exact, Calm, NEW c \in Clients, Send(c)
  PROVE  Exact'
<1>1. /\ UNCHANGED <<rows, core, inb, worker>>
      /\ sent' = [sent EXCEPT ![c] = sent[c] + 1]
      /\ counter' = [counter EXCEPT ![c] = counter[c] + 1]
      /\ \E i \in Inbounds : c \in inb[i].users
  BY DEF Send
<1>2. Waiting /\ Strangers /\ Balanced  BY DEF Exact
<1>3. rows[c].present
  <2>1. rows[c].present \in BOOLEAN  BY DEF Books, Types, Shaped, Rows
  <2>2. QED  BY <1>1, <1>2, <2>1 DEF Strangers
<1>4. ASSUME NEW d \in Clients
      PROVE  /\ Charge(rows'[d]) + Held(d)' = sent'[d]
             /\ ~rows[d].present => sent'[d] = sent[d]
  <2>1. /\ counter[d] \in Nat /\ sent[d] \in Nat /\ InFlight(d) \in Nat /\ Deltas
        /\ Charge(rows[d]) \in Nat
    BY Amounts DEF Books
  <2>2. sent \in [Clients -> Traffic] /\ counter \in [Clients -> Nat]
    BY DEF Books, Types, Shaped
  <2>3. InFlight(d)' = InFlight(d)  BY <1>1, <2>1, InFlightStays
  <2>4. \/ d # c /\ counter'[d] = counter[d] /\ sent'[d] = sent[d]
        \/ d = c /\ counter'[d] = counter[d] + 1 /\ sent'[d] = sent[d] + 1
    BY <1>1, <2>2
  <2>5. Charge(rows[d]) + (counter[d] + InFlight(d)) = sent[d]  BY <1>2 DEF Balanced, Held
  <2>6. Held(d)' = counter'[d] + InFlight(d)  BY <2>3 DEF Held
  <2>7. QED  BY <1>1, <1>3, <2>1, <2>4, <2>5, <2>6
<1>5. \A v \in Workers : worker'[v].kind = "save" => worker'[v].pc = "page"
  BY <1>1, <1>2 DEF Waiting
<1>6. QED  BY <1>1, <1>4, <1>5, Keeps

\* What a job takes from the counters it adds to the rows, for it holds nothing of a
\* client that has none.
LEMMA ExactStats ==
  ASSUME Books, Exact, Calm, NEW w \in Workers, TakeCounters(w) \/ Store(w)
  PROVE  Exact'
<1>1. UNCHANGED <<core, inb, sent>> /\ worker \in [Workers -> States]
  BY DEF TakeCounters, Store, Books, Types, Shaped
<1>2. Waiting /\ Strangers /\ Balanced  BY DEF Exact
<1>3. /\ \A v \in Workers : v # w => worker'[v] = worker[v]
      /\ worker'[w].kind # "save" /\ worker'[w].users = {}
  <2>1. IdleWorker \in States /\ IdleWorker.users = {} /\ IdleWorker.kind = "none"
    BY Blanks DEF IdleWorker
  <2>2. CASE Store(w)  BY <1>1, <2>1, <2>2 DEF Store, Idle
  <2>3. CASE TakeCounters(w)
    <3>1. worker' = [worker EXCEPT ![w] = [IdleWorker EXCEPT
                      !.pc = "store", !.kind = "stats", !.delta = counter]]
      BY <2>3 DEF TakeCounters
    <3>2. QED  BY <1>1, <2>1, <3>1 DEF States
  <2>4. QED  BY <2>2, <2>3
<1>4. ASSUME NEW c \in Clients
      PROVE  /\ rows'[c].present = rows[c].present /\ rows'[c].enable = rows[c].enable
             /\ Charge(rows'[c]) + Held(c)' = sent'[c]
  <2>1. /\ rows[c] \in Rows /\ Charge(rows[c]) \in Nat /\ Held(c) \in Nat
        /\ Charge(rows[c]) + Held(c) = sent[c]
    BY <1>2, Amounts DEF Balanced, Books, Types, Shaped
  <2>2. CASE TakeCounters(w)
    <3>1. rows' = rows /\ Held(c)' = Held(c)  BY <2>2, LedgerTakes DEF TakeCounters
    <3>2. QED  BY <1>1, <2>1, <3>1
  <2>3. CASE Store(w)
    <3>1. /\ Held(c)' + worker[w].delta[c] = Held(c) /\ worker[w].delta[c] \in Nat
      BY <2>3, LedgerStores, Known DEF States
    <3>2. Held(c)' \in Nat
      <4>1. Deltas /\ Deltas'
        <5>1. Books'  BY <2>3, LedgerStores
        <5>2. QED  BY <5>1 DEF Books, Types, Deltas, Jobs
      <4>2. InFlight(c)' \in Nat  BY <1>3, <4>1, InFlightMoves
      <4>3. counter'[c] \in Nat  BY <2>3 DEF Store, Books, Types, Shaped
      <4>4. QED  BY <4>2, <4>3 DEF Held
    <3>3. CASE rows[c].present
      <4>1. PICK n : n = rows[c].used + worker[w].delta[c]  OBVIOUS
      <4>2. rows'[c] = [rows[c] EXCEPT !.used = n]  BY <2>3, <3>3, <4>1 DEF Store
      <4>3. n \in Nat /\ rows[c].used \in Nat /\ rows[c].total \in Nat
        BY <2>1, <3>1, <4>1 DEF Rows
      <4>4. /\ rows'[c].used = n /\ rows'[c].total = rows[c].total
            /\ rows'[c].present = rows[c].present /\ rows'[c].enable = rows[c].enable
        BY <2>1, <4>2 DEF Rows
      <4>5. Charge(rows'[c]) = Charge(rows[c]) + worker[w].delta[c]
        BY <3>1, <4>1, <4>3, <4>4 DEF Charge
      <4>6. QED  BY <1>1, <2>1, <3>1, <3>2, <4>4, <4>5
    <3>4. CASE ~rows[c].present
      <4>1. rows'[c] = rows[c]  BY <2>3, <3>4 DEF Store
      <4>2. sent[c] = 0  BY <1>2, <3>4 DEF Strangers
      <4>3. Held(c)' = Held(c)  BY <2>1, <3>1, <3>2, <4>2
      <4>4. QED  BY <1>1, <2>1, <4>1, <4>3
    <3>5. QED  BY <3>3, <3>4
  <2>4. QED  BY <2>2, <2>3
<1>5. \A v \in Workers :
         /\ worker'[v].kind = "save" => worker'[v].pc = "page"
         /\ \A c \in worker'[v].users : c \in worker[v].users \/ rows[c].enable
  BY <1>2, <1>3 DEF Waiting
<1>6. QED  BY <1>1, <1>4, <1>5, Keeps

-----------------------------------------------------------------------------

LEMMA ExactInit == Init => Exact
<1> SUFFICES ASSUME Init PROVE Exact
  OBVIOUS
<1>1. ASSUME NEW c \in Clients
      PROVE  /\ Charge(rows[c]) + Held(c) = sent[c] /\ sent[c] = 0
             /\ ~rows[c].present => ~rows[c].enable
  <2>1. /\ Charge(rows[c]) = 0 /\ (~rows[c].present => ~rows[c].enable)
    <3>1. rows[c] \in {NoRow} \cup {NewRow(plan) : plan \in Plans}  BY DEF Init
    <3>2. \A plan \in Plans : NewRow(plan).present  BY DEF NewRow, NoRow
    <3>3. QED  BY <3>1, <3>2, IdleJob, Blanks
  <2>2. sent[c] = 0  BY DEF Init, Zero
  <2>3. /\ Books /\ Charge(rows[c]) + Held(c) <= sent[c]  BY LedgerInit DEF Books, Ledger
  <2>4. Held(c) \in Nat  BY <2>3, Amounts DEF Books
  <2>5. QED  BY <2>1, <2>2, <2>3, <2>4
<1>2. Balanced  BY <1>1 DEF Balanced
<1>3. Waiting  BY Blanks DEF Init, Waiting
<1>4. Strangers
  <2>1. IdleWorker.users = {}  BY DEF IdleWorker
  <2>2. QED  BY <1>1, <2>1 DEF Init, Strangers, Users
<1>5. QED  BY <1>2, <1>3, <1>4 DEF Exact

LEMMA ExactNext == Books /\ Exact /\ [Next]_vars => Exact'
<1> SUFFICES ASSUME Books, Exact, [Next]_vars, Calm' PROVE Exact'
  BY DEF Exact
<1>1. edits \in Nat /\ mishaps \in Nat /\ edits' = 0 /\ mishaps' = 0  BY DEF Books, Types, Calm
<1>2. ~Edit /\ ~Mishap  BY <1>1 DEF Edit, Mishap
<1>3. ASSUME NEW w \in Workers, Job(w) PROVE Exact'
  <2>1. Calm  BY <1>1, <1>3 DEF Job, TakeCounters, DepleteClients, Calm
  <2>2. QED  BY <1>3, <2>1, ExactStats, ExactDepletes DEF Job
<1>4. ASSUME NEW w \in Workers, Administrator(w) PROVE Exact'
  <2>1. ClosePage(w) \/ \E c \in Clients : OpenPage(w, c)
    BY <1>2, <1>4 DEF Administrator, SaveClient, NewClient, DeleteClient
  <2>2. Calm  BY <1>1, <2>1 DEF ClosePage, OpenPage, Calm
  <2>3. QED  BY <2>1, <2>2, ExactTurns
<1>5. ASSUME NEW w \in Workers, Continue(w) PROVE Exact'
  <2>1. Calm
    BY <1>1, <1>5 DEF Continue, Store, BeginRestart, RemoveInbound, AddUsers, AddInbound,
                      RestartRefused, DepletionDone, Commit, Calm
  <2>2. ~Commit(w)  BY <2>1 DEF Commit, At, Exact, Waiting
  <2>3. QED  BY <1>5, <2>1, <2>2, ExactStats, ExactTurns DEF Continue
<1>6. ASSUME NEW w \in Workers, Failure(w) PROVE Exact'
  BY <1>2, <1>6 DEF Failure, StoreFailed, RestartFailed, CommitFailed
<1>7. ASSUME NEW c \in Clients, Send(c) \/ Expire(c) \/ FallDue(c) PROVE Exact'
  <2>1. Calm  BY <1>1, <1>7 DEF Send, Expire, FallDue, Passes, Calm
  <2>2. QED  BY <1>7, <2>1, ExactSends, ExactPasses DEF Expire, FallDue
<1>8. CASE CoreStops \/ CoreReads \/ CoreUp
  <2>1. ~CoreStops  BY <1>2 DEF CoreStops
  <2>2. core # "up"  BY <1>8, <2>1 DEF CoreReads, CoreUp
  <2>3. Calm  BY <1>1, <1>8, <2>1 DEF CoreReads, CoreUp, Calm
  <2>4. QED  BY <2>2, <2>3 DEF Exact, Waiting
<1>9. CASE UNCHANGED vars
  <2>1. Calm /\ UNCHANGED <<core, counter, sent, rows, inb, worker>>
    BY <1>1, <1>9 DEF vars, Calm
  <2>2. QED  BY <2>1, KeepsHeld DEF Exact, Waiting
<1>10. QED  BY <1>3, <1>4, <1>5, <1>6, <1>7, <1>8, <1>9 DEF Next

LEMMA ExactCharges == Books /\ Exact => NothingLost
<1> SUFFICES ASSUME Books, Exact, Calm, NEW c \in Clients
             PROVE  Charged(c) + counter[c] + InFlight(c) = sent[c]
  BY DEF NothingLost, Calm
<1>1. /\ Charge(rows[c]) \in Nat /\ counter[c] \in Nat /\ InFlight(c) \in Nat
      /\ sent[c] \in Nat
  BY Amounts DEF Books
<1>2. Charge(rows[c]) + (counter[c] + InFlight(c)) = sent[c]  BY DEF Exact, Balanced, Held
<1>3. Charged(c) = Charge(rows[c])  BY DEF Charged, Charge
<1>4. QED  BY <1>1, <1>2, <1>3

\* As long as nothing fails, the core stays up and nobody writes a row back, every unit
\* sent is in a counter, in a job or in a row, for any overlap of jobs and through every
\* reset (GetStats and SaveStats of stats.go, ResetClients of client.go).
THEOREM NothingLostHolds == Spec => []NothingLost
<1>1. Init => Books /\ Exact  BY LedgerInit, ExactInit
<1>2. (Books /\ Exact) /\ [Next]_vars => (Books /\ Exact)'  BY LedgerNext, ExactNext
<1>3. Books /\ Exact => NothingLost  BY ExactCharges
<1>4. QED  BY <1>1, <1>2, <1>3, PTL DEF Spec

=============================================================================
