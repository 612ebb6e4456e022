-------------------------- MODULE ConfigSaveProofs --------------------------
(***************************************************************************)
(* For any number of objects, requests, failures and restarts: ConfigSave  *)
(* is type correct, and a running core has what is saved, but for the      *)
(* causes that the model names.                                            *)
(***************************************************************************)
EXTENDS ConfigSave, TLAPS

USE ObjectsAssumption, RequestsAssumption, BoundsAssumption

Handlers == [pc : {"idle", "write", "remove", "disconnect", "add", "record"},
             obj : Objects, act : {"new", "edit", "del", "job"}, new : Versions,
             todo : SUBSET Items, cur : SUBSET Items,
             read : BOOLEAN, stale : BOOLEAN, touched : BOOLEAN]

\* What a request remembers, by what it does.
Shape(q) ==
    /\ q.cur \subseteq q.todo /\ q.todo \subseteq Concerns(q.obj)
    /\ q.pc # "idle" => (q.new = 0 <=> q.act = "del")
    /\ q.act \in {"new", "del"} => q.obj \in Items
    /\ q.act = "job" => q.obj = Clients /\ (q.touched => Rebuilds(q) \/ q.pc = "idle")
    /\ q.obj = Base => ~q.touched /\ q.pc \in {"idle", "write", "record"}
    /\ q.pc = "disconnect" => q.obj \in Shared
    /\ q.pc \in {"write", "record"} => q.cur = {}
    /\ q.pc = "write" /\ q.touched => CoreFirst(q.obj, q.act)
    /\ q.obj \in Items /\ q.pc \in {"remove", "add"} => q.todo = {q.obj}
    /\ q.act = "del" => q.pc \in {"remove", "write", "record"}

\* Saves are numbered, and only a written base is to be reloaded.
Numbered ==
    /\ \A r \in Requests : Open(r) => req[r].new <= saves
    /\ \A r, s \in Requests : Open(r) /\ Open(s) /\ r # s => req[r].new = 0 \/ req[r].new # req[s].new
    /\ \A v \in reloads : 0 < v /\ v <= saves
    /\ \A r \in Requests : Open(r) /\ req[r].new \in reloads => req[r].obj = Base /\ req[r].pc = "record"

\* Two saves of the same thing are suspect.
Lone == \A r, s \in Requests :
            Open(r) /\ Open(s) /\ r # s => Concerns(req[r].obj) \cap Concerns(req[s].obj) \subseteq suspect

\* A start has met every save that is open, but for the one whose base it was given.
Meets ==
    boot.on => \A r \in Requests : Open(r) =>
        \/ Concerns(req[r].obj) \subseteq boot.met
        \/ req[r].obj = Base /\ req[r].pc = "record" /\ req[r].new = boot.base

\* What it has read is still so, but for what it has met.
Reads ==
    boot.on =>
        /\ ~up /\ ~dead
        /\ \A i \in Items \ (boot.unread \cup boot.met) : boot.items[i] = Built(rows, i)
        /\ Base \notin boot.met => boot.base = cache

\* Nothing is claimed of a core without an instance.
Wrecked == dead => Everything \subseteq suspect

\* What is done in the core for a request is what its transaction has, and the rest
\* is still what is committed.
Fits(i) ==
    /\ (\A r \in Requests : Open(r) => i \notin Concerns(req[r].obj)) => core.items[i] = Built(rows, i)
    /\ \A r \in Requests : Open(r) /\ i \in Concerns(req[r].obj) =>
          /\ ~req[r].touched /\ ~Rebuilds(req[r]) => core.items[i] = Built(rows, i)
          /\ \/ req[r].pc = "record" /\ req[r].act # "job"
             \/ req[r].pc = "write" /\ CoreFirst(req[r].obj, req[r].act)
             \/ req[r].pc \in {"remove", "disconnect", "add"} /\ i \notin req[r].todo
             => core.items[i] = Built(View(r), i)

ItemsFit == up /\ resyncs = 0 => \A i \in Items \ suspect : Fits(i)

BaseFits == up /\ Base \notin suspect /\ reloads = {} => core.base = cache

Shaped == \A r \in Requests : Shape(req[r])

IInv == Shaped /\ Numbered /\ Lone /\ Meets /\ Reads /\ Wrecked /\ ItemsFit /\ BaseFits

\* Two records that differ at most in what SQLite remembers of the transaction.
Alike(t, s) ==
    /\ t.pc = s.pc /\ t.obj = s.obj /\ t.act = s.act /\ t.new = s.new
    /\ t.todo = s.todo /\ t.cur = s.cur /\ t.touched = s.touched

-----------------------------------------------------------------------------
(* Types.                                                                  *)

Starts == [on : BOOLEAN, base : Versions, items : [Items -> Content],
           unread : SUBSET Items, met : SUBSET (Items \cup {Base})]

LEMMA Blanks ==
  /\ 0 \in Versions /\ Out \in Content /\ Idle \in Handlers /\ NoBoot \in Starts
  /\ Off \in [base : Versions, items : [Items -> Content]]
<1>1. 0 \in Versions  BY DEF Versions
<1>2. Out \in Content  BY <1>1 DEF Out, Content
<1>3. Base \in Objects  BY DEF Objects
<1>4. Idle \in Handlers  BY <1>1, <1>3 DEF Idle, Handlers
<1>5. [i \in Items |-> Out] \in [Items -> Content]  BY <1>2
<1>6. NoBoot \in Starts  BY <1>1, <1>5 DEF NoBoot, Starts
<1>7. Off \in [base : Versions, items : [Items -> Content]]  BY <1>1, <1>5 DEF Off
<1>8. QED  BY <1>1, <1>2, <1>4, <1>6, <1>7

LEMMA Things ==
  /\ Tls \in Objects /\ Clients \in Objects /\ Base \in Objects /\ Items \subseteq Objects /\ Saved \subseteq Objects
  /\ TlsUsers \subseteq Items /\ ClientInbounds \subseteq Items
  /\ Inbounds \subseteq Items /\ Plain \subseteq Items
  /\ Tls \notin Items /\ Clients \notin Items /\ Base \notin Items
  /\ Tls # Base /\ Tls # Clients /\ Clients # Base
  /\ Concerns(Tls) = TlsUsers /\ Concerns(Clients) = ClientInbounds /\ Concerns(Base) = {Base}
  /\ Everything = Items \cup {Base} /\ Shared = {Tls, Clients}
  /\ \A o \in Items : Concerns(o) = {o}
  /\ \A o \in Objects : Concerns(o) \subseteq Items \cup {Base}
  /\ \A o \in Objects \ {Base} : Concerns(o) \subseteq Items
<1>1. Tls # Base /\ Tls # Clients /\ Clients # Base /\ Items \cap {Tls, Clients, Base} = {}
  OBVIOUS
<1>2. /\ Concerns(Tls) = TlsUsers /\ Concerns(Clients) = ClientInbounds
      /\ \A o : o # Tls /\ o # Clients => Concerns(o) = {o}
  BY <1>1 DEF Concerns
<1>3. TlsUsers \subseteq Items /\ ClientInbounds \subseteq Items /\ Inbounds \subseteq Items
  BY DEF Items
<1>4. \A o \in Objects : o \in Items \/ o \in {Tls, Clients, Base}  BY DEF Objects, Shared
<1>5. \A o \in Objects : Concerns(o) \subseteq Items \cup {Base}
  BY <1>1, <1>2, <1>3, <1>4
<1>6. \A o \in Objects \ {Base} : Concerns(o) \subseteq Items
  BY <1>1, <1>2, <1>3, <1>4
<1>7. QED  BY <1>1, <1>2, <1>3, <1>5, <1>6 DEF Objects, Items, Shared, Everything

LEMMA BuiltType ==
  ASSUME NEW f \in [Objects -> Versions], NEW i \in Items
  PROVE  Built(f, i) \in Content
<1>1. f[i] \in Versions /\ f[Tls] \in Versions /\ f[Clients] \in Versions  BY Things
<1>2. [own |-> f[i], tls |-> IF i \in TlsUsers THEN f[Tls] ELSE 0,
       users |-> IF i \in ClientInbounds THEN f[Clients] ELSE 0] \in Content
  BY <1>1, Blanks DEF Content
<1>3. QED  BY <1>2, Blanks DEF Built

LEMMA TypeInit == Init => TypeOK
<1> SUFFICES ASSUME Init PROVE TypeOK
  OBVIOUS
<1>1. 0 \in Versions /\ 1 \in Versions  BY DEF Versions
<1>2. rows \in [Objects -> Versions]  BY <1>1 DEF Init
<1>3. cache \in Versions  BY <1>2, Things DEF Init
<1>4. req \in [Requests -> Handlers]  BY Blanks DEF Init
<1>5. saves \in 0..MaxSaves /\ mishaps \in 0..MaxMishaps /\ restarts \in 0..MaxRestarts
  <2>1. saves = 1 /\ mishaps = 0 /\ restarts = 0  BY DEF Init
  <2>2. QED  BY <2>1
<1>6. boot \in Starts /\ core \in [base : Versions, items : [Items -> Content]]
  BY Blanks DEF Init
<1>7. QED  BY <1>2, <1>3, <1>4, <1>5, <1>6 DEF Init, TypeOK, Handlers, Starts

LEMMA SetType ==
  ASSUME TypeOK, NEW r \in Requests, NEW q \in Handlers, Set(r, q)
  PROVE  /\ req' \in [Requests -> Handlers]
         /\ \A s \in Requests : req'[s] = IF s = r THEN q ELSE req[s]
  BY DEF TypeOK, Set, Handlers

LEMMA MishapType ==
  ASSUME TypeOK, Mishap
  PROVE  saves' \in 0..MaxSaves /\ mishaps' \in 0..MaxMishaps /\ restarts' \in 0..MaxRestarts
  BY DEF TypeOK, Mishap

LEMMA AfterCoreType ==
  ASSUME NEW q \in Handlers
  PROVE  /\ AfterCore(q) \in Handlers
         /\ q.act = "job" => AfterCore(q) = Idle
         /\ q.act # "job" =>
              /\ AfterCore(q).todo = {} /\ AfterCore(q).cur = {}
              /\ AfterCore(q).pc = IF CoreFirst(q.obj, q.act) THEN "write" ELSE "record"
              /\ AfterCore(q).obj = q.obj /\ AfterCore(q).act = q.act /\ AfterCore(q).new = q.new
              /\ AfterCore(q).touched = q.touched
<1>1. CASE q.act = "job"  BY <1>1, Blanks DEF AfterCore
<1>2. CASE q.act # "job"  BY <1>2 DEF AfterCore, Handlers
<1>3. QED  BY <1>1, <1>2

LEMMA ViewType ==
  ASSUME TypeOK, NEW r \in Requests
  PROVE  /\ View(r) \in [Objects -> Versions] /\ req[r].obj \in Objects
         /\ Rebuilds(req[r]) => View(r) = rows
         /\ ~Rebuilds(req[r]) =>
              \A o \in Objects : View(r)[o] = IF o = req[r].obj THEN req[r].new ELSE rows[o]
<1>1. CASE Rebuilds(req[r])  BY <1>1 DEF View, TypeOK
<1>2. CASE ~Rebuilds(req[r])  BY <1>2 DEF View, TypeOK
<1>3. QED  BY <1>1, <1>2

LEMMA RolledBackType ==
  ASSUME TypeOK, NEW r \in Requests, NEW touched, RolledBack(r, touched)
  PROVE  /\ req' \in [Requests -> Handlers] /\ writer' \in Requests \cup {NoRequest}
         /\ suspect' \in SUBSET (Items \cup {Base}) /\ rows' = rows
<1>1. req' \in [Requests -> Handlers]  BY SetType, Blanks DEF RolledBack
<1>2. Concerns(req[r].obj) \subseteq Items \cup {Base}  BY Things, ViewType
<1>3. QED  BY <1>1, <1>2 DEF RolledBack, TypeOK

LEMMA CoreFailedType ==
  ASSUME TypeOK, NEW r \in Requests, NEW touched, CoreFailed(r, touched)
  PROVE  /\ req' \in [Requests -> Handlers] /\ writer' \in Requests \cup {NoRequest}
         /\ suspect' \in SUBSET (Items \cup {Base}) /\ rows' = rows /\ cache' = cache
         /\ resyncs' \in Nat
<1>1. CASE req[r].obj \in Inbounds /\ req[r].act # "del"
  <2>1. req[r] \in Handlers  BY DEF TypeOK, Handlers
  <2>2. req' \in [Requests -> Handlers]
    BY <1>1, <2>1, SetType, AfterCoreType DEF CoreFailed
  <2>3. QED  BY <1>1, <2>2 DEF CoreFailed, TypeOK, dbVars
<1>2. CASE ~(req[r].obj \in Inbounds /\ req[r].act # "del")
  BY <1>2, RolledBackType DEF CoreFailed, TypeOK
<1>3. QED  BY <1>1, <1>2

LEMMA OvertakenType ==
  ASSUME TypeOK, NEW s \in Requests
  PROVE  Overtaken(req[s]) \in Handlers /\ Alike(Overtaken(req[s]), req[s])
<1>1. req[s] \in Handlers  BY DEF TypeOK, Handlers
<1>2. QED  BY <1>1 DEF Overtaken, Handlers, Alike

LEMMA CommittedType ==
  ASSUME TypeOK, NEW r \in Requests, NEW q \in Handlers, Committed(r, q)
  PROVE  /\ req' \in [Requests -> Handlers] /\ writer' \in Requests \cup {NoRequest}
         /\ rows' \in [Objects -> Versions]
<1>1. \A s \in Requests : Overtaken(req[s]) \in Handlers  BY OvertakenType
<1>2. req' \in [Requests -> Handlers]  BY <1>1 DEF Committed
<1>3. QED  BY <1>2, ViewType DEF Committed

\* DepleteJob after its commit.
Rebuilder(r) == [req[r] EXCEPT !.pc = "remove", !.todo = CoreWork(Clients), !.read = FALSE]

LEMMA RebuilderType ==
  ASSUME TypeOK, NEW r \in Requests
  PROVE  /\ Rebuilder(r) \in Handlers /\ Rebuilder(r).pc = "remove" /\ Rebuilder(r).todo = CoreWork(Clients)
         /\ Rebuilder(r).obj = req[r].obj /\ Rebuilder(r).act = req[r].act /\ Rebuilder(r).new = req[r].new
         /\ Rebuilder(r).cur = req[r].cur /\ Rebuilder(r).touched = req[r].touched
         /\ CoreWork(Clients) = {i \in ClientInbounds : rows[i] # 0}
<1>1. req[r] \in Handlers  BY DEF TypeOK, Handlers
<1>2. CoreWork(Clients) = {i \in ClientInbounds : rows[i] # 0}  BY Things DEF CoreWork
<1>3. CoreWork(Clients) \in SUBSET Items  BY <1>2, Things
<1>4. QED  BY <1>1, <1>2, <1>3 DEF Rebuilder, Handlers

LEMMA RestartedType ==
  ASSUME TypeOK, Restarted, saves' \in 0..MaxSaves, mishaps' \in 0..MaxMishaps, restarts' \in 0..MaxRestarts
  PROVE  TypeOK'
<1>1. cache' \in Versions /\ rows' = rows  BY Things DEF Restarted, TypeOK
<1>2. req' \in [Requests -> Handlers]  BY Blanks DEF Restarted
<1>3. /\ up' \in BOOLEAN /\ dead' \in BOOLEAN /\ boot' \in Starts
      /\ core' \in [base : Versions, items : [Items -> Content]]
  BY Blanks DEF Restarted
<1>4. writer' = NoRequest /\ resyncs' = 0 /\ reloads' = {} /\ suspect' = {}  BY DEF Restarted
<1>5. QED  BY <1>1, <1>2, <1>3, <1>4 DEF TypeOK, Handlers, Starts

LEMMA TypeContinue == ASSUME TypeOK, Shaped, NEW r \in Requests, Continue(r) PROVE TypeOK'
<1> USE DEF dbVars, coreVars, spawned, counts
<1>1. req[r] \in Handlers /\ Shape(req[r])  BY DEF TypeOK, Shaped, Handlers
<1>2. CASE CoreSkipped(r)
  <2> DEFINE left == req[r].todo \ Turn(req[r].todo)
  <2>1. left \in SUBSET Items  BY <1>1 DEF Handlers
  <2>2. [req[r] EXCEPT !.todo = left] \in Handlers  BY <1>1, <2>1 DEF Handlers
  <2>3. Set(r, IF left = {} THEN AfterCore(req[r]) ELSE [req[r] EXCEPT !.todo = left])
    BY <1>2 DEF CoreSkipped
  <2> HIDE DEF left
  <2>4. req' \in [Requests -> Handlers]  BY <1>1, <2>2, <2>3, SetType, AfterCoreType
  <2>5. QED  BY <1>2, <2>4 DEF CoreSkipped, TypeOK, Handlers
<1>3. ASSUME NEW i \in Items, NEW c \in Content, core' = [core EXCEPT !.items[i] = c]
      PROVE  core' \in [base : Versions, items : [Items -> Content]]
  BY <1>3 DEF TypeOK
<1>4. CASE Remove(r)
  <2>1. PICK i \in Turn(req[r].todo) :
          /\ core' = [core EXCEPT !.items[i] = Out]
          /\ LET q == [req[r] EXCEPT !.touched = TRUE, !.cur = {i},
                          !.read = @ \/ req[r].act = "edit",
                          !.pc = IF req[r].obj \in Shared /\ i \in Inbounds
                                  THEN "disconnect" ELSE "add"]
             IN  Set(r, IF req[r].act = "del" THEN AfterCore(q) ELSE q)
    BY <1>4 DEF Remove
  <2>2. i \in Items /\ i \in req[r].todo  BY <1>1 DEF Handlers, Turn
  <2> DEFINE q == [req[r] EXCEPT !.touched = TRUE, !.cur = {i},
                          !.read = @ \/ req[r].act = "edit",
                          !.pc = IF req[r].obj \in Shared /\ i \in Inbounds
                                  THEN "disconnect" ELSE "add"]
  <2>3. q \in Handlers  BY <1>1, <2>2 DEF Handlers
  <2>4. Set(r, IF req[r].act = "del" THEN AfterCore(q) ELSE q)  BY <2>1
  <2> HIDE DEF q
  <2>5. req' \in [Requests -> Handlers]  BY <2>3, <2>4, SetType, AfterCoreType
  <2>6. core' \in [base : Versions, items : [Items -> Content]]  BY <1>3, <2>1, <2>2, Blanks
  <2>7. QED  BY <1>4, <2>5, <2>6 DEF Remove, TypeOK, Handlers
<1>5. CASE RemoveFailed(r)
  <2>1. PICK i \in Turn(req[r].todo) : core' = [core EXCEPT !.items[i] = Out]
    BY <1>5 DEF RemoveFailed
  <2>2. i \in Items  BY <1>1 DEF Handlers, Turn
  <2>3. core' \in [base : Versions, items : [Items -> Content]]  BY <1>3, <2>1, <2>2, Blanks
  <2>4. CoreFailed(r, TRUE) /\ Mishap  BY <1>5 DEF RemoveFailed
  <2>5. QED
    BY <1>5, <2>3, <2>4, CoreFailedType, MishapType DEF RemoveFailed, TypeOK, Handlers
<1>6. CASE CallFailed(r)
  <2>1. saves' \in 0..MaxSaves /\ mishaps' \in 0..MaxMishaps /\ restarts' \in 0..MaxRestarts
    BY <1>6, MishapType DEF CallFailed, TypeOK
  <2>2. CoreFailed(r, req[r].touched \/ Rebuilds(req[r]))  BY <1>6 DEF CallFailed
  <2>3. QED  BY <1>6, <2>1, <2>2, CoreFailedType DEF CallFailed, TypeOK, Handlers
<1>7. CASE Disconnect(r)
  <2>1. [req[r] EXCEPT !.pc = "add"] \in Handlers  BY <1>1 DEF Handlers
  <2>2. req' \in [Requests -> Handlers]  BY <1>7, <2>1, SetType DEF Disconnect
  <2>3. QED  BY <1>7, <2>2 DEF Disconnect, TypeOK, Handlers
<1>8. CASE Add(r)
  <2>1. PICK i \in IF req[r].cur = {} THEN Turn(req[r].todo) ELSE req[r].cur :
          /\ core' = [core EXCEPT !.items[i] = Built(View(r), i)]
          /\ LET left == req[r].todo \ {i}
                 q == [req[r] EXCEPT !.touched = TRUE, !.todo = left, !.cur = {}, !.pc = "remove"]
             IN  Set(r, IF left = {} THEN AfterCore(q) ELSE q)
    BY <1>8 DEF Add
  <2>2. i \in Items  BY <1>1 DEF Handlers, Turn
  <2> DEFINE left == req[r].todo \ {i}
             q == [req[r] EXCEPT !.touched = TRUE, !.todo = left, !.cur = {}, !.pc = "remove"]
  <2>3. q \in Handlers  BY <1>1, <2>2 DEF Handlers
  <2>4. Set(r, IF left = {} THEN AfterCore(q) ELSE q)  BY <2>1
  <2> HIDE DEF q, left
  <2>5. req' \in [Requests -> Handlers]  BY <2>3, <2>4, SetType, AfterCoreType
  <2>6. Built(View(r), i) \in Content  BY <2>2, ViewType, BuiltType
  <2>7. core' \in [base : Versions, items : [Items -> Content]]  BY <1>3, <2>1, <2>2, <2>6
  <2>8. QED  BY <1>8, <2>5, <2>7 DEF Add, TypeOK, Handlers
<1>9. CASE Write(r)
  <2> DEFINE o == req[r].obj
             last == CoreFirst(o, req[r].act) \/ o = Base \/ req[r].act = "job"
             q == [req[r] EXCEPT
                 !.pc = IF last THEN "record" ELSE CoreStep(req[r].act),
                 !.todo = IF last THEN {} ELSE CoreWork(o),
                 !.read = TRUE]
  <2>1. CoreStep(req[r].act) \in {"add", "remove"}  BY DEF CoreStep
  <2>2. CoreWork(o) \in SUBSET Items
    <3>1. o \in Shared => Concerns(o) \subseteq Items  BY Things
    <3>2. QED  BY <3>1 DEF CoreWork
  <2>3. q \in Handlers  BY <1>1, <2>1, <2>2 DEF Handlers
  <2>4. Set(r, q)  BY <1>9 DEF Write
  <2>5. /\ req[r].new \in Versions
        /\ \/ cache' = req[r].new /\ reloads' = reloads \cup {req[r].new}
           \/ UNCHANGED <<cache, reloads>>
    BY <1>1, <1>9 DEF Write, Handlers
  <2> HIDE DEF q
  <2>6. req' \in [Requests -> Handlers]  BY <2>3, <2>4, SetType
  <2>7. cache' \in Versions /\ reloads' \in SUBSET Versions  BY <2>5 DEF TypeOK
  <2>8. QED  BY <1>9, <2>6, <2>7 DEF Write, TypeOK, Handlers
<1>10. CASE WriteFailed(r)
  <2>1. saves' \in 0..MaxSaves /\ mishaps' \in 0..MaxMishaps /\ restarts' \in 0..MaxRestarts
    BY <1>10, MishapType DEF WriteFailed, TypeOK
  <2>2. QED  BY <1>10, <2>1, RolledBackType DEF WriteFailed, TypeOK, Handlers
<1>11. CASE Commit(r)
  <2>1. PICK q \in Handlers : Committed(r, q)
    BY <1>11, RebuilderType, Blanks DEF Commit, Rebuilder
  <2>2. QED  BY <1>11, <2>1, CommittedType DEF Commit, TypeOK, Handlers
<1>12. CASE CommitFailed(r)
  BY <1>12, MishapType, RolledBackType DEF CommitFailed, TypeOK, Handlers
<1>13. CASE Panic(r)  BY <1>13, CommittedType, Blanks DEF Panic, TypeOK, Handlers
<1>14. CASE JobPanic(r)  BY <1>14, RestartedType DEF JobPanic, TypeOK
<1>15. QED
  BY <1>14, <1>2, <1>4, <1>5, <1>6, <1>7, <1>8, <1>9, <1>10, <1>11, <1>12, <1>13 DEF Continue

\* What a request begins with.
LEMMA Beginnings ==
  ASSUME TypeOK, NEW r \in Requests, Begin(r)
  PROVE  \E q \in Handlers :
           /\ Set(r, q) /\ Shape(q) /\ ~q.touched /\ ~Rebuilds(q)
           /\ q.new \in {0, saves + 1} /\ q.cur = {}
           /\ q.pc # "idle" /\ q.pc # "record"
           /\ q.pc = "write" => ~CoreFirst(q.obj, q.act)
           /\ q.pc # "write" => q.todo = Concerns(q.obj)
           /\ boot' = [boot EXCEPT !.met = IF boot.on THEN @ \cup Concerns(q.obj) ELSE @]
           /\ suspect' = suspect \cup (Concerns(q.obj) \cap InFlight)
<1>0. PICK o \in Saved : \E act \in Acts(o) :
          /\ Set(r, [Idle EXCEPT
                !.pc = IF CoreFirst(o, act) THEN CoreStep(act) ELSE "write",
                !.obj = o, !.act = act, !.new = IF act = "del" THEN 0 ELSE saves + 1,
                !.todo = IF CoreFirst(o, act) THEN {o} ELSE {},
                !.read = (o \in Inbounds /\ act = "edit")
                            \/ (o \in Plain \cap TlsUsers /\ act # "del")])
          /\ boot' = [boot EXCEPT !.met = IF boot.on THEN @ \cup Concerns(o) ELSE @]
          /\ suspect' = suspect \cup (Concerns(o) \cap InFlight)
  BY DEF Begin
<1>1. PICK act \in Acts(o) :
          /\ Set(r, [Idle EXCEPT
                !.pc = IF CoreFirst(o, act) THEN CoreStep(act) ELSE "write",
                !.obj = o, !.act = act, !.new = IF act = "del" THEN 0 ELSE saves + 1,
                !.todo = IF CoreFirst(o, act) THEN {o} ELSE {},
                !.read = (o \in Inbounds /\ act = "edit")
                            \/ (o \in Plain \cap TlsUsers /\ act # "del")])
          /\ boot' = [boot EXCEPT !.met = IF boot.on THEN @ \cup Concerns(o) ELSE @]
          /\ suspect' = suspect \cup (Concerns(o) \cap InFlight)
  BY <1>0
<1> DEFINE q == [Idle EXCEPT
                !.pc = IF CoreFirst(o, act) THEN CoreStep(act) ELSE "write",
                !.obj = o, !.act = act, !.new = IF act = "del" THEN 0 ELSE saves + 1,
                !.todo = IF CoreFirst(o, act) THEN {o} ELSE {},
                !.read = (o \in Inbounds /\ act = "edit")
                            \/ (o \in Plain \cap TlsUsers /\ act # "del")]
<1>2. /\ o \in Objects /\ act \in {"new", "edit", "del", "job"}
      /\ act \in {"new", "del"} => o \in Items
      /\ act = "job" => o = Clients
  <2>1. CASE o = Clients  BY <2>1, Things DEF Acts
  <2>2. CASE o \in {Tls, Base}  BY <2>2, Things DEF Acts
  <2>3. CASE o \notin {Tls, Clients, Base}
    <3>1. o \in Items  BY <2>3, Things DEF Objects
    <3>2. act \in {"new", "edit", "del"}  BY <2>3 DEF Acts
    <3>3. QED  BY <3>1, <3>2, Things
  <2>4. QED  BY <2>1, <2>2, <2>3
<1>3. CoreFirst(o, act) => o \in Items  BY Things DEF CoreFirst
<1>4. saves + 1 \in Versions /\ saves + 1 # 0  BY DEF Begin, TypeOK, Versions
<1>5. CoreStep(act) = IF act = "new" THEN "add" ELSE "remove"  BY DEF CoreStep
<1>6. /\ q.obj = o /\ q.act = act /\ q.new = IF act = "del" THEN 0 ELSE saves + 1
      /\ q.todo = IF CoreFirst(o, act) THEN {o} ELSE {}
      /\ q.cur = {} /\ q.touched = FALSE
      /\ q.pc = IF CoreFirst(o, act) THEN CoreStep(act) ELSE "write"
  BY DEF Idle
<1>7. q \in Handlers
  <2>1. Idle \in Handlers  BY Blanks
  <2>2. (IF CoreFirst(o, act) THEN CoreStep(act) ELSE "write") \in {"add", "remove", "write"}  BY <1>5
  <2>3. (IF CoreFirst(o, act) THEN {o} ELSE {}) \in SUBSET Items  BY <1>3
  <2>4. (IF act = "del" THEN 0 ELSE saves + 1) \in Versions  BY <1>4, Blanks
  <2>5. QED  BY <1>2, <2>1, <2>2, <2>3, <2>4 DEF Handlers
<1> HIDE DEF q
<1>8. o \in Items => Concerns(o) = {o}  BY Things
<1>9. act = "del" => CoreFirst(o, act)
  BY <1>2 DEF CoreFirst, Items
<1>10. Shape(q)
  <2>1. q.cur \subseteq q.todo /\ q.todo \subseteq Concerns(q.obj)  BY <1>3, <1>6, <1>8
  <2>2. q.new = 0 <=> q.act = "del"  BY <1>4, <1>6
  <2>3. (q.act \in {"new", "del"} => q.obj \in Items) /\ (q.act = "job" => q.obj = Clients)
    BY <1>2, <1>6
  <2>4. q.obj = Base => q.pc = "write"  BY <1>3, <1>6, Things
  <2>5. q.obj \in Items /\ q.pc \in {"remove", "add"} => q.todo = {q.obj}  BY <1>6
  <2>6. q.act = "del" => q.pc = "remove"  BY <1>5, <1>6, <1>9
  <2>7. q.pc \in {"add", "remove", "write"} /\ ~q.touched /\ q.cur = {}  BY <1>5, <1>6
  <2>8. QED  BY <2>1, <2>2, <2>3, <2>4, <2>5, <2>6, <2>7 DEF Shape
<1>11. Set(r, q)  BY <1>1 DEF q
<1>12. q.pc # "idle" /\ q.pc # "record" /\ (q.pc = "write" => ~CoreFirst(q.obj, q.act))
  BY <1>5, <1>6
<1>13. q.pc # "write" => q.todo = Concerns(q.obj)  BY <1>3, <1>6, <1>8
<1>14. /\ boot' = [boot EXCEPT !.met = IF boot.on THEN @ \cup Concerns(q.obj) ELSE @]
       /\ suspect' = suspect \cup (Concerns(q.obj) \cap InFlight)
  BY <1>1, <1>6
<1>15. ~Rebuilds(q)  BY <1>2, <1>3, <1>6, Things DEF Rebuilds
<1>16. QED  BY <1>4, <1>6, <1>7, <1>10, <1>11, <1>12, <1>13, <1>14, <1>15

LEMMA Counted == ASSUME TypeOK, NEW r \in Requests, Begin(r)
  PROVE  /\ saves' = saves + 1 /\ saves' \in 0..MaxSaves
         /\ UNCHANGED <<dbVars, up, dead, core, spawned, mishaps, restarts>>
  BY DEF Begin, TypeOK

LEMMA TypeBegin == ASSUME TypeOK, NEW r \in Requests, Begin(r) PROVE TypeOK'
<1> USE DEF dbVars, spawned
<1>1. PICK q \in Handlers :
           /\ Set(r, q)
           /\ boot' = [boot EXCEPT !.met = IF boot.on THEN @ \cup Concerns(q.obj) ELSE @]
           /\ suspect' = suspect \cup (Concerns(q.obj) \cap InFlight)
  BY Beginnings
<1>2. Concerns(q.obj) \in SUBSET (Items \cup {Base})  BY Things DEF Handlers
<1>3. boot \in Starts  BY DEF TypeOK, Starts
<1>4. boot' \in Starts  BY <1>1, <1>2, <1>3 DEF Starts
<1>5. suspect' \in SUBSET (Items \cup {Base})  BY <1>1, <1>2 DEF TypeOK
<1>6. req' \in [Requests -> Handlers]  BY <1>1, SetType
<1>7. QED  BY <1>4, <1>5, <1>6, Counted DEF TypeOK, Handlers, Starts

LEMMA FlightType == ASSUME TypeOK, NEW rs \in SUBSET Requests
                    PROVE  ConcernedBy(rs) \in SUBSET (Items \cup {Base})
<1>1. \A r \in rs : Concerns(req[r].obj) \in SUBSET (Items \cup {Base})  BY Things DEF TypeOK
<1>2. QED  BY <1>1 DEF ConcernedBy

LEMMA BootingType ==
  ASSUME NEW base \in Versions, NEW met \in SUBSET (Items \cup {Base}), Booting(base, met)
  PROVE  /\ up' = FALSE /\ dead' = FALSE /\ core' \in [base : Versions, items : [Items -> Content]] /\ boot' \in Starts
         /\ boot'.on /\ boot'.base = base /\ boot'.unread = Items /\ boot'.met = met
<1>1. boot' = [NoBoot EXCEPT !.on = TRUE, !.base = base, !.unread = Items, !.met = met]
  BY DEF Booting
<1>2. NoBoot \in Starts  BY Blanks
<1>3. boot' \in Starts  BY <1>1, <1>2 DEF Starts
<1>4. boot'.on /\ boot'.base = base /\ boot'.unread = Items /\ boot'.met = met
  BY <1>1, <1>2 DEF Starts
<1>5. QED  BY <1>3, <1>4, Blanks DEF Booting

LEMMA StoppedType ==
  ASSUME TypeOK, Stopped
  PROVE  /\ up' \in BOOLEAN /\ dead' \in BOOLEAN /\ boot' \in Starts
         /\ core' \in [base : Versions, items : [Items -> Content]]
         /\ suspect' \in SUBSET (Items \cup {Base})
<1>1. CASE UNCHANGED <<coreVars, suspect>>  BY <1>1 DEF TypeOK, coreVars, Starts
<1>2. CASE ~UNCHANGED <<coreVars, suspect>>
  <2>1. /\ up' \in BOOLEAN /\ dead' \in BOOLEAN /\ core' = Off
        /\ boot' = NoBoot \/ boot' = boot
        /\ suspect' = suspect \/ suspect' = Everything
    BY <1>2 DEF Stopped, StoppedMidStart
  <2>2. QED  BY <2>1, Blanks, Things DEF TypeOK, Starts
<1>3. QED  BY <1>1, <1>2

LEMMA TypeBoot == ASSUME TypeOK, Boot \/ Goroutine \/ RestartCore \/ Rotate \/ Crash PROVE TypeOK'
<1> USE DEF dbVars, coreVars, spawned, counts
<1>1. CASE StartCore
  <2>1. InFlight \in SUBSET (Items \cup {Base})  BY FlightType DEF InFlight
  <2>2. cache \in Versions  BY DEF TypeOK
  <2>3. QED  BY <1>1, <2>1, <2>2, BootingType DEF StartCore, TypeOK, Starts
<1>2. ASSUME NEW i \in Items, ReadItem(i) PROVE TypeOK'
  <2>1. Built(rows, i) \in Content  BY BuiltType DEF TypeOK
  <2>2. boot \in Starts  BY DEF TypeOK, Starts
  <2>3. boot' \in Starts  BY <1>2, <2>1, <2>2 DEF ReadItem, Starts
  <2>4. QED  BY <1>2, <2>3 DEF ReadItem, TypeOK, Starts
<1>3. CASE Started
  <2>1. boot \in Starts  BY DEF TypeOK, Starts
  <2>2. core' \in [base : Versions, items : [Items -> Content]] /\ suspect' \in SUBSET (Items \cup {Base})
    BY <1>3, <2>1 DEF Started, Starts
  <2>3. up' \in BOOLEAN /\ boot' \in Starts  BY <1>3, Blanks DEF Started
  <2>4. QED  BY <1>3, <2>2, <2>3 DEF Started, TypeOK, Starts
<1>4. CASE StartFailed  BY <1>4, Blanks DEF StartFailed, TypeOK, Starts
<1>5. CASE Resync
  <2>1. resyncs' \in Nat  BY <1>5 DEF Resync, TypeOK
  <2>2. QED  BY <1>5, <2>1, StoppedType DEF Resync, TypeOK, Starts
<1>6. CASE RestartCore
  <2>1. restarts' \in 0..MaxRestarts  BY <1>6 DEF RestartCore, TypeOK
  <2>2. QED  BY <1>6, <2>1, StoppedType DEF RestartCore, TypeOK, Starts
<1>7. ASSUME NEW v \in reloads, Reload(v) PROVE TypeOK'
  <2>1. v \in Versions /\ reloads' \in SUBSET Versions  BY <1>7 DEF Reload, TypeOK
  <2>2. CASE boot.on  BY <1>7, <2>1, <2>2 DEF Reload, TypeOK
  <2>3. CASE ~boot.on
    <3> DEFINE met == ConcernedBy({r \in Requests : Open(r) /\ req[r].new # v})
                       \cup IF v = cache THEN {} ELSE {Base}
    <3>1. met \in SUBSET (Items \cup {Base})
      <4>1. ConcernedBy({r \in Requests : Open(r) /\ req[r].new # v}) \in SUBSET (Items \cup {Base})
        BY FlightType
      <4>2. QED  BY <4>1
    <3>2. Booting(v, met)  BY <1>7, <2>3 DEF Reload
    <3> HIDE DEF met
    <3>3. QED  BY <1>7, <2>1, <3>1, <3>2, BootingType DEF Reload, TypeOK, Starts
  <2>4. QED  BY <2>2, <2>3
<1>8. CASE Crash
  <2>1. restarts' \in 0..MaxRestarts /\ UNCHANGED <<saves, mishaps>>  BY <1>8 DEF Crash, TypeOK
  <2>2. Restarted  BY <1>8 DEF Crash
  <2>3. QED  BY <2>1, <2>2, RestartedType DEF TypeOK
<1>9. CASE StartedGarbled
  <2>1. boot \in Starts /\ 0 \in Versions  BY Blanks DEF TypeOK, Starts
  <2>2. PICK got \in SUBSET Items, base \in {0, boot.base} :
          core' = [base |-> base, items |-> [i \in Items |-> IF i \in got THEN boot.items[i] ELSE Out]]
    BY <1>9 DEF StartedGarbled
  <2>3. [i \in Items |-> IF i \in got THEN boot.items[i] ELSE Out] \in [Items -> Content]
    BY <2>1, Blanks DEF Starts
  <2>4. core' \in [base : Versions, items : [Items -> Content]]  BY <2>1, <2>2, <2>3 DEF Starts
  <2>5. up' \in BOOLEAN /\ boot' \in Starts /\ suspect' \in SUBSET (Items \cup {Base})
    BY <1>9, Blanks, Things DEF StartedGarbled
  <2>6. Mishap  BY <1>9 DEF StartedGarbled
  <2>7. QED  BY <1>9, <2>4, <2>5, <2>6, MishapType DEF StartedGarbled, TypeOK, Starts
<1>10. CASE Rotate
  <2>1. saves' \in 0..MaxSaves /\ saves + 1 \in Versions  BY <1>10 DEF Rotate, TypeOK, Versions
  <2>2. rows' \in [Objects -> Versions]  BY <1>10, <2>1 DEF Rotate, TypeOK
  <2>3. req' \in [Requests -> Handlers]  BY <1>10, OvertakenType DEF Rotate
  <2>4. boot \in Starts /\ TlsUsers \subseteq Items  BY Things DEF TypeOK, Starts
  <2>5. boot' \in Starts  BY <1>10, <2>4 DEF Rotate, Starts
  <2>6. resyncs' \in Nat  BY <1>10 DEF Rotate, TypeOK
  <2>7. QED  BY <1>10, <2>1, <2>2, <2>3, <2>5, <2>6 DEF Rotate, TypeOK, Handlers, Starts
<1>11. QED
  BY <1>1, <1>2, <1>3, <1>4, <1>5, <1>6, <1>7, <1>8, <1>9, <1>10 DEF Boot, Goroutine

LEMMA TypeNext == TypeOK /\ Shaped /\ [Next]_vars => TypeOK'
<1> SUFFICES ASSUME TypeOK, Shaped, [Next]_vars PROVE TypeOK'
  OBVIOUS
<1>1. CASE UNCHANGED vars
  BY <1>1 DEF vars, TypeOK, dbVars, coreVars, spawned, counts
<1>2. QED  BY <1>1, TypeBegin, TypeContinue, TypeBoot DEF Next

-----------------------------------------------------------------------------
(* A step of one request.                                                  *)

LEMMA BuiltSame ==
  ASSUME NEW f, NEW g, NEW i, f[i] = g[i], i \in TlsUsers => f[Tls] = g[Tls],
         i \in ClientInbounds => f[Clients] = g[Clients]
  PROVE  Built(f, i) = Built(g, i)
  BY DEF Built

\* A save changes only what is concerned by its object.
LEMMA ViewSame ==
  ASSUME TypeOK, NEW r \in Requests, NEW i \in Items, i \notin Concerns(req[r].obj)
  PROVE  /\ Built(View(r), i) = Built(rows, i) /\ View(r)[i] = rows[i]
         /\ i \in TlsUsers => View(r)[Tls] = rows[Tls]
         /\ i \in ClientInbounds => View(r)[Clients] = rows[Clients]
<1>1. i # req[r].obj  BY Things
<1>2. (i \in TlsUsers => req[r].obj # Tls) /\ (i \in ClientInbounds => req[r].obj # Clients)  BY Things
<1>3. View(r)[i] = rows[i]  BY <1>1, ViewType, Things
<1>4. i \in TlsUsers => View(r)[Tls] = rows[Tls]  BY <1>2, ViewType, Things
<1>5. i \in ClientInbounds => View(r)[Clients] = rows[Clients]  BY <1>2, ViewType, Things
<1>6. QED  BY <1>3, <1>4, <1>5, BuiltSame

LEMMA AlikeShape == \A t, s : Alike(t, s) /\ Shape(s) => Shape(t)
  BY DEF Alike, Shape, Rebuilds

\* A request goes on with the same object, or ends.
Steps(r, t) ==
    /\ req'[r] = t /\ \A s \in Requests \ {r} : Alike(req'[s], req[s])
    /\ Open(r) /\ Shape(t)
    /\ t.pc # "idle" => t.obj = req[r].obj /\ t.act = req[r].act /\ t.new = req[r].new
    /\ UNCHANGED <<boot, up, dead, saves>> /\ core'.base = core.base
    /\ suspect \subseteq suspect'
    /\ rows' = rows \/ rows' = View(r)

LEMMA StepKeeps ==
  ASSUME TypeOK, IInv, NEW r \in Requests, NEW t, Steps(r, t),
         req[r].pc = "record" => t.pc = "idle" \/ req[r].obj # Base,
         \/ cache' = cache /\ reloads' = reloads
         \/ /\ cache' = req[r].new /\ reloads' = reloads \cup {req[r].new}
            /\ req[r].obj = Base /\ req[r].pc = "write" /\ t.pc = "record"
  PROVE  Shaped' /\ Numbered' /\ Lone' /\ Meets' /\ Reads' /\ Wrecked' /\ BaseFits'
<1>1. /\ req'[r] = t /\ \A s \in Requests \ {r} : Alike(req'[s], req[s])
      /\ req[r].pc # "idle" /\ Shape(t)
      /\ t.pc # "idle" => t.obj = req[r].obj /\ t.act = req[r].act /\ t.new = req[r].new
      /\ UNCHANGED <<boot, up, dead, saves>> /\ core'.base = core.base
      /\ suspect \subseteq suspect'
      /\ rows' = rows \/ rows' = View(r)
  BY DEF Steps, Open
<1>2. Shaped'
  <2>1. \A s \in Requests : Shape(req[s])  BY DEF IInv, Shaped
  <2>2. \A s \in Requests : Shape(req'[s])  BY <1>1, <2>1, AlikeShape
  <2>3. QED  BY <2>2 DEF Shaped
\* What the others, and the request if it goes on, are doing is as before.
<1>3. \A s \in Requests : req'[s].pc # "idle" =>
         req[s].pc # "idle" /\ req'[s].obj = req[s].obj /\ req'[s].new = req[s].new
  BY <1>1 DEF Alike
<1>4. \A s \in Requests : req'[s].pc # "idle" /\ req[s].pc = "record" /\ req[s].obj = Base =>
         s # r /\ req'[s].pc = "record"
  BY <1>1 DEF Alike
<1>5. Numbered'
  <2>1. \A s \in Requests : req'[s].pc # "idle" => req'[s].new <= saves
    BY <1>3 DEF IInv, Numbered, Open
  <2>2. \A s, u \in Requests : req'[s].pc # "idle" /\ req'[u].pc # "idle" /\ s # u =>
            req'[s].new = 0 \/ req'[s].new # req'[u].new
    BY <1>3 DEF IInv, Numbered, Open
  <2>3. CASE reloads' = reloads
    <3>1. \A s \in Requests : req'[s].pc # "idle" /\ req'[s].new \in reloads =>
              req'[s].obj = Base /\ req'[s].pc = "record"
      BY <1>3, <1>4 DEF IInv, Numbered, Open
    <3>2. QED  BY <1>1, <2>1, <2>2, <2>3, <3>1 DEF IInv, Numbered, Open
  <2>4. CASE /\ reloads' = reloads \cup {req[r].new}
             /\ req[r].obj = Base /\ req[r].pc = "write" /\ t.pc = "record"
    <3>1. req[r].new \in Nat /\ req[r].new # 0 /\ req[r].new <= saves
      <4>1. req[r].new \in Nat  BY DEF TypeOK, Versions
      <4>2. Shape(req[r]) /\ req[r].act \in {"new", "edit", "del", "job"}  BY DEF IInv, Shaped, TypeOK
      <4>3. req[r].act = "edit"  BY <2>4, <4>2, Things DEF Shape
      <4>4. req[r].new # 0  BY <1>1, <4>2, <4>3 DEF Shape
      <4>5. QED  BY <1>1, <4>1, <4>4 DEF IInv, Numbered, Open
    <3>2. \A v \in reloads' : 0 < v /\ v <= saves  BY <2>4, <3>1 DEF IInv, Numbered
    <3>3. \A s \in Requests : req'[s].pc # "idle" /\ req'[s].new \in reloads' =>
              req'[s].obj = Base /\ req'[s].pc = "record"
      <4> SUFFICES ASSUME NEW s \in Requests, req'[s].pc # "idle", req'[s].new \in reloads'
                   PROVE  req'[s].obj = Base /\ req'[s].pc = "record"
        OBVIOUS
      <4>1. CASE s = r  BY <1>1, <2>4, <4>1
      <4>2. CASE s # r
        <5>1. req[s].new # req[r].new  BY <1>1, <1>3, <3>1, <4>2 DEF IInv, Numbered, Open
        <5>2. req[s].new \in reloads  BY <1>3, <2>4, <5>1
        <5>3. QED  BY <1>3, <1>4, <5>2 DEF IInv, Numbered, Open
      <4>3. QED  BY <4>1, <4>2
    <3>4. QED  BY <1>1, <2>1, <2>2, <3>2, <3>3 DEF Numbered, Open
  <2>5. QED  BY <2>3, <2>4
<1>6. Lone'
  BY <1>1, <1>3 DEF IInv, Lone, Open
<1>7. boot.on => \/ Concerns(req[r].obj) \subseteq boot.met
                 \/ req[r].obj = Base /\ req[r].pc = "record"
  BY <1>1 DEF IInv, Meets, Open
<1>8. Meets'
  <2> SUFFICES ASSUME boot.on, NEW s \in Requests, req'[s].pc # "idle"
               PROVE  \/ Concerns(req'[s].obj) \subseteq boot.met
                      \/ req'[s].obj = Base /\ req'[s].pc = "record" /\ req'[s].new = boot.base
    BY <1>1 DEF Meets, Open
  <2>1. \/ Concerns(req[s].obj) \subseteq boot.met
        \/ req[s].obj = Base /\ req[s].pc = "record" /\ req[s].new = boot.base
    BY <1>3 DEF IInv, Meets, Open
  <2>2. QED  BY <1>3, <1>4, <2>1
<1>9. Reads'
  <2> SUFFICES ASSUME boot.on
               PROVE  /\ ~up /\ ~dead
                      /\ \A i \in Items \ (boot.unread \cup boot.met) : boot.items[i] = Built(rows', i)
                      /\ Base \notin boot.met => boot.base = cache'
    BY <1>1 DEF Reads
  <2>1. /\ ~up /\ ~dead
        /\ \A i \in Items \ (boot.unread \cup boot.met) : boot.items[i] = Built(rows, i)
        /\ Base \notin boot.met => boot.base = cache
    BY DEF IInv, Reads
  <2>2. \A i \in Items \ boot.met : i \notin Concerns(req[r].obj)
    BY <1>7, Things
  <2>3. \A i \in Items \ boot.met : Built(rows', i) = Built(rows, i)
    BY <1>1, <2>2, ViewSame
  <2>4. Base \notin boot.met => cache' = cache  BY <1>7, Things
  <2>5. QED  BY <2>1, <2>3, <2>4
<1>10. BaseFits'
  BY <1>1 DEF IInv, BaseFits
<1>11. Wrecked'  BY <1>1 DEF IInv, Wrecked
<1>12. QED  BY <1>2, <1>5, <1>6, <1>8, <1>9, <1>10, <1>11

\* It is enough to look at the items that the request concerns.
LEMMA StepItems ==
  ASSUME TypeOK, IInv, NEW r \in Requests, NEW t, Steps(r, t),
         resyncs' = 0 => resyncs = 0,
         \A i \in Items \ Concerns(req[r].obj) : core'.items[i] = core.items[i],
         up /\ resyncs' = 0 => \A i \in (Items \cap Concerns(req[r].obj)) \ suspect' :
            IF t.pc = "idle" THEN core'.items[i] = Built(rows', i)
            ELSE /\ ~t.touched /\ ~Rebuilds(t) => core'.items[i] = Built(rows', i)
                 /\ \/ t.pc = "record" /\ t.act # "job"
                    \/ t.pc = "write" /\ CoreFirst(t.obj, t.act)
                    \/ t.pc \in {"remove", "disconnect", "add"} /\ i \notin t.todo
                    => core'.items[i] = Built(View(r)', i)
  PROVE  ItemsFit'
<1>1. /\ req'[r] = t /\ \A s \in Requests \ {r} : Alike(req'[s], req[s])
      /\ req[r].pc # "idle"
      /\ t.pc # "idle" => t.obj = req[r].obj /\ t.act = req[r].act /\ t.new = req[r].new
      /\ up' = up /\ suspect \subseteq suspect'
      /\ rows' = rows \/ rows' = View(r)
  BY DEF Steps, Open
<1> SUFFICES ASSUME up, resyncs' = 0, NEW i \in Items, i \notin suspect' PROVE Fits(i)'
  BY <1>1 DEF ItemsFit
<1>2. Fits(i)  BY <1>1 DEF IInv, ItemsFit
<1>3. CASE i \notin Concerns(req[r].obj)
  <2>1. core'.items[i] = core.items[i]  BY <1>3
  <2>2. /\ Built(rows', i) = Built(rows, i) /\ rows'[i] = rows[i]
        /\ i \in TlsUsers => rows'[Tls] = rows[Tls]
        /\ i \in ClientInbounds => rows'[Clients] = rows[Clients]
    BY <1>1, <1>3, ViewSame
  <2>3. (\A s \in Requests : Open(s)' => i \notin Concerns(req'[s].obj)) => core'.items[i] = Built(rows', i)
    <3>1. \A s \in Requests : Open(s) /\ s # r => Open(s)' /\ req'[s].obj = req[s].obj
      BY <1>1 DEF Open, Alike
    <3>2. QED  BY <1>2, <1>3, <2>1, <2>2, <3>1 DEF Fits
  <2>4. ASSUME NEW s \in Requests, Open(s)', i \in Concerns(req'[s].obj)
        PROVE  /\ ~req'[s].touched /\ ~Rebuilds(req'[s]) => core'.items[i] = Built(rows', i)
               /\ \/ req'[s].pc = "record" /\ req'[s].act # "job"
                  \/ req'[s].pc = "write" /\ CoreFirst(req'[s].obj, req'[s].act)
                  \/ req'[s].pc \in {"remove", "disconnect", "add"} /\ i \notin req'[s].todo
                  => core'.items[i] = Built(View(s)', i)
    <3>1. s # r /\ Alike(req'[s], req[s])  BY <1>1, <1>3, <2>4 DEF Open
    <3>2. Open(s) /\ i \in Concerns(req[s].obj)  BY <2>4, <3>1 DEF Open, Alike
    <3>3. Built(View(s)', i) = Built(View(s), i)
      <4>1. rows' \in [Objects -> Versions]  BY <1>1, ViewType DEF TypeOK
      <4>2. Rebuilds(req'[s]) <=> Rebuilds(req[s])  BY <3>1 DEF Rebuilds, Alike
      <4>3. CASE Rebuilds(req[s])
        <5>1. View(s)' = rows' /\ View(s) = rows  BY <4>2, <4>3 DEF View
        <5>2. QED  BY <2>2, <5>1
      <4>4. CASE ~Rebuilds(req[s])
        <5>1. \A o \in Objects : View(s)[o] = IF o = req[s].obj THEN req[s].new ELSE rows[o]
          BY <4>4, ViewType
        <5>2. View(s)' = [rows' EXCEPT ![req[s].obj] = req[s].new]
          BY <3>1, <4>2, <4>4 DEF View, Alike
        <5>3. \A o \in Objects : View(s)'[o] = IF o = req[s].obj THEN req[s].new ELSE rows'[o]
          BY <4>1, <5>2
        <5>4. /\ View(s)'[i] = View(s)[i] /\ (i \in TlsUsers => View(s)'[Tls] = View(s)[Tls])
              /\ i \in ClientInbounds => View(s)'[Clients] = View(s)[Clients]
          BY <2>2, <5>1, <5>3, Things
        <5>5. QED  BY <5>4, BuiltSame
      <4>5. QED  BY <4>3, <4>4
    <3>4. Rebuilds(req'[s]) <=> Rebuilds(req[s])  BY <3>1 DEF Rebuilds, Alike
    <3>5. QED  BY <1>2, <2>1, <2>2, <3>1, <3>2, <3>3, <3>4 DEF Fits, Alike
  <2>5. QED  BY <2>3, <2>4 DEF Fits
<1>4. CASE i \in Concerns(req[r].obj)
  <2>1. \A s \in Requests : s # r /\ Open(s)' => i \notin Concerns(req'[s].obj)
    <3>1. \A s \in Requests : s # r /\ Open(s) => i \notin Concerns(req[s].obj)
      BY <1>1, <1>4 DEF IInv, Lone, Open
    <3>2. QED  BY <1>1, <3>1 DEF Open, Alike
  <2>2. CASE t.pc = "idle"
    <3>1. core'.items[i] = Built(rows', i)  BY <1>4, <2>2
    <3>2. ~Open(r)'  BY <1>1, <2>2 DEF Open
    <3>3. QED  BY <2>1, <3>1, <3>2 DEF Fits
  <2>3. CASE t.pc # "idle"
    <3>1. Open(r)' /\ i \in Concerns(req'[r].obj)  BY <1>1, <1>4, <2>3 DEF Open
    <3>2. /\ ~t.touched /\ ~Rebuilds(t) => core'.items[i] = Built(rows', i)
          /\ \/ t.pc = "record" /\ t.act # "job"
             \/ t.pc = "write" /\ CoreFirst(t.obj, t.act)
             \/ t.pc \in {"remove", "disconnect", "add"} /\ i \notin t.todo
             => core'.items[i] = Built(View(r)', i)
      BY <1>4, <2>3
    <3>3. QED  BY <1>1, <2>1, <3>1, <3>2 DEF Fits
  <2>4. QED  BY <2>2, <2>3
<1>5. QED  BY <1>3, <1>4

\* The same for a step that does not commit.
LEMMA StepItemsOn ==
  ASSUME TypeOK, IInv, NEW r \in Requests, NEW t, Steps(r, t), rows' = rows,
         t.pc = "idle" \/ (Rebuilds(t) <=> Rebuilds(req[r])),
         resyncs' = 0 => resyncs = 0,
         \A i \in Items \ Concerns(req[r].obj) : core'.items[i] = core.items[i],
         up /\ resyncs' = 0 => \A i \in (Items \cap Concerns(req[r].obj)) \ suspect' :
            IF t.pc = "idle" THEN core'.items[i] = Built(rows, i)
            ELSE /\ ~t.touched /\ ~Rebuilds(t) => core'.items[i] = Built(rows, i)
                 /\ \/ t.pc = "record" /\ t.act # "job"
                    \/ t.pc = "write" /\ CoreFirst(t.obj, t.act)
                    \/ t.pc \in {"remove", "disconnect", "add"} /\ i \notin t.todo
                    => core'.items[i] = Built(View(r), i)
  PROVE  ItemsFit'
<1>1. CASE t.pc = "idle"  BY <1>1, StepItems
<1>2. CASE t.pc # "idle"
  <2>1. req'[r] = t /\ t.obj = req[r].obj /\ t.new = req[r].new  BY <1>2 DEF Steps
  <2>2. View(r)' = View(r)  BY <1>2, <2>1 DEF View
  <2>3. QED  BY <1>2, <2>2, StepItems
<1>3. QED  BY <1>1, <1>2

-----------------------------------------------------------------------------
(* The steps of a request, one by one.                                     *)

LEMMA SetAlike ==
  ASSUME TypeOK, NEW r \in Requests, NEW t, Set(r, t)
  PROVE  req'[r] = t /\ \A s \in Requests \ {r} : Alike(req'[s], req[s])
  BY DEF TypeOK, Set, Alike

LEMMA IdleShape == Shape(Idle) /\ Idle.pc = "idle"
  BY Things DEF Shape, Idle, Rebuilds

LEMMA AfterCoreShape ==
  ASSUME NEW q \in Handlers, q.obj # Base, (q.act \in {"new", "del"} => q.obj \in Items),
         q.new = 0 <=> q.act = "del"
  PROVE  Shape(AfterCore(q))
<1>1. CASE q.act = "job"  BY <1>1, AfterCoreType, IdleShape
<1>2. CASE q.act # "job"
  <2>1. CoreFirst(q.obj, q.act) \in BOOLEAN  BY DEF CoreFirst
  <2>2. QED  BY <1>2, <2>1, AfterCoreType DEF Shape
<1>3. QED  BY <1>1, <1>2

LEMMA TurnOf == \A todo : Turn(todo) \subseteq todo /\ (Turn(todo) = {} => todo = {})
  BY DEF Turn

\* What is known of a request that goes on.
LEMMA OpenShape ==
  ASSUME TypeOK, IInv, NEW r \in Requests
  PROVE  /\ req[r] \in Handlers /\ Shape(req[r])
         /\ req[r].act = "del" => CoreFirst(req[r].obj, req[r].act) /\ Concerns(req[r].obj) = {req[r].obj}
         /\ up /\ resyncs = 0 /\ Open(r) => \A i \in (Items \cap Concerns(req[r].obj)) \ suspect :
              /\ ~req[r].touched /\ ~Rebuilds(req[r]) => core.items[i] = Built(rows, i)
              /\ \/ req[r].pc = "record" /\ req[r].act # "job"
                 \/ req[r].pc = "write" /\ CoreFirst(req[r].obj, req[r].act)
                 \/ req[r].pc \in {"remove", "disconnect", "add"} /\ i \notin req[r].todo
                 => core.items[i] = Built(View(r), i)
<1>1. req[r] \in Handlers /\ Shape(req[r])  BY DEF TypeOK, Handlers, IInv, Shaped
<1>2. req[r].act = "del" => req[r].obj \in Items  BY <1>1 DEF Shape
<1>3. req[r].act = "del" => CoreFirst(req[r].obj, req[r].act)  BY <1>2 DEF CoreFirst, Items
<1>4. QED  BY <1>1, <1>2, <1>3, Things DEF IInv, ItemsFit, Fits

\* A transaction that is rolled back: what it changed in the core is suspect.
LEMMA RolledBackKeeps ==
  ASSUME TypeOK, IInv, NEW r \in Requests, Open(r), NEW touched,
         RolledBack(r, touched), req[r].touched \/ Rebuilds(req[r]) => touched,
         UNCHANGED <<cache, reloads, resyncs, boot, up, dead, saves>>, core'.base = core.base,
         \A i \in Items : (touched /\ i \in Concerns(req[r].obj)) \/ core'.items[i] = core.items[i]
  PROVE  IInv'
<1>1. /\ Set(r, Idle) /\ rows' = rows
      /\ suspect' = suspect \cup (IF touched THEN Concerns(req[r].obj) ELSE {})
  BY DEF RolledBack
<1>2. Steps(r, Idle)  BY <1>1, SetAlike, IdleShape DEF Steps
<1>3. Shaped' /\ Numbered' /\ Lone' /\ Meets' /\ Reads' /\ Wrecked' /\ BaseFits'
  BY <1>2, IdleShape, StepKeeps
<1>4. \A i \in Items \ Concerns(req[r].obj) : core'.items[i] = core.items[i]  OBVIOUS
<1>5. up /\ resyncs' = 0 => \A i \in (Items \cap Concerns(req[r].obj)) \ suspect' :
                               core'.items[i] = Built(rows', i)
  BY <1>1, OpenShape
<1>6. ItemsFit'  BY <1>2, <1>4, <1>5, IdleShape, StepItems
<1>7. QED  BY <1>3, <1>6 DEF IInv

LEMMA CoreFailedKeeps ==
  ASSUME TypeOK, IInv, NEW r \in Requests, Open(r), NEW touched,
         CoreFailed(r, touched), req[r].touched \/ Rebuilds(req[r]) => touched,
         req[r].obj # Base, req[r].pc # "record",
         UNCHANGED <<reloads, boot, up, dead, saves>>, core'.base = core.base,
         \A i \in Items : (touched /\ i \in Concerns(req[r].obj)) \/ core'.items[i] = core.items[i]
  PROVE  IInv'
<1>1. CASE req[r].obj \in Inbounds /\ req[r].act # "del"
  <2>1. resyncs' = resyncs + 1 /\ Set(r, AfterCore(req[r])) /\ UNCHANGED <<rows, cache, suspect>>
    BY <1>1 DEF CoreFailed, dbVars
  <2>2. req[r] \in Handlers /\ Shape(req[r]) /\ req[r].act # "job"
    BY <1>1, OpenShape, Things DEF Shape
  <2>3. Shape(AfterCore(req[r]))  BY <2>2, AfterCoreShape DEF Shape, Open
  <2>4. Steps(r, AfterCore(req[r]))  BY <2>1, <2>2, <2>3, SetAlike, AfterCoreType DEF Steps
  <2>5. Shaped' /\ Numbered' /\ Lone' /\ Meets' /\ Reads' /\ Wrecked' /\ BaseFits'
    BY <2>1, <2>4, StepKeeps
  <2>6. resyncs' # 0  BY <2>1 DEF TypeOK
  <2>7. ItemsFit'  BY <2>6 DEF ItemsFit
  <2>8. QED  BY <2>5, <2>7 DEF IInv
<1>2. CASE ~(req[r].obj \in Inbounds /\ req[r].act # "del")
  BY <1>2, RolledBackKeeps DEF CoreFailed
<1>3. QED  BY <1>1, <1>2

LEMMA CommittedAlike ==
  ASSUME TypeOK, NEW r \in Requests, NEW q, Committed(r, q)
  PROVE  req'[r] = q /\ \A s \in Requests \ {r} : Alike(req'[s], req[s])
<1>1. \A s \in Requests \ {r} : req'[s] = Overtaken(req[s])  BY DEF Committed
<1>2. QED  BY <1>1, OvertakenType DEF Committed

\* A transaction that commits with the core as it needs it, or without a core.
LEMMA CommittedKeeps ==
  ASSUME TypeOK, IInv, NEW r \in Requests, Open(r), Committed(r, Idle), ~Rebuilds(req[r]),
         ~up \/ dead \/ (req[r].pc = "record" /\ req[r].act # "job"),
         UNCHANGED <<cache, coreVars, spawned, saves, suspect>>
  PROVE  IInv'
<1>1. UNCHANGED <<cache, reloads, resyncs, boot, up, dead, core, suspect>>  BY DEF coreVars, spawned
<1>2. req'[r] = Idle /\ \A s \in Requests \ {r} : Alike(req'[s], req[s])  BY CommittedAlike
<1>3. rows' = View(r)  BY DEF Committed
<1>4. Steps(r, Idle)  BY <1>1, <1>2, <1>3, IdleShape DEF Steps
<1>5. Shaped' /\ Numbered' /\ Lone' /\ Meets' /\ Reads' /\ Wrecked' /\ BaseFits'
  BY <1>1, <1>4, IdleShape, StepKeeps
<1>6. dead => Items \subseteq suspect  BY DEF IInv, Wrecked, Everything
<1>7. up /\ resyncs = 0 => \A i \in (Items \cap Concerns(req[r].obj)) \ suspect :
                              core'.items[i] = Built(rows', i)
  BY <1>1, <1>3, <1>6, OpenShape
<1>8. ItemsFit'  BY <1>1, <1>4, <1>7, IdleShape, StepItems
<1>9. QED  BY <1>5, <1>8 DEF IInv

\* DepleteJob commits: its inbounds are still to be restarted.
LEMMA RebuilderKeeps ==
  ASSUME TypeOK, IInv, NEW r \in Requests, req[r].pc = "record", req[r].act = "job",
         Committed(r, Rebuilder(r)), UNCHANGED <<cache, coreVars, spawned, saves, suspect>>
  PROVE  IInv'
<1> DEFINE t == Rebuilder(r)
<1>1. UNCHANGED <<cache, reloads, resyncs, boot, up, dead, core, suspect>>  BY DEF coreVars, spawned
<1>2. req[r] \in Handlers /\ Shape(req[r]) /\ Open(r)  BY OpenShape DEF Open
<1>3. req[r].obj = Clients /\ ~Rebuilds(req[r]) /\ ~req[r].touched /\ req[r].cur = {} /\ req[r].new # 0
  BY <1>2 DEF Shape, Rebuilds
<1>4. /\ t.pc = "remove" /\ t.obj = Clients /\ t.act = "job" /\ t.new = req[r].new
      /\ t.cur = {} /\ ~t.touched /\ t.todo = {i \in ClientInbounds : rows[i] # 0}
  BY <1>3, RebuilderType
<1>5. req'[r] = t /\ \A s \in Requests \ {r} : Alike(req'[s], req[s])  BY CommittedAlike
<1>6. rows' = View(r)  BY DEF Committed
<1> HIDE DEF t
<1>7. Rebuilds(t)  BY <1>4 DEF Rebuilds
<1>8. Shape(t)  BY <1>3, <1>4, <1>7, Things DEF Shape
<1>9. Steps(r, t)  BY <1>1, <1>2, <1>3, <1>4, <1>5, <1>6, <1>8 DEF Steps
<1>10. Shaped' /\ Numbered' /\ Lone' /\ Meets' /\ Reads' /\ Wrecked' /\ BaseFits'
  BY <1>1, <1>3, <1>9, Things, StepKeeps
<1>11. View(r)' = rows'  BY <1>5, <1>7 DEF View
<1>12. up /\ resyncs = 0 => \A i \in (Items \cap Concerns(req[r].obj)) \ suspect :
           i \notin t.todo => core'.items[i] = Built(rows', i)
  <2> SUFFICES ASSUME up, resyncs = 0, NEW i \in (Items \cap Concerns(req[r].obj)) \ suspect, i \notin t.todo
               PROVE  core.items[i] = Built(rows', i)
    BY <1>1
  <2>1. core.items[i] = Built(rows, i)  BY <1>2, <1>3, OpenShape
  <2>2. rows[i] = 0  BY <1>3, <1>4, Things
  <2>3. rows'[i] = 0  BY <1>3, <1>6, <2>2, ViewType, Things
  <2>4. QED  BY <2>1, <2>2, <2>3 DEF Built
<1>13. ItemsFit'  BY <1>1, <1>4, <1>7, <1>9, <1>11, <1>12, StepItems
<1>14. QED  BY <1>10, <1>13 DEF IInv

LEMMA ItemStep ==
  ASSUME TypeOK, NEW j \in Items, NEW c, core' = [core EXCEPT !.items[j] = c]
  PROVE  core'.base = core.base /\ \A i \in Items : core'.items[i] = IF i = j THEN c ELSE core.items[i]
  BY DEF TypeOK

LEMMA RemoveKeeps == ASSUME TypeOK, IInv, NEW r \in Requests, Remove(r) PROVE IInv'
<1>1. PICK j \in Turn(req[r].todo) :
          /\ core' = [core EXCEPT !.items[j] = Out]
          /\ LET q == [req[r] EXCEPT !.touched = TRUE, !.cur = {j},
                          !.read = @ \/ req[r].act = "edit",
                          !.pc = IF req[r].obj \in Shared /\ j \in Inbounds
                                  THEN "disconnect" ELSE "add"]
             IN  Set(r, IF req[r].act = "del" THEN AfterCore(q) ELSE q)
  BY DEF Remove
<1>2. req[r] \in Handlers /\ Shape(req[r]) /\ req[r].pc = "remove" /\ Open(r)
  BY OpenShape DEF Remove, Working, Open
<1>3. req[r].obj # Base /\ req[r].obj \in Objects  BY <1>2 DEF Shape, Handlers
<1>4. j \in req[r].todo /\ j \in Items /\ j \in Concerns(req[r].obj)
  BY <1>2, TurnOf DEF Handlers, Shape
<1>5. UNCHANGED <<rows, cache, up, dead, boot, resyncs, reloads, saves, suspect>>
  BY DEF Remove, dbVars, spawned, counts
<1>6. core'.base = core.base /\ \A i \in Items : core'.items[i] = IF i = j THEN Out ELSE core.items[i]
  BY <1>1, <1>4, ItemStep
<1> DEFINE q == [req[r] EXCEPT !.touched = TRUE, !.cur = {j},
                        !.read = @ \/ req[r].act = "edit",
                        !.pc = IF req[r].obj \in Shared /\ j \in Inbounds
                                  THEN "disconnect" ELSE "add"]
<1>7. /\ q \in Handlers /\ q.touched /\ q.cur = {j} /\ q.todo = req[r].todo
      /\ q.obj = req[r].obj /\ q.act = req[r].act /\ q.new = req[r].new
      /\ q.pc = IF req[r].obj \in Shared /\ j \in Inbounds THEN "disconnect" ELSE "add"
  BY <1>2, <1>4 DEF Handlers
<1>8. Set(r, IF req[r].act = "del" THEN AfterCore(q) ELSE q)  BY <1>1
<1> HIDE DEF q
<1>9. \A i \in Items \ Concerns(req[r].obj) : core'.items[i] = core.items[i]  BY <1>4, <1>6
<1>10. CASE req[r].act = "del"
  <2>1. Set(r, AfterCore(q))  BY <1>8, <1>10
  <2>2. Shape(AfterCore(q))  BY <1>2, <1>3, <1>7, AfterCoreShape DEF Shape
  <2>3. /\ AfterCore(q).pc = "write" /\ AfterCore(q).touched /\ AfterCore(q).obj = req[r].obj
        /\ AfterCore(q).act = req[r].act /\ AfterCore(q).new = req[r].new
    BY <1>7, <1>10, AfterCoreType, OpenShape
  <2>10. ~Rebuilds(AfterCore(q)) /\ ~Rebuilds(req[r])  BY <1>10, <2>3 DEF Rebuilds
  <2>4. Steps(r, AfterCore(q))  BY <1>2, <1>5, <1>6, <2>1, <2>2, <2>3, SetAlike DEF Steps
  <2>5. Shaped' /\ Numbered' /\ Lone' /\ Meets' /\ Reads' /\ Wrecked' /\ BaseFits'
    BY <1>2, <1>5, <2>4, StepKeeps
  <2>6. \A i \in Items \cap Concerns(req[r].obj) : core'.items[i] = Built(View(r), i)
    <3>1. Concerns(req[r].obj) = {req[r].obj}  BY <1>10, OpenShape
    <3>2. req[r].new = 0  BY <1>2, <1>10 DEF Shape
    <3>3. View(r)[req[r].obj] = 0  BY <2>10, <3>2, ViewType
    <3>4. QED  BY <1>4, <1>6, <3>1, <3>3 DEF Built
  <2>7. ItemsFit'  BY <1>5, <1>9, <2>3, <2>4, <2>6, <2>10, StepItemsOn
  <2>8. QED  BY <2>5, <2>7 DEF IInv
<1>11. CASE req[r].act # "del"
  <2>1. Set(r, q)  BY <1>8, <1>11
  <2>10. Rebuilds(q) <=> Rebuilds(req[r])  BY <1>2, <1>7 DEF Rebuilds
  <2>11. req[r].act = "job" => Rebuilds(q)  BY <1>7 DEF Rebuilds
  <2>2. Shape(q)
    BY <1>2, <1>3, <1>4, <1>7, <1>11, <2>11 DEF Shape
  <2>3. Steps(r, q)  BY <1>2, <1>5, <1>6, <1>7, <2>1, <2>2, SetAlike DEF Steps
  <2>4. Shaped' /\ Numbered' /\ Lone' /\ Meets' /\ Reads' /\ Wrecked' /\ BaseFits'
    BY <1>2, <1>5, <2>3, StepKeeps
  <2>5. up /\ resyncs = 0 => \A i \in (Items \cap Concerns(req[r].obj)) \ suspect :
                                i \notin q.todo => core'.items[i] = Built(View(r), i)
    <3>1. up /\ resyncs = 0 => \A i \in (Items \cap Concerns(req[r].obj)) \ suspect :
                                  i \notin req[r].todo => core.items[i] = Built(View(r), i)
      BY <1>2, OpenShape
    <3>2. \A i \in Items : i \notin q.todo => i \notin req[r].todo /\ core'.items[i] = core.items[i]
      BY <1>4, <1>6, <1>7
    <3>3. QED  BY <3>1, <3>2
  <2>6. ItemsFit'  BY <1>5, <1>7, <1>9, <2>3, <2>5, <2>10, StepItemsOn
  <2>7. QED  BY <2>4, <2>6 DEF IInv
<1>12. QED  BY <1>10, <1>11

LEMMA AddKeeps == ASSUME TypeOK, IInv, NEW r \in Requests, Add(r) PROVE IInv'
<1>1. PICK j \in IF req[r].cur = {} THEN Turn(req[r].todo) ELSE req[r].cur :
          /\ core' = [core EXCEPT !.items[j] = Built(View(r), j)]
          /\ LET left == req[r].todo \ {j}
                 q == [req[r] EXCEPT !.touched = TRUE, !.todo = left, !.cur = {}, !.pc = "remove"]
             IN  Set(r, IF left = {} THEN AfterCore(q) ELSE q)
  BY DEF Add
<1>2. req[r] \in Handlers /\ Shape(req[r]) /\ req[r].pc = "add" /\ Open(r)
  BY OpenShape DEF Add, Working, Open
<1>3. req[r].obj # Base /\ req[r].obj \in Objects  BY <1>2 DEF Shape, Handlers
<1>4. j \in req[r].todo /\ j \in Items /\ j \in Concerns(req[r].obj)
  <2>1. req[r].cur \subseteq req[r].todo /\ req[r].todo \subseteq Concerns(req[r].obj)  BY <1>2 DEF Shape
  <2>2. req[r].todo \subseteq Items  BY <1>2 DEF Handlers
  <2>3. QED  BY <2>1, <2>2, TurnOf
<1>5. UNCHANGED <<rows, cache, up, dead, boot, resyncs, reloads, saves, suspect>>
  BY DEF Add, dbVars, spawned, counts
<1>6. /\ core'.base = core.base
      /\ \A i \in Items : core'.items[i] = IF i = j THEN Built(View(r), j) ELSE core.items[i]
  BY <1>1, <1>4, ItemStep
<1> DEFINE left == req[r].todo \ {j}
           q == [req[r] EXCEPT !.touched = TRUE, !.todo = left, !.cur = {}, !.pc = "remove"]
           t == IF left = {} THEN AfterCore(q) ELSE q
<1>7. /\ q \in Handlers /\ q.touched /\ q.cur = {} /\ q.todo = left /\ q.pc = "remove"
      /\ q.obj = req[r].obj /\ q.act = req[r].act /\ q.new = req[r].new
  BY <1>2 DEF Handlers
<1>8. Set(r, t)  BY <1>1
<1> HIDE DEF q
<1>9. Shape(t)
  <2>1. CASE left = {}  BY <1>2, <1>3, <1>7, <2>1, AfterCoreShape DEF Shape
  <2>2. CASE left # {}
    <3>1. req[r].obj \notin Items  BY <1>2, <1>4, <2>2 DEF Shape
    <3>2. /\ left \subseteq Concerns(req[r].obj) /\ (req[r].new = 0 <=> req[r].act = "del")
          /\ req[r].act \in {"edit", "job"} /\ (req[r].act = "job" => req[r].obj = Clients)
      BY <1>2, <3>1 DEF Shape, Handlers
    <3>3. q.act = "job" => Rebuilds(q)  BY <1>7 DEF Rebuilds
    <3>4. Shape(q)  BY <1>3, <1>7, <3>1, <3>2, <3>3 DEF Shape
    <3>5. QED  BY <2>2, <3>4
  <2>3. QED  BY <2>1, <2>2
<1>10. CASE req[r].act = "job" /\ left = {}
  <2>1. t = Idle  BY <1>7, <1>10, AfterCoreType
  <2>2. View(r) = rows  BY <1>2, <1>10, ViewType DEF Rebuilds
  <2>3. Steps(r, t)  BY <1>2, <1>5, <1>6, <1>8, <1>9, <2>1, SetAlike, IdleShape DEF Steps
  <2> HIDE DEF t
  <2>4. Shaped' /\ Numbered' /\ Lone' /\ Meets' /\ Reads' /\ Wrecked' /\ BaseFits'
    BY <1>2, <1>5, <2>3, StepKeeps
  <2>5. up /\ resyncs = 0 => \A i \in (Items \cap Concerns(req[r].obj)) \ suspect :
                                core'.items[i] = Built(rows, i)
    BY <1>2, <1>6, <1>10, <2>2, OpenShape
  <2>6. \A i \in Items \ Concerns(req[r].obj) : core'.items[i] = core.items[i]  BY <1>4, <1>6
  <2>7. ItemsFit'  BY <1>5, <2>1, <2>3, <2>5, <2>6, IdleShape, StepItemsOn
  <2>8. QED  BY <2>4, <2>7 DEF IInv
<1>11. CASE ~(req[r].act = "job" /\ left = {})
  <2>1. /\ t.obj = req[r].obj /\ t.act = req[r].act /\ t.new = req[r].new /\ t.touched /\ t.todo = left
        /\ t.pc # "idle"
    BY <1>7, <1>11, AfterCoreType
  <2>2. Rebuilds(t) <=> Rebuilds(req[r])
    <3>1. CASE req[r].act = "job"  BY <1>2, <1>7, <1>11, <3>1 DEF Rebuilds
    <3>2. CASE req[r].act # "job"  BY <2>1, <3>2 DEF Rebuilds
    <3>3. QED  BY <3>1, <3>2
  <2>3. left = {} \/ t.pc = "remove"  BY <1>7 DEF t
  <2> HIDE DEF t
  <2>4. Steps(r, t)  BY <1>2, <1>5, <1>6, <1>8, <1>9, <2>1, SetAlike DEF Steps
  <2>5. Shaped' /\ Numbered' /\ Lone' /\ Meets' /\ Reads' /\ Wrecked' /\ BaseFits'
    BY <1>2, <1>5, <2>4, StepKeeps
  <2>6. up /\ resyncs = 0 => \A i \in (Items \cap Concerns(req[r].obj)) \ suspect :
                                i \notin left => core'.items[i] = Built(View(r), i)
    BY <1>2, <1>6, OpenShape
  <2>7. \A i \in Items \ Concerns(req[r].obj) : core'.items[i] = core.items[i]  BY <1>4, <1>6
  <2>8. up /\ resyncs' = 0 => \A i \in (Items \cap Concerns(req[r].obj)) \ suspect' :
            /\ ~t.touched /\ ~Rebuilds(t) => core'.items[i] = Built(rows, i)
            /\ \/ t.pc = "record" /\ t.act # "job"
               \/ t.pc = "write" /\ CoreFirst(t.obj, t.act)
               \/ t.pc \in {"remove", "disconnect", "add"} /\ i \notin t.todo
               => core'.items[i] = Built(View(r), i)
    BY <1>5, <2>1, <2>3, <2>6
  <2>9. ItemsFit'  BY <1>5, <2>1, <2>2, <2>4, <2>7, <2>8, StepItemsOn
  <2>10. QED  BY <2>5, <2>9 DEF IInv
<1>12. QED  BY <1>10, <1>11

LEMMA CoreSkippedKeeps == ASSUME TypeOK, IInv, NEW r \in Requests, CoreSkipped(r) PROVE IInv'
<1> DEFINE left == req[r].todo \ Turn(req[r].todo)
           t == IF left = {} THEN AfterCore(req[r]) ELSE [req[r] EXCEPT !.todo = left]
<1>1. /\ req[r].pc \in {"remove", "add"} /\ (req[r].todo = {} \/ (~up /\ req[r].cur = {})) /\ Set(r, t)
      /\ UNCHANGED <<rows, cache, up, dead, core, boot, resyncs, reloads, saves, suspect>>
  BY DEF CoreSkipped, ChecksRunning, dbVars, coreVars, spawned, counts
<1>2. req[r] \in Handlers /\ Shape(req[r]) /\ Open(r)  BY <1>1, OpenShape DEF Open
<1>3. left \subseteq req[r].todo /\ (req[r].todo = {} => left = {})  OBVIOUS
<1>4. left # {} => req[r].obj \notin Items
  <2>1. ASSUME req[r].obj \in Items PROVE left = {}
    <3>1. req[r].todo = {req[r].obj}  BY <1>1, <1>2, <2>1 DEF Shape
    <3>2. Turn(req[r].todo) = req[r].todo  BY <3>1, TurnOf
    <3>3. QED  BY <3>2
  <2>2. QED  BY <2>1
<1> HIDE DEF left
<1>5. left # {} => /\ t.pc = req[r].pc /\ t.obj = req[r].obj /\ t.act = req[r].act /\ t.new = req[r].new
                   /\ t.todo = left /\ t.cur = req[r].cur /\ t.touched = req[r].touched
  BY <1>2 DEF Handlers
<1>6. left = {} => t = AfterCore(req[r])  OBVIOUS
<1> HIDE DEF t
<1>7. Shape(t)
  <2>1. CASE left = {}  BY <1>1, <1>2, <1>6, <2>1, AfterCoreShape DEF Shape
  <2>2. CASE left # {}
    <3>1. req[r].cur = {} /\ left \subseteq Concerns(req[r].obj)  BY <1>1, <1>2, <1>3, <2>2 DEF Shape
    <3>2. req[r].act = "job" => Rebuilds(t)  BY <1>1, <1>5, <2>2 DEF Rebuilds
    <3>3. QED  BY <1>1, <1>2, <1>4, <1>5, <2>2, <3>1, <3>2 DEF Shape
  <2>3. QED  BY <2>1, <2>2
<1>8. /\ t.pc # "idle" => t.obj = req[r].obj /\ t.act = req[r].act /\ t.new = req[r].new
      /\ t.pc = "idle" \/ (Rebuilds(t) <=> Rebuilds(req[r]))
      /\ t.pc = "idle" => Rebuilds(req[r])
      /\ t.pc # "idle" /\ req[r].todo = {} => t.touched = req[r].touched /\ ~Rebuilds(req[r])
  <2>1. CASE left = {} /\ req[r].act = "job"
    BY <1>1, <1>2, <1>6, <2>1, AfterCoreType, IdleShape DEF Rebuilds
  <2>2. CASE left = {} /\ req[r].act # "job"
    BY <1>2, <1>6, <2>2, AfterCoreType DEF Rebuilds
  <2>3. CASE left # {}  BY <1>1, <1>3, <1>5, <2>3 DEF Rebuilds
  <2>4. QED  BY <2>1, <2>2, <2>3
<1>9. Steps(r, t)  BY <1>1, <1>2, <1>7, <1>8, SetAlike DEF Steps
<1>10. Shaped' /\ Numbered' /\ Lone' /\ Meets' /\ Reads' /\ Wrecked' /\ BaseFits'
  BY <1>1, <1>9, StepKeeps
<1>11. up => req[r].todo = {}  BY <1>1
<1>12. up /\ resyncs' = 0 => \A i \in (Items \cap Concerns(req[r].obj)) \ suspect' :
            /\ ~req[r].touched /\ ~Rebuilds(req[r]) => core'.items[i] = Built(rows, i)
            /\ core'.items[i] = Built(View(r), i)
  BY <1>1, <1>2, <1>11, OpenShape
<1>13. Rebuilds(req[r]) => View(r) = rows  BY ViewType
<1>14. ItemsFit'  BY <1>1, <1>8, <1>9, <1>11, <1>12, <1>13, StepItemsOn
<1>15. QED  BY <1>10, <1>14 DEF IInv

LEMMA FailuresKeep ==
  ASSUME TypeOK, IInv, NEW r \in Requests,
         RemoveFailed(r) \/ CallFailed(r) \/ WriteFailed(r) \/ CommitFailed(r)
  PROVE  IInv'
<1>1. req[r] \in Handlers /\ Shape(req[r])  BY OpenShape
<1>2. CASE RemoveFailed(r)
  <2>1. PICK j \in Turn(req[r].todo) : core' = [core EXCEPT !.items[j] = Out]  BY <1>2 DEF RemoveFailed
  <2>2. j \in Items /\ j \in Concerns(req[r].obj)  BY <1>1, TurnOf DEF Handlers, Shape
  <2>3. /\ core'.base = core.base
        /\ \A i \in Items : i \in Concerns(req[r].obj) \/ core'.items[i] = core.items[i]
    BY <2>1, <2>2, ItemStep
  <2>4. /\ CoreFailed(r, TRUE) /\ UNCHANGED <<reloads, boot, up, dead, saves>>
        /\ req[r].pc = "remove"
    BY <1>2 DEF RemoveFailed, Mishap, Working
  <2>5. Open(r) /\ req[r].obj # Base  BY <1>1, <2>4 DEF Open, Shape
  <2>6. QED  BY <2>3, <2>4, <2>5, CoreFailedKeeps
<1>3. CASE CallFailed(r)
  <2>1. /\ CoreFailed(r, req[r].touched \/ Rebuilds(req[r]))
        /\ UNCHANGED <<reloads, boot, up, dead, core, saves>>
        /\ req[r].pc \in {"remove", "add"}
    BY <1>3 DEF CallFailed, Mishap, Working, coreVars, counts
  <2>2. Open(r) /\ req[r].obj # Base  BY <1>1, <2>1 DEF Open, Shape
  <2>3. QED  BY <2>1, <2>2, CoreFailedKeeps
<1>4. CASE WriteFailed(r)
  <2>1. /\ RolledBack(r, req[r].touched) /\ req[r].pc = "write"
        /\ UNCHANGED <<cache, reloads, resyncs, boot, up, dead, core, saves>>
    BY <1>4 DEF WriteFailed, Mishap, coreVars, spawned, counts
  <2>2. Open(r) /\ ~Rebuilds(req[r])  BY <2>1 DEF Open, Rebuilds
  <2>3. QED  BY <2>1, <2>2, RolledBackKeeps
<1>5. CASE CommitFailed(r)
  <2>1. /\ RolledBack(r, req[r].touched) /\ req[r].pc = "record"
        /\ UNCHANGED <<cache, reloads, resyncs, boot, up, dead, core, saves>>
    BY <1>5 DEF CommitFailed, Mishap, coreVars, spawned, counts
  <2>2. Open(r) /\ ~Rebuilds(req[r])  BY <2>1 DEF Open, Rebuilds
  <2>3. QED  BY <2>1, <2>2, RolledBackKeeps
<1>6. QED  BY <1>2, <1>3, <1>4, <1>5

LEMMA DisconnectKeeps == ASSUME TypeOK, IInv, NEW r \in Requests, Disconnect(r) PROVE IInv'
<1> DEFINE t == [req[r] EXCEPT !.pc = "add"]
<1>1. /\ req[r].pc = "disconnect" /\ Set(r, t)
      /\ UNCHANGED <<rows, cache, up, dead, core, boot, resyncs, reloads, saves, suspect>>
  BY DEF Disconnect, dbVars, coreVars, spawned, counts
<1>2. req[r] \in Handlers /\ Shape(req[r]) /\ Open(r)  BY <1>1, OpenShape DEF Open
<1>3. /\ t.pc = "add" /\ t.obj = req[r].obj /\ t.act = req[r].act /\ t.new = req[r].new
      /\ t.todo = req[r].todo /\ t.cur = req[r].cur /\ t.touched = req[r].touched
  BY <1>2 DEF Handlers
<1> HIDE DEF t
<1>4. req[r].obj \in Shared /\ req[r].act # "del"  BY <1>1, <1>2 DEF Shape
<1>10. (Rebuilds(t) <=> Rebuilds(req[r])) /\ (req[r].act = "job" => Rebuilds(t))
  BY <1>1, <1>3 DEF Rebuilds
<1>5. Shape(t)  BY <1>1, <1>2, <1>3, <1>4, <1>10, Things DEF Shape
<1>6. Steps(r, t)  BY <1>1, <1>2, <1>3, <1>5, SetAlike DEF Steps
<1>7. Shaped' /\ Numbered' /\ Lone' /\ Meets' /\ Reads' /\ Wrecked' /\ BaseFits'
  BY <1>1, <1>6, StepKeeps
<1>8. up /\ resyncs' = 0 => \A i \in (Items \cap Concerns(req[r].obj)) \ suspect' :
            /\ ~t.touched /\ ~Rebuilds(t) => core'.items[i] = Built(rows, i)
            /\ i \notin t.todo => core'.items[i] = Built(View(r), i)
  BY <1>1, <1>2, <1>3, <1>10, OpenShape
<1>9. ItemsFit'  BY <1>1, <1>3, <1>6, <1>8, <1>10, StepItemsOn
<1>11. QED  BY <1>7, <1>9 DEF IInv

LEMMA WriteKeeps == ASSUME TypeOK, IInv, NEW r \in Requests, Write(r) PROVE IInv'
<1> DEFINE o == req[r].obj
           first == CoreFirst(o, req[r].act)
           last == first \/ o = Base \/ req[r].act = "job"
           t == [req[r] EXCEPT
                 !.pc = IF last THEN "record" ELSE CoreStep(req[r].act),
                 !.todo = IF last THEN {} ELSE CoreWork(o),
                 !.read = TRUE]
<1>1. /\ req[r].pc = "write" /\ Set(r, t)
      /\ IF o = Base THEN cache' = req[r].new /\ reloads' = reloads \cup {req[r].new}
                     ELSE cache' = cache /\ reloads' = reloads
      /\ UNCHANGED <<rows, up, dead, core, boot, resyncs, saves, suspect>>
  BY DEF Write, coreVars, counts
<1>2. req[r] \in Handlers /\ Shape(req[r]) /\ Open(r) /\ o \in Objects
  BY <1>1, OpenShape DEF Open, Handlers
<1>3. /\ t.pc = IF last THEN "record" ELSE CoreStep(req[r].act)
      /\ t.todo = IF last THEN {} ELSE CoreWork(o)
      /\ t.obj = o /\ t.act = req[r].act /\ t.new = req[r].new
      /\ t.cur = req[r].cur /\ t.touched = req[r].touched
  BY <1>2 DEF Handlers
<1> HIDE DEF t
<1>4. CoreStep(req[r].act) \in {"add", "remove"}  BY DEF CoreStep
<1>15. /\ ~Rebuilds(t) /\ ~Rebuilds(req[r]) /\ (req[r].act = "job" => ~req[r].touched)
       /\ o \in Items \/ o \in Shared \/ o = Base
  BY <1>1, <1>2, <1>3, <1>4 DEF Rebuilds, Shape, Objects
<1>5. first => o \in Items  BY Things DEF CoreFirst
<1>6. ~first => req[r].act # "del" /\ ~req[r].touched  BY <1>1, <1>2, OpenShape DEF Shape
<1>7. CoreWork(o) \subseteq Concerns(o) /\ (o \in Items => CoreWork(o) = {o} /\ Concerns(o) = {o})
  <2>1. CASE o \in Shared  BY <2>1, Things DEF CoreWork
  <2>2. CASE o \notin Shared  BY <1>2, <2>2, Things DEF CoreWork, Concerns
  <2>3. QED  BY <2>1, <2>2
<1>8. Shape(t)
  <2>1. t.cur = {} /\ req[r].cur = {}  BY <1>1, <1>2, <1>3 DEF Shape
  <2>2. t.todo \subseteq Concerns(o)  BY <1>3, <1>7
  <2>3. /\ t.new = 0 <=> t.act = "del"
        /\ t.act \in {"new", "del"} => t.obj \in Items
        /\ t.act = "job" => t.obj = Clients /\ ~t.touched
    BY <1>1, <1>2, <1>3, <1>15 DEF Shape
  <2>4. t.obj = Base => ~t.touched /\ t.pc = "record"  BY <1>2, <1>3 DEF Shape
  <2>5. t.pc \in {"record", "add", "remove"}  BY <1>3, <1>4
  <2>6. t.obj \in Items /\ t.pc \in {"remove", "add"} => t.todo = {t.obj}  BY <1>3, <1>7, Things
  <2>7. t.act = "del" => t.pc = "record"  BY <1>3, <1>6
  <2>8. QED  BY <1>3, <2>1, <2>2, <2>3, <2>4, <2>5, <2>6, <2>7 DEF Shape
<1>9. Steps(r, t)  BY <1>1, <1>2, <1>3, <1>8, SetAlike DEF Steps
<1>10. Shaped' /\ Numbered' /\ Lone' /\ Meets' /\ Reads' /\ Wrecked' /\ BaseFits'
  <2>1. CASE o = Base
    <3>1. t.pc = "record"  BY <1>3, <2>1
    <3>2. QED  BY <1>1, <1>9, <2>1, <3>1, StepKeeps
  <2>2. CASE o # Base  BY <1>1, <1>9, <2>2, StepKeeps
  <2>3. QED  BY <2>1, <2>2
<1>11. ASSUME up, resyncs' = 0, NEW i \in (Items \cap Concerns(o)) \ suspect'
       PROVE  /\ ~t.touched /\ ~Rebuilds(t) => core'.items[i] = Built(rows, i)
              /\ \/ t.pc = "record" /\ t.act # "job"
                 \/ t.pc = "write" /\ CoreFirst(t.obj, t.act)
                 \/ t.pc \in {"remove", "disconnect", "add"} /\ i \notin t.todo
                 => core'.items[i] = Built(View(r), i)
  <2>1. o # Base  BY Things
  <2>2. ~req[r].touched => core.items[i] = Built(rows, i)  BY <1>1, <1>2, <1>11, <1>15, OpenShape
  <2>3. CASE first
    <3>1. core.items[i] = Built(View(r), i)  BY <1>1, <1>2, <1>11, <2>3, OpenShape
    <3>2. QED  BY <1>1, <1>3, <2>2, <3>1
  <2>4. CASE ~last
    <3>1. t.pc # "record" /\ t.pc # "write" /\ t.todo = CoreWork(o)  BY <1>3, <1>4, <2>1, <2>4
    <3>2. core.items[i] = Built(rows, i)  BY <1>6, <2>2, <2>4
    <3>3. ASSUME i \notin CoreWork(o) PROVE core.items[i] = Built(View(r), i)
      <4>1. o \in Shared /\ i \in Concerns(o)
        <5>1. o \notin Items  BY <1>7, <3>3
        <5>2. QED  BY <1>15, <2>1, <5>1
      <4>2. rows[i] = 0  BY <3>3, <4>1 DEF CoreWork
      <4>3. View(r)[i] = 0  BY <1>15, <4>1, <4>2, ViewType, Things
      <4>4. QED  BY <3>2, <4>2, <4>3 DEF Built
    <3>4. QED  BY <1>1, <3>1, <3>2, <3>3
  <2>5. CASE req[r].act = "job" /\ ~first
    <3>1. core.items[i] = Built(rows, i)  BY <1>15, <2>2, <2>5
    <3>2. t.pc = "record" /\ t.act = "job"  BY <1>3, <2>5
    <3>3. QED  BY <1>1, <3>1, <3>2
  <2>6. QED  BY <2>1, <2>3, <2>4, <2>5
<1>12. t.pc # "idle"  BY <1>3, <1>4
<1>13. ItemsFit'  BY <1>1, <1>9, <1>11, <1>12, <1>15, StepItemsOn
<1>14. QED  BY <1>10, <1>13 DEF IInv

\* A process that has just started: nothing is open and the core is down.
LEMMA RestartedKeeps == Restarted => IInv'
<1> SUFFICES ASSUME Restarted PROVE IInv'
  OBVIOUS
<1>1. (\A r \in Requests : req'[r] = Idle) /\ ~up' /\ ~dead' /\ ~boot'.on /\ reloads' = {}
  BY DEF Restarted, NoBoot
<1>2. \A r \in Requests : Shape(req'[r]) /\ req'[r].pc = "idle"  BY <1>1, IdleShape
<1>3. Shaped' /\ Numbered' /\ Lone'  BY <1>1, <1>2 DEF Shaped, Numbered, Lone, Open
<1>4. Meets' /\ Reads' /\ Wrecked' /\ ItemsFit' /\ BaseFits'
  BY <1>1 DEF Meets, Reads, Wrecked, ItemsFit, BaseFits
<1>5. QED  BY <1>3, <1>4 DEF IInv

LEMMA ContinueKeeps == ASSUME TypeOK, IInv, NEW r \in Requests, Continue(r) PROVE IInv'
<1>1. CASE Commit(r)
  <2>1. /\ req[r].pc = "record" /\ Open(r) /\ ~Rebuilds(req[r])
        /\ UNCHANGED <<cache, coreVars, spawned, saves, suspect>>
    BY <1>1 DEF Commit, Open, Rebuilds, counts
  <2>2. CASE req[r].act = "job"
    <3>1. Committed(r, Rebuilder(r))  BY <1>1, <2>2 DEF Commit, Rebuilder
    <3>2. QED  BY <2>1, <2>2, <3>1, RebuilderKeeps
  <2>3. CASE req[r].act # "job"
    <3>1. Committed(r, Idle)  BY <1>1, <2>3 DEF Commit
    <3>2. QED  BY <2>1, <2>3, <3>1, CommittedKeeps
  <2>4. QED  BY <2>2, <2>3
<1>2. CASE Panic(r)
  <2>1. /\ ~up \/ dead
        /\ Open(r) /\ ~Rebuilds(req[r]) /\ Committed(r, Idle)
        /\ UNCHANGED <<cache, coreVars, spawned, saves, suspect>>
    BY <1>2 DEF Panic, Open, Rebuilds, counts
  <2>2. QED  BY <2>1, CommittedKeeps
<1>3. CASE JobPanic(r)  BY <1>3, RestartedKeeps DEF JobPanic
<1>4. QED
  BY <1>1, <1>2, <1>3, CoreSkippedKeeps, RemoveKeeps, AddKeeps, FailuresKeep, DisconnectKeeps, WriteKeeps
  DEF Continue

\* A save that begins: what another one has under way as well is suspect from now on.
LEMMA BeginKeeps == ASSUME TypeOK, IInv, NEW r \in Requests, Begin(r) PROVE IInv'
<1>1. PICK q \in Handlers :
           /\ Set(r, q) /\ Shape(q) /\ ~q.touched /\ ~Rebuilds(q)
           /\ q.new \in {0, saves + 1} /\ q.cur = {}
           /\ q.pc # "idle" /\ q.pc # "record"
           /\ q.pc = "write" => ~CoreFirst(q.obj, q.act)
           /\ q.pc # "write" => q.todo = Concerns(q.obj)
           /\ boot' = [boot EXCEPT !.met = IF boot.on THEN @ \cup Concerns(q.obj) ELSE @]
           /\ suspect' = suspect \cup (Concerns(q.obj) \cap InFlight)
  BY Beginnings
<1>2. /\ saves' = saves + 1 /\ saves \in Nat
      /\ UNCHANGED <<rows, cache, up, dead, core, resyncs, reloads>>
  BY Counted DEF dbVars, spawned, TypeOK
<1>3. req[r].pc = "idle"  BY DEF Begin, Open
<1>4. \A s \in Requests : req'[s] = IF s = r THEN q ELSE req[s]  BY <1>1, SetType
<1>5. /\ boot'.on = boot.on /\ boot'.base = boot.base /\ boot'.items = boot.items
      /\ boot'.unread = boot.unread /\ boot.met \subseteq boot'.met
      /\ boot.on => Concerns(q.obj) \subseteq boot'.met
  <2>1. boot \in Starts  BY DEF TypeOK, Starts
  <2>2. QED  BY <1>1, <2>1 DEF Starts
<1>6. \A s \in Requests : req[s].pc # "idle" => Concerns(req[s].obj) \subseteq InFlight
  BY DEF InFlight, ConcernedBy, Open
<1>7. Shaped'  BY <1>1, <1>4 DEF IInv, Shaped
<1>8. Numbered'
  <2>1. \A s \in Requests : req[s].pc # "idle" => req[s].new \in Nat /\ req[s].new <= saves
    BY DEF IInv, Numbered, Open, TypeOK, Versions
  <2>2. \A s \in Requests : req'[s].pc # "idle" => req'[s].new <= saves'  BY <1>1, <1>2, <1>4, <2>1
  <2>3. \A s, u \in Requests : req[s].pc # "idle" /\ req[u].pc # "idle" /\ s # u =>
            req[s].new = 0 \/ req[s].new # req[u].new
    BY DEF IInv, Numbered, Open
  <2>4. \A s \in Requests : req[s].pc # "idle" => q.new = 0 \/ req[s].new # q.new  BY <1>1, <1>2, <2>1
  <2>5. \A s \in Requests : req[s].pc # "idle" => req[s].new = 0 \/ req[s].new # q.new
    BY <1>1, <1>2, <2>1
  <2>6. \A s, u \in Requests : req'[s].pc # "idle" /\ req'[u].pc # "idle" /\ s # u =>
            req'[s].new = 0 \/ req'[s].new # req'[u].new
    BY <1>4, <2>3, <2>4, <2>5
  <2>7. \A v \in reloads : v \in Nat /\ 0 < v /\ v <= saves  BY DEF IInv, Numbered, TypeOK, Versions
  <2>8. \A v \in reloads' : 0 < v /\ v <= saves'  BY <1>2, <2>7
  <2>9. q.new \notin reloads'  BY <1>1, <1>2, <2>7
  <2>10. \A s \in Requests : req'[s].pc # "idle" /\ req'[s].new \in reloads' =>
            req'[s].obj = Base /\ req'[s].pc = "record"
    BY <1>2, <1>4, <2>9 DEF IInv, Numbered, Open
  <2>11. QED  BY <2>2, <2>6, <2>8, <2>10 DEF Numbered, Open
<1>9. Lone'
  <2>1. \A s, u \in Requests : req[s].pc # "idle" /\ req[u].pc # "idle" /\ s # u =>
            Concerns(req[s].obj) \cap Concerns(req[u].obj) \subseteq suspect
    BY DEF IInv, Lone, Open
  <2>2. \A s \in Requests : req[s].pc # "idle" => Concerns(req[s].obj) \cap Concerns(q.obj) \subseteq suspect'
    BY <1>1, <1>6
  <2>3. suspect \subseteq suspect'  BY <1>1
  <2>4. QED  BY <1>4, <2>1, <2>2, <2>3 DEF Lone, Open
<1>10. Meets'
  <2>1. boot.on => \A s \in Requests : req[s].pc # "idle" =>
            \/ Concerns(req[s].obj) \subseteq boot.met
            \/ req[s].obj = Base /\ req[s].pc = "record" /\ req[s].new = boot.base
    BY DEF IInv, Meets, Open
  <2>2. QED  BY <1>4, <1>5, <2>1 DEF Meets, Open
<1>11. Reads'  BY <1>2, <1>5 DEF IInv, Reads
<1>12. ItemsFit'
  <2> SUFFICES ASSUME up, resyncs = 0, NEW i \in Items \ suspect' PROVE Fits(i)'
    BY <1>2 DEF ItemsFit
  <2>1. i \notin suspect /\ Fits(i)  BY <1>1 DEF IInv, ItemsFit
  <2>2. ASSUME i \in Concerns(q.obj), NEW s \in Requests, req[s].pc # "idle"
        PROVE  i \notin Concerns(req[s].obj)
    BY <1>1, <1>6, <2>2
  <2>3. \A s \in Requests \ {r} : View(s)' = View(s)  BY <1>2, <1>4 DEF View
  <2>4. (\A s \in Requests : req'[s].pc # "idle" => i \notin Concerns(req'[s].obj)) =>
            core.items[i] = Built(rows, i)
    BY <1>3, <1>4, <2>1 DEF Fits, Open
  <2>5. ASSUME i \in Concerns(q.obj)
        PROVE  /\ core.items[i] = Built(rows, i)
               /\ ~(q.pc = "write" /\ CoreFirst(q.obj, q.act)) /\ q.pc # "record"
               /\ ~(q.pc \in {"remove", "disconnect", "add"} /\ i \notin q.todo)
    BY <1>1, <2>1, <2>2, <2>5 DEF Fits, Open
  <2>6. ASSUME NEW s \in Requests, req'[s].pc # "idle", i \in Concerns(req'[s].obj)
        PROVE  /\ ~req'[s].touched /\ ~Rebuilds(req'[s]) => core.items[i] = Built(rows, i)
               /\ \/ req'[s].pc = "record" /\ req'[s].act # "job"
                  \/ req'[s].pc = "write" /\ CoreFirst(req'[s].obj, req'[s].act)
                  \/ req'[s].pc \in {"remove", "disconnect", "add"} /\ i \notin req'[s].todo
                  => core.items[i] = Built(View(s)', i)
    <3>1. CASE s = r  BY <1>4, <2>5, <2>6, <3>1
    <3>2. CASE s # r
      <4>1. req'[s] = req[s] /\ View(s)' = View(s)  BY <1>4, <2>3, <3>2
      <4>2. QED  BY <2>1, <2>6, <4>1 DEF Fits, Open
    <3>3. QED  BY <3>1, <3>2
  <2>7. QED  BY <1>2, <2>4, <2>6 DEF Fits, Open
<1>13. BaseFits'  BY <1>1, <1>2 DEF IInv, BaseFits
<1>14. Wrecked'  BY <1>1, <1>2 DEF IInv, Wrecked
<1>15. QED  BY <1>7, <1>8, <1>9, <1>10, <1>11, <1>12, <1>13, <1>14 DEF IInv

-----------------------------------------------------------------------------
(* The core and the goroutines.                                            *)

LEMMA SameRequests ==
  ASSUME TypeOK, IInv, UNCHANGED <<req, saves>>, reloads' \subseteq reloads, suspect \subseteq suspect'
  PROVE  Shaped' /\ Numbered' /\ Lone'
<1>1. Shaped'  BY DEF IInv, Shaped
<1>2. Numbered'  BY DEF IInv, Numbered, Open
<1>3. Lone'  BY DEF IInv, Lone, Open
<1>4. QED  BY <1>1, <1>2, <1>3

LEMMA StartCoreKeeps == ASSUME TypeOK, IInv, StartCore PROVE IInv'
<1>1. InFlight \in SUBSET (Items \cup {Base}) /\ cache \in Versions
  BY FlightType DEF InFlight, TypeOK
<1>2. /\ Booting(cache, InFlight)
      /\ UNCHANGED <<rows, cache, req, resyncs, reloads, saves, suspect>>
  BY DEF StartCore, dbVars, spawned, counts
<1>3. ~up' /\ ~dead' /\ boot'.on /\ boot'.base = cache /\ boot'.unread = Items /\ boot'.met = InFlight
  BY <1>1, <1>2, BootingType
<1>4. Shaped' /\ Numbered' /\ Lone'  BY <1>2, SameRequests
<1>5. Meets'
  <2>1. \A r \in Requests : req[r].pc # "idle" => Concerns(req[r].obj) \subseteq InFlight
    BY DEF InFlight, ConcernedBy, Open
  <2>2. QED  BY <1>2, <1>3, <2>1 DEF Meets, Open
<1>6. Reads'  BY <1>2, <1>3 DEF Reads
<1>7. ItemsFit' /\ BaseFits' /\ Wrecked'  BY <1>3 DEF ItemsFit, BaseFits, Wrecked
<1>8. QED  BY <1>4, <1>5, <1>6, <1>7 DEF IInv

LEMMA ReadItemKeeps == ASSUME TypeOK, IInv, NEW j \in Items, ReadItem(j) PROVE IInv'
<1>1. UNCHANGED <<rows, cache, req, up, dead, core, resyncs, reloads, saves, suspect>>
  BY DEF ReadItem, dbVars, spawned, counts
<1>2. /\ boot.on /\ boot'.on /\ boot'.base = boot.base /\ boot'.met = boot.met
      /\ boot'.unread = boot.unread \ {j}
      /\ \A i \in Items : boot'.items[i] = IF i = j THEN Built(rows, j) ELSE boot.items[i]
  <2>1. boot \in Starts  BY DEF TypeOK, Starts
  <2>2. boot' = [boot EXCEPT !.items[j] = Built(rows, j), !.unread = boot.unread \ {j}] /\ boot.on
    BY DEF ReadItem
  <2>3. QED  BY <2>1, <2>2 DEF Starts
<1>3. Shaped' /\ Numbered' /\ Lone'  BY <1>1, SameRequests
<1>4. Meets'  BY <1>1, <1>2 DEF IInv, Meets, Open
<1>5. Reads'  BY <1>1, <1>2 DEF IInv, Reads
<1>6. ItemsFit'
  <2>1. ~up'  BY <1>1, <1>2 DEF IInv, Reads
  <2>2. QED  BY <2>1 DEF ItemsFit
<1>7. BaseFits' /\ Wrecked'  BY <1>1 DEF IInv, BaseFits, Wrecked
<1>8. QED  BY <1>3, <1>4, <1>5, <1>6, <1>7 DEF IInv

\* A start that ends: what it did not meet it has read as saved.
LEMMA StartedKeeps == ASSUME TypeOK, IInv, Started PROVE IInv'
<1>1. /\ boot.on /\ boot.unread = {} /\ boot' = NoBoot /\ suspect' = boot.met
      /\ UNCHANGED <<rows, cache, req, dead, resyncs, reloads, saves>>
      /\ core' = [base |-> boot.base, items |-> boot.items]
  BY DEF Started, dbVars, spawned, counts
<1>2. ~boot'.on  BY <1>1 DEF NoBoot
<1>3. Shaped' /\ Numbered'
  <2>1. Shaped'  BY <1>1 DEF IInv, Shaped
  <2>2. Numbered'  BY <1>1 DEF IInv, Numbered, Open
  <2>3. QED  BY <2>1, <2>2
<1>4. \A r \in Requests : req[r].pc # "idle" =>
            \/ Concerns(req[r].obj) \subseteq boot.met
            \/ req[r].obj = Base /\ req[r].pc = "record" /\ req[r].new = boot.base
  BY <1>1 DEF IInv, Meets, Open
<1>5. \A r \in Requests : req[r].pc # "idle" /\ req[r].obj = Base => req[r].new # 0
  <2>1. \A r \in Requests : Shape(req[r]) /\ req[r].act \in {"new", "edit", "del", "job"}
    BY DEF IInv, Shaped, TypeOK
  <2>2. \A r \in Requests : req[r].obj = Base => req[r].act = "edit"  BY <2>1, Things DEF Shape
  <2>3. QED  BY <2>1, <2>2 DEF Shape
<1>6. Lone'
  <2>1. \A r, s \in Requests : req[r].pc # "idle" /\ req[s].pc # "idle" /\ r # s =>
            req[r].new = 0 \/ req[r].new # req[s].new
    BY DEF IInv, Numbered, Open
  <2>2. \A r, s \in Requests : req[r].pc # "idle" /\ req[s].pc # "idle" /\ r # s =>
            Concerns(req[r].obj) \cap Concerns(req[s].obj) \subseteq boot.met
    BY <1>4, <1>5, <2>1
  <2>3. QED  BY <1>1, <2>2 DEF Lone, Open
<1>7. Meets' /\ Reads' /\ Wrecked'
  <2>1. ~dead'  BY <1>1 DEF IInv, Reads
  <2>2. QED  BY <1>2, <2>1 DEF Meets, Reads, Wrecked
<1>8. ItemsFit'
  <2> SUFFICES ASSUME NEW i \in Items \ boot.met PROVE Fits(i)'
    BY <1>1 DEF ItemsFit
  <2>1. core'.items[i] = Built(rows', i)  BY <1>1 DEF IInv, Reads
  <2>2. \A r \in Requests : req'[r].pc # "idle" => i \notin Concerns(req'[r].obj)
    BY <1>1, <1>4, Things
  <2>3. QED  BY <2>1, <2>2 DEF Fits, Open
<1>9. BaseFits'  BY <1>1 DEF IInv, Reads, BaseFits
<1>10. QED  BY <1>3, <1>6, <1>7, <1>8, <1>9 DEF IInv

\* A start with what could not be decoded, or that is stopped: everything is suspect.
LEMMA SuspectAll ==
  ASSUME TypeOK, IInv, UNCHANGED <<rows, cache, req, reloads, saves>>, suspect' = Everything, ~boot'.on
  PROVE  IInv'
<1>1. Shaped' /\ Numbered'
  <2>1. Shaped'  BY DEF IInv, Shaped
  <2>2. Numbered'  BY DEF IInv, Numbered, Open
  <2>3. QED  BY <2>1, <2>2
<1>2. \A r \in Requests : Concerns(req'[r].obj) \subseteq suspect'  BY Things DEF TypeOK
<1>3. Lone'  BY <1>2 DEF Lone
<1>4. Meets' /\ Reads' /\ Wrecked'  BY DEF Meets, Reads, Wrecked
<1>5. ItemsFit' /\ BaseFits'  BY Things DEF ItemsFit, BaseFits
<1>6. QED  BY <1>1, <1>3, <1>4, <1>5 DEF IInv

LEMMA StartedGarbledKeeps == ASSUME TypeOK, IInv, StartedGarbled PROVE IInv'
<1>1. ~boot'.on /\ suspect' = Everything /\ UNCHANGED <<rows, cache, req, reloads, saves>>
  BY DEF StartedGarbled, NoBoot, Mishap, dbVars, spawned
<1>2. QED  BY <1>1, SuspectAll

\* Stopping the core, at any moment.
LEMMA StoppedKeeps ==
  ASSUME TypeOK, IInv, Stopped, UNCHANGED <<rows, cache, req, reloads, saves>>
  PROVE  IInv'
<1>1. CASE UNCHANGED <<coreVars, suspect>> /\ boot.on
  <2>1. UNCHANGED <<up, dead, core, boot, suspect>>  BY <1>1 DEF coreVars
  <2>2. Shaped' /\ Numbered' /\ Lone'  BY <2>1, SameRequests
  <2>3. Meets' /\ Reads' /\ Wrecked'  BY <2>1 DEF IInv, Meets, Reads, Wrecked, Open
  <2>4. ~up'  BY <1>1, <2>1 DEF IInv, Reads
  <2>5. ItemsFit' /\ BaseFits'  BY <2>4 DEF ItemsFit, BaseFits
  <2>6. QED  BY <2>2, <2>3, <2>5 DEF IInv
<1>2. CASE ~up' /\ ~dead' /\ ~boot'.on /\ suspect' = suspect
  <2>1. Shaped' /\ Numbered' /\ Lone'  BY <1>2, SameRequests
  <2>2. Meets' /\ Reads' /\ Wrecked'  BY <1>2 DEF Meets, Reads, Wrecked
  <2>3. ItemsFit' /\ BaseFits'  BY <1>2 DEF ItemsFit, BaseFits
  <2>4. QED  BY <2>1, <2>2, <2>3 DEF IInv
<1>3. CASE ~boot'.on /\ suspect' = Everything  BY <1>3, SuspectAll
<1>4. QED  BY <1>1, <1>2, <1>3 DEF Stopped, StoppedMidStart, NoBoot, coreVars

LEMMA StopsKeep == ASSUME TypeOK, IInv, StartFailed \/ Resync \/ RestartCore PROVE IInv'
<1>1. CASE StartFailed
  <2>1. /\ UNCHANGED <<rows, cache, req, reloads, saves, suspect, up, dead>>
        /\ boot.on /\ ~boot'.on
    BY <1>1 DEF StartFailed, NoBoot, dbVars, spawned, counts
  <2>2. ~up' /\ ~dead'  BY <2>1 DEF IInv, Reads
  <2>3. Shaped' /\ Numbered' /\ Lone'  BY <2>1, SameRequests
  <2>4. Meets' /\ Reads' /\ Wrecked'  BY <2>1, <2>2 DEF Meets, Reads, Wrecked
  <2>5. ItemsFit' /\ BaseFits'  BY <2>2 DEF ItemsFit, BaseFits
  <2>6. QED  BY <2>3, <2>4, <2>5 DEF IInv
<1>2. CASE Resync  BY <1>2, StoppedKeeps DEF Resync, dbVars, counts
<1>3. CASE RestartCore  BY <1>3, StoppedKeeps DEF RestartCore, dbVars, spawned
<1>4. QED  BY <1>1, <1>2, <1>3

\* The rotation of short IDs: until its restart of the core nothing is claimed.
LEMMA RotateKeeps == ASSUME TypeOK, IInv, Rotate PROVE IInv'
<1>1. /\ rows' = [rows EXCEPT ![Tls] = saves + 1] /\ saves' = saves + 1 /\ resyncs' = resyncs + 1
      /\ boot' = [boot EXCEPT !.met = IF boot.on THEN @ \cup TlsUsers ELSE @]
      /\ UNCHANGED <<cache, up, dead, core, reloads, suspect>>
  BY DEF Rotate
<1>2. \A r \in Requests : Alike(req'[r], req[r])  BY OvertakenType DEF Rotate
<1>3. \A r \in Requests : req'[r].pc = req[r].pc /\ req'[r].obj = req[r].obj /\ req'[r].new = req[r].new
  BY <1>2 DEF Alike
<1>4. /\ boot'.on = boot.on /\ boot'.base = boot.base /\ boot'.items = boot.items
      /\ boot'.unread = boot.unread /\ boot.met \subseteq boot'.met
      /\ boot.on => TlsUsers \subseteq boot'.met
  <2>1. boot \in Starts  BY DEF TypeOK, Starts
  <2>2. QED  BY <1>1, <2>1 DEF Starts
<1>5. Shaped'
  <2>1. \A r \in Requests : Shape(req[r])  BY DEF IInv, Shaped
  <2>2. \A r \in Requests : Shape(req'[r])  BY <1>2, <2>1, AlikeShape
  <2>3. QED  BY <2>2 DEF Shaped
<1>6. Numbered'
  <2>1. \A r \in Requests : req[r].pc # "idle" => req[r].new \in Nat /\ req[r].new <= saves
    BY DEF IInv, Numbered, Open, TypeOK, Versions
  <2>2. \A v \in reloads : v \in Nat /\ 0 < v /\ v <= saves  BY DEF IInv, Numbered, TypeOK, Versions
  <2>3. saves \in Nat  BY DEF TypeOK
  <2>4. QED  BY <1>1, <1>3, <2>1, <2>2, <2>3 DEF IInv, Numbered, Open
<1>7. Lone'  BY <1>1, <1>3 DEF IInv, Lone, Open
<1>8. Meets'
  <2>1. boot.on => \A r \in Requests : req[r].pc # "idle" =>
            \/ Concerns(req[r].obj) \subseteq boot.met
            \/ req[r].obj = Base /\ req[r].pc = "record" /\ req[r].new = boot.base
    BY DEF IInv, Meets, Open
  <2>2. QED  BY <1>3, <1>4, <2>1 DEF Meets, Open
<1>9. Reads'
  <2>1. ASSUME NEW i \in Items \ TlsUsers PROVE Built(rows', i) = Built(rows, i)
    <3>1. rows'[i] = rows[i] /\ rows'[Clients] = rows[Clients]  BY <1>1, Things DEF TypeOK
    <3>2. QED  BY <2>1, <3>1, BuiltSame
  <2>2. QED  BY <1>1, <1>4, <2>1 DEF IInv, Reads
<1>10. ItemsFit'
  <2>1. resyncs' # 0  BY <1>1 DEF TypeOK
  <2>2. QED  BY <2>1 DEF ItemsFit
<1>11. BaseFits' /\ Wrecked'  BY <1>1 DEF IInv, BaseFits, Wrecked
<1>12. QED  BY <1>5, <1>6, <1>7, <1>8, <1>9, <1>10, <1>11 DEF IInv

LEMMA ReloadKeeps == ASSUME TypeOK, IInv, NEW v \in reloads, Reload(v) PROVE IInv'
<1>1. reloads' = reloads \ {v} /\ UNCHANGED <<rows, cache, req, resyncs, saves, suspect>>
  BY DEF Reload, dbVars, counts
<1>2. Shaped' /\ Numbered' /\ Lone'  BY <1>1, SameRequests
<1>3. CASE boot.on
  <2>1. UNCHANGED <<up, dead, core, boot>>  BY <1>3 DEF Reload, coreVars
  <2>2. ~up'  BY <1>3, <2>1 DEF IInv, Reads
  <2>3. ItemsFit' /\ BaseFits'  BY <2>2 DEF ItemsFit, BaseFits
  <2>4. Meets' /\ Reads' /\ Wrecked'  BY <1>1, <2>1 DEF IInv, Meets, Reads, Wrecked, Open
  <2>5. QED  BY <1>2, <2>3, <2>4 DEF IInv
<1>4. CASE ~boot.on
  <2> DEFINE met == ConcernedBy({r \in Requests : Open(r) /\ req[r].new # v})
                     \cup IF v = cache THEN {} ELSE {Base}
  <2>1. Booting(v, met)  BY <1>4 DEF Reload
  <2>2. met \in SUBSET (Items \cup {Base}) /\ v \in Versions
    <3>1. ConcernedBy({r \in Requests : Open(r) /\ req[r].new # v}) \in SUBSET (Items \cup {Base})
      BY FlightType
    <3>2. QED  BY <3>1 DEF TypeOK
  <2>3. \A r \in Requests : req[r].pc # "idle" /\ req[r].new # v => Concerns(req[r].obj) \subseteq met
    BY DEF ConcernedBy, Open
  <2>4. v # cache => Base \in met  OBVIOUS
  <2> HIDE DEF met
  <2>5. ~up' /\ ~dead' /\ boot'.on /\ boot'.base = v /\ boot'.unread = Items /\ boot'.met = met
    BY <2>1, <2>2, BootingType
  <2>6. \A r \in Requests : req[r].pc # "idle" /\ req[r].new = v => req[r].obj = Base /\ req[r].pc = "record"
    BY DEF IInv, Numbered, Open
  <2>7. Meets'  BY <1>1, <2>3, <2>5, <2>6 DEF Meets, Open
  <2>8. Reads'  BY <1>1, <2>4, <2>5 DEF Reads
  <2>9. ItemsFit' /\ BaseFits' /\ Wrecked'  BY <2>5 DEF ItemsFit, BaseFits, Wrecked
  <2>10. QED  BY <1>2, <2>7, <2>8, <2>9 DEF IInv
<1>5. QED  BY <1>3, <1>4

LEMMA InitIInv == Init => IInv
<1> SUFFICES ASSUME Init PROVE IInv
  OBVIOUS
<1>1. (\A r \in Requests : req[r] = Idle) /\ ~up /\ ~dead /\ ~boot.on /\ reloads = {}
  BY DEF Init, NoBoot
<1>2. \A r \in Requests : Shape(req[r]) /\ req[r].pc = "idle"  BY <1>1, IdleShape
<1>3. Shaped /\ Numbered /\ Lone  BY <1>1, <1>2 DEF Shaped, Numbered, Lone, Open
<1>4. Meets /\ Reads /\ Wrecked /\ ItemsFit /\ BaseFits
  BY <1>1 DEF Meets, Reads, Wrecked, ItemsFit, BaseFits
<1>5. QED  BY <1>3, <1>4 DEF IInv

LEMMA Preserved == TypeOK /\ IInv /\ [Next]_vars => IInv'
<1> SUFFICES ASSUME TypeOK, IInv, [Next]_vars PROVE IInv'
  OBVIOUS
<1>1. CASE UNCHANGED vars
  <2>1. UNCHANGED <<rows, cache, req, up, dead, core, boot, resyncs, reloads, saves, suspect>>
    BY <1>1 DEF vars, dbVars, coreVars, spawned, counts
  <2>2. Shaped' /\ Numbered' /\ Lone'  BY <2>1, SameRequests
  <2>3. Meets' /\ Reads' /\ Wrecked' /\ BaseFits'  BY <2>1 DEF IInv, Meets, Reads, Wrecked, BaseFits, Open
  <2>4. ItemsFit'
    <3>1. \A r \in Requests : View(r)' = View(r)  BY <2>1 DEF View
    <3>2. QED  BY <2>1, <3>1 DEF IInv, ItemsFit, Fits, Open
  <2>5. QED  BY <2>2, <2>3, <2>4 DEF IInv
<1>2. CASE Goroutine  BY <1>2, StopsKeep, ReloadKeeps DEF Goroutine
<1>3. CASE Boot  BY <1>3, StartCoreKeeps, ReadItemKeeps, StartedKeeps, StartedGarbledKeeps, StopsKeep DEF Boot
<1>4. CASE \E r \in Requests : Begin(r) \/ Continue(r)  BY <1>4, BeginKeeps, ContinueKeeps
<1>5. CASE Crash  BY <1>5, RestartedKeeps DEF Crash
<1>6. QED  BY <1>1, <1>2, <1>3, <1>4, <1>5, StopsKeep, RotateKeeps DEF Next

LEMMA Invariance == Spec => [](TypeOK /\ IInv)
<1>1. Init => TypeOK /\ IInv  BY TypeInit, InitIInv
<1>2. TypeOK /\ IInv /\ [Next]_vars => (TypeOK /\ IInv)'
  <2>1. IInv => Shaped  BY DEF IInv
  <2>2. QED  BY <2>1, TypeNext, Preserved
<1>3. QED  BY <1>1, <1>2, PTL DEF Spec

-----------------------------------------------------------------------------

\* For any number of objects and requests the state keeps its type.
THEOREM TypeCorrect == Spec => []TypeOK
  BY Invariance, PTL

\* For any number of objects, requests, failures and restarts: once nothing that would
\* still change an item is under way, a running core has it as the tables do, unless
\* one of the causes under Suspicions makes it suspect.
THEOREM AgreesHolds == Spec => []Agrees
<1>1. TypeOK /\ IInv => Agrees
  <2> SUFFICES ASSUME TypeOK, IInv PROVE Agrees
    OBVIOUS
  <2>1. ASSUME NEW i \in Items \ suspect, Settled(i) PROVE core.items[i] = Built(rows, i)
    <3>1. up /\ resyncs = 0 /\ i \notin InFlight  BY <2>1 DEF Settled
    <3>2. \A r \in Requests : Open(r) => i \notin Concerns(req[r].obj)
      BY <3>1 DEF InFlight, ConcernedBy
    <3>3. Fits(i)  BY <3>1 DEF IInv, ItemsFit
    <3>4. QED  BY <3>2, <3>3 DEF Fits
  <2>2. Settled(Base) /\ Base \notin suspect /\ reloads = {} /\ cache = rows[Base] =>
          core.base = rows[Base]
    BY DEF IInv, BaseFits, Settled
  <2>3. QED  BY <2>1, <2>2 DEF Agrees
<1>2. QED  BY <1>1, Invariance, PTL

=============================================================================
