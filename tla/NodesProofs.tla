----------------------------- MODULE NodesProofs -----------------------------
(***************************************************************************)
(* For any number of nodes, goroutines and calls: Nodes is type correct,   *)
(* no node has two health checks that nobody has cancelled, and once the   *)
(* calls about a node are over its health check and its address are right. *)
(***************************************************************************)
EXTENDS Nodes, TLAPS

USE NoneAssumption, IdsAssumption, BoundsAssumption

Rowset == [host : Hosts \cup {NoHost}, status : Statuses]
Goroutines == [id : Ids \cup {0}, pc : {"free", "lookup", "read", "dial", "store", "wait"},
               host : Hosts \cup {NoHost}, found : Statuses, cancelled : BOOLEAN]
Doings == [op : {"none", "create", "update", "delete", "startAll"},
           pc : {"idle", "row", "cache", "start", "stop", "uncache"},
           ids : SUBSET Ids, host : Hosts \cup {NoHost}, seen : SUBSET (Ids \X Hosts)]

\* A goroutine is about a node exactly while it exists.
Probing ==
    \A g \in Probers : IF prober[g].pc = "free" THEN prober[g] = Free ELSE prober[g].id \in Ids

-----------------------------------------------------------------------------
(* Types.                                                                  *)

LEMMA Blanks ==
  /\ "online" \in Statuses /\ "offline" \in Statuses
  /\ NoRow \in Rowset /\ NoRow.host = NoHost /\ Free \in Goroutines /\ Done \in Doings
  /\ Free.id = 0 /\ Free.pc = "free" /\ Free.cancelled = FALSE /\ 0 \notin Ids
  /\ Done.ids = {} /\ Done.op = "none" /\ Done.pc = "idle"
  BY DEF Statuses, NoRow, Rowset, Free, Goroutines, Done, Doings

\* Every node of the table can have a goroutine of its own when the panel starts.
LEMMA InitialStops ==
  ASSUME Init
  PROVE  /\ stopCh \in [Ids -> Probers \cup {NoProber}]
         /\ \A n \in Ids : /\ stopCh[n] # NoProber <=> n \in given
                           /\ \A k \in given \ {n} : stopCh[n] # stopCh[k]
<1> DEFINE P(s) == \A n \in Ids : /\ s[n] # NoProber <=> n \in given
                                  /\ \A k \in given \ {n} : s[n] # s[k]
<1>1. given \subseteq Ids  BY DEF Init
<1>2. PICK f \in [Ids -> Probers] : \A n, k \in Ids : f[n] = f[k] => n = k
  BY ProbersAssumption
<1>3. \E s \in [Ids -> Probers \cup {NoProber}] : P(s)
  <2> DEFINE s == [n \in Ids |-> IF n \in given THEN f[n] ELSE NoProber]
  <2>1. s \in [Ids -> Probers \cup {NoProber}]  OBVIOUS
  <2>2. P(s)  BY <1>1, <1>2
  <2>3. QED  BY <2>1, <2>2
<1>4. stopCh = CHOOSE s \in [Ids -> Probers \cup {NoProber}] : P(s)  BY DEF Init
<1>5. QED  BY <1>3, <1>4

LEMMA InitialProbers ==
  ASSUME Init, NEW g \in Probers
  PROVE  /\ prober[g] \in Goroutines
         /\ IF \E n \in given : stopCh[n] = g
            THEN /\ prober[g].id \in given /\ stopCh[prober[g].id] = g
                 /\ prober[g].pc = "lookup" /\ prober[g].cancelled = FALSE
            ELSE prober[g] = Free
<1>1. given \subseteq Ids  BY DEF Init
<1>2. CASE \E n \in given : stopCh[n] = g
  <2> DEFINE m == CHOOSE n \in given : stopCh[n] = g
  <2>1. m \in given /\ stopCh[m] = g  BY <1>2
  <2>2. prober[g] = [Free EXCEPT !.id = m, !.pc = "lookup"]  BY <1>2 DEF Init
  <2>3. QED  BY <1>1, <1>2, <2>1, <2>2, Blanks DEF Free, Goroutines
<1>3. CASE ~\E n \in given : stopCh[n] = g  BY <1>3, Blanks DEF Init
<1>4. QED  BY <1>2, <1>3

LEMMA TypeInit == Init => TypeOK /\ Probing
<1> SUFFICES ASSUME Init PROVE TypeOK /\ Probing
  OBVIOUS
<1> USE Blanks
<1>1. row \in [Ids -> Rowset]  BY DEF Init, Rowset
<1>2. conn \in [Ids -> Hosts \cup {NoHost}]  BY <1>1 DEF Init, Rowset
<1>3. prober \in [Probers -> Goroutines]
  <2>1. \A g \in Probers : prober[g] \in Goroutines  BY InitialProbers
  <2>2. prober = [g \in Probers |-> prober[g]]  BY DEF Init
  <2>3. QED  BY <2>1, <2>2
<1>4. Probing
  <2>1. given \subseteq Ids  BY DEF Init
  <2>2. QED  BY <2>1, InitialProbers DEF Probing
<1>5. call \in [Calls -> Doings]  BY DEF Init
<1>6. /\ given \in SUBSET Ids /\ suspect \in SUBSET Ids
      /\ offline \in SUBSET Hosts /\ fresh \in BOOLEAN /\ fetched \in SUBSET SUBSET Hosts
      /\ calls \in 0..MaxCalls /\ mishaps \in 0..MaxMishaps /\ reachable \in [Hosts -> BOOLEAN]
  <2>1. given \in SUBSET Ids /\ suspect \in SUBSET Ids  BY DEF Init
  <2>2. offline \in SUBSET Hosts /\ fresh \in BOOLEAN /\ fetched \in SUBSET SUBSET Hosts
    BY DEF Init
  <2>3. calls \in 0..MaxCalls /\ mishaps \in 0..MaxMishaps
    <3>1. calls = 0 /\ mishaps = 0  BY DEF Init
    <3>2. QED  BY <3>1
  <2>4. reachable \in [Hosts -> BOOLEAN]  BY DEF Init
  <2>5. QED  BY <2>1, <2>2, <2>3, <2>4
<1>7. stopCh \in [Ids -> Probers \cup {NoProber}]  BY InitialStops
<1>8. QED
  BY <1>1, <1>2, <1>3, <1>4, <1>5, <1>6, <1>7 DEF TypeOK, Rowset, Goroutines, Doings

LEMMA ProbeType ==
  ASSUME TypeOK, Probing, NEW g \in Probers, NEW q \in Goroutines,
         IF q.pc = "free" THEN q = Free ELSE q.id \in Ids, Probe(g, q)
  PROVE  prober' \in [Probers -> Goroutines] /\ Probing'
  BY DEF TypeOK, Probing, Probe, Goroutines

LEMMA TypeCheck ==
  ASSUME TypeOK, Probing, NEW g \in Probers, HealthCheck(g) \/ Exit(g)
  PROVE  TypeOK' /\ Probing'
<1> USE Blanks
<1>1. prober[g] \in Goroutines /\ (prober[g].pc # "free" => prober[g].id \in Ids)
  BY DEF TypeOK, Probing, Goroutines
<1>2. CASE LookUp(g)
  <2>1. conn[prober[g].id] \in Hosts \cup {NoHost}  BY <1>1, <1>2 DEF LookUp, TypeOK
  <2>2. PICK l \in {"read", "dial"} :
            Probe(g, [prober[g] EXCEPT !.pc = l, !.host = conn[prober[g].id]])
    BY <1>2 DEF LookUp
  <2>3. prober' \in [Probers -> Goroutines] /\ Probing'
    BY <1>1, <1>2, <2>1, <2>2, ProbeType DEF LookUp, Goroutines
  <2>4. QED  BY <1>2, <2>3 DEF LookUp, TypeOK, Goroutines, subVars, counts
<1>3. CASE ReadNode(g)
  <2>1. row[prober[g].id].host \in Hosts \cup {NoHost}  BY <1>1, <1>3 DEF ReadNode, TypeOK
  <2>2. PICK l \in {"wait", "read"} :
            Probe(g, [prober[g] EXCEPT !.pc = l, !.host = row[prober[g].id].host])
    BY <1>3 DEF ReadNode
  <2>3. prober' \in [Probers -> Goroutines] /\ Probing'
    BY <1>1, <1>3, <2>1, <2>2, ProbeType DEF ReadNode, Goroutines
  <2>4. QED  BY <1>3, <2>3 DEF ReadNode, TypeOK, Goroutines, subVars, counts
<1>4. CASE CacheNode(g)
  <2>1. prober' \in [Probers -> Goroutines] /\ Probing'
    BY <1>1, <1>4, ProbeType DEF CacheNode, Goroutines
  <2>2. conn' \in [Ids -> Hosts \cup {NoHost}]
    BY <1>1, <1>4 DEF CacheNode, TypeOK, Goroutines
  <2>3. QED  BY <1>4, <2>1, <2>2 DEF CacheNode, TypeOK, Goroutines, subVars, counts
<1>5. CASE Dial(g)
  <2>1. PICK b \in Statuses :
            Probe(g, [prober[g] EXCEPT !.pc = "store", !.host = NoHost, !.found = b])
    BY <1>5 DEF Dial
  <2>2. prober' \in [Probers -> Goroutines] /\ Probing'
    BY <1>1, <1>5, <2>1, ProbeType DEF Dial, Goroutines
  <2>3. QED  BY <1>5, <2>2 DEF Dial, TypeOK, Goroutines, subVars, counts
<1>6. CASE StoreStatus(g)
  <2>1. prober' \in [Probers -> Goroutines] /\ Probing'
    BY <1>1, <1>6, ProbeType DEF StoreStatus, Goroutines
  <2>2. row' \in [Ids -> Rowset]  BY <1>1, <1>6 DEF StoreStatus, TypeOK, Rowset, Goroutines
  <2>3. QED  BY <1>6, <2>1, <2>2 DEF StoreStatus, TypeOK, Rowset, Goroutines, subVars, counts
<1>7. CASE Exit(g)
  <2>1. prober' \in [Probers -> Goroutines] /\ Probing'  BY <1>7, ProbeType DEF Exit
  <2>2. QED  BY <1>7, <2>1 DEF Exit, TypeOK, Goroutines, subVars, counts
<1>8. QED  BY <1>2, <1>3, <1>4, <1>5, <1>6, <1>7 DEF HealthCheck

LEMMA SetType ==
  ASSUME TypeOK, NEW c \in Calls, NEW q \in Doings, Set(c, q)
  PROVE  call' \in [Calls -> Doings]
  BY DEF TypeOK, Set, Doings

LEMMA BeginType ==
  ASSUME TypeOK, NEW c \in Calls, NEW q \in Doings, NEW gone \in SUBSET Ids, Begin(c, q, gone)
  PROVE  /\ call' \in [Calls -> Doings] /\ calls' \in 0..MaxCalls /\ mishaps' \in 0..MaxMishaps
         /\ suspect' \in SUBSET Ids
<1>1. call' \in [Calls -> Doings]  BY SetType DEF Begin
<1>2. q.ids \subseteq Ids  BY DEF Doings
<1>3. suspect' = suspect \cup (q.ids \cap InFlight) \cup gone  BY DEF Begin
<1>4. suspect' \in SUBSET Ids  BY <1>2, <1>3 DEF TypeOK
<1>5. calls < MaxCalls /\ calls' = calls + 1 /\ mishaps' = mishaps  BY DEF Begin
<1>6. calls \in 0..MaxCalls /\ mishaps \in 0..MaxMishaps  BY DEF TypeOK
<1>7. QED  BY <1>1, <1>4, <1>5, <1>6

LEMMA TypeRequest ==
  ASSUME TypeOK, NEW c \in Calls, Request(c) PROVE TypeOK' /\ (Probing => Probing')
<1> USE Blanks
<1>1. CASE Create(c)
  <2>1. PICK n \in Ids \ given, h \in Hosts :
          /\ Begin(c, [op |-> "create", pc |-> "cache", ids |-> {n}, host |-> h, seen |-> {}], {})
          /\ row' = [row EXCEPT ![n] = [host |-> h, status |-> "online"]]
          /\ given' = given \cup {n}
    BY <1>1 DEF Create
  <2>2. [op |-> "create", pc |-> "cache", ids |-> {n}, host |-> h, seen |-> {}] \in Doings
    BY DEF Doings
  <2>3. row' \in [Ids -> Rowset]  BY <2>1 DEF TypeOK, Rowset
  <2>4. given' \in SUBSET Ids  BY <2>1 DEF TypeOK
  <2>5. /\ call' \in [Calls -> Doings] /\ calls' \in 0..MaxCalls /\ mishaps' \in 0..MaxMishaps
        /\ suspect' \in SUBSET Ids
    BY <2>1, <2>2, BeginType
  <2>6. QED
    BY <1>1, <2>3, <2>4, <2>5 DEF Create, TypeOK, Rowset, Doings, Probing, serviceVars, subVars
<1>2. CASE Update(c)
  <2>1. PICK n \in given, h \in Hosts, s \in Statuses :
          /\ Begin(c, [op |-> "update", pc |-> "cache", ids |-> {n}, host |-> h, seen |-> {}],
                   {n} \ Rows)
          /\ row' = [row EXCEPT ![n] = [host |-> h, status |-> s]]
    BY <1>2 DEF Update
  <2>2. n \in Ids  BY <2>1 DEF TypeOK
  <2>3. [op |-> "update", pc |-> "cache", ids |-> {n}, host |-> h, seen |-> {}] \in Doings
    BY <2>2 DEF Doings
  <2>4. row' \in [Ids -> Rowset]  BY <2>1 DEF TypeOK, Rowset
  <2>5. {n} \ Rows \in SUBSET Ids  BY <2>2
  <2>6. /\ call' \in [Calls -> Doings] /\ calls' \in 0..MaxCalls /\ mishaps' \in 0..MaxMishaps
        /\ suspect' \in SUBSET Ids
    BY <2>1, <2>3, <2>5, BeginType
  <2>7. QED
    BY <1>2, <2>4, <2>6 DEF Update, TypeOK, Rowset, Doings, Probing, serviceVars, subVars
<1>3. CASE Delete(c)
  <2>1. PICK n \in given :
          Begin(c, [op |-> "delete", pc |-> "stop", ids |-> {n}, host |-> NoHost, seen |-> {}], {})
    BY <1>3 DEF Delete
  <2>2. n \in Ids  BY <2>1 DEF TypeOK
  <2>3. [op |-> "delete", pc |-> "stop", ids |-> {n}, host |-> NoHost, seen |-> {}] \in Doings
    BY <2>2 DEF Doings
  <2>4. /\ call' \in [Calls -> Doings] /\ calls' \in 0..MaxCalls /\ mishaps' \in 0..MaxMishaps
        /\ suspect' \in SUBSET Ids
    BY <2>1, <2>3, BeginType
  <2>5. QED  BY <1>3, <2>4 DEF Delete, TypeOK, Doings, Probing, serviceVars, subVars
<1>4. CASE StartAll(c)
  <2> DEFINE q == [op |-> "startAll", pc |-> "cache", ids |-> Rows, host |-> NoHost,
                   seen |-> {<<n, row[n].host>> : n \in Rows}]
  <2>1. Rows \subseteq Ids /\ \A n \in Rows : row[n].host \in Hosts
    BY DEF Rows, TypeOK
  <2>2. {<<n, row[n].host>> : n \in Rows} \in SUBSET (Ids \X Hosts)
    <3>1. \A n \in Rows : <<n, row[n].host>> \in Ids \X Hosts  BY <2>1
    <3>2. QED  BY <3>1
  <2>3. q \in Doings  BY <2>1, <2>2 DEF Doings
  <2>4. Begin(c, q, {})  BY <1>4 DEF StartAll
  <2>5. /\ call' \in [Calls -> Doings] /\ calls' \in 0..MaxCalls /\ mishaps' \in 0..MaxMishaps
        /\ suspect' \in SUBSET Ids
    <3> HIDE DEF q
    <3>1. QED  BY <2>3, <2>4, BeginType
  <2>6. QED  BY <1>4, <2>5 DEF StartAll, TypeOK, Doings, Probing, serviceVars, subVars
<1>5. QED  BY <1>1, <1>2, <1>3, <1>4 DEF Request

\* A goroutine that is free becomes one about a node.
LEMMA LaunchType ==
  ASSUME TypeOK, Probing, NEW n \in Ids, Launch(n)
  PROVE  /\ prober' \in [Probers -> Goroutines] /\ Probing'
         /\ stopCh' \in [Ids -> Probers \cup {NoProber}]
<1>1. CASE stopCh[n] # NoProber  BY <1>1 DEF Launch, TypeOK, Probing, Goroutines
<1>2. CASE stopCh[n] = NoProber
  <2>1. PICK g \in Probers :
            /\ prober' = [prober EXCEPT ![g] = [Free EXCEPT !.id = n, !.pc = "lookup"]]
            /\ stopCh' = [stopCh EXCEPT ![n] = g]
    BY <1>2 DEF Launch
  <2>2. [Free EXCEPT !.id = n, !.pc = "lookup"] \in Goroutines  BY Blanks DEF Goroutines
  <2>3. [Free EXCEPT !.id = n, !.pc = "lookup"].id \in Ids
            /\ [Free EXCEPT !.id = n, !.pc = "lookup"].pc # "free"
    BY DEF Free
  <2>4. prober' \in [Probers -> Goroutines] /\ Probing'
    BY <2>1, <2>2, <2>3, ProbeType DEF Probe
  <2>5. QED  BY <2>1, <2>4 DEF TypeOK
<1>3. QED  BY <1>1, <1>2

LEMMA CancelType ==
  ASSUME TypeOK, Probing, OneProber, NEW n \in Ids, Cancel(n)
  PROVE  /\ prober' \in [Probers -> Goroutines] /\ Probing'
         /\ stopCh' \in [Ids -> Probers \cup {NoProber}]
<1>1. \A g \in Probers : g = stopCh[n] => prober[g].pc # "free"
  BY Blanks DEF OneProber, Active, Probing
<1>2. \A g \in Probers : prober'[g] =
          IF g = stopCh[n] THEN [prober[g] EXCEPT !.cancelled = TRUE] ELSE prober[g]
  BY DEF Cancel
<1>3. prober' \in [Probers -> Goroutines]
  <2>1. \A g \in Probers : prober[g] \in Goroutines  BY DEF TypeOK, Goroutines
  <2>2. \A g \in Probers : [prober[g] EXCEPT !.cancelled = TRUE] \in Goroutines
    BY <2>1 DEF Goroutines
  <2>3. QED  BY <2>1, <2>2 DEF Cancel
<1>4. Probing'
  <2> SUFFICES ASSUME NEW g \in Probers
               PROVE  IF prober'[g].pc = "free" THEN prober'[g] = Free ELSE prober'[g].id \in Ids
    BY DEF Probing
  <2>1. CASE g = stopCh[n]
    <3>1. prober'[g].pc = prober[g].pc /\ prober'[g].id = prober[g].id
      <4>1. prober[g] \in Goroutines  BY DEF TypeOK, Goroutines
      <4>2. QED  BY <1>2, <2>1, <4>1 DEF Goroutines
    <3>2. QED  BY <1>1, <2>1, <3>1 DEF Probing
  <2>2. CASE g # stopCh[n]  BY <1>2, <2>2 DEF Probing
  <2>3. QED  BY <2>1, <2>2
<1>5. QED  BY <1>3, <1>4 DEF Cancel, TypeOK

LEMMA TypeContinue ==
  ASSUME TypeOK, Probing, OneProber, NEW c \in Calls, Continue(c) PROVE TypeOK' /\ Probing'
<1> USE Blanks
<1> USE DEF subVars, counts
<1>1. call[c] \in Doings  BY DEF TypeOK, Doings
<1>2. CASE CacheAddress(c)
  <2>1. conn' \in [Ids -> Hosts \cup {NoHost}]
    BY <1>1, <1>2 DEF CacheAddress, TypeOK, Doings
  <2>2. call' \in [Calls -> Doings]
    <3>1. [call[c] EXCEPT !.pc = "start"] \in Doings  BY <1>1 DEF Doings
    <3>2. QED  BY <1>2, <3>1, SetType DEF CacheAddress
  <2>3. QED  BY <1>2, <2>1, <2>2 DEF CacheAddress, TypeOK, Doings, Probing
<1>3. CASE StopCheck(c)
  <2>1. PICK n \in call[c].ids : Cancel(n)  BY <1>3 DEF StopCheck
  <2>2. n \in Ids  BY <1>1, <2>1 DEF Doings
  <2>3. call' \in [Calls -> Doings]
    <3>1. [call[c] EXCEPT !.pc = "uncache"] \in Doings  BY <1>1 DEF Doings
    <3>2. QED  BY <1>3, <3>1, SetType DEF StopCheck
  <2>4. QED  BY <1>3, <2>1, <2>2, <2>3, CancelType DEF StopCheck, TypeOK, Doings, Goroutines
<1>4. CASE Uncache(c)
  <2>1. call' \in [Calls -> Doings]
    <3>1. [call[c] EXCEPT !.pc = "row"] \in Doings  BY <1>1 DEF Doings
    <3>2. QED  BY <1>4, <3>1, SetType DEF Uncache
  <2>2. conn' \in [Ids -> Hosts \cup {NoHost}]  BY <1>4 DEF Uncache, TypeOK
  <2>3. QED  BY <1>4, <2>1, <2>2 DEF Uncache, TypeOK, Doings, Probing
<1>5. CASE DeleteRow(c)
  <2>1. row' \in [Ids -> Rowset]  BY <1>5 DEF DeleteRow, TypeOK, Rowset
  <2>2. call' \in [Calls -> Doings]  BY <1>5, SetType DEF DeleteRow
  <2>3. QED
    BY <1>5, <2>1, <2>2 DEF DeleteRow, TypeOK, Doings, Rowset, Probing, serviceVars
<1>6. CASE DeleteRowFailed(c)
  <2>1. call' \in [Calls -> Doings]  BY <1>6, SetType DEF DeleteRowFailed
  <2>2. mishaps' \in 0..MaxMishaps  BY <1>6 DEF DeleteRowFailed, TypeOK
  <2>3. suspect' \in SUBSET Ids  BY <1>1, <1>6 DEF DeleteRowFailed, TypeOK, Doings
  <2>4. QED
    BY <1>6, <2>1, <2>2, <2>3 DEF DeleteRowFailed, TypeOK, Doings, Probing, serviceVars
<1>7. CASE CacheAll(c)
  <2>1. conn' \in [Ids -> Hosts \cup {NoHost}]
    <3>1. \A n \in Ids : (\E h \in Hosts : <<n, h>> \in call[c].seen) =>
              (CHOOSE h \in Hosts : <<n, h>> \in call[c].seen) \in Hosts
      OBVIOUS
    <3>2. QED  BY <1>7, <3>1 DEF CacheAll, TypeOK
  <2>2. call' \in [Calls -> Doings]
    <3>1. [call[c] EXCEPT !.pc = "start", !.seen = {}] \in Doings  BY <1>1 DEF Doings
    <3>2. QED  BY <1>7, <3>1, SetType DEF CacheAll
  <2>3. QED  BY <1>7, <2>1, <2>2 DEF CacheAll, TypeOK, Doings, Probing
<1>8. CASE Start(c)
  <2>1. PICK n \in call[c].ids :
          /\ Launch(n)
          /\ Set(c, IF call[c].ids = {n} THEN Done ELSE [call[c] EXCEPT !.ids = @ \ {n}])
    BY <1>8 DEF Start
  <2>2. n \in Ids  BY <1>1, <2>1 DEF Doings
  <2>3. call' \in [Calls -> Doings]
    <3>1. [call[c] EXCEPT !.ids = @ \ {n}] \in Doings  BY <1>1 DEF Doings
    <3>2. QED  BY <2>1, <3>1, SetType
  <2>4. QED  BY <1>8, <2>1, <2>2, <2>3, LaunchType DEF Start, TypeOK, Doings, Goroutines
<1>9. QED  BY <1>2, <1>3, <1>4, <1>5, <1>6, <1>7, <1>8 DEF Continue

LEMMA TypeNext == TypeOK /\ Probing /\ OneProber /\ [Next]_vars => TypeOK' /\ Probing'
<1> SUFFICES ASSUME TypeOK, Probing, OneProber, [Next]_vars PROVE TypeOK' /\ Probing'
  OBVIOUS
<1> USE DEF serviceVars, subVars, counts, Probing
<1>1. CASE Fetch
  <2>1. OfflineHosts \in SUBSET Hosts  BY DEF OfflineHosts, Rows, TypeOK
  <2>2. fetched' \in SUBSET SUBSET Hosts  BY <1>1, <2>1 DEF Fetch, TypeOK
  <2>3. QED  BY <1>1, <2>2 DEF Fetch, TypeOK
<1>2. CASE Keep
  <2>1. offline' \in SUBSET Hosts /\ fetched' \in SUBSET SUBSET Hosts
    BY <1>2 DEF Keep, TypeOK
  <2>2. QED  BY <1>2, <2>1 DEF Keep, TypeOK
<1>3. CASE Expire  BY <1>3 DEF Expire, TypeOK
<1>4. CASE Flip
  <2>1. reachable' \in [Hosts -> BOOLEAN]  BY <1>4 DEF Flip, TypeOK
  <2>2. QED  BY <1>4, <2>1 DEF Flip, TypeOK
<1>5. CASE UNCHANGED vars  BY <1>5 DEF vars, TypeOK
<1>6. QED
  BY <1>1, <1>2, <1>3, <1>4, <1>5, TypeCheck, TypeRequest, TypeContinue DEF Next

-----------------------------------------------------------------------------
(* One goroutine per node: the ones that nobody has cancelled are those    *)
(* that stopCh names.                                                      *)

LEMMA OneProberInit == Init => OneProber
<1> SUFFICES ASSUME Init, NEW n \in Ids PROVE Active(n) = {stopCh[n]} \ {NoProber}
  BY DEF OneProber
<1> USE Blanks
<1>1. /\ stopCh[n] \in Probers \cup {NoProber} /\ (stopCh[n] # NoProber <=> n \in given)
      /\ \A k \in given \ {n} : stopCh[n] # stopCh[k]
  BY InitialStops
<1>2. ASSUME NEW g \in Active(n) PROVE g = stopCh[n] /\ g # NoProber
  BY <1>2, InitialProbers DEF Active
<1>3. ASSUME stopCh[n] # NoProber PROVE stopCh[n] \in Active(n)
  <2>1. stopCh[n] \in Probers /\ n \in given  BY <1>1, <1>3
  <2>2. prober[stopCh[n]].id \in given /\ stopCh[prober[stopCh[n]].id] = stopCh[n]
          /\ prober[stopCh[n]].cancelled = FALSE
    BY <2>1, InitialProbers
  <2>3. QED  BY <1>1, <2>1, <2>2 DEF Active
<1>4. QED  BY <1>2, <1>3

\* Nothing is launched or cancelled: every goroutine is about the same node as before.
LEMMA SameActive ==
  ASSUME OneProber, stopCh' = stopCh,
         \A h \in Probers : prober'[h].id = prober[h].id /\ prober'[h].cancelled = prober[h].cancelled
  PROVE  OneProber'
  BY DEF OneProber, Active

LEMMA OneProberCheck ==
  ASSUME TypeOK, Probing, OneProber, NEW g \in Probers, HealthCheck(g) \/ Exit(g)
  PROVE  OneProber'
<1> USE Blanks
<1>1. \A h \in Probers : prober[h] \in Goroutines  BY DEF TypeOK, Goroutines
<1>2. CASE HealthCheck(g)
  <2>1. stopCh' = stopCh
    BY <1>2 DEF HealthCheck, LookUp, ReadNode, CacheNode, Dial, StoreStatus
  <2> DEFINE Same == \A h \in Probers : /\ prober'[h].id = prober[h].id
                                        /\ prober'[h].cancelled = prober[h].cancelled
  <2>2. prober = [h \in Probers |-> prober[h]]  BY DEF TypeOK
  <2> SUFFICES Same
    BY <2>1, SameActive
  <2>3. CASE LookUp(g)  BY <1>1, <2>2, <2>3 DEF LookUp, Probe, Goroutines
  <2>4. CASE ReadNode(g)  BY <1>1, <2>2, <2>4 DEF ReadNode, Probe, Goroutines
  <2>5. CASE CacheNode(g)  BY <1>1, <2>2, <2>5 DEF CacheNode, Probe, Goroutines
  <2>6. CASE Dial(g)  BY <1>1, <2>2, <2>6 DEF Dial, Probe, Goroutines
  <2>7. CASE StoreStatus(g)  BY <1>1, <2>2, <2>7 DEF StoreStatus, Probe, Goroutines
  <2>8. QED  BY <1>2, <2>3, <2>4, <2>5, <2>6, <2>7 DEF HealthCheck
<1>3. CASE Exit(g)
  <2>1. \A h \in Probers : prober'[h] = IF h = g THEN Free ELSE prober[h]
    BY <1>3 DEF Exit, Probe, TypeOK
  <2>2. stopCh' = stopCh /\ prober[g].cancelled  BY <1>3 DEF Exit
  <2>3. \A n \in Ids : Active(n)' = Active(n)  BY <2>1, <2>2 DEF Active
  <2>4. QED  BY <2>2, <2>3 DEF OneProber
<1>4. QED  BY <1>2, <1>3

LEMMA OneProberLaunch ==
  ASSUME TypeOK, Probing, OneProber, NEW n \in Ids, Launch(n)
  PROVE  OneProber'
<1> USE Blanks
<1>1. CASE stopCh[n] # NoProber  BY <1>1, SameActive DEF Launch
<1>2. CASE stopCh[n] = NoProber
  <2>1. PICK g \in Probers :
            /\ prober[g].pc = "free"
            /\ prober' = [prober EXCEPT ![g] = [Free EXCEPT !.id = n, !.pc = "lookup"]]
            /\ stopCh' = [stopCh EXCEPT ![n] = g]
    BY <1>2 DEF Launch
  <2> DEFINE q == [Free EXCEPT !.id = n, !.pc = "lookup"]
  <2>2. q.id = n /\ q.cancelled = FALSE  BY DEF Free
  <2>3. \A h \in Probers : prober'[h] = IF h = g THEN q ELSE prober[h]  BY <2>1 DEF TypeOK
  <2>4. \A k \in Ids : stopCh'[k] = IF k = n THEN g ELSE stopCh[k]  BY <2>1 DEF TypeOK
  <2>5. prober[g].id \notin Ids /\ g # NoProber  BY <2>1 DEF Probing
  <2> HIDE DEF q
  <2>6. \A k \in Ids : Active(k)' = IF k = n THEN Active(n) \cup {g} ELSE Active(k)
    BY <2>2, <2>3, <2>5 DEF Active
  <2>7. Active(n) = {}  BY <1>2 DEF OneProber
  <2>8. QED  BY <2>4, <2>5, <2>6, <2>7 DEF OneProber
<1>3. QED  BY <1>1, <1>2

LEMMA OneProberCancel ==
  ASSUME TypeOK, Probing, OneProber, NEW n \in Ids, Cancel(n)
  PROVE  OneProber'
<1>1. \A h \in Probers : prober[h] \in Goroutines  BY DEF TypeOK, Goroutines
<1>2. \A h \in Probers :
          /\ prober'[h].id = prober[h].id
          /\ prober'[h].cancelled <=> h = stopCh[n] \/ prober[h].cancelled
  BY <1>1 DEF Cancel, Goroutines
<1>3. \A k \in Ids : stopCh'[k] = IF k = n THEN NoProber ELSE stopCh[k]
  BY DEF Cancel, TypeOK
<1>4. \A k \in Ids : Active(k)' = Active(k) \ {stopCh[n]}  BY <1>2 DEF Active
<1>5. \A k \in Ids \ {n} : stopCh[n] \notin Active(k)  BY DEF OneProber, Active
<1>6. QED  BY <1>3, <1>4, <1>5 DEF OneProber

LEMMA OneProberNext == TypeOK /\ Probing /\ OneProber /\ [Next]_vars => OneProber'
<1> SUFFICES ASSUME TypeOK, Probing, OneProber, [Next]_vars PROVE OneProber'
  OBVIOUS
<1>1. CASE \E g \in Probers : HealthCheck(g) \/ Exit(g)  BY <1>1, OneProberCheck
<1>2. CASE \E c \in Calls : Request(c)
  BY <1>2, SameActive DEF Request, Create, Update, Delete, StartAll, serviceVars
<1>3. CASE \E c \in Calls : Continue(c)
  <2>1. PICK c \in Calls : Continue(c)  BY <1>3
  <2>2. call[c].ids \subseteq Ids  BY DEF TypeOK
  <2>3. CASE Start(c)  BY <2>2, <2>3, OneProberLaunch DEF Start
  <2>4. CASE StopCheck(c)  BY <2>2, <2>4, OneProberCancel DEF StopCheck
  <2>5. CASE CacheAddress(c) \/ Uncache(c) \/ DeleteRow(c) \/ DeleteRowFailed(c) \/ CacheAll(c)
    BY <2>5, SameActive
       DEF CacheAddress, Uncache, DeleteRow, DeleteRowFailed, CacheAll, serviceVars
  <2>6. QED  BY <2>1, <2>3, <2>4, <2>5 DEF Continue
<1>4. CASE Fetch \/ Keep \/ Expire \/ Flip \/ UNCHANGED vars
  BY <1>4, SameActive DEF Fetch, Keep, Expire, Flip, vars, serviceVars
<1>5. QED  BY <1>1, <1>2, <1>3, <1>4 DEF Next

LEMMA Inductive == Spec => [](TypeOK /\ Probing /\ OneProber)
<1>1. Init => TypeOK /\ Probing /\ OneProber  BY TypeInit, OneProberInit
<1>2. TypeOK /\ Probing /\ OneProber /\ [Next]_vars => (TypeOK /\ Probing /\ OneProber)'
  BY TypeNext, OneProberNext
<1>3. QED  BY <1>1, <1>2, PTL DEF Spec

\* Every variable keeps its type: what TLC checks as TypeOK, for all constants.
THEOREM TypeCorrect == Spec => []TypeOK
<1>1. QED  BY Inductive, PTL

\* However many calls overlap, a node never has two goroutines that are not cancelled, and
\* the one it has is the one that stopChs names: startHealthCheck launches one only when
\* there is none, stopHealthCheck cancels the one it forgets.
THEOREM OneProberHolds == Spec => []OneProber
<1>1. QED  BY Inductive, PTL

-----------------------------------------------------------------------------
(* What is true of a node that is in order.                                *)

Settled(n) ==
    /\ n \in Rows <=> stopCh[n] # NoProber
    /\ n \in Rows => conn[n] = row[n].host

\* In the middle of the one call that is about it.
During(n, q) ==
    \/ /\ q.op = "create" /\ n \in Rows /\ row[n].host = q.host
       /\ stopCh[n] = NoProber /\ \A g \in Probers : prober[g].id # n
       /\ q.pc \in {"cache", "start"} /\ (q.pc = "start" => conn[n] = q.host)
    \/ /\ q.op = "update" /\ q.pc = "cache" /\ n \in Rows /\ row[n].host = q.host
       /\ stopCh[n] # NoProber /\ conn[n] # NoHost
    \/ q.op = "delete" /\ q.pc = "stop" /\ q.ids = {n} /\ Settled(n)
    \/ q.op = "delete" /\ q.pc = "uncache" /\ stopCh[n] = NoProber /\ (n \in Rows => conn[n] # NoHost)
    \/ q.op = "delete" /\ q.pc = "row" /\ stopCh[n] = NoProber
    \/ /\ q.op = "startAll" /\ q.pc \in {"cache", "start"} /\ n \in Rows /\ Settled(n)
       /\ \A h \in Hosts : <<n, h>> \in q.seen => h = row[n].host

\* A goroutine looks a node up in the table only when the node is as good as deleted.
Leaving(n) == n \in Rows => \E c \in Calls :
                  n \in call[c].ids /\ call[c].op = "delete" /\ call[c].pc = "row"

InOrder(n) ==
    /\ \A c \in Calls : n \in call[c].ids => During(n, call[c])
    /\ \A c, d \in Calls : n \in call[c].ids /\ n \in call[d].ids => c = d
    /\ (\A c \in Calls : n \notin call[c].ids) => Settled(n)
    /\ \A g \in Probers : prober[g].id = n /\ prober[g].pc = "read" => Leaving(n)

\* Only StartAllHealthChecks remembers rows, until it has cached their addresses.
Reading(n, q) == n \in q.ids /\ q.op = "startAll" /\ q.pc = "cache"

\* Nothing is about a node that there has never been.
Known ==
    /\ Rows \subseteq given
    /\ \A c \in Calls : call[c].ids \subseteq given /\ (call[c].pc = "idle" => call[c].ids = {})
    /\ \A c \in Calls : \A n \in Ids, h \in Hosts :
           <<n, h>> \in call[c].seen => Reading(n, call[c])
    /\ \A g \in Probers : prober[g].id \in given \cup {0}

Orderly == Known /\ \A n \in Ids \ suspect : InOrder(n)

LEMMA OrderlyInit == Init => Orderly
<1> SUFFICES ASSUME Init PROVE Orderly
  OBVIOUS
<1> USE Blanks
<1>1. \A n \in Ids : n \in Rows <=> n \in given
  BY DEF Init, Rows, NoRow
<1>2. \A c \in Calls : call[c] = Done  BY DEF Init
<1>3. \A n \in Ids : stopCh[n] # NoProber <=> n \in given  BY InitialStops
<1>4. \A n \in Ids : conn[n] = row[n].host  BY DEF Init
<1>5. \A g \in Probers : prober[g].id \in given \cup {0} /\ prober[g].pc # "read"
  BY InitialProbers
<1>6. Known
  <2>1. \A c \in Calls : call[c].seen = {}  BY <1>2 DEF Done
  <2>2. Rows \subseteq Ids  BY DEF Rows
  <2>3. QED  BY <1>1, <1>2, <1>5, <2>1, <2>2 DEF Known
<1>7. ASSUME NEW n \in Ids PROVE InOrder(n)
  BY <1>1, <1>2, <1>3, <1>4, <1>5 DEF InOrder, Settled
<1>8. QED  BY <1>6, <1>7 DEF Orderly

\* What concerns neither a node's row, address and goroutines nor the calls about it.
LEMMA Untouched ==
  ASSUME NEW n \in Ids, InOrder(n),
         row'[n].host = row[n].host, conn'[n] = conn[n], stopCh'[n] = stopCh[n],
         \A c \in Calls : n \in call[c].ids \/ n \in call'[c].ids => call'[c] = call[c],
         \A g \in Probers : prober'[g].id = n =>
             prober[g].id = n /\ (prober'[g].pc = "read" => prober[g].pc = "read" \/ Leaving(n))
  PROVE  InOrder(n)'
<1>1. n \in Rows' <=> n \in Rows  BY DEF Rows
<1>2. Settled(n)' <=> Settled(n)  BY <1>1 DEF Settled
<1>3. \A c \in Calls : n \in call'[c].ids <=> n \in call[c].ids  OBVIOUS
<1>4. ASSUME NEW c \in Calls, n \in call'[c].ids PROVE During(n, call[c])'
  <2>1. During(n, call[c]) /\ call'[c] = call[c]  BY <1>3, <1>4 DEF InOrder
  <2>2. QED  BY <1>1, <1>2, <2>1 DEF During
<1>5. Leaving(n)' <=> Leaving(n)  BY <1>1 DEF Leaving
<1>6. QED  BY <1>2, <1>3, <1>4, <1>5 DEF InOrder

\* What a step of a goroutine does to the goroutines.
LEMMA CheckEffect ==
  ASSUME TypeOK, Probing, NEW g \in Probers, HealthCheck(g) \/ Exit(g)
  PROVE  /\ \A h \in Probers \ {g} : prober'[h] = prober[h]
         /\ prober'[g].id \in {prober[g].id, 0}
         /\ prober'[g].pc = "read" => prober[g].pc = "read" \/ conn[prober[g].id] = NoHost
<1>1. prober = [h \in Probers |-> prober[h]] /\ prober[g] \in Goroutines
  BY DEF TypeOK, Goroutines
<1> USE DEF Probe, Goroutines
<1>2. CASE LookUp(g)  BY <1>1, <1>2 DEF LookUp
<1>3. CASE ReadNode(g)  BY <1>1, <1>3 DEF ReadNode
<1>4. CASE CacheNode(g)  BY <1>1, <1>4 DEF CacheNode
<1>5. CASE Dial(g)  BY <1>1, <1>5 DEF Dial
<1>6. CASE StoreStatus(g)  BY <1>1, <1>6 DEF StoreStatus
<1>7. CASE Exit(g)  BY <1>1, <1>7, Blanks DEF Exit
<1>8. QED  BY <1>2, <1>3, <1>4, <1>5, <1>6, <1>7 DEF HealthCheck

LEMMA OrderlyCheck ==
  ASSUME TypeOK, Probing, OneProber, Orderly, NEW g \in Probers, HealthCheck(g) \/ Exit(g)
  PROVE  Orderly'
<1> USE Blanks
<1> DEFINE m == prober[g].id
<1>1. /\ \A h \in Probers : prober[h] \in Goroutines
      /\ \A n \in Ids : row[n] \in Rowset
  BY DEF TypeOK, Goroutines, Rowset
<1>2. UNCHANGED <<given, stopCh, call, suspect>>
  BY DEF HealthCheck, Exit, LookUp, ReadNode, CacheNode, Dial, StoreStatus, counts
<1>3. \A n \in Ids : row'[n].host = row[n].host
  BY <1>1 DEF HealthCheck, Exit, LookUp, ReadNode, CacheNode, Dial, StoreStatus, TypeOK, Rowset
<1>4. prober[g].pc # "free" /\ m \in Ids
  BY DEF HealthCheck, Exit, LookUp, ReadNode, CacheNode, Dial, StoreStatus, Probing
<1>5. /\ \A h \in Probers \ {g} : prober'[h] = prober[h]
      /\ prober'[g].id \in {m, 0}
      /\ prober'[g].pc = "read" => prober[g].pc = "read" \/ conn[m] = NoHost
  BY CheckEffect
<1>7. Known'
  <2>1. Rows' = Rows  BY <1>3 DEF Rows
  <2>2. \A h \in Probers : prober'[h].id \in given \cup {0}
    BY <1>5 DEF Orderly, Known
  <2>3. QED  BY <1>2, <2>1, <2>2 DEF Orderly, Known
<1>8. ASSUME NEW n \in Ids \ suspect PROVE InOrder(n)'
  <2>1. InOrder(n)  BY DEF Orderly
  <2>2. conn[n] = NoHost /\ m = n => Leaving(n)
    <3> SUFFICES ASSUME conn[n] = NoHost, m = n, n \in Rows PROVE Leaving(n)
      BY DEF Leaving
    <3>1. row[n].host # NoHost /\ ~Settled(n)  BY DEF Rows, Settled
    <3>2. PICK c \in Calls : n \in call[c].ids  BY <2>1, <3>1 DEF InOrder
    <3>3. During(n, call[c])  BY <2>1, <3>2 DEF InOrder
    <3>4. call[c].op = "delete" /\ call[c].pc = "row"  BY <3>1, <3>3 DEF During
    <3>5. QED  BY <3>2, <3>4 DEF Leaving
  <2>3. \A h \in Probers : prober'[h].id = n =>
            prober[h].id = n /\ (prober'[h].pc = "read" => prober[h].pc = "read" \/ Leaving(n))
    BY <1>5, <2>2, Blanks
  <2>4. CASE conn'[n] = conn[n]  BY <1>2, <1>3, <2>1, <2>3, <2>4, Untouched
  <2>5. CASE conn'[n] # conn[n]
    <3>1. CacheNode(g) /\ m = n /\ prober[g].pc = "read" /\ conn'[n] # NoHost
      BY <1>4, <2>5
         DEF HealthCheck, Exit, LookUp, ReadNode, CacheNode, Dial, StoreStatus, TypeOK
    <3>2. Leaving(n)  BY <2>1, <3>1 DEF InOrder
    <3>3. n \in Rows' <=> n \in Rows  BY <1>3 DEF Rows
    <3>4. Leaving(n)'  BY <1>2, <3>2, <3>3 DEF Leaving
    <3>5. ASSUME NEW c \in Calls, n \in call[c].ids PROVE During(n, call[c])'
      <4>1. During(n, call[c])  BY <2>1, <3>5 DEF InOrder
      <4>2. n \in Rows => call[c].op = "delete" /\ call[c].pc = "row"
        BY <2>1, <3>2, <3>5 DEF Leaving, InOrder
      <4>3. QED  BY <1>2, <3>3, <4>1, <4>2 DEF During, Settled
    <3>6. (\A c \in Calls : n \notin call[c].ids) => Settled(n)'
      BY <1>2, <2>1, <3>2, <3>3 DEF InOrder, Leaving, Settled
    <3>7. QED  BY <1>2, <2>1, <3>4, <3>5, <3>6 DEF InOrder
  <2>6. QED  BY <2>4, <2>5
<1>9. QED  BY <1>2, <1>7, <1>8 DEF Orderly

\* A node in order that a call begins about has no other call about it.
LEMMA BeginAbout ==
  ASSUME TypeOK, Orderly, NEW c \in Calls, NEW q \in Doings, NEW gone \in SUBSET Ids, Begin(c, q, gone)
  PROVE  /\ suspect \subseteq suspect' /\ gone \subseteq suspect'
         /\ call[c].ids = {}
         /\ \A d \in Calls : call'[d] = IF d = c THEN q ELSE call[d]
         /\ \A n \in q.ids \ suspect' : n \in Ids \ suspect /\ Settled(n)
                                          /\ \A d \in Calls : n \notin call[d].ids
<1>1. suspect' = suspect \cup (q.ids \cap InFlight) \cup gone  BY DEF Begin
<1>2. \A d \in Calls : call'[d] = IF d = c THEN q ELSE call[d]  BY DEF Begin, Set, TypeOK
<1>3. call[c].ids = {}  BY DEF Begin, Orderly, Known
<1>4. ASSUME NEW n \in q.ids \ suspect'
      PROVE  n \in Ids \ suspect /\ Settled(n) /\ \A d \in Calls : n \notin call[d].ids
  <2>1. n \in Ids \ suspect  BY <1>1 DEF Doings
  <2>2. \A d \in Calls : n \notin call[d].ids  BY <1>1 DEF InFlight
  <2>3. QED  BY <2>1, <2>2 DEF Orderly, InOrder
<1>5. QED  BY <1>1, <1>2, <1>3, <1>4

LEMMA OrderlyRequest ==
  ASSUME TypeOK, Probing, OneProber, Orderly, NEW c \in Calls, Request(c)
  PROVE  Orderly'
<1> USE Blanks
<1>1. UNCHANGED <<conn, stopCh, prober>>
  BY DEF Request, Create, Update, Delete, StartAll, serviceVars
<1>2. \A n \in Ids : row[n] \in Rowset  BY DEF TypeOK, Rowset
<1>3. \A n \in Ids : stopCh[n] # NoProber => n \in given
  <2>1. \A n \in Ids : stopCh[n] # NoProber => \E g \in Probers : prober[g].id = n
    BY DEF OneProber, Active
  <2>2. QED  BY <2>1 DEF Orderly, Known
<1>4. CASE Create(c)
  <2>1. PICK n \in Ids \ given, h \in Hosts :
          /\ Begin(c, [op |-> "create", pc |-> "cache", ids |-> {n}, host |-> h, seen |-> {}], {})
          /\ row' = [row EXCEPT ![n] = [host |-> h, status |-> "online"]]
          /\ given' = given \cup {n}
    BY <1>4 DEF Create
  <2> DEFINE q == [op |-> "create", pc |-> "cache", ids |-> {n}, host |-> h, seen |-> {}]
  <2>2. q \in Doings /\ q.op = "create" /\ q.pc = "cache" /\ q.ids = {n} /\ q.host = h /\ q.seen = {}
    BY DEF Doings
  <2>3. Begin(c, q, {})  BY <2>1
  <2> HIDE DEF q
  <2>4. \A k \in Ids : row'[k].host = IF k = n THEN h ELSE row[k].host
    BY <2>1 DEF TypeOK
  <2>5. \A k \in Ids : k \in Rows' <=> k \in Rows \/ k = n  BY <2>4 DEF Rows
  <2>6. /\ suspect \subseteq suspect' /\ call[c].ids = {}
        /\ \A d \in Calls : call'[d] = IF d = c THEN q ELSE call[d]
        /\ \A k \in q.ids \ suspect' : k \in Ids \ suspect /\ \A d \in Calls : k \notin call[d].ids
    BY <2>2, <2>3, BeginAbout
  <2>7. Known'
    <3>1. Rows' \subseteq given'  BY <2>1, <2>5 DEF Rows, Orderly, Known
    <3>2. \A d \in Calls : call'[d].ids \subseteq given' /\ (call'[d].pc = "idle" => call'[d].ids = {})
      BY <2>1, <2>2, <2>6 DEF Orderly, Known
    <3>3. \A d \in Calls : \A k \in Ids, i \in Hosts : <<k, i>> \in call'[d].seen => Reading(k, call'[d])
      BY <2>2, <2>6 DEF Orderly, Known, Reading
    <3>4. \A g \in Probers : prober'[g].id \in given' \cup {0}
      BY <1>1, <2>1 DEF Orderly, Known
    <3>5. QED  BY <3>1, <3>2, <3>3, <3>4 DEF Known
  <2>8. ASSUME NEW k \in Ids \ suspect' PROVE InOrder(k)'
    <3>1. k \in Ids \ suspect /\ InOrder(k)  BY <2>6 DEF Orderly
    <3>2. CASE k # n
      BY <1>1, <2>2, <2>4, <2>6, <3>1, <3>2, Untouched
    <3>3. CASE k = n
      <4>1. \A d \in Calls : k \in call'[d].ids <=> d = c  BY <2>2, <2>6, <3>3
      <4>2. n \notin given /\ \A g \in Probers : prober[g].id # n
        BY <2>1 DEF Orderly, Known
      <4>3. stopCh[n] = NoProber  BY <1>3, <4>2
      <4>4. During(n, call[c])'
        BY <1>1, <2>2, <2>4, <2>5, <2>6, <4>2, <4>3 DEF During
      <4>5. QED  BY <1>1, <3>3, <4>1, <4>2, <4>4 DEF InOrder
    <3>4. QED  BY <3>2, <3>3
  <2>9. QED  BY <2>7, <2>8 DEF Orderly
<1>5. CASE Update(c)
  <2>1. PICK n \in given, h \in Hosts, s \in Statuses :
          /\ Begin(c, [op |-> "update", pc |-> "cache", ids |-> {n}, host |-> h, seen |-> {}],
                   {n} \ Rows)
          /\ row' = [row EXCEPT ![n] = [host |-> h, status |-> s]]
    BY <1>5 DEF Update
  <2> DEFINE q == [op |-> "update", pc |-> "cache", ids |-> {n}, host |-> h, seen |-> {}]
  <2>2. n \in Ids  BY DEF TypeOK
  <2>3. q \in Doings /\ q.op = "update" /\ q.pc = "cache" /\ q.ids = {n} /\ q.host = h /\ q.seen = {}
    BY <2>2 DEF Doings
  <2> DEFINE gone == {n} \ Rows
  <2>4. Begin(c, q, gone) /\ gone \in SUBSET Ids  BY <2>1, <2>2
  <2> HIDE DEF q, gone
  <2>5. \A k \in Ids : row'[k].host = IF k = n THEN h ELSE row[k].host
    BY <2>1 DEF TypeOK
  <2>6. \A k \in Ids : k \in Rows' <=> k \in Rows \/ k = n  BY <2>5 DEF Rows
  <2>7. given' = given  BY <1>5 DEF Update
  <2>8. /\ suspect \subseteq suspect' /\ gone \subseteq suspect' /\ call[c].ids = {}
        /\ \A d \in Calls : call'[d] = IF d = c THEN q ELSE call[d]
        /\ \A k \in q.ids \ suspect' : k \in Ids \ suspect /\ Settled(k)
                                         /\ \A d \in Calls : k \notin call[d].ids
    BY <2>3, <2>4, BeginAbout
  <2>9. n \notin Rows => n \in suspect'  BY <2>8 DEF gone
  <2>10. Known'
    <3>1. Rows' \subseteq given'  BY <2>6, <2>7 DEF Rows, Orderly, Known
    <3>2. \A d \in Calls : call'[d].ids \subseteq given' /\ (call'[d].pc = "idle" => call'[d].ids = {})
      BY <2>3, <2>7, <2>8 DEF Orderly, Known
    <3>3. \A d \in Calls : \A k \in Ids, i \in Hosts : <<k, i>> \in call'[d].seen => Reading(k, call'[d])
      BY <2>3, <2>8 DEF Orderly, Known, Reading
    <3>4. QED  BY <1>1, <2>7, <3>1, <3>2, <3>3 DEF Orderly, Known
  <2>11. ASSUME NEW k \in Ids \ suspect' PROVE InOrder(k)'
    <3>1. k \in Ids \ suspect /\ InOrder(k)  BY <2>8 DEF Orderly
    <3>2. CASE k # n
      BY <1>1, <2>3, <2>5, <2>8, <3>1, <3>2, Untouched
    <3>3. CASE k = n
      <4>1. \A d \in Calls : k \in call'[d].ids <=> d = c  BY <2>3, <2>8, <3>3
      <4>2. n \in Rows /\ Settled(n) /\ row[n].host # NoHost  BY <2>3, <2>8, <2>9, <3>3 DEF Rows
      <4>3. During(n, call[c])'
        BY <1>1, <2>3, <2>5, <2>6, <2>8, <3>3, <4>2 DEF During, Settled
      <4>4. \A g \in Probers : ~(prober[g].id = n /\ prober[g].pc = "read")
        BY <2>3, <2>8, <3>1, <3>3, <4>2 DEF InOrder, Leaving
      <4>5. QED  BY <1>1, <3>3, <4>1, <4>3, <4>4 DEF InOrder
    <3>4. QED  BY <3>2, <3>3
  <2>12. QED  BY <2>10, <2>11 DEF Orderly
<1>6. CASE Delete(c)
  <2>1. PICK n \in given :
          Begin(c, [op |-> "delete", pc |-> "stop", ids |-> {n}, host |-> NoHost, seen |-> {}], {})
    BY <1>6 DEF Delete
  <2> DEFINE q == [op |-> "delete", pc |-> "stop", ids |-> {n}, host |-> NoHost, seen |-> {}]
  <2>2. n \in Ids  BY DEF TypeOK
  <2>3. q \in Doings /\ q.op = "delete" /\ q.pc = "stop" /\ q.ids = {n} /\ q.seen = {}
    BY <2>2 DEF Doings
  <2>4. Begin(c, q, {})  BY <2>1
  <2> HIDE DEF q
  <2>5. given' = given /\ row' = row  BY <1>6 DEF Delete
  <2>6. /\ suspect \subseteq suspect' /\ call[c].ids = {}
        /\ \A d \in Calls : call'[d] = IF d = c THEN q ELSE call[d]
        /\ \A k \in q.ids \ suspect' : k \in Ids \ suspect /\ Settled(k)
                                         /\ \A d \in Calls : k \notin call[d].ids
    BY <2>3, <2>4, BeginAbout
  <2>7. Known'
    <3>1. \A d \in Calls : call'[d].ids \subseteq given' /\ (call'[d].pc = "idle" => call'[d].ids = {})
      BY <2>3, <2>5, <2>6 DEF Orderly, Known
    <3>2. \A d \in Calls : \A k \in Ids, i \in Hosts : <<k, i>> \in call'[d].seen => Reading(k, call'[d])
      BY <2>3, <2>6 DEF Orderly, Known, Reading
    <3>3. QED  BY <1>1, <2>5, <3>1, <3>2 DEF Orderly, Known, Rows
  <2>8. ASSUME NEW k \in Ids \ suspect' PROVE InOrder(k)'
    <3>1. k \in Ids \ suspect /\ InOrder(k)  BY <2>6 DEF Orderly
    <3>2. CASE k # n
      BY <1>1, <2>3, <2>5, <2>6, <3>1, <3>2, Untouched
    <3>3. CASE k = n
      <4>1. \A d \in Calls : k \in call'[d].ids <=> d = c  BY <2>3, <2>6, <3>3
      <4>2. Settled(n)'  BY <1>1, <2>3, <2>5, <2>6, <3>3 DEF Settled, Rows
      <4>3. During(n, call[c])'  BY <2>3, <2>6, <3>3, <4>2 DEF During
      <4>4. \A g \in Probers : prober[g].id = n /\ prober[g].pc = "read" => n \notin Rows
        BY <2>3, <2>6, <3>1, <3>3 DEF InOrder, Leaving
      <4>5. QED  BY <1>1, <2>5, <3>3, <4>1, <4>3, <4>4 DEF InOrder, Leaving, Rows
    <3>4. QED  BY <3>2, <3>3
  <2>9. QED  BY <2>7, <2>8 DEF Orderly
<1>7. CASE StartAll(c)
  <2> DEFINE q == [op |-> "startAll", pc |-> "cache", ids |-> Rows, host |-> NoHost,
                   seen |-> {<<n, row[n].host>> : n \in Rows}]
  <2>1. Rows \subseteq Ids /\ \A n \in Rows : <<n, row[n].host>> \in Ids \X Hosts
    BY <1>2 DEF Rows, Rowset
  <2>2. {<<n, row[n].host>> : n \in Rows} \in SUBSET (Ids \X Hosts)  BY <2>1
  <2>3. q \in Doings  BY <2>1, <2>2 DEF Doings
  <2>4. q.op = "startAll" /\ q.pc = "cache" /\ q.ids = Rows
            /\ \A n \in Ids, h \in Hosts : <<n, h>> \in q.seen => n \in Rows /\ h = row[n].host
    OBVIOUS
  <2>5. Begin(c, q, {})  BY <1>7 DEF StartAll
  <2> HIDE DEF q
  <2>6. given' = given /\ row' = row  BY <1>7 DEF StartAll
  <2>7. /\ suspect \subseteq suspect' /\ call[c].ids = {}
        /\ \A d \in Calls : call'[d] = IF d = c THEN q ELSE call[d]
        /\ \A k \in q.ids \ suspect' : k \in Ids \ suspect /\ Settled(k)
                                         /\ \A d \in Calls : k \notin call[d].ids
    BY <2>3, <2>5, BeginAbout
  <2>8. Known'
    <3>1. \A d \in Calls : call'[d].ids \subseteq given' /\ (call'[d].pc = "idle" => call'[d].ids = {})
      BY <2>4, <2>6, <2>7 DEF Orderly, Known
    <3>2. \A d \in Calls : \A k \in Ids, i \in Hosts : <<k, i>> \in call'[d].seen => Reading(k, call'[d])
      BY <2>4, <2>7 DEF Orderly, Known, Reading
    <3>3. QED  BY <1>1, <2>6, <3>1, <3>2 DEF Orderly, Known, Rows
  <2>9. ASSUME NEW k \in Ids \ suspect' PROVE InOrder(k)'
    <3>1. k \in Ids \ suspect /\ InOrder(k)  BY <2>7 DEF Orderly
    <3>2. CASE k \notin Rows
      BY <1>1, <2>4, <2>6, <2>7, <3>1, <3>2, Untouched
    <3>3. CASE k \in Rows
      <4>1. \A d \in Calls : k \in call'[d].ids <=> d = c  BY <2>4, <2>7, <3>3
      <4>2. Settled(k)' /\ k \in Rows'  BY <1>1, <2>4, <2>6, <2>7, <3>3 DEF Settled, Rows
      <4>3. During(k, call[c])'  BY <2>4, <2>6, <2>7, <4>2 DEF During
      <4>4. \A g \in Probers : ~(prober[g].id = k /\ prober[g].pc = "read")
        BY <2>4, <2>7, <3>1, <3>3 DEF InOrder, Leaving
      <4>5. QED  BY <1>1, <4>1, <4>3, <4>4 DEF InOrder
    <3>4. QED  BY <3>2, <3>3
  <2>10. QED  BY <2>8, <2>9 DEF Orderly
<1>8. QED  BY <1>4, <1>5, <1>6, <1>7 DEF Request

\* A call that goes on is about no more nodes than before.
LEMMA KnownGoesOn ==
  ASSUME TypeOK, Orderly, NEW c \in Calls, NEW q \in Doings, Set(c, q),
         q.ids \subseteq call[c].ids, q.pc = "idle" => q.ids = {},
         q.seen = {}, given' = given, Rows' \subseteq Rows,
         \A g \in Probers : prober'[g].id \in given \cup {0}
  PROVE  Known' /\ \A d \in Calls : call'[d] = IF d = c THEN q ELSE call[d]
<1>1. \A d \in Calls : call'[d] = IF d = c THEN q ELSE call[d]  BY DEF Set, TypeOK
<1>2. \A d \in Calls : call'[d].ids \subseteq given /\ (call'[d].pc = "idle" => call'[d].ids = {})
  BY <1>1 DEF Orderly, Known
<1>3. \A d \in Calls : \A k \in Ids, h \in Hosts : <<k, h>> \in call'[d].seen => Reading(k, call'[d])
  BY <1>1 DEF Orderly, Known, Reading
<1>4. QED  BY <1>1, <1>2, <1>3 DEF Orderly, Known

LEMMA DoingFields ==
  ASSUME TypeOK, NEW c \in Calls
  PROVE  /\ call[c] \in Doings /\ call[c].ids \subseteq Ids
         /\ \A l \in {"row", "cache", "start", "stop", "uncache"} :
               /\ [call[c] EXCEPT !.pc = l] \in Doings
               /\ [call[c] EXCEPT !.pc = l].pc = l
               /\ [call[c] EXCEPT !.pc = l].op = call[c].op
               /\ [call[c] EXCEPT !.pc = l].ids = call[c].ids
               /\ [call[c] EXCEPT !.pc = l].host = call[c].host
               /\ [call[c] EXCEPT !.pc = l].seen = call[c].seen
<1>1. call[c] \in Doings  BY DEF TypeOK, Doings
<1>2. QED  BY <1>1 DEF Doings

LEMMA NothingSeen ==
  ASSUME TypeOK, Orderly, NEW c \in Calls, call[c].op # "startAll" \/ call[c].pc # "cache"
  PROVE  call[c].seen = {}
<1>1. call[c].seen \in SUBSET (Ids \X Hosts)  BY DEF TypeOK
<1>2. \A n \in Ids, h \in Hosts : <<n, h>> \notin call[c].seen
  BY DEF Orderly, Known, Reading
<1>3. ASSUME NEW x \in call[c].seen PROVE FALSE
  <2>1. x \in Ids \X Hosts  BY <1>1
  <2>2. x = <<x[1], x[2]>> /\ x[1] \in Ids /\ x[2] \in Hosts  BY <2>1
  <2>3. QED  BY <1>2, <1>3, <2>2
<1>4. QED  BY <1>3

\* The one call about a node in order.
LEMMA OnlyCall ==
  ASSUME Orderly, NEW c \in Calls, NEW n \in Ids \ suspect, n \in call[c].ids
  PROVE  /\ During(n, call[c])
         /\ \A d \in Calls : n \in call[d].ids <=> d = c
  BY DEF Orderly, InOrder

LEMMA OrderlyCacheAddress ==
  ASSUME TypeOK, Probing, OneProber, Orderly, NEW c \in Calls, CacheAddress(c) PROVE Orderly'
<1> USE Blanks
<1>1. UNCHANGED <<row, given, stopCh, prober, suspect>> /\ Rows' = Rows
  BY DEF CacheAddress, Rows, counts
<1> DEFINE q == IF call[c].op = "update" THEN Done ELSE [call[c] EXCEPT !.pc = "start"]
<1>2. /\ q \in Doings /\ q.ids \subseteq call[c].ids /\ (q.pc = "idle" => q.ids = {})
      /\ q.seen = {}
  BY DoingFields, NothingSeen DEF Done, CacheAddress
<1>3. IF call[c].op = "update" THEN q.ids = {}
      ELSE q.ids = call[c].ids /\ q.op = call[c].op /\ q.pc = "start" /\ q.host = call[c].host
  BY DoingFields
<1>4. Set(c, q)  BY DEF CacheAddress
<1> HIDE DEF q
<1>5. Known' /\ \A d \in Calls : call'[d] = IF d = c THEN q ELSE call[d]
  BY <1>1, <1>2, <1>4, KnownGoesOn DEF Orderly, Known
<1>6. \A n \in Ids : conn'[n] = IF n \in call[c].ids THEN call[c].host ELSE conn[n]
  BY DEF CacheAddress
<1>7. ASSUME NEW n \in Ids \ suspect PROVE InOrder(n)'
  <2>1. InOrder(n)  BY DEF Orderly
  <2>2. CASE n \notin call[c].ids  BY <1>1, <1>2, <1>5, <1>6, <2>1, <2>2, Untouched
  <2>3. CASE n \in call[c].ids
    <3>1. During(n, call[c]) /\ \A d \in Calls : n \in call[d].ids <=> d = c
      BY <2>3, OnlyCall
    <3>2. /\ call[c].op \in {"create", "update"} /\ n \in Rows /\ row[n].host = call[c].host
          /\ call[c].op = "create" => stopCh[n] = NoProber /\ \A g \in Probers : prober[g].id # n
          /\ call[c].op = "update" => stopCh[n] # NoProber
      BY <3>1 DEF During, CacheAddress
    <3>3. \A g \in Probers : ~(prober[g].id = n /\ prober[g].pc = "read")
      BY <2>1, <3>1, <3>2 DEF InOrder, Leaving
    <3>4. CASE call[c].op = "create"
      <4>1. During(n, call[c])'
        BY <1>1, <1>3, <1>5, <1>6, <2>3, <3>2, <3>4 DEF During
      <4>2. QED  BY <1>1, <1>3, <1>5, <3>1, <3>3, <3>4, <4>1 DEF InOrder
    <3>5. CASE call[c].op = "update"
      <4>1. Settled(n)'  BY <1>1, <1>6, <2>3, <3>2, <3>5 DEF Settled
      <4>2. QED  BY <1>1, <1>3, <1>5, <3>1, <3>3, <3>5, <4>1 DEF InOrder
    <3>6. QED  BY <3>2, <3>4, <3>5
  <2>4. QED  BY <2>2, <2>3
<1>8. QED  BY <1>1, <1>5, <1>7 DEF Orderly

LEMMA OrderlyDelete ==
  ASSUME TypeOK, Probing, OneProber, Orderly, NEW c \in Calls,
         StopCheck(c) \/ Uncache(c) \/ DeleteRow(c) \/ DeleteRowFailed(c)
  PROVE  Orderly'
<1> USE Blanks
<1>1. CASE StopCheck(c)
  <2>1. PICK m \in call[c].ids : Cancel(m)  BY <1>1 DEF StopCheck
  <2>2. m \in Ids  BY <2>1, DoingFields
  <2>3. UNCHANGED <<row, given, conn, suspect>> /\ Rows' = Rows
    BY <1>1 DEF StopCheck, Rows, counts
  <2>4. \A g \in Probers : prober'[g].id = prober[g].id /\ prober'[g].pc = prober[g].pc
    <3>1. \A g \in Probers : prober[g] \in Goroutines  BY DEF TypeOK, Goroutines
    <3>2. QED  BY <2>1, <3>1 DEF Cancel, Goroutines
  <2>5. \A n \in Ids : stopCh'[n] = IF n = m THEN NoProber ELSE stopCh[n]
    BY <2>1 DEF Cancel, TypeOK
  <2> DEFINE q == [call[c] EXCEPT !.pc = "uncache"]
  <2>6. q \in Doings /\ q.op = call[c].op /\ q.pc = "uncache" /\ q.ids = call[c].ids
            /\ q.seen = {}
    BY DoingFields, NothingSeen, <1>1 DEF StopCheck
  <2>7. Set(c, q)  BY <1>1 DEF StopCheck
  <2> HIDE DEF q
  <2>8. Known' /\ \A d \in Calls : call'[d] = IF d = c THEN q ELSE call[d]
    <3>1. q.ids \subseteq call[c].ids /\ q.pc # "idle"  BY <2>6
    <3>2. \A g \in Probers : prober'[g].id \in given \cup {0}  BY <2>4 DEF Orderly, Known
    <3>3. QED  BY <2>3, <2>6, <2>7, <3>1, <3>2, KnownGoesOn
  <2>9. ASSUME NEW n \in Ids \ suspect PROVE InOrder(n)'
    <3>1. InOrder(n)  BY DEF Orderly
    <3>2. CASE n \notin call[c].ids
      BY <2>1, <2>3, <2>4, <2>5, <2>6, <2>8, <3>1, <3>2, Untouched
    <3>3. CASE n \in call[c].ids
      <4>1. During(n, call[c]) /\ \A d \in Calls : n \in call[d].ids <=> d = c
        BY <3>3, OnlyCall
      <4>2. call[c].op = "delete" /\ call[c].pc = "stop" /\ call[c].ids = {n} /\ Settled(n)
        BY <1>1, <4>1 DEF During, StopCheck
      <4>3. \A g \in Probers : prober[g].id = n /\ prober[g].pc = "read" => n \notin Rows
        BY <3>1, <4>1, <4>2 DEF InOrder, Leaving
      <4>4. stopCh'[n] = NoProber /\ (n \in Rows' => conn'[n] # NoHost)
        <5>1. n \in Rows => row[n].host # NoHost  BY DEF Rows
        <5>2. n = m  BY <2>1, <4>2
        <5>3. QED  BY <2>3, <2>5, <4>2, <5>1, <5>2 DEF Settled
      <4>5. During(n, call[c])'  BY <2>6, <2>8, <4>2, <4>4 DEF During
      <4>6. QED  BY <2>3, <2>4, <2>6, <2>8, <4>1, <4>3, <4>5 DEF InOrder, Leaving
    <3>4. QED  BY <3>2, <3>3
  <2>10. QED  BY <2>3, <2>8, <2>9 DEF Orderly
<1>2. CASE Uncache(c)
  <2>1. UNCHANGED <<row, given, stopCh, prober, suspect>> /\ Rows' = Rows
    BY <1>2 DEF Uncache, Rows, counts
  <2>2. \A n \in Ids : conn'[n] = IF n \in call[c].ids THEN NoHost ELSE conn[n]
    BY <1>2 DEF Uncache
  <2> DEFINE q == [call[c] EXCEPT !.pc = "row"]
  <2>3. q \in Doings /\ q.op = call[c].op /\ q.pc = "row" /\ q.ids = call[c].ids
            /\ q.seen = {}
    BY DoingFields, NothingSeen, <1>2 DEF Uncache
  <2>4. Set(c, q)  BY <1>2 DEF Uncache
  <2> HIDE DEF q
  <2>5. Known' /\ \A d \in Calls : call'[d] = IF d = c THEN q ELSE call[d]
    <3>1. q.ids \subseteq call[c].ids /\ q.pc # "idle"  BY <2>3
    <3>2. \A g \in Probers : prober'[g].id \in given \cup {0}  BY <2>1 DEF Orderly, Known
    <3>3. QED  BY <2>1, <2>3, <2>4, <3>1, <3>2, KnownGoesOn
  <2>6. ASSUME NEW n \in Ids \ suspect PROVE InOrder(n)'
    <3>1. InOrder(n)  BY DEF Orderly
    <3>2. CASE n \notin call[c].ids  BY <2>1, <2>2, <2>3, <2>5, <3>1, <3>2, Untouched
    <3>3. CASE n \in call[c].ids
      <4>1. During(n, call[c]) /\ \A d \in Calls : n \in call[d].ids <=> d = c
        BY <3>3, OnlyCall
      <4>2. call[c].op = "delete" /\ stopCh[n] = NoProber
        BY <1>2, <4>1 DEF During, Uncache
      <4>3. During(n, call[c])'  BY <2>1, <2>3, <2>5, <4>2 DEF During
      <4>4. Leaving(n)'  BY <2>3, <2>5, <3>3, <4>2 DEF Leaving
      <4>5. QED  BY <2>3, <2>5, <4>1, <4>3, <4>4 DEF InOrder
    <3>4. QED  BY <3>2, <3>3
  <2>7. QED  BY <2>1, <2>5, <2>6 DEF Orderly
<1>3. CASE DeleteRow(c)
  <2>1. UNCHANGED <<given, conn, stopCh, prober, suspect>>
    BY <1>3 DEF DeleteRow, serviceVars, counts
  <2>2. \A n \in Ids : row'[n] = IF n \in call[c].ids THEN NoRow ELSE row[n]
    BY <1>3 DEF DeleteRow
  <2>3. \A n \in Ids : n \in Rows' <=> n \in Rows /\ n \notin call[c].ids
    BY <2>2 DEF Rows
  <2>4. Known' /\ \A d \in Calls : call'[d] = IF d = c THEN Done ELSE call[d]
    <3>1. Rows' \subseteq Rows  BY <2>3 DEF Rows
    <3>2. Set(c, Done) /\ Done.seen = {}  BY <1>3 DEF DeleteRow, Done
    <3>3. QED  BY <2>1, <3>1, <3>2, KnownGoesOn DEF Orderly, Known
  <2>5. ASSUME NEW n \in Ids \ suspect PROVE InOrder(n)'
    <3>1. InOrder(n)  BY DEF Orderly
    <3>2. CASE n \notin call[c].ids  BY <2>1, <2>2, <2>4, <3>1, <3>2, Untouched
    <3>3. CASE n \in call[c].ids
      <4>1. During(n, call[c]) /\ \A d \in Calls : n \in call[d].ids <=> d = c
        BY <3>3, OnlyCall
      <4>2. stopCh[n] = NoProber  BY <1>3, <4>1 DEF During, DeleteRow
      <4>3. Settled(n)'  BY <2>1, <2>3, <3>3, <4>2 DEF Settled
      <4>4. QED  BY <2>1, <2>3, <2>4, <3>3, <4>1, <4>3 DEF InOrder, Leaving
    <3>4. QED  BY <3>2, <3>3
  <2>6. QED  BY <2>1, <2>4, <2>5 DEF Orderly
<1>4. CASE DeleteRowFailed(c)
  <2>1. UNCHANGED <<row, given, conn, stopCh, prober>> /\ Rows' = Rows
            /\ suspect' = suspect \cup call[c].ids
    BY <1>4 DEF DeleteRowFailed, serviceVars, Rows
  <2>2. Known' /\ \A d \in Calls : call'[d] = IF d = c THEN Done ELSE call[d]
    <3>1. Set(c, Done) /\ Done.seen = {}  BY <1>4 DEF DeleteRowFailed, Done
    <3>2. QED  BY <2>1, <3>1, KnownGoesOn DEF Orderly, Known
  <2>3. ASSUME NEW n \in Ids \ suspect' PROVE InOrder(n)'
    BY <2>1, <2>2, Untouched DEF Orderly
  <2>4. QED  BY <2>2, <2>3 DEF Orderly
<1>5. QED  BY <1>1, <1>2, <1>3, <1>4

LEMMA OrderlyCacheAll ==
  ASSUME TypeOK, Probing, OneProber, Orderly, NEW c \in Calls, CacheAll(c) PROVE Orderly'
<1> USE Blanks
<1>1. UNCHANGED <<row, given, stopCh, prober, suspect>> /\ Rows' = Rows
  BY DEF CacheAll, Rows, counts
<1> DEFINE q == IF call[c].ids = {} THEN Done ELSE [call[c] EXCEPT !.pc = "start", !.seen = {}]
<1>2. /\ q \in Doings /\ q.ids = call[c].ids /\ (q.pc = "idle" => q.ids = {})
      /\ q.seen = {} /\ (q.ids # {} => q.op = call[c].op /\ q.pc = "start")
  <2>1. call[c] \in Doings  BY DoingFields
  <2>2. QED  BY <2>1 DEF Doings, Done
<1>3. Set(c, q)  BY DEF CacheAll
<1> HIDE DEF q
<1>4. Known' /\ \A d \in Calls : call'[d] = IF d = c THEN q ELSE call[d]
  BY <1>1, <1>2, <1>3, KnownGoesOn DEF Orderly, Known
<1>5. \A n \in Ids : conn'[n] = IF \E h \in Hosts : <<n, h>> \in call[c].seen
                               THEN CHOOSE h \in Hosts : <<n, h>> \in call[c].seen ELSE conn[n]
  BY DEF CacheAll
<1>6. ASSUME NEW n \in Ids \ suspect PROVE InOrder(n)'
  <2>1. InOrder(n)  BY DEF Orderly
  <2>2. CASE n \notin call[c].ids
    <3>1. conn'[n] = conn[n]  BY <1>5, <2>2 DEF Orderly, Known, Reading
    <3>2. QED  BY <1>1, <1>2, <1>4, <2>1, <2>2, <3>1, Untouched
  <2>3. CASE n \in call[c].ids
    <3>1. During(n, call[c]) /\ \A d \in Calls : n \in call[d].ids <=> d = c
      BY <2>3, OnlyCall
    <3>2. n \in Rows /\ Settled(n) /\ call[c].op = "startAll" /\ call[c].pc = "cache"
            /\ \A h \in Hosts : <<n, h>> \in call[c].seen => h = row[n].host
      BY <3>1 DEF During, CacheAll
    <3>3. conn'[n] = conn[n]  BY <1>5, <3>2 DEF Settled
    <3>4. Settled(n)'  BY <1>1, <3>2, <3>3 DEF Settled
    <3>5. During(n, call[c])'  BY <1>1, <1>2, <1>4, <2>3, <3>2, <3>4 DEF During
    <3>6. \A g \in Probers : ~(prober[g].id = n /\ prober[g].pc = "read")
      BY <2>1, <3>1, <3>2 DEF InOrder, Leaving
    <3>7. QED  BY <1>1, <1>2, <1>4, <3>1, <3>5, <3>6 DEF InOrder
  <2>4. QED  BY <2>2, <2>3
<1>7. QED  BY <1>1, <1>4, <1>6 DEF Orderly

LEMMA OrderlyStart ==
  ASSUME TypeOK, Probing, OneProber, Orderly, NEW c \in Calls, Start(c) PROVE Orderly'
<1> USE Blanks
<1>1. UNCHANGED <<row, given, conn, suspect>> /\ Rows' = Rows
  BY DEF Start, Rows, counts
<1>2. PICK m \in call[c].ids :
        /\ Launch(m)
        /\ Set(c, IF call[c].ids = {m} THEN Done ELSE [call[c] EXCEPT !.ids = @ \ {m}])
  BY DEF Start
<1> DEFINE q == IF call[c].ids = {m} THEN Done ELSE [call[c] EXCEPT !.ids = @ \ {m}]
<1>3. m \in Ids /\ m \in given  BY <1>2, DoingFields DEF Orderly, Known
<1>4. /\ q \in Doings /\ q.ids = call[c].ids \ {m} /\ (q.pc = "idle" => q.ids = {})
      /\ q.seen = {}
      /\ q.ids # {} => q.op = call[c].op /\ q.pc = call[c].pc /\ q.host = call[c].host
  <2>1. call[c] \in Doings /\ call[c].pc = "start" /\ call[c].seen = {}
    BY DoingFields, NothingSeen DEF Start
  <2>2. QED  BY <1>2, <2>1 DEF Doings, Done
<1>5. Set(c, q)  BY <1>2
<1> HIDE DEF q
<1>6. /\ \A n \in Ids \ {m} : stopCh'[n] = stopCh[n]
      /\ stopCh'[m] # NoProber /\ (stopCh[m] # NoProber => stopCh'[m] = stopCh[m])
      /\ \A g \in Probers :
            \/ prober'[g] = prober[g]
            \/ prober[g].id = 0 /\ prober'[g].id = m /\ prober'[g].pc = "lookup"
  <2>1. CASE stopCh[m] # NoProber
    <3>1. stopCh' = stopCh /\ prober' = prober  BY <1>2, <2>1 DEF Launch
    <3>2. QED  BY <2>1, <3>1
  <2>2. CASE stopCh[m] = NoProber
    <3>1. PICK g \in Probers :
              /\ prober[g].pc = "free"
              /\ prober' = [prober EXCEPT ![g] = [Free EXCEPT !.id = m, !.pc = "lookup"]]
              /\ stopCh' = [stopCh EXCEPT ![m] = g]
      BY <1>2, <2>2 DEF Launch
    <3>2. [Free EXCEPT !.id = m, !.pc = "lookup"].id = m
            /\ [Free EXCEPT !.id = m, !.pc = "lookup"].pc = "lookup"
      BY DEF Free
    <3>3. prober[g].id = 0  BY <3>1 DEF Probing
    <3>4. /\ \A n \in Ids : stopCh'[n] = IF n = m THEN g ELSE stopCh[n]
          /\ \A h \in Probers : h # g => prober'[h] = prober[h]
          /\ prober'[g].id = m /\ prober'[g].pc = "lookup"
      BY <1>3, <3>1, <3>2 DEF TypeOK
    <3>5. g # NoProber  OBVIOUS
    <3>6. QED  BY <1>3, <2>2, <3>3, <3>4, <3>5
  <2>3. QED  BY <2>1, <2>2
<1>7. Known' /\ \A d \in Calls : call'[d] = IF d = c THEN q ELSE call[d]
  <2>1. \A g \in Probers : prober'[g].id \in given \cup {0}
    BY <1>3, <1>6 DEF Orderly, Known
  <2>2. QED  BY <1>1, <1>4, <1>5, <2>1, KnownGoesOn
<1>8. ASSUME NEW n \in Ids \ suspect PROVE InOrder(n)'
  <2>1. InOrder(n)  BY DEF Orderly
  <2>2. CASE n \notin call[c].ids
    BY <1>1, <1>2, <1>4, <1>6, <1>7, <2>1, <2>2, Untouched
  <2>3. CASE n \in call[c].ids
    <3>1. During(n, call[c]) /\ \A d \in Calls : n \in call[d].ids <=> d = c
      BY <2>3, OnlyCall
    <3>2. /\ n \in Rows /\ conn[n] = row[n].host
          /\ IF call[c].op = "create" THEN row[n].host = call[c].host
             ELSE call[c].op = "startAll" /\ stopCh[n] # NoProber /\ Settled(n)
      BY <3>1 DEF During, Start, Settled
    <3>3. \A g \in Probers : ~(prober'[g].id = n /\ prober'[g].pc = "read")
      BY <1>6, <2>1, <3>1, <3>2 DEF InOrder, Leaving, Start
    <3>4. CASE n = m
      <4>1. Settled(n)'  BY <1>1, <1>6, <3>2, <3>4 DEF Settled
      <4>2. QED  BY <1>4, <1>7, <3>1, <3>3, <3>4, <4>1 DEF InOrder
    <3>5. CASE n # m
      <4>1. \A g \in Probers : prober'[g].id = n => prober[g].id = n  BY <1>6, <3>5
      <4>2. During(n, call[c])'
        BY <1>1, <1>4, <1>6, <1>7, <2>3, <3>1, <3>5, <4>1 DEF During, Settled, Start
      <4>3. QED  BY <1>4, <1>7, <2>3, <3>1, <3>3, <3>5, <4>2 DEF InOrder
    <3>6. QED  BY <3>4, <3>5
  <2>4. QED  BY <2>2, <2>3
<1>9. QED  BY <1>1, <1>7, <1>8 DEF Orderly

LEMMA OrderlyNext == TypeOK /\ Probing /\ OneProber /\ Orderly /\ [Next]_vars => Orderly'
<1> SUFFICES ASSUME TypeOK, Probing, OneProber, Orderly, [Next]_vars PROVE Orderly'
  OBVIOUS
<1>1. CASE Fetch \/ Keep \/ Expire \/ Flip \/ UNCHANGED vars
  <2>1. UNCHANGED <<row, given, conn, stopCh, prober, call, suspect>> /\ Rows' = Rows
    BY <1>1 DEF Fetch, Keep, Expire, Flip, vars, serviceVars, counts, Rows
  <2>2. Known'  BY <2>1 DEF Orderly, Known
  <2>3. \A n \in Ids \ suspect : InOrder(n)'  BY <2>1, Untouched DEF Orderly
  <2>4. QED  BY <2>1, <2>2, <2>3 DEF Orderly
<1>2. QED
  BY <1>1, OrderlyCheck, OrderlyRequest, OrderlyCacheAddress, OrderlyDelete, OrderlyCacheAll,
     OrderlyStart DEF Next, Continue

LEMMA OrderlyAlways == Spec => []Orderly
<1>1. TypeOK /\ Probing /\ OneProber /\ Orderly /\ [Next]_vars => Orderly'  BY OrderlyNext
<1>2. QED  BY <1>1, OrderlyInit, Inductive, PTL DEF Spec

\* Once the calls about a node are over it is probed exactly if it is in the table, at the
\* address that is stored, unless calls about it overlapped, it was updated after it was
\* deleted, or its deletion failed: whatever the goroutines that probe it read or cache
\* meanwhile, and however calls about other nodes are interleaved.
THEOREM WatchedHolds == Spec => []Watched
<1>1. Orderly => Watched
  BY DEF Orderly, InOrder, Settled, Watched, InFlight
<1>2. QED  BY <1>1, OrderlyAlways, PTL

=============================================================================
