-------------------------------- MODULE Nodes --------------------------------
(***************************************************************************)
(* Remote nodes, the goroutines that probe them (service/node.go), and the *)
(* subscriptions that leave out the hosts of nodes found offline           *)
(* (sub/subService.go).                                                    *)
(*                                                                         *)
(* A call is a request of an administrator, or the start of the health     *)
(* checks when the panel starts.  A prober is one health-check goroutine:  *)
(* it learns the node's address from a cache, dials it, and stores what it *)
(* found, each in a step of its own.                                       *)
(***************************************************************************)
EXTENDS Naturals, FiniteSets

CONSTANTS
    Ids,        \* ids of nodes, each given out once
    Hosts,      \* addresses
    NoHost,
    Probers,    \* identities of health-check goroutines
    NoProber,
    Calls,      \* calls that may be in progress at the same time
    MaxCalls, MaxMishaps   \* bounds

ASSUME NoneAssumption == NoHost \notin Hosts /\ NoProber \notin Probers
ASSUME IdsAssumption == Ids \subseteq Nat \ {0}
\* There are as many goroutines as nodes.
ASSUME ProbersAssumption ==
    \E f \in [Ids -> Probers] : \A n, k \in Ids : f[n] = f[k] => n = k
ASSUME BoundsAssumption == MaxCalls \in Nat /\ MaxMishaps \in Nat

VARIABLES
    row,        \* the table of nodes: address (NoHost: no row) and status
    given,      \* the ids given out
    conn,       \* connCache
    stopCh,     \* stopChs: the goroutine that a node's cancel function cancels
    prober,     \* every health-check goroutine
    call,       \* what each call is doing
    reachable,  \* whether a host answers
    offline, fresh, \* offlineNodeCacheHosts, and whether it has not expired
    fetched,    \* the sets of hosts that subscriptions have read and not yet cached
    calls, mishaps, \* counted for the bounds
    suspect     \* nodes about which overlapping calls or a failure may have left a disorder

serviceVars == <<conn, stopCh, prober>>
subVars == <<offline, fresh, fetched>>
counts == <<calls, mishaps>>
vars == <<row, given, serviceVars, call, reachable, subVars, counts, suspect>>

NoRow == [host |-> NoHost, status |-> "online"]
Free == [id |-> 0, pc |-> "free", host |-> NoHost, found |-> "online", cancelled |-> FALSE]
Done == [op |-> "none", pc |-> "idle", ids |-> {}, host |-> NoHost, seen |-> {}]
\* A node not yet probed is "unknown", which everybody takes like "online".
Statuses == {"online", "offline"}

TypeOK ==
    /\ row \in [Ids -> [host : Hosts \cup {NoHost}, status : Statuses]]
    /\ given \in SUBSET Ids
    /\ conn \in [Ids -> Hosts \cup {NoHost}]
    /\ stopCh \in [Ids -> Probers \cup {NoProber}]
    /\ prober \in [Probers ->
          [id : Ids \cup {0}, pc : {"free", "lookup", "read", "dial", "store", "wait"},
           host : Hosts \cup {NoHost}, found : Statuses, cancelled : BOOLEAN]]
    /\ call \in [Calls ->
          [op : {"none", "create", "update", "delete", "startAll"},
           pc : {"idle", "row", "cache", "start", "stop", "uncache"},
           ids : SUBSET Ids, host : Hosts \cup {NoHost}, seen : SUBSET (Ids \X Hosts)]]
    /\ reachable \in [Hosts -> BOOLEAN]
    /\ offline \in SUBSET Hosts /\ fresh \in BOOLEAN /\ fetched \in SUBSET SUBSET Hosts
    /\ calls \in 0..MaxCalls /\ mishaps \in 0..MaxMishaps
    /\ suspect \in SUBSET Ids

\* The panel has started: every node of the table has its goroutine (StartAllHealthChecks).
Init ==
    /\ row \in [Ids -> [host : Hosts, status : Statuses] \cup {NoRow}]
    /\ given = {n \in Ids : row[n] # NoRow}
    /\ conn = [n \in Ids |-> row[n].host]
    /\ stopCh = CHOOSE f \in [Ids -> Probers \cup {NoProber}] :
          \A n \in Ids : /\ f[n] # NoProber <=> n \in given
                         /\ \A k \in given \ {n} : f[n] # f[k]
    /\ prober = [g \in Probers |->
          IF \E n \in given : stopCh[n] = g
          THEN [Free EXCEPT !.id = CHOOSE n \in given : stopCh[n] = g, !.pc = "lookup"] ELSE Free]
    /\ call = [c \in Calls |-> Done]
    /\ reachable \in [Hosts -> BOOLEAN]
    /\ offline = {} /\ fresh = FALSE /\ fetched = {}
    /\ calls = 0 /\ mishaps = 0
    /\ suspect = {}

-----------------------------------------------------------------------------
(* Suspicions: calls about the same node that overlapped, an update of a    *)
(* node that is gone (which brings its row back), a deletion that failed.   *)

Rows == {n \in Ids : row[n].host # NoHost}

\* A call about a node excludes nobody, so others may be about the same one.
InFlight == UNION {call[c].ids : c \in Calls}

Set(c, q) == call' = [call EXCEPT ![c] = q]

Begin(c, q, gone) ==
    /\ call[c].pc = "idle" /\ calls < MaxCalls
    /\ calls' = calls + 1
    /\ Set(c, q)
    /\ suspect' = suspect \cup (q.ids \cap InFlight) \cup gone
    /\ UNCHANGED mishaps

-----------------------------------------------------------------------------
(* The health checks.                                                      *)

\* Mutated form: a goroutine is started whether or not there is one.
LaunchAgain(n) ==
    \E g \in Probers :
        /\ prober[g].pc = "free"
        /\ prober' = [prober EXCEPT ![g] = [Free EXCEPT !.id = n, !.pc = "lookup"]]
        /\ stopCh' = [stopCh EXCEPT ![n] = g]

\* startHealthCheck, under the mutex: nothing if the node has a goroutine.
Launch(n) ==
    IF stopCh[n] # NoProber THEN UNCHANGED <<prober, stopCh>>
    ELSE \E g \in Probers :
            /\ prober[g].pc = "free"
            /\ prober' = [prober EXCEPT ![g] = [Free EXCEPT !.id = n, !.pc = "lookup"]]
            /\ stopCh' = [stopCh EXCEPT ![n] = g]

\* stopHealthCheck, under the mutex.
Cancel(n) ==
    /\ prober' = [g \in Probers |->
          IF g = stopCh[n] THEN [prober[g] EXCEPT !.cancelled = TRUE] ELSE prober[g]]
    /\ stopCh' = [stopCh EXCEPT ![n] = NoProber]

Probe(g, q) == prober' = [prober EXCEPT ![g] = q]

\* pingNode, at once and then whenever the ticker of the select fires (which a cancelled
\* goroutine may still take): the address from the cache, or else from the table.
LookUp(g) ==
    /\ prober[g].pc \in {"lookup", "wait"}
    /\ LET h == conn[prober[g].id]
       IN  Probe(g, [prober[g] EXCEPT !.pc = IF h = NoHost THEN "read" ELSE "dial", !.host = h])
    /\ UNCHANGED <<row, given, conn, stopCh, call, reachable, subVars, counts, suspect>>

ReadNode(g) ==
    /\ prober[g].pc = "read" /\ prober[g].host = NoHost
    /\ LET h == row[prober[g].id].host
       IN  Probe(g, [prober[g] EXCEPT !.pc = IF h = NoHost THEN "wait" ELSE "read", !.host = h])
    /\ UNCHANGED <<row, given, conn, stopCh, call, reachable, subVars, counts, suspect>>

\* The entry may come back after the node was deleted.
CacheNode(g) ==
    /\ prober[g].pc = "read" /\ prober[g].host # NoHost
    /\ conn' = [conn EXCEPT ![prober[g].id] = prober[g].host]
    /\ Probe(g, [prober[g] EXCEPT !.pc = "dial"])
    /\ UNCHANGED <<row, given, stopCh, call, reachable, subVars, counts, suspect>>

\* Mutated form: the address is kept where the status belongs.
DialKept(g) ==
    /\ prober[g].pc = "dial"
    /\ Probe(g, [prober[g] EXCEPT !.pc = "store", !.found = prober[g].host])
    /\ UNCHANGED <<row, given, conn, stopCh, call, reachable, subVars, counts, suspect>>

Dial(g) ==
    /\ prober[g].pc = "dial"
    /\ Probe(g, [prober[g] EXCEPT !.pc = "store", !.host = NoHost,
                    !.found = IF reachable[prober[g].host] THEN "online" ELSE "offline"])
    /\ UNCHANGED <<row, given, conn, stopCh, call, reachable, subVars, counts, suspect>>

\* Mutated form: the status is stored only when the host answers.
StoreOnline(g) ==
    /\ prober[g].pc = "store"
    /\ LET n == prober[g].id
       IN  row' = [row EXCEPT ![n].status =
                      IF n \in Rows /\ prober[g].found = "online" THEN "online" ELSE @]
    /\ Probe(g, [prober[g] EXCEPT !.pc = "wait", !.found = "online"])
    /\ UNCHANGED <<given, conn, stopCh, call, reachable, subVars, counts, suspect>>

\* UPDATE ... WHERE id: nothing happens to a node that is gone.
StoreStatus(g) ==
    /\ prober[g].pc = "store"
    /\ LET n == prober[g].id
       IN  row' = [row EXCEPT ![n].status = IF n \in Rows THEN prober[g].found ELSE @]
    /\ Probe(g, [prober[g] EXCEPT !.pc = "wait", !.found = "online"])
    /\ UNCHANGED <<given, conn, stopCh, call, reachable, subVars, counts, suspect>>

\* Mutated form: only a goroutine that has not probed yet sees that it is cancelled.
ExitEarly(g) ==
    /\ prober[g].pc = "lookup" /\ prober[g].cancelled
    /\ Probe(g, Free)
    /\ UNCHANGED <<row, given, conn, stopCh, call, reachable, subVars, counts, suspect>>

Exit(g) ==
    /\ prober[g].pc = "wait" /\ prober[g].cancelled
    /\ Probe(g, Free)
    /\ UNCHANGED <<row, given, conn, stopCh, call, reachable, subVars, counts, suspect>>

-----------------------------------------------------------------------------
(* Calls.                                                                  *)

\* Create: the row, the cache, the goroutine.
Create(c) ==
    /\ \E n \in Ids \ given, h \in Hosts :
          /\ Begin(c, [op |-> "create", pc |-> "cache", ids |-> {n}, host |-> h, seen |-> {}], {})
          /\ row' = [row EXCEPT ![n] = [host |-> h, status |-> "online"]]
          /\ given' = given \cup {n}
    /\ UNCHANGED <<serviceVars, reachable, subVars>>

\* Update: Save stores the whole row of the page, status included, or inserts it again.
Update(c) ==
    /\ \E n \in given, h \in Hosts, s \in Statuses :
          /\ Begin(c, [op |-> "update", pc |-> "cache", ids |-> {n}, host |-> h, seen |-> {}],
                   {n} \ Rows)
          /\ row' = [row EXCEPT ![n] = [host |-> h, status |-> s]]
    /\ UNCHANGED <<given, serviceVars, reachable, subVars>>

\* Mutated form: an address that is cached is not replaced.
CacheAddressOnce(c) ==
    /\ call[c].pc = "cache" /\ call[c].op # "startAll"
    /\ conn' = [n \in Ids |-> IF n \in call[c].ids /\ conn[n] = NoHost THEN call[c].host ELSE conn[n]]
    /\ Set(c, IF call[c].op = "update" THEN Done ELSE [call[c] EXCEPT !.pc = "start"])
    /\ UNCHANGED <<row, given, stopCh, prober, reachable, subVars, counts, suspect>>

CacheAddress(c) ==
    /\ call[c].pc = "cache" /\ call[c].op # "startAll"
    /\ conn' = [n \in Ids |-> IF n \in call[c].ids THEN call[c].host ELSE conn[n]]
    /\ Set(c, IF call[c].op = "update" THEN Done ELSE [call[c] EXCEPT !.pc = "start"])
    /\ UNCHANGED <<row, given, stopCh, prober, reachable, subVars, counts, suspect>>

\* Delete: the goroutine, the cache, the row.
Delete(c) ==
    /\ \E n \in given :
          Begin(c, [op |-> "delete", pc |-> "stop", ids |-> {n}, host |-> NoHost, seen |-> {}], {})
    /\ UNCHANGED <<row, given, serviceVars, reachable, subVars>>

StopCheck(c) ==
    /\ call[c].pc = "stop"
    /\ \E n \in call[c].ids : Cancel(n)
    /\ Set(c, [call[c] EXCEPT !.pc = "uncache"])
    /\ UNCHANGED <<row, given, conn, reachable, subVars, counts, suspect>>

Uncache(c) ==
    /\ call[c].pc = "uncache"
    /\ conn' = [n \in Ids |-> IF n \in call[c].ids THEN NoHost ELSE conn[n]]
    /\ Set(c, [call[c] EXCEPT !.pc = "row"])
    /\ UNCHANGED <<row, given, stopCh, prober, reachable, subVars, counts, suspect>>

DeleteRow(c) ==
    /\ call[c].pc = "row"
    /\ row' = [n \in Ids |-> IF n \in call[c].ids THEN NoRow ELSE row[n]]
    /\ Set(c, Done)
    /\ UNCHANGED <<given, serviceVars, reachable, subVars, counts, suspect>>

DeleteRowFailed(c) ==
    /\ call[c].pc = "row" /\ mishaps < MaxMishaps
    /\ mishaps' = mishaps + 1
    /\ suspect' = suspect \cup call[c].ids
    /\ Set(c, Done)
    /\ UNCHANGED <<row, given, serviceVars, reachable, subVars, calls>>

\* StartAllHealthChecks when SIGHUP restarts the application: nobody has stopped the
\* goroutines, and the rows are those read first.
StartAll(c) ==
    /\ Begin(c, [op |-> "startAll", pc |-> "cache", ids |-> Rows, host |-> NoHost,
                 seen |-> {<<n, row[n].host>> : n \in Rows}], {})
    /\ UNCHANGED <<row, given, serviceVars, reachable, subVars>>

CacheAll(c) ==
    /\ call[c].pc = "cache" /\ call[c].op = "startAll"
    /\ conn' = [n \in Ids |->
          IF \E h \in Hosts : <<n, h>> \in call[c].seen
          THEN CHOOSE h \in Hosts : <<n, h>> \in call[c].seen ELSE conn[n]]
    /\ Set(c, IF call[c].ids = {} THEN Done ELSE [call[c] EXCEPT !.pc = "start", !.seen = {}])
    /\ UNCHANGED <<row, given, stopCh, prober, reachable, subVars, counts, suspect>>

\* The end of Create, and the loop of StartAllHealthChecks.
Start(c) ==
    /\ call[c].pc = "start"
    /\ \E n \in call[c].ids :
          /\ Launch(n)
          /\ Set(c, IF call[c].ids = {n} THEN Done ELSE [call[c] EXCEPT !.ids = @ \ {n}])
    /\ UNCHANGED <<row, given, conn, reachable, subVars, counts, suspect>>

-----------------------------------------------------------------------------
(* Subscriptions: getOfflineNodeHosts.                                     *)

OfflineHosts == {row[n].host : n \in {n \in Rows : row[n].status = "offline"}}

\* The hosts that a subscription asked for now leaves out.
LeftOut == IF fresh THEN offline ELSE OfflineHosts

\* One subscription at a time reads the table (a bound).
Fetch ==
    /\ ~fresh /\ fetched = {}
    /\ fetched' = fetched \cup {OfflineHosts}
    /\ UNCHANGED <<row, given, serviceVars, call, reachable, offline, fresh, counts, suspect>>

Keep ==
    /\ \E hs \in fetched : offline' = hs /\ fetched' = fetched \ {hs}
    /\ fresh' = TRUE
    /\ UNCHANGED <<row, given, serviceVars, call, reachable, counts, suspect>>

Expire ==
    /\ fresh /\ fresh' = FALSE /\ offline' = {}
    /\ UNCHANGED <<row, given, serviceVars, call, reachable, fetched, counts, suspect>>

\* A host goes up or down.
Flip ==
    /\ \E h \in Hosts : reachable' = [reachable EXCEPT ![h] = ~@]
    /\ UNCHANGED <<row, given, serviceVars, call, subVars, counts, suspect>>

-----------------------------------------------------------------------------

HealthCheck(g) ==
    \/ LookUp(g) \/ ReadNode(g) \/ CacheNode(g) \/ Dial(g) \/ StoreStatus(g)

Request(c) == Create(c) \/ Update(c) \/ Delete(c) \/ StartAll(c)

Continue(c) ==
    \/ CacheAddress(c) \/ StopCheck(c) \/ Uncache(c) \/ DeleteRow(c) \/ DeleteRowFailed(c)
    \/ CacheAll(c) \/ Start(c)

Next ==
    \/ \E g \in Probers : HealthCheck(g) \/ Exit(g)
    \/ \E c \in Calls : Request(c) \/ Continue(c)
    \/ Fetch \/ Keep \/ Expire \/ Flip

Spec == Init /\ [][Next]_vars

\* Tickers tick, goroutines and calls that can go on do, a cached set expires; select
\* takes the cancellation of a goroutine at last, for both cases are chosen at random.
Fairness ==
    /\ \A g \in Probers : WF_vars(HealthCheck(g)) /\ SF_vars(Exit(g))
    /\ \A c \in Calls : WF_vars(Continue(c))
    /\ WF_vars(Keep) /\ WF_vars(Expire)
FairSpec == Spec /\ Fairness

-----------------------------------------------------------------------------

Active(n) == {g \in Probers : prober[g].id = n /\ ~prober[g].cancelled}

\* However calls overlap, no node is probed by two goroutines for good, and the one that
\* is not cancelled is the one that Delete would cancel.
OneProber == \A n \in Ids : Active(n) = {stopCh[n]} \ {NoProber}

\* Once the calls about it are over, every node is probed at its own address, and no
\* node that is deleted is, but for the causes listed under Suspicions.
Watched ==
    \A n \in Ids \ (suspect \cup InFlight) :
        /\ n \in Rows <=> stopCh[n] # NoProber
        /\ n \in Rows => conn[n] = row[n].host

\* "Delete a node (stops health check)": a goroutine that was cancelled ends.
ChecksEnd == \A g \in Probers : []<>(~prober[g].cancelled)

\* "Nodes whose health check returns offline are automatically excluded from
\* subscription output", and come back: a host that stays as it is, of a node that
\* nobody changes any more, is left out at last exactly when it does not answer.
Stays(n, h, b) ==
    row[n].host = h /\ reachable[h] = b /\ suspect = {} /\ \A m \in Ids \ {n} : row[m].host # h

Follows ==
    \A n \in Ids, h \in Hosts, b \in BOOLEAN :
        <>[]Stays(n, h, b) => <>[](h \in LeftOut <=> ~b)

=============================================================================
