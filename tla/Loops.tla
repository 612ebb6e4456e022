-------------------------------- MODULE Loops --------------------------------
(***************************************************************************)
(* The background loops of the evasion watcher (service/evasion.go) and of *)
(* the discovery service (service/discovery.go), started and stopped by    *)
(* the application (app/app.go) and, for discovery, by requests.           *)
(*                                                                         *)
(* Each start of a service makes a stop channel, here its number, and      *)
(* launches goroutines.  A loop reads the field that holds the channel     *)
(* each time it waits, so that it may wait on a channel made after it was  *)
(* launched.  Discovery's mutex is held while the cluster is left; the     *)
(* cluster's callbacks run under a lock that leaving needs as well.        *)
(***************************************************************************)
EXTENDS Naturals

CONSTANTS
    Evasion, Discovery,     \* the two services
    Watching,               \* loops of the evasion watcher
    Background, Bootstrap,  \* discovery's loop, and the goroutine that joins once
    Main, Requests,         \* who starts and stops discovery
    Nobody,
    MaxStarts               \* bound, for each service

Services == {Evasion, Discovery}
Joining == {Background, Bootstrap}
Kinds == Watching \cup Joining
Callers == Requests \cup {Main}
Starts == 1..MaxStarts

ASSUME KindsAssumption == Background # Bootstrap /\ Joining \cap Watching = {}
ASSUME NamesAssumption == Evasion # Discovery /\ Main \notin Requests /\ Nobody \notin Callers
ASSUME BoundsAssumption == MaxStarts \in Nat \ {0}

VARIABLES
    running,    \* isRunning of each service
    ch,         \* stopCh of each service
    closed,     \* the channels that are closed
    loop,       \* the goroutine of each kind that each start has launched
    mu,         \* who holds discovery's mutex for longer than a step
    call,       \* where each caller of discovery is
    list,       \* whether there is a cluster
    notify,     \* whether it runs a callback under its lock
    app         \* what the goroutine that handles signals is doing

services == <<running, ch, closed>>
cluster == <<mu, list, notify>>
vars == <<services, loop, cluster, call, app>>

ServiceOf(k) == IF k \in Joining THEN Discovery ELSE Evasion
Gone == [pc |-> "none", ch |-> 0]
\* A loop of the evasion watcher that works, or is launched, will wait next; discovery's
\* waits first; the other one joins.
New(k) == [pc |-> IF k = Bootstrap THEN "busy" ELSE "enter", ch |-> 0]

TypeOK ==
    /\ running \in [Services -> BOOLEAN] /\ ch \in [Services -> 0..MaxStarts]
    /\ closed \in [Services -> SUBSET Starts]
    /\ loop \in [Kinds -> [Starts ->
          [pc : {"none", "enter", "busy", "join", "wait"}, ch : 0..MaxStarts]]]
    /\ mu \in Callers \cup {Nobody} /\ list \in BOOLEAN /\ notify \in BOOLEAN
    /\ call \in [Callers -> {"none", "start", "stop", "leave", "shutdown"}]
    /\ app \in {"evasion", "discovery", "stopping", "servers", "begin", "starting", "up"}

\* The process has begun: its first APP.Start is about to start the services.
Init ==
    /\ running = [s \in Services |-> FALSE] /\ ch = [s \in Services |-> 0]
    /\ closed = [s \in Services |-> {}]
    /\ loop = [k \in Kinds |-> [n \in Starts |-> Gone]]
    /\ mu = Nobody /\ list = FALSE /\ notify = FALSE
    /\ call = [c \in Callers |-> "none"]
    /\ app = "begin"

-----------------------------------------------------------------------------
(* What both services do to start and to stop.                              *)

Launched(s, n) ==
    loop' = [k \in Kinds |-> [loop[k] EXCEPT ![n] = IF ServiceOf(k) = s THEN New(k) ELSE @]]

\* Mutated form: a service that was running before goes on with the channel it has.
OpenOnce(s) ==
    /\ ch[s] < MaxStarts
    /\ running' = [running EXCEPT ![s] = TRUE]
    /\ ch' = [ch EXCEPT ![s] = IF @ = 0 THEN 1 ELSE @]
    /\ \E n \in Starts : /\ \A k \in Kinds : ServiceOf(k) = s => loop[k][n] = Gone
                         /\ Launched(s, n)
    /\ UNCHANGED closed

Open(s) ==
    /\ ch[s] < MaxStarts
    /\ running' = [running EXCEPT ![s] = TRUE]
    /\ ch' = [ch EXCEPT ![s] = @ + 1]
    /\ Launched(s, ch[s] + 1)
    /\ UNCHANGED closed

\* Mutated form: the flag is cleared and the channel forgotten.
CloseNot(s) == UNCHANGED closed

Close(s) == closed' = [closed EXCEPT ![s] = @ \cup {ch[s]}]

StartEvasion == IF running[Evasion] THEN UNCHANGED <<services, loop>> ELSE Open(Evasion)

StopEvasion ==
    /\ IF running[Evasion] THEN Close(Evasion) ELSE UNCHANGED closed
    /\ running' = [running EXCEPT ![Evasion] = FALSE]
    /\ UNCHANGED <<ch, loop>>

-----------------------------------------------------------------------------
(* DiscoveryService.Start and Stop, for the application and for requests.   *)

Goto(c, pc) == call' = [call EXCEPT ![c] = pc]

\* A request calls when it gets the mutex; the application waits for it.
Calls(c, op) == mu = Nobody /\ call[c] = IF c = Main THEN op ELSE "none"

\* Mutated form: two requests to join, and nobody looks again under the mutex.
StartAlways(c) ==
    /\ Calls(c, "start")
    /\ \/ Open(Discovery) /\ list' = TRUE
       \/ UNCHANGED <<services, loop, list>>
    /\ Goto(c, "none")
    /\ UNCHANGED <<mu, notify, app>>

\* Discovery is not configured, has no valid key, or memberlist.Create fails; or it is
\* started, and Create has called NotifyJoin.
Start(c) ==
    /\ Calls(c, "start")
    /\ \/ ~running[Discovery] /\ Open(Discovery) /\ list' = TRUE
       \/ UNCHANGED <<services, loop, list>>
    /\ Goto(c, "none")
    /\ UNCHANGED <<mu, notify, app>>

Stop(c) ==
    /\ Calls(c, "stop")
    /\ IF running[Discovery]
       THEN Close(Discovery) /\ mu' = c /\ Goto(c, "leave")
       ELSE Goto(c, "none") /\ UNCHANGED <<closed, mu>>
    /\ UNCHANGED <<running, ch, loop, list, notify, app>>

\* Leave takes the lock under which callbacks run.
Leave(c) ==
    /\ call[c] = "leave" /\ ~notify
    /\ Goto(c, "shutdown")
    /\ UNCHANGED <<services, loop, cluster, app>>

Shutdown(c) ==
    /\ call[c] = "shutdown"
    /\ list' = FALSE /\ mu' = Nobody
    /\ running' = [running EXCEPT ![Discovery] = FALSE]
    /\ Goto(c, "none")
    /\ UNCHANGED <<ch, closed, loop, notify, app>>

\* The cluster calls NotifyJoin, NotifyLeave or NotifyUpdate, which stores the peer.
Notify ==
    /\ list /\ ~notify /\ notify' = TRUE
    /\ UNCHANGED <<services, loop, mu, list, call, app>>

\* Mutated form: the callback takes the service's mutex, as the service's methods do.
NotifiedLocked ==
    /\ notify /\ mu = Nobody /\ notify' = FALSE
    /\ UNCHANGED <<services, loop, mu, list, call, app>>

Notified ==
    /\ notify /\ notify' = FALSE
    /\ UNCHANGED <<services, loop, mu, list, call, app>>

-----------------------------------------------------------------------------
(* The goroutines.                                                         *)

Step(k, n, q) ==
    /\ loop' = [loop EXCEPT ![k][n] = q]
    /\ UNCHANGED <<services, cluster, call, app>>

\* The timer of the select fires.  (A timer that has fired when the channel is closed,
\* and is chosen, is a timer that fired before.)
Work(k, n) ==
    /\ loop[k][n].pc = "wait" /\ loop[k][n].ch \notin closed[ServiceOf(k)]
    /\ Step(k, n, [pc |-> IF k = Background THEN "busy" ELSE "enter", ch |-> 0])

\* Mutated form: the number of a goroutine is added to that of its channel.
ListenOdd(k, n) == Step(k, n, [pc |-> "wait", ch |-> ch[ServiceOf(k)] + n])

\* select reads the field without the mutex: it finds the channel of now, or one that it
\* held since the goroutine was launched.
Listen(k, n) ==
    \E c \in {ch[ServiceOf(k)]} \cup n..ch[ServiceOf(k)] : Step(k, n, [pc |-> "wait", ch |-> c])

Wait(k, n) == loop[k][n].pc = "enter" /\ Listen(k, n)

Return(k, n) == IF k = Background THEN Listen(k, n) ELSE Step(k, n, Gone)

\* joinBootstrap: the peers are resolved, then the cluster is read under the mutex.
ReadList(k, n) ==
    /\ loop[k][n].pc = "busy" /\ mu = Nobody
    /\ IF list THEN Step(k, n, [pc |-> "join", ch |-> 0]) ELSE Return(k, n)

\* Join ends, on a cluster that may have been left meanwhile.
Joined(k, n) == loop[k][n].pc = "join" /\ Return(k, n)

\* No bootstrap peers are configured.
NoPeers(k, n) == loop[k][n].pc = "busy" /\ Return(k, n)

Quit(k, n) ==
    /\ loop[k][n].pc = "wait" /\ loop[k][n].ch \in closed[ServiceOf(k)]
    /\ Step(k, n, Gone)

-----------------------------------------------------------------------------
(* The application: RestartApp when SIGHUP arrives is APP.Stop, APP.Start.  *)

Signal ==
    /\ app = "up" /\ ch[Evasion] < MaxStarts
    /\ app' = "evasion"
    /\ UNCHANGED <<services, loop, cluster, call>>

AppStopEvasion ==
    /\ app = "evasion" /\ app' = "discovery"
    /\ StopEvasion
    /\ UNCHANGED <<cluster, call>>

AppStopDiscovery ==
    /\ app = "discovery" /\ app' = "stopping"
    /\ Goto(Main, "stop")
    /\ UNCHANGED <<services, loop, cluster>>

\* The servers and the core are stopped, and begin again.
AppStopServers ==
    /\ app = "stopping" /\ call[Main] = "none" /\ app' = "begin"
    /\ UNCHANGED <<services, loop, cluster, call>>

\* A server cannot start: RestartApp ignores it, and nothing more is started.  (The first
\* time, the process ends.)
AppStartFailed ==
    /\ app = "begin" /\ app' = "up" /\ ch[Evasion] > 0
    /\ UNCHANGED <<services, loop, cluster, call>>

AppStartDiscovery ==
    /\ app = "begin" /\ app' = "starting"
    /\ Goto(Main, "start")
    /\ UNCHANGED <<services, loop, cluster>>

AppStartEvasion ==
    /\ app = "starting" /\ call[Main] = "none" /\ app' = "up"
    /\ StartEvasion
    /\ UNCHANGED <<cluster, call>>

-----------------------------------------------------------------------------

App == \/ AppStopEvasion \/ AppStopDiscovery \/ AppStopServers \/ AppStartFailed
       \/ AppStartDiscovery \/ AppStartEvasion

Goroutine(k, n) ==
    \/ Work(k, n) \/ Wait(k, n) \/ ReadList(k, n) \/ Joined(k, n) \/ NoPeers(k, n) \/ Quit(k, n)

Leaves == \E c \in Callers : Leave(c)

Next ==
    \/ Signal \/ App
    \/ \E c \in Callers : Start(c) \/ Stop(c) \/ Shutdown(c)
    \/ Leaves \/ Notify \/ Notified
    \/ \E k \in Kinds, n \in Starts : Goroutine(k, n)

Spec == Init /\ [][Next]_vars

\* What can go on does; the cluster's lock, which callbacks take again and again, goes
\* to Leave at last (a Go mutex is handed over to a waiter that starves).
Fairness ==
    /\ WF_vars(App) /\ WF_vars(Start(Main) \/ Stop(Main))
    /\ SF_vars(Leaves) /\ \A c \in Callers : WF_vars(Shutdown(c))
    /\ WF_vars(Notified)
    /\ \A k \in Kinds, n \in Starts : WF_vars(Goroutine(k, n))
FairSpec == Spec /\ Fairness

-----------------------------------------------------------------------------

\* The service runs, and is not being stopped.
Up(s) == running[s] /\ (s = Discovery => mu = Nobody)

\* The next Stop reaches every goroutine: none waits on a channel that is open and that
\* its service has forgotten.
Heard ==
    \A k \in Kinds, n \in Starts :
        loop[k][n].pc = "wait" => loop[k][n].ch \in closed[ServiceOf(k)] \cup {ch[ServiceOf(k)]}

\* However starts and stops follow each other, a service that runs has every one of its
\* loops, one that no stop has told to end.
Served ==
    \A k \in Kinds \ {Bootstrap} : Up(ServiceOf(k)) =>
        \E n \in Starts :
            /\ loop[k][n].pc # "none"
            /\ loop[k][n].pc = "wait" => loop[k][n].ch \notin closed[ServiceOf(k)]

\* "Stop shuts down all EvasionWatcher goroutines": once a service is stopped for good,
\* all its goroutines end, those that were launched before an earlier stop included.
LoopsEnd ==
    \A s \in Services :
        <>[](~running[s]) =>
            <>[](\A k \in Kinds, n \in Starts : ServiceOf(k) = s => loop[k][n] = Gone)

\* Stop ends although it waits, with the mutex, for a cluster that calls back: the mutex
\* is given back, and the application comes up again.
CallsReturn == []<>(mu = Nobody) /\ []<>(app = "up")

=============================================================================
