----------------------------- MODULE LoopsProofs -----------------------------
(***************************************************************************)
(* For any number of loops, callers and starts: Loops is type correct,     *)
(* a goroutine never waits on a channel that the next Stop does not close  *)
(* and no stop has closed, and a service that runs has all of its loops.   *)
(***************************************************************************)
EXTENDS Loops, TLAPS

USE KindsAssumption, NamesAssumption, BoundsAssumption

Goroutines == [pc : {"none", "enter", "busy", "join", "wait"}, ch : 0..MaxStarts]

\* Every channel but the last is closed, and the last one exactly when the service has
\* been stopped.
Channels ==
    \A s \in Services :
        /\ \A m \in Starts : m < ch[s] => m \in closed[s]
        /\ \A m \in closed[s] : m <= ch[s]
        /\ Up(s) <=> ch[s] # 0 /\ ch[s] \notin closed[s]

\* A goroutine exists only once it is launched, waits on a channel no older than it is,
\* and is busy or joins only if it is one of discovery's.
Launchings ==
    \A k \in Kinds, n \in Starts :
        /\ loop[k][n].pc # "none" => n <= ch[ServiceOf(k)]
        /\ loop[k][n].pc = "wait" => loop[k][n].ch \in n..ch[ServiceOf(k)]
        /\ loop[k][n].pc \in {"busy", "join"} => k \in Joining

\* The mutex is held by the one that leaves the cluster, and only by a service that runs.
Leaving ==
    /\ \A c \in Callers : call[c] \in {"leave", "shutdown"} <=> mu = c
    /\ mu # Nobody => running[Discovery]

\* The application calls discovery only while it waits for the call to return.
Waiting ==
    app \notin {"stopping", "starting"} => call[Main] = "none"

\* The loops launched last are there until they are told to end.
LastLaunched ==
    \A k \in Kinds \ {Bootstrap} :
        Up(ServiceOf(k)) => loop[k][ch[ServiceOf(k)]].pc # "none"

IInv == Channels /\ Launchings /\ Leaving /\ Waiting /\ LastLaunched

-----------------------------------------------------------------------------
(* Types.                                                                  *)

LEMMA Places ==
  /\ \A k \in Kinds : ServiceOf(k) \in Services
  /\ \A k \in Kinds : New(k) \in Goroutines
  /\ Gone \in Goroutines /\ Starts \subseteq 0..MaxStarts
  /\ Main \in Callers /\ Evasion \in Services /\ Discovery \in Services
  BY DEF ServiceOf, Services, New, Gone, Goroutines, Starts, Callers

LEMMA NewPlace ==
  ASSUME NEW k \in Kinds
  PROVE  New(k).pc \in {"enter", "busy"} /\ (New(k).pc = "busy" => k \in Joining)
  BY DEF New, Joining

LEMMA TypeInit == Init => TypeOK
<1> SUFFICES ASSUME Init PROVE TypeOK
  OBVIOUS
<1>1. loop \in [Kinds -> [Starts -> Goroutines]]  BY Places DEF Init
<1>2. running \in [Services -> BOOLEAN] /\ ch \in [Services -> 0..MaxStarts]
  BY DEF Init
<1>3. closed \in [Services -> SUBSET Starts]  BY DEF Init
<1>4. QED  BY <1>1, <1>2, <1>3 DEF Init, TypeOK, Goroutines

LEMMA OpenType ==
  ASSUME TypeOK, NEW s \in Services, Open(s)
  PROVE  /\ running' \in [Services -> BOOLEAN] /\ ch' \in [Services -> 0..MaxStarts]
         /\ closed' \in [Services -> SUBSET Starts]
         /\ loop' \in [Kinds -> [Starts -> Goroutines]]
<1>1. loop' \in [Kinds -> [Starts -> Goroutines]]
  <2>1. loop \in [Kinds -> [Starts -> Goroutines]]  BY DEF TypeOK, Goroutines
  <2> SUFFICES ASSUME NEW k \in Kinds
               PROVE  [loop[k] EXCEPT ![ch[s] + 1] = IF ServiceOf(k) = s THEN New(k) ELSE @]
                          \in [Starts -> Goroutines]
    BY DEF Open, Launched
  <2>2. loop[k] \in [Starts -> Goroutines] /\ New(k) \in Goroutines  BY <2>1, Places
  <2>3. QED  BY <2>2
<1>2. QED  BY <1>1 DEF Open, TypeOK

LEMMA CloseType ==
  ASSUME TypeOK, NEW s \in Services, Close(s), ch[s] # 0
  PROVE  closed' \in [Services -> SUBSET Starts]
  BY DEF TypeOK, Close, Starts

LEMMA GotoType ==
  ASSUME TypeOK, NEW c \in Callers, NEW l \in {"none", "start", "stop", "leave", "shutdown"}, Goto(c, l)
  PROVE  call' \in [Callers -> {"none", "start", "stop", "leave", "shutdown"}]
  BY DEF TypeOK, Goto

LEMMA StepType ==
  ASSUME TypeOK, NEW k \in Kinds, NEW n \in Starts, NEW q \in Goroutines, Step(k, n, q)
  PROVE  TypeOK'
  BY DEF TypeOK, Step, services, cluster, Goroutines

\* A service that is up has a channel.
LEMMA UpHasChannel ==
  ASSUME TypeOK, Channels, Leaving, NEW s \in Services, running[s], Up(s) \/ mu = Nobody
  PROVE  ch[s] # 0
  BY DEF Channels, Up

LEMMA TypeService == ASSUME TypeOK, IInv, NEW c \in Callers, Start(c) \/ Stop(c) \/ Shutdown(c) \/ Leave(c) PROVE TypeOK'
<1> USE Places DEF services, cluster
<1>1. CASE Start(c)
  <2>1. call' \in [Callers -> {"none", "start", "stop", "leave", "shutdown"}]
    BY <1>1, GotoType DEF Start
  <2>2. CASE Open(Discovery) /\ list' = TRUE
    BY <1>1, <2>1, <2>2, OpenType DEF Start, TypeOK, Goroutines
  <2>3. CASE UNCHANGED <<services, loop, list>>
    BY <1>1, <2>1, <2>3 DEF Start, TypeOK
  <2>4. QED  BY <1>1, <2>2, <2>3 DEF Start
<1>2. CASE Stop(c)
  <2>1. CASE running[Discovery]
    <3>1. ch[Discovery] # 0  BY <1>2, <2>1, UpHasChannel DEF IInv, Stop, Calls
    <3>2. QED  BY <1>2, <2>1, <3>1, CloseType, GotoType DEF Stop, TypeOK
  <2>2. CASE ~running[Discovery]  BY <1>2, <2>2, GotoType DEF Stop, TypeOK
  <2>3. QED  BY <2>1, <2>2
<1>3. CASE Shutdown(c)  BY <1>3, GotoType DEF Shutdown, TypeOK
<1>4. CASE Leave(c)  BY <1>4, GotoType DEF Leave, TypeOK
<1>5. QED  BY <1>1, <1>2, <1>3, <1>4

LEMMA TypeListen ==
  ASSUME TypeOK, NEW k \in Kinds, NEW n \in Starts, Listen(k, n) PROVE TypeOK'
<1>1. PICK c \in {ch[ServiceOf(k)]} \cup n..ch[ServiceOf(k)] : Step(k, n, [pc |-> "wait", ch |-> c])
  BY DEF Listen
<1>2. ch[ServiceOf(k)] \in 0..MaxStarts  BY Places DEF TypeOK
<1>3. [pc |-> "wait", ch |-> c] \in Goroutines  BY <1>1, <1>2 DEF Goroutines, Starts
<1>4. QED  BY <1>1, <1>3, StepType

LEMMA TypeGoroutine ==
  ASSUME TypeOK, NEW k \in Kinds, NEW n \in Starts, Goroutine(k, n) PROVE TypeOK'
<1> USE Places
<1>1. Return(k, n) => TypeOK'  BY TypeListen, StepType DEF Return
<1>2. CASE Work(k, n)
  <2>1. \A l \in {"busy", "enter"} : [pc |-> l, ch |-> 0] \in Goroutines  BY DEF Goroutines
  <2>2. QED  BY <1>2, <2>1, StepType DEF Work
<1>3. CASE Wait(k, n)  BY <1>3, TypeListen DEF Wait
<1>4. CASE ReadList(k, n)
  <2>1. [pc |-> "join", ch |-> 0] \in Goroutines  BY DEF Goroutines
  <2>2. QED  BY <1>1, <1>4, <2>1, StepType DEF ReadList
<1>5. CASE Joined(k, n)  BY <1>1, <1>5 DEF Joined
<1>6. CASE NoPeers(k, n)  BY <1>1, <1>6 DEF NoPeers
<1>7. CASE Quit(k, n)  BY <1>7, StepType DEF Quit
<1>8. QED  BY <1>2, <1>3, <1>4, <1>5, <1>6, <1>7 DEF Goroutine

LEMMA TypeApp == ASSUME TypeOK, IInv, App PROVE TypeOK'
<1> USE Places DEF services, cluster
<1>1. CASE AppStopEvasion
  <2>1. closed' \in [Services -> SUBSET Starts]
    <3>1. running[Evasion] => ch[Evasion] # 0
      BY UpHasChannel DEF IInv, Up
    <3>2. QED  BY <1>1, <3>1, CloseType DEF AppStopEvasion, StopEvasion, TypeOK
  <2>2. QED  BY <1>1, <2>1 DEF AppStopEvasion, StopEvasion, TypeOK
<1>2. CASE AppStopDiscovery  BY <1>2, GotoType DEF AppStopDiscovery, TypeOK
<1>3. CASE AppStopServers  BY <1>3 DEF AppStopServers, TypeOK
<1>4. CASE AppStartFailed  BY <1>4 DEF AppStartFailed, TypeOK
<1>5. CASE AppStartDiscovery  BY <1>5, GotoType DEF AppStartDiscovery, TypeOK
<1>6. CASE AppStartEvasion
  <2>1. CASE running[Evasion]  BY <1>6, <2>1 DEF AppStartEvasion, StartEvasion, TypeOK
  <2>2. CASE Open(Evasion)  BY <1>6, <2>2, OpenType DEF AppStartEvasion, TypeOK, Goroutines
  <2>3. QED  BY <1>6, <2>1, <2>2 DEF AppStartEvasion, StartEvasion
<1>7. QED  BY <1>1, <1>2, <1>3, <1>4, <1>5, <1>6 DEF App

LEMMA TypeNext == TypeOK /\ IInv /\ [Next]_vars => TypeOK'
<1> SUFFICES ASSUME TypeOK, IInv, [Next]_vars PROVE TypeOK'
  OBVIOUS
<1>1. CASE Signal  BY <1>1 DEF Signal, TypeOK, services, cluster
<1>2. CASE Notify  BY <1>2 DEF Notify, TypeOK, services
<1>3. CASE Notified  BY <1>3 DEF Notified, TypeOK, services
<1>4. CASE UNCHANGED vars  BY <1>4 DEF vars, services, cluster, TypeOK
<1>5. QED
  BY <1>1, <1>2, <1>3, <1>4, TypeApp, TypeService, TypeGoroutine DEF Next, Leaves

-----------------------------------------------------------------------------
(* The inductive invariant.                                                *)

LEMMA InitIInv == Init => IInv
<1> SUFFICES ASSUME Init PROVE IInv
  OBVIOUS
<1>1. Channels  BY DEF Init, Channels, Up, Starts
<1>2. Launchings  BY DEF Init, Launchings, Gone
<1>3. Leaving  BY DEF Init, Leaving, Callers
<1>4. Waiting  BY Places DEF Init, Waiting
<1>5. LastLaunched  BY Places DEF Init, LastLaunched, Up
<1>6. QED  BY <1>1, <1>2, <1>3, <1>4, <1>5 DEF IInv

\* A service that is down is started.
LEMMA OpenKeeps ==
  ASSUME TypeOK, IInv, NEW s \in Services, Open(s), ~running[s], mu' = mu,
         s = Discovery => mu = Nobody
  PROVE  Channels' /\ Launchings' /\ LastLaunched'
<1> USE Places
<1> DEFINE next == ch[s] + 1
<1>1. next \in Starts /\ ch[s] \in 0..MaxStarts  BY DEF Open, TypeOK, Starts
<1>2. ch' = [ch EXCEPT ![s] = next] /\ closed' = closed /\ running' = [running EXCEPT ![s] = TRUE]
  BY DEF Open
<1>3. ch[s] = 0 \/ ch[s] \in closed[s]  BY DEF IInv, Channels, Up
<1>4. \A r \in Services \ {s} : ch'[r] = ch[r] /\ (Up(r) <=> Up(r)')
  BY <1>2 DEF TypeOK, Up
<1>5. ch'[s] = next /\ Up(s)'  BY <1>2 DEF TypeOK, Up
<1>6. Channels'
  <2> SUFFICES ASSUME NEW r \in Services
               PROVE  /\ \A m \in Starts : m < ch'[r] => m \in closed[r]
                      /\ \A m \in closed[r] : m <= ch'[r]
                      /\ Up(r)' <=> ch'[r] # 0 /\ ch'[r] \notin closed[r]
    BY <1>2 DEF Channels
  <2>1. CASE r # s  BY <1>4, <2>1 DEF IInv, Channels
  <2>2. CASE r = s
    <3>1. \A m \in closed[s] : m \in Starts /\ m <= ch[s]  BY DEF IInv, Channels, TypeOK
    <3>2. \A m \in Starts : m < ch[s] => m \in closed[s]  BY DEF IInv, Channels
    <3>3. QED  BY <1>1, <1>3, <1>5, <2>2, <3>1, <3>2 DEF Starts
  <2>3. QED  BY <2>1, <2>2
<1>7. \A k \in Kinds, n \in Starts :
          loop'[k][n] = IF ServiceOf(k) = s /\ n = next THEN New(k) ELSE loop[k][n]
  BY <1>1 DEF Open, Launched, TypeOK
<1>8. Launchings'
  <2> SUFFICES ASSUME NEW k \in Kinds, NEW n \in Starts
               PROVE  /\ loop'[k][n].pc # "none" => n <= ch'[ServiceOf(k)]
                      /\ loop'[k][n].pc = "wait" => loop'[k][n].ch \in n..ch'[ServiceOf(k)]
                      /\ loop'[k][n].pc \in {"busy", "join"} => k \in Joining
    BY DEF Launchings
  <2>1. CASE ServiceOf(k) = s /\ n = next
    <3>1. loop'[k][n] = New(k) /\ ch'[ServiceOf(k)] = next  BY <1>5, <1>7, <2>1
    <3>2. QED  BY <1>1, <2>1, <3>1, NewPlace DEF Starts
  <2>2. CASE ~(ServiceOf(k) = s /\ n = next)
    <3>1. loop'[k][n] = loop[k][n]  BY <1>7, <2>2
    <3>2. ch[ServiceOf(k)] \in 0..MaxStarts /\ ch[ServiceOf(k)] <= ch'[ServiceOf(k)]
              /\ ch'[ServiceOf(k)] \in 0..MaxStarts
      <4>1. ServiceOf(k) \in Services /\ ch[ServiceOf(k)] \in 0..MaxStarts  BY DEF TypeOK
      <4>2. QED  BY <1>1, <1>4, <1>5, <4>1 DEF Starts
    <3>3. loop[k][n].ch \in 0..MaxStarts  BY DEF TypeOK
    <3>4. QED  BY <3>1, <3>2, <3>3 DEF IInv, Launchings, Starts
  <2>3. QED  BY <2>1, <2>2
<1>9. LastLaunched'
  <2> SUFFICES ASSUME NEW k \in Kinds \ {Bootstrap}, Up(ServiceOf(k))'
               PROVE  loop'[k][ch'[ServiceOf(k)]].pc # "none"
    BY DEF LastLaunched
  <2>1. CASE ServiceOf(k) = s
    <3>1. loop'[k][ch'[ServiceOf(k)]] = New(k)  BY <1>1, <1>5, <1>7, <2>1
    <3>2. QED  BY <3>1, NewPlace
  <2>2. CASE ServiceOf(k) # s
    <3>1. ch[ServiceOf(k)] \in Starts  BY <1>4, <2>2 DEF TypeOK, IInv, Channels, Starts
    <3>2. QED  BY <1>4, <1>7, <2>2, <3>1 DEF IInv, LastLaunched
  <2>3. QED  BY <2>1, <2>2
<1>10. QED  BY <1>6, <1>8, <1>9

\* Whatever is not a start leaves the goroutines as they are, and only takes services down.
LEMMA DownKeeps ==
  ASSUME TypeOK, IInv, UNCHANGED <<ch, loop>>, \A r \in Services : Up(r)' => Up(r)
  PROVE  Launchings' /\ LastLaunched'
  BY Places DEF IInv, Launchings, LastLaunched

\* A service that is up is closed.
LEMMA CloseKeeps ==
  ASSUME TypeOK, IInv, NEW s \in Services, running[s], Up(s), Close(s), UNCHANGED <<ch, loop>>,
         ~Up(s)', \A r \in Services \ {s} : Up(r)' <=> Up(r)
  PROVE  Channels' /\ Launchings' /\ LastLaunched'
<1>1. Channels'
  <2> SUFFICES ASSUME NEW r \in Services
               PROVE  /\ \A m \in Starts : m < ch[r] => m \in closed'[r]
                      /\ \A m \in closed'[r] : m <= ch[r]
                      /\ Up(r)' <=> ch[r] # 0 /\ ch[r] \notin closed'[r]
    BY DEF Channels
  <2>1. closed'[r] = IF r = s THEN closed[s] \cup {ch[s]} ELSE closed[r]
    BY DEF Close, TypeOK
  <2>2. ch[r] \in 0..MaxStarts  BY DEF TypeOK
  <2>3. QED  BY <2>1, <2>2 DEF IInv, Channels
<1>2. QED  BY <1>1, DownKeeps

\* Nothing changes but who is down or holds the mutex.
LEMMA SameKeeps ==
  ASSUME TypeOK, IInv, UNCHANGED <<ch, closed, loop>>, \A r \in Services : Up(r)' <=> Up(r)
  PROVE  Channels' /\ Launchings' /\ LastLaunched'
<1>1. Channels'  BY DEF IInv, Channels
<1>2. QED  BY <1>1, DownKeeps

LEMMA UpSame == ASSUME UNCHANGED <<running, mu>>, NEW r \in Services PROVE Up(r)' <=> Up(r)
  BY DEF Up

LEMMA CallerKeeps ==
  ASSUME TypeOK, IInv, NEW c \in Callers, Start(c) \/ Stop(c) \/ Shutdown(c) \/ Leave(c)
  PROVE  IInv'
<1> USE Places
<1>1. CASE Start(c)
  <2>1. mu = Nobody /\ mu' = mu /\ call' = [call EXCEPT ![c] = "none"] /\ app' = app
    BY <1>1 DEF Start, Calls, Goto
  <2>2. Leaving'
    <3>1. call[c] \notin {"leave", "shutdown"}  BY <2>1 DEF IInv, Leaving, Callers
    <3>2. QED  BY <2>1, <3>1 DEF IInv, Leaving, TypeOK
  <2>3. Waiting'  BY <2>1 DEF IInv, Waiting, TypeOK
  <2>4. CASE ~running[Discovery] /\ Open(Discovery)
    BY <2>1, <2>2, <2>3, <2>4, OpenKeeps DEF IInv
  <2>5. CASE UNCHANGED <<services, loop, list>>
    BY <2>1, <2>2, <2>3, <2>5, SameKeeps, UpSame DEF IInv, services
  <2>6. QED  BY <1>1, <2>4, <2>5 DEF Start
<1>2. CASE Stop(c)
  <2>1. mu = Nobody /\ call[c] \in {"stop", "none"}
    BY <1>2 DEF Stop, Calls
  <2>2. CASE running[Discovery]
    <3>1. mu' = c /\ call' = [call EXCEPT ![c] = "leave"] /\ app' = app /\ running' = running
      BY <1>2, <2>2 DEF Stop, Goto
    <3>2. c # Nobody /\ Up(Discovery) /\ ~Up(Discovery)'
              /\ \A r \in Services \ {Discovery} : Up(r)' <=> Up(r)
      BY <2>1, <2>2, <3>1 DEF Up, Services
    <3>3. Channels' /\ Launchings' /\ LastLaunched'
      BY <1>2, <2>2, <3>2, CloseKeeps DEF Stop
    <3>4. Leaving'  BY <2>1, <2>2, <3>1, <3>2 DEF IInv, Leaving, TypeOK
    <3>5. Waiting'
      <4>1. c = Main => app \in {"stopping", "starting"}
        BY <1>2 DEF Stop, Calls, IInv, Waiting
      <4>2. QED  BY <3>1, <4>1 DEF IInv, Waiting, TypeOK
    <3>6. QED  BY <3>3, <3>4, <3>5 DEF IInv
  <2>3. CASE ~running[Discovery]
    <3>1. mu' = mu /\ call' = [call EXCEPT ![c] = "none"] /\ app' = app /\ running' = running
      BY <1>2, <2>3 DEF Stop, Goto
    <3>2. Channels' /\ Launchings' /\ LastLaunched'
      BY <1>2, <2>3, <3>1, SameKeeps, UpSame DEF Stop
    <3>3. Leaving'  BY <2>1, <3>1 DEF IInv, Leaving, TypeOK
    <3>4. Waiting'  BY <3>1 DEF IInv, Waiting, TypeOK
    <3>5. QED  BY <3>2, <3>3, <3>4 DEF IInv
  <2>4. QED  BY <2>2, <2>3
<1>3. CASE Shutdown(c)
  <2>1. mu = c /\ c # Nobody  BY <1>3 DEF Shutdown, IInv, Leaving
  <2>2. /\ mu' = Nobody /\ running' = [running EXCEPT ![Discovery] = FALSE]
        /\ call' = [call EXCEPT ![c] = "none"] /\ app' = app
    BY <1>3 DEF Shutdown, Goto
  <2>3. \A r \in Services : Up(r)' <=> Up(r)  BY <2>1, <2>2 DEF Up, TypeOK
  <2>4. Channels' /\ Launchings' /\ LastLaunched'  BY <1>3, <2>3, SameKeeps DEF Shutdown
  <2>5. Leaving'  BY <2>1, <2>2 DEF IInv, Leaving, TypeOK
  <2>6. Waiting'  BY <2>2 DEF IInv, Waiting, TypeOK
  <2>7. QED  BY <2>4, <2>5, <2>6 DEF IInv
<1>4. CASE Leave(c)
  <2>1. /\ call[c] = "leave" /\ call' = [call EXCEPT ![c] = "shutdown"] /\ mu' = mu
        /\ app' = app /\ UNCHANGED <<running, ch, closed, loop>>
    BY <1>4 DEF Leave, Goto, cluster, services
  <2>2. Channels' /\ Launchings' /\ LastLaunched'  BY <2>1, SameKeeps, UpSame
  <2>3. Leaving'  BY <2>1 DEF IInv, Leaving, TypeOK
  <2>4. Waiting'  BY <2>1 DEF IInv, Waiting, TypeOK
  <2>5. QED  BY <2>2, <2>3, <2>4 DEF IInv
<1>5. QED  BY <1>1, <1>2, <1>3, <1>4

\* A goroutine that moves by itself, keeping to its service's channels.
LEMMA StepKeeps ==
  ASSUME TypeOK, IInv, NEW k \in Kinds, NEW n \in Starts, NEW q \in Goroutines, Step(k, n, q),
         q.pc # "none" => n <= ch[ServiceOf(k)],
         q.pc = "wait" => q.ch \in n..ch[ServiceOf(k)],
         q.pc \in {"busy", "join"} => k \in Joining,
         q.pc = "none" /\ k # Bootstrap /\ Up(ServiceOf(k)) => n # ch[ServiceOf(k)]
  PROVE  IInv'
<1> USE Places
<1>1. UNCHANGED <<running, ch, closed, mu, call, app>>  BY DEF Step, services, cluster
<1>2. \A j \in Kinds, m \in Starts : loop'[j][m] = IF j = k /\ m = n THEN q ELSE loop[j][m]
  BY DEF Step, TypeOK
<1>3. \A r \in Services : Up(r)' <=> Up(r)  BY <1>1, UpSame
<1>4. Channels'  BY <1>1, <1>3 DEF IInv, Channels
<1>5. Launchings'  BY <1>1, <1>2 DEF IInv, Launchings
<1>6. LastLaunched'
  <2>1. \A r \in Services : Up(r) => ch[r] \in Starts
    BY DEF IInv, Channels, TypeOK, Starts
  <2> SUFFICES ASSUME NEW j \in Kinds \ {Bootstrap}, Up(ServiceOf(j))'
               PROVE  loop'[j][ch[ServiceOf(j)]].pc # "none"
    BY <1>1 DEF LastLaunched
  <2>2. ch[ServiceOf(j)] \in Starts /\ Up(ServiceOf(j))  BY <1>3, <2>1
  <2>3. loop[j][ch[ServiceOf(j)]].pc # "none"  BY <2>2 DEF IInv, LastLaunched
  <2>4. CASE j = k /\ ch[ServiceOf(j)] = n  BY <1>2, <2>2, <2>4
  <2>5. CASE ~(j = k /\ ch[ServiceOf(j)] = n)  BY <1>2, <2>2, <2>3, <2>5
  <2>6. QED  BY <2>4, <2>5
<1>7. Leaving' /\ Waiting'  BY <1>1 DEF IInv, Leaving, Waiting
<1>8. QED  BY <1>4, <1>5, <1>6, <1>7 DEF IInv

LEMMA ListenKeeps ==
  ASSUME TypeOK, IInv, NEW k \in Kinds, NEW n \in Starts, loop[k][n].pc # "none", Listen(k, n)
  PROVE  IInv'
<1> USE Places
<1>1. PICK c \in {ch[ServiceOf(k)]} \cup n..ch[ServiceOf(k)] : Step(k, n, [pc |-> "wait", ch |-> c])
  BY DEF Listen
<1>2. n <= ch[ServiceOf(k)] /\ ch[ServiceOf(k)] \in 0..MaxStarts
  BY DEF IInv, Launchings, TypeOK
<1>3. c \in n..ch[ServiceOf(k)] /\ c \in 0..MaxStarts  BY <1>1, <1>2 DEF Starts
<1>4. [pc |-> "wait", ch |-> c] \in Goroutines  BY <1>3 DEF Goroutines
<1>5. QED  BY <1>1, <1>2, <1>3, <1>4, StepKeeps

LEMMA ReturnKeeps ==
  ASSUME TypeOK, IInv, NEW k \in Kinds, NEW n \in Starts, loop[k][n].pc \in {"busy", "join"},
         Return(k, n)
  PROVE  IInv'
<1>1. CASE k = Background  BY <1>1, ListenKeeps DEF Return
<1>2. CASE k # Background
  <2>1. k = Bootstrap  BY <1>2 DEF IInv, Launchings, Joining
  <2>2. QED  BY <1>2, <2>1, Places, StepKeeps DEF Return, Gone
<1>3. QED  BY <1>1, <1>2

LEMMA GoroutineKeeps ==
  ASSUME TypeOK, IInv, NEW k \in Kinds, NEW n \in Starts, Goroutine(k, n) PROVE IInv'
<1> USE Places
<1>1. loop[k][n].pc # "none" => n <= ch[ServiceOf(k)]  BY DEF IInv, Launchings
<1>2. CASE Work(k, n)
  <2>1. PICK l \in {"busy", "enter"} :
            Step(k, n, [pc |-> l, ch |-> 0]) /\ (l = "busy" => k = Background)
    BY <1>2 DEF Work
  <2>2. [pc |-> l, ch |-> 0] \in Goroutines  BY DEF Goroutines
  <2>3. QED  BY <1>1, <1>2, <2>1, <2>2, StepKeeps DEF Work, Joining
<1>3. CASE Wait(k, n)  BY <1>3, ListenKeeps DEF Wait
<1>4. CASE ReadList(k, n)
  <2>1. CASE Step(k, n, [pc |-> "join", ch |-> 0])
    <3>1. [pc |-> "join", ch |-> 0] \in Goroutines  BY DEF Goroutines
    <3>2. k \in Joining  BY <1>4 DEF ReadList, IInv, Launchings
    <3>3. QED  BY <1>1, <1>4, <2>1, <3>1, <3>2, StepKeeps DEF ReadList
  <2>2. QED  BY <1>4, <2>1, ReturnKeeps DEF ReadList
<1>5. CASE Joined(k, n)  BY <1>5, ReturnKeeps DEF Joined
<1>6. CASE NoPeers(k, n)  BY <1>6, ReturnKeeps DEF NoPeers
<1>7. CASE Quit(k, n)
  <2>1. loop[k][n].ch \in n..ch[ServiceOf(k)]  BY <1>7 DEF Quit, IInv, Launchings
  <2>2. Up(ServiceOf(k)) => n # ch[ServiceOf(k)]
    BY <1>7, <2>1 DEF Quit, IInv, Channels, Starts
  <2>3. Step(k, n, Gone)  BY <1>7 DEF Quit
  <2>4. QED  BY <2>2, <2>3, StepKeeps DEF Gone
<1>8. QED  BY <1>2, <1>3, <1>4, <1>5, <1>6, <1>7 DEF Goroutine

LEMMA AppKeeps == ASSUME TypeOK, IInv, App PROVE IInv'
<1> USE Places DEF services, cluster
<1>1. CASE AppStopEvasion
  <2>1. UNCHANGED <<mu, call, ch, loop>> /\ running' = [running EXCEPT ![Evasion] = FALSE]
    BY <1>1 DEF AppStopEvasion, StopEvasion
  <2>2. ~Up(Evasion)' /\ \A r \in Services \ {Evasion} : Up(r)' <=> Up(r)
    BY <2>1 DEF Up, TypeOK
  <2>3. Channels' /\ Launchings' /\ LastLaunched'
    <3>1. CASE running[Evasion]
      BY <1>1, <2>1, <2>2, <3>1, CloseKeeps DEF AppStopEvasion, StopEvasion, Up
    <3>2. CASE ~running[Evasion]
      BY <1>1, <2>1, <2>2, <3>2, SameKeeps DEF AppStopEvasion, StopEvasion, Up
    <3>3. QED  BY <3>1, <3>2
  <2>4. Leaving'  BY <2>1, <2>2 DEF IInv, Leaving, TypeOK
  <2>5. Waiting'  BY <1>1, <2>1 DEF AppStopEvasion, IInv, Waiting
  <2>6. QED  BY <2>3, <2>4, <2>5 DEF IInv
<1>2. CASE AppStopDiscovery \/ AppStartDiscovery
  <2>1. PICK l \in {"stop", "start"} : call' = [call EXCEPT ![Main] = l]
    BY <1>2 DEF AppStopDiscovery, AppStartDiscovery, Goto
  <2>2. UNCHANGED <<running, ch, closed, loop, mu>> /\ call[Main] = "none"
            /\ app' \in {"stopping", "starting"}
    BY <1>2 DEF AppStopDiscovery, AppStartDiscovery, IInv, Waiting
  <2>3. Channels' /\ Launchings' /\ LastLaunched'  BY <2>2, SameKeeps, UpSame
  <2>4. Leaving'  BY <2>1, <2>2 DEF IInv, Leaving, TypeOK
  <2>5. Waiting'  BY <2>2 DEF Waiting
  <2>6. QED  BY <2>3, <2>4, <2>5 DEF IInv
<1>3. CASE AppStopServers \/ AppStartFailed
  <2>1. UNCHANGED <<running, ch, closed, loop, mu, call>> /\ call[Main] = "none"
    BY <1>3 DEF AppStopServers, AppStartFailed, IInv, Waiting
  <2>2. Channels' /\ Launchings' /\ LastLaunched'  BY <2>1, SameKeeps, UpSame
  <2>3. Leaving' /\ Waiting'  BY <2>1 DEF IInv, Leaving, Waiting
  <2>4. QED  BY <2>2, <2>3 DEF IInv
<1>4. CASE AppStartEvasion
  <2>1. UNCHANGED <<mu, call>> /\ call[Main] = "none"  BY <1>4 DEF AppStartEvasion
  <2>2. CASE running[Evasion]
    <3>1. UNCHANGED services /\ UNCHANGED loop  BY <1>4, <2>2 DEF AppStartEvasion, StartEvasion
    <3>2. Channels' /\ Launchings' /\ LastLaunched'  BY <2>1, <3>1, SameKeeps, UpSame
    <3>3. Leaving' /\ Waiting'  BY <2>1, <3>1 DEF IInv, Leaving, Waiting
    <3>4. QED  BY <3>2, <3>3 DEF IInv
  <2>3. CASE ~running[Evasion]
    <3>1. Open(Evasion)  BY <1>4, <2>3 DEF AppStartEvasion, StartEvasion
    <3>2. Channels' /\ Launchings' /\ LastLaunched'  BY <2>1, <2>3, <3>1, OpenKeeps
    <3>3. Leaving' /\ Waiting'  BY <2>1, <3>1 DEF IInv, Leaving, Waiting, Open, TypeOK
    <3>4. QED  BY <3>2, <3>3 DEF IInv
  <2>4. QED  BY <2>2, <2>3
<1>5. QED  BY <1>1, <1>2, <1>3, <1>4 DEF App

LEMMA NextIInv == TypeOK /\ IInv /\ [Next]_vars => IInv'
<1> SUFFICES ASSUME TypeOK, IInv, [Next]_vars PROVE IInv'
  OBVIOUS
<1>1. CASE Signal
  <2>1. UNCHANGED <<running, ch, closed, loop, mu, call>> /\ call[Main] = "none"
    BY <1>1 DEF Signal, services, cluster, IInv, Waiting
  <2>2. QED  BY <2>1, SameKeeps, UpSame DEF IInv, Leaving, Waiting
<1>2. CASE Notify \/ Notified \/ UNCHANGED vars
  <2>1. UNCHANGED <<running, ch, closed, loop, mu, call, app>>
    BY <1>2 DEF Notify, Notified, vars, services, cluster
  <2>2. QED  BY <2>1, SameKeeps, UpSame DEF IInv, Leaving, Waiting
<1>3. QED
  BY <1>1, <1>2, AppKeeps, CallerKeeps, GoroutineKeeps DEF Next, Leaves

-----------------------------------------------------------------------------

LEMMA Inductive == Spec => [](TypeOK /\ IInv)
<1>1. Init => TypeOK /\ IInv  BY TypeInit, InitIInv
<1>2. TypeOK /\ IInv /\ [Next]_vars => (TypeOK /\ IInv)'  BY TypeNext, NextIInv
<1>3. QED  BY <1>1, <1>2, PTL DEF Spec

\* Every variable keeps its type: what TLC checks as TypeOK, for all constants.
THEOREM TypeCorrect == Spec => []TypeOK
<1>1. QED  BY Inductive, PTL

\* The next Stop reaches every goroutine that waits, however many loops there are and
\* however starts and stops have followed each other: a goroutine waits on a channel no
\* older than its launch, and every channel that the service has forgotten is closed.
THEOREM HeardHolds == Spec => []Heard
<1>1. TypeOK /\ IInv => Heard
  <2> SUFFICES ASSUME TypeOK, IInv, NEW k \in Kinds, NEW n \in Starts, loop[k][n].pc = "wait"
               PROVE  loop[k][n].ch \in closed[ServiceOf(k)] \cup {ch[ServiceOf(k)]}
    BY DEF Heard
  <2>1. ch[ServiceOf(k)] \in 0..MaxStarts /\ loop[k][n].ch \in n..ch[ServiceOf(k)]
    BY Places DEF TypeOK, IInv, Launchings
  <2>2. QED  BY <2>1, Places DEF IInv, Channels, Starts
<1>2. QED  BY <1>1, Inductive, PTL

\* A service that runs has every one of its loops: the ones launched last wait on its
\* channel, if they wait, and no stop has closed it.
THEOREM ServedHolds == Spec => []Served
<1>1. TypeOK /\ IInv => Served
  <2> SUFFICES ASSUME TypeOK, IInv, NEW k \in Kinds \ {Bootstrap}, Up(ServiceOf(k))
               PROVE  \E n \in Starts :
                        /\ loop[k][n].pc # "none"
                        /\ loop[k][n].pc = "wait" => loop[k][n].ch \notin closed[ServiceOf(k)]
    BY DEF Served
  <2> DEFINE n == ch[ServiceOf(k)]
  <2>1. n \in Starts /\ n \notin closed[ServiceOf(k)]
    BY Places DEF IInv, Channels, TypeOK, Starts
  <2>2. loop[k][n].pc # "none"  BY DEF IInv, LastLaunched
  <2>3. loop[k][n].pc = "wait" => loop[k][n].ch = n
    BY <2>1 DEF IInv, Launchings, Starts
  <2>4. QED  BY <2>1, <2>2, <2>3
<1>2. QED  BY <1>1, Inductive, PTL

=============================================================================
