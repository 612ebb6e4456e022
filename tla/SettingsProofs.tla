--------------------------- MODULE SettingsProofs ---------------------------
(***************************************************************************)
(* For any number of settings, plugins and overlapping calls: Settings is  *)
(* type correct, what is served from memory is what is stored once the     *)
(* calls are over, and one transport plugin at most is enabled.            *)
(***************************************************************************)
EXTENDS Settings, TLAPS

USE NoProcAssumption, NamesAssumption, BoundsAssumption

Names == Keys \cup Plugins
Doings == [op : {"none", "get", "put", "save", "page", "switch"},
           pc : {"idle", "row", "entry", "page", "warm", "others", "persist"},
           val : Values, todo : SUBSET Names, done : SUBSET Names,
           on : BOOLEAN, alone : SUBSET Names, snap : [Keys -> Values]]

\* What a call remembers, by what it does.
Shape(q) ==
    /\ q.op = "none" <=> q.pc = "idle"
    /\ q.op = "none" => q = Idle
    /\ q.op = "get" => /\ q.pc \in {"row", "entry"} /\ (\E k \in Keys : q.todo = {k}) /\ q.done = {}
                       /\ (q.pc = "entry" => q.val # Missing)
    /\ q.op = "put" => q.pc \in {"row", "entry"} /\ q.todo \subseteq Keys /\ q.done = {} /\ q.val # Missing
    /\ q.op = "save" => q.pc = "row" /\ q.todo \cup q.done \subseteq Keys /\ q.val # Missing
    /\ q.op = "page" => q.pc \in {"page", "warm"}
    /\ q.op = "switch" =>
          /\ q.pc \in {"others", "persist"} /\ \E x \in Plugins : q.todo = {x}
          /\ q.done \subseteq Plugins \ q.todo /\ (q.pc = "others" => q.done = {} /\ q.on)

Shaped == \A p \in Procs : Shape(proc[p])

\* What a call concerns it has for itself, or is suspect.
Owned ==
    /\ \A p \in Procs : /\ proc[p].alone \subseteq ConcernedBy(proc[p])
                        /\ ConcernedBy(proc[p]) \subseteq proc[p].alone \cup suspect
    /\ \A p, q \in Procs : p # q => proc[p].alone \cap ConcernedBy(proc[q]) = {}

\* What a call knows of a key that it has for itself.
Known(q, k, row, entry) ==
    /\ q.op = "get" => entry = Missing /\ (q.pc = "entry" => row = q.val)
    /\ q.op = "put" /\ q.pc = "entry" => row = q.val
    /\ q.op = "save" /\ k \in q.done => entry = q.val
    /\ q.pc = "warm" => q.snap[k] = row

\* It has changed neither copy yet.
Untouched(q, k) ==
    \/ q.op \in {"get", "page"}
    \/ q.op = "put" /\ q.pc = "row"
    \/ q.op = "save" /\ k \in q.todo

\* Where a key's two copies are, between calls and while a call has it for itself.
KeyAgrees(k) ==
    /\ k \notin suspect /\ (\A p \in Procs : k \notin ConcernedBy(proc[p])) => cache[k] = table[k]
    /\ \A p \in Procs : k \in proc[p].alone =>
          /\ Known(proc[p], k, table[k], cache[k])
          /\ k \notin suspect /\ Untouched(proc[p], k) => cache[k] = table[k]

KeysAgree == \A k \in Keys : KeyAgrees(k)

\* Where a plugin's two flags are while a request has the plugins for itself.
FlagAgrees(x) == x \notin suspect =>
    /\ (\A p \in Procs : x \notin ConcernedBy(proc[p])) => flags[x] = enabled[x]
    /\ \A p \in Procs : proc[p].op = "switch" =>
          /\ x \in proc[p].todo => enabled[x] = proc[p].on
          /\ x \in proc[p].done => ~enabled[x]
          /\ x \notin proc[p].todo \cup proc[p].done => flags[x] = enabled[x]

FlagsAgree == \A x \in Plugins : FlagAgrees(x)

\* At most one plugin is enabled that no request is about to leave as the only one.
Claimed(x) == \E p \in Procs : proc[p].pc = "others" /\ x \in proc[p].todo
Transport == ~loadedTwo => \A x, y \in Plugins :
                 enabled[x] /\ enabled[y] /\ ~Claimed(x) /\ ~Claimed(y) => x = y

IInv == Shaped /\ Owned /\ KeysAgree /\ FlagsAgree /\ Transport

-----------------------------------------------------------------------------
(* Types.                                                                  *)

LEMMA Concerns ==
  /\ \A q \in Doings : ConcernedBy(q) \subseteq Names
  /\ \A q : q.op = "page" => ConcernedBy(q) = Keys
  /\ \A q : q.op = "switch" => ConcernedBy(q) = Plugins
  /\ \A q : q.op \in {"none", "get", "put", "save"} => ConcernedBy(q) = q.todo \cup q.done
  BY DEF Doings, ConcernedBy, Names

LEMMA IdleCall ==
  /\ Idle \in Doings /\ Idle.op = "none" /\ Idle.pc = "idle" /\ Idle.todo = {} /\ Idle.done = {}
  /\ Idle.alone = {} /\ ConcernedBy(Idle) = {}
<1>1. 0 \in Values  BY DEF Values
<1>2. Idle \in Doings  BY <1>1 DEF Idle, Doings, Missing
<1>3. Idle.op = "none" /\ Idle.pc = "idle" /\ Idle.todo = {} /\ Idle.done = {} /\ Idle.alone = {}
  BY DEF Idle
<1>4. QED  BY <1>2, <1>3, Concerns

LEMMA TypeInit == Init => TypeOK
<1> SUFFICES ASSUME Init PROVE TypeOK
  OBVIOUS
<1>1. /\ table \in [Keys -> Values] /\ cache \in [Keys -> Values]
      /\ \A k \in Defaults : cache[k] # Missing
  <2>1. {Missing, Default} \subseteq Values /\ Default # Missing  BY DEF Values, Default, Missing
  <2>2. table \in [Keys -> {Missing, Default}] /\ cache = table /\ table = Filled(table)  BY DEF Init
  <2>3. \A k \in Defaults : Filled(table)[k] # Missing  BY <2>1 DEF Filled
  <2>4. QED  BY <2>1, <2>2, <2>3
<1>2. proc \in [Procs -> Doings]  BY IdleCall DEF Init
<1>3. calls \in 0..MaxCalls /\ mishaps \in 0..MaxMishaps /\ restarts \in 0..MaxRestarts
  <2>1. calls = 0 /\ mishaps = 0 /\ restarts = 0  BY DEF Init
  <2>2. QED  BY <2>1
<1>4. QED  BY <1>1, <1>2, <1>3 DEF Init, TypeOK, Doings, Names

LEMMA SetType ==
  ASSUME TypeOK, NEW p \in Procs, NEW q \in Doings, Set(p, q)
  PROVE  /\ proc' \in [Procs -> Doings]
         /\ \A r \in Procs : proc'[r] = IF r = p THEN q ELSE proc[r]
  BY DEF TypeOK, Set, Doings, Names

LEMMA ReturnType ==
  ASSUME TypeOK, NEW p \in Procs, Return(p)
  PROVE  /\ proc' \in [Procs -> Doings]
         /\ \A r \in Procs : proc'[r] = IF r = p THEN Idle ELSE proc[r]
  BY SetType, IdleCall DEF Return

LEMMA CallType ==
  ASSUME TypeOK, NEW p \in Procs, NEW q \in Doings, Call(p, q)
  PROVE  /\ proc' \in [Procs -> Doings] /\ suspect' \in SUBSET Names
         /\ calls' \in 0..MaxCalls /\ mishaps' \in 0..MaxMishaps /\ restarts' \in 0..MaxRestarts
<1>1. \A r \in Procs : proc[r] \in Doings  BY DEF TypeOK, Doings, Names
<1>2. ConcernedBy(q) \in SUBSET Names  BY Concerns
<1>3. [q EXCEPT !.alone = ConcernedBy(q) \ InFlight] \in Doings  BY <1>2 DEF Doings
<1>4. \A r \in Procs : [proc[r] EXCEPT !.alone = @ \ ConcernedBy(q)] \in Doings
  BY <1>1 DEF Doings
<1>5. proc' \in [Procs -> Doings]  BY <1>3, <1>4 DEF Call
<1>6. suspect' \in SUBSET Names  BY <1>2 DEF Call, TypeOK, Names
<1>7. calls < MaxCalls /\ calls' = calls + 1 /\ mishaps' = mishaps /\ restarts' = restarts
  BY DEF Call
<1>8. QED  BY <1>5, <1>6, <1>7 DEF TypeOK

LEMMA MishapType ==
  ASSUME TypeOK, Mishap
  PROVE  calls' \in 0..MaxCalls /\ mishaps' \in 0..MaxMishaps /\ restarts' \in 0..MaxRestarts
  BY DEF TypeOK, Mishap

LEMMA NewValue == ASSUME TypeOK, calls < MaxCalls PROVE calls + 2 \in Values \ {Missing}
  BY DEF TypeOK, Values, Missing

\* What the five calls begin with.
LEMMA Beginnings ==
  ASSUME TypeOK, NEW p \in Procs, Begin(p)
  PROVE  \E q \in Doings :
           /\ Call(p, q) /\ Shape(q) /\ q.op # "none" /\ q.pc # "entry" /\ q.pc # "warm" /\ q.done = {}
           /\ q.op = "get" => \A k \in ConcernedBy(q) : cache[k] = Missing
           /\ UNCHANGED <<settingVars, flags, loadedTwo, writer>>
           /\ \/ q.op # "switch" /\ enabled' = enabled
              \/ /\ q.op = "switch" /\ q.pc = IF q.on THEN "others" ELSE "persist"
                 /\ \E x \in Plugins : q.todo = {x} /\ enabled' = [enabled EXCEPT ![x] = q.on]
<1> USE DEF Idle, Doings, Names
<1>1. calls < MaxCalls /\ calls + 2 \in Values \ {Missing}
  BY NewValue DEF Begin, Get, Put, SavePage, Page, Switch, Call
<1>2. Idle \in Doings  BY IdleCall
<1>3. CASE Put(p)
  <2>1. PICK k \in Keys :
            Call(p, [Idle EXCEPT !.op = "put", !.pc = "row", !.val = calls + 2, !.todo = {k}])
    BY <1>3 DEF Put
  <2> DEFINE q == [Idle EXCEPT !.op = "put", !.pc = "row", !.val = calls + 2, !.todo = {k}]
  <2>2. q \in Doings /\ q.op = "put" /\ q.pc = "row" /\ q.todo = {k} /\ q.done = {} /\ q.val = calls + 2
    BY <1>1, <1>2
  <2> HIDE DEF q
  <2>3. Shape(q)  BY <1>1, <2>2 DEF Shape
  <2>4. Call(p, q) /\ UNCHANGED <<settingVars, pluginVars, writer>>  BY <1>3, <2>1 DEF q, Put
  <2>5. QED  BY <2>2, <2>3, <2>4 DEF pluginVars
<1>4. CASE SavePage(p)
  <2>1. PICK ks \in SUBSET Keys \ {{}} :
            Call(p, [Idle EXCEPT !.op = "save", !.pc = "row", !.val = calls + 2, !.todo = ks])
    BY <1>4 DEF SavePage
  <2> DEFINE q == [Idle EXCEPT !.op = "save", !.pc = "row", !.val = calls + 2, !.todo = ks]
  <2>2. q \in Doings /\ q.op = "save" /\ q.pc = "row" /\ q.todo = ks /\ q.done = {} /\ q.val = calls + 2
    BY <1>1, <1>2
  <2> HIDE DEF q
  <2>3. Shape(q)  BY <1>1, <2>2 DEF Shape
  <2>4. Call(p, q) /\ UNCHANGED <<settingVars, pluginVars, writer>>  BY <1>4, <2>1 DEF q, SavePage
  <2>5. QED  BY <2>2, <2>3, <2>4 DEF pluginVars
<1>5. CASE Page(p)
  <2> DEFINE q == [Idle EXCEPT !.op = "page", !.pc = "page"]
  <2>1. q \in Doings /\ q.op = "page" /\ q.pc = "page" /\ q.done = {}  BY <1>2
  <2>2. Call(p, q) /\ UNCHANGED <<settingVars, pluginVars, writer>>  BY <1>5 DEF Page
  <2> HIDE DEF q
  <2>3. Shape(q)  BY <2>1 DEF Shape
  <2>4. QED  BY <2>1, <2>2, <2>3 DEF pluginVars
<1>6. CASE Switch(p)
  <2>1. PICK x \in Plugins, on \in BOOLEAN :
          /\ Call(p, [Idle EXCEPT !.op = "switch", !.pc = IF on THEN "others" ELSE "persist",
                                  !.todo = {x}, !.on = on])
          /\ enabled' = [enabled EXCEPT ![x] = on]
    BY <1>6 DEF Switch
  <2> DEFINE q == [Idle EXCEPT !.op = "switch", !.pc = IF on THEN "others" ELSE "persist",
                               !.todo = {x}, !.on = on]
  <2>2. q \in Doings /\ q.op = "switch" /\ q.pc = IF on THEN "others" ELSE "persist"
    BY <1>2
  <2>3. q.todo = {x} /\ q.done = {} /\ q.on = on  BY <1>2
  <2>4. Call(p, q)  BY <2>1
  <2> HIDE DEF q
  <2>5. Shape(q)  BY <2>2, <2>3 DEF Shape
  <2>6. UNCHANGED <<settingVars, flags, loadedTwo, writer>>  BY <1>6 DEF Switch
  <2>7. q.pc # "entry" /\ q.pc # "warm"  BY <2>2
  <2>8. /\ q.op = "switch" /\ q.pc = IF q.on THEN "others" ELSE "persist"
        /\ \E y \in Plugins : q.todo = {y} /\ enabled' = [enabled EXCEPT ![y] = q.on]
    BY <2>1, <2>2, <2>3
  <2>9. QED  BY <2>2, <2>3, <2>4, <2>5, <2>6, <2>7, <2>8
<1>7. CASE Get(p)
  <2>1. PICK k \in Keys : /\ cache[k] = Missing
                         /\ Call(p, [Idle EXCEPT !.op = "get", !.pc = "row", !.todo = {k}])
    BY <1>7 DEF Get
  <2> DEFINE q == [Idle EXCEPT !.op = "get", !.pc = "row", !.todo = {k}]
  <2>2. q \in Doings /\ q.op = "get" /\ q.pc = "row" /\ q.todo = {k} /\ q.done = {}
    BY <1>2
  <2> HIDE DEF q
  <2>3. Shape(q)  BY <2>2 DEF Shape
  <2>4. Call(p, q) /\ UNCHANGED <<settingVars, pluginVars, writer>>  BY <1>7, <2>1 DEF q, Get
  <2>5. ConcernedBy(q) = {k}  BY <2>2 DEF ConcernedBy
  <2>6. QED  BY <2>1, <2>2, <2>3, <2>4, <2>5 DEF pluginVars
<1>8. QED  BY <1>3, <1>4, <1>5, <1>6, <1>7 DEF Begin

LEMMA TypeBegin == ASSUME TypeOK, NEW p \in Procs, Begin(p) PROVE TypeOK'
<1>1. PICK q \in Doings :
        /\ Call(p, q) /\ UNCHANGED <<settingVars, flags, loadedTwo, writer>>
        /\ \/ enabled' = enabled
           \/ \E x \in Plugins : enabled' = [enabled EXCEPT ![x] = q.on]
  BY Beginnings
<1>2. enabled' \in [Plugins -> BOOLEAN]  BY <1>1 DEF TypeOK, Doings
<1>3. QED  BY <1>1, <1>2, CallType DEF TypeOK, Doings, Names, settingVars

LEMMA TypeContinue == ASSUME TypeOK, Shaped, NEW p \in Procs, Continue(p) PROVE TypeOK'
<1> USE DEF settingVars, pluginVars, counts
<1>1. proc[p] \in Doings /\ Shape(proc[p])  BY DEF TypeOK, Shaped, Doings, Names
<1>2. CASE PutRow(p)
  <2>1. table' \in [Keys -> Values]  BY <1>1, <1>2 DEF PutRow, TypeOK, Doings
  <2>2. [proc[p] EXCEPT !.pc = "entry"] \in Doings  BY <1>1 DEF Doings
  <2>3. proc' \in [Procs -> Doings]  BY <1>2, <2>2, SetType DEF PutRow
  <2>4. QED  BY <1>2, <2>1, <2>3 DEF PutRow, TypeOK, Doings, Names
<1>3. CASE PutFailed(p)
  BY <1>3, ReturnType, MishapType DEF PutFailed, TypeOK, Doings, Names
<1>4. CASE PutEntry(p)
  <2>1. cache' \in [Keys -> Values] /\ \A k \in Defaults : cache'[k] # Missing
    BY <1>1, <1>4 DEF PutEntry, TypeOK, Doings, Shape
  <2>2. suspect' \in SUBSET Names  BY <1>4 DEF PutEntry, TypeOK, Names
  <2>3. QED  BY <1>4, <2>1, <2>2, ReturnType DEF PutEntry, TypeOK, Doings, Names
<1>5. CASE SaveKey(p)
  <2>1. PICK k \in proc[p].todo :
          /\ cache' = [cache EXCEPT ![k] = proc[p].val]
          /\ Set(p, [proc[p] EXCEPT !.todo = @ \ {k}, !.done = @ \cup {k}])
    BY <1>5 DEF SaveKey
  <2>2. k \in Keys /\ proc[p].val \in Values \ {Missing}
    BY <1>1, <1>5 DEF SaveKey, Shape, Doings
  <2>3. [proc[p] EXCEPT !.todo = @ \ {k}, !.done = @ \cup {k}] \in Doings
    BY <1>1, <2>2 DEF Doings, Names
  <2>4. proc' \in [Procs -> Doings]  BY <2>1, <2>3, SetType
  <2>5. cache' \in [Keys -> Values] /\ \A h \in Defaults : cache'[h] # Missing
    BY <2>1, <2>2 DEF TypeOK
  <2>6. QED  BY <1>5, <2>4, <2>5 DEF SaveKey, TypeOK, Doings, Names
<1>6. CASE SaveCommitted(p)
  <2>1. table' \in [Keys -> Values]  BY <1>1, <1>6 DEF SaveCommitted, TypeOK, Doings
  <2>2. suspect' \in SUBSET Names
    BY <1>1, <1>6 DEF SaveCommitted, TypeOK, Doings, Names
  <2>3. QED  BY <1>6, <2>1, <2>2, ReturnType DEF SaveCommitted, TypeOK, Doings, Names
<1>7. CASE SaveRolledBack(p)
  <2>1. suspect' \in SUBSET Names  BY <1>1, <1>7 DEF SaveRolledBack, TypeOK, Names, Doings
  <2>2. QED  BY <1>7, <2>1, ReturnType, MishapType DEF SaveRolledBack, TypeOK, Doings, Names
<1>8. CASE PageRead(p)
  <2>1. [proc[p] EXCEPT !.pc = "warm", !.snap = table] \in Doings  BY <1>1 DEF Doings, TypeOK
  <2>2. proc' \in [Procs -> Doings]  BY <1>8, <2>1, SetType DEF PageRead
  <2>3. QED  BY <1>8, <2>2 DEF PageRead, TypeOK, Doings, Names
<1>9. CASE PageWarm(p)
  <2>1. Default \in Values \ {Missing}  BY DEF Default, Values, Missing
  <2>2. table' \in [Keys -> Values]  BY <1>1, <1>9, <2>1 DEF PageWarm, TypeOK
  <2>3. cache' \in [Keys -> Values] /\ \A k \in Defaults : cache'[k] # Missing
    <3>1. proc[p].snap \in [Keys -> Values]  BY <1>1 DEF Doings
    <3>2. Filled(proc[p].snap) \in [Keys -> Values]  BY <2>1, <3>1 DEF Filled
    <3>3. \A k \in Defaults : Filled(proc[p].snap)[k] # Missing  BY <2>1 DEF Filled
    <3>4. cache' = Warmed(proc[p])  BY <1>9 DEF PageWarm
    <3>5. QED  BY <3>2, <3>3, <3>4 DEF Warmed, TypeOK
  <2>4. suspect' \in SUBSET Names  BY <1>9 DEF PageWarm, TypeOK, Names
  <2>5. QED  BY <1>9, <2>2, <2>3, <2>4, ReturnType DEF PageWarm, TypeOK, Doings, Names
<1>10. CASE DisableOthers(p)
  <2> DEFINE others == {y \in Plugins \ proc[p].todo : enabled[y]}
  <2>1. [proc[p] EXCEPT !.pc = "persist", !.done = others] \in Doings
    BY <1>1 DEF Doings, Names
  <2>2. proc' \in [Procs -> Doings]  BY <1>10, <2>1, SetType DEF DisableOthers
  <2>3. enabled' \in [Plugins -> BOOLEAN]  BY <1>10 DEF DisableOthers, TypeOK
  <2>4. QED  BY <1>10, <2>2, <2>3 DEF DisableOthers, TypeOK, Doings, Names
<1>11. ASSUME NEW x, Stored(p, x) PROVE proc' \in [Procs -> Doings]
  <2>1. [proc[p] EXCEPT !.done = @ \ {x}] \in Doings  BY <1>1 DEF Doings
  <2>2. QED  BY <1>11, <2>1, SetType, ReturnType DEF Stored
<1>12. CASE StoreFlag(p)
  <2>1. flags' \in [Plugins -> BOOLEAN]  BY <1>1, <1>12 DEF StoreFlag, TypeOK, Doings
  <2>2. QED  BY <1>11, <1>12, <2>1 DEF StoreFlag, TypeOK, Doings, Names
<1>13. CASE StoreFlagFailed(p)
  <2>1. PICK x \in ToStore(proc[p]) : Stored(p, x) /\ suspect' = suspect \cup {x}
    BY <1>13 DEF StoreFlagFailed
  <2>2. x \in Names  BY <1>1, <2>1 DEF ToStore, Doings
  <2>3. suspect' \in SUBSET Names  BY <2>1, <2>2 DEF TypeOK, Names
  <2>4. QED
    BY <1>11, <1>13, <2>1, <2>3, MishapType DEF StoreFlagFailed, TypeOK, Doings, Names
<1>14. CASE GetRow(p)
  <2>1. proc' \in [Procs -> Doings] /\ suspect' \in SUBSET Names
    <3>1. PICK k \in proc[p].todo :
          \/ Filled(table)[k] = Missing /\ Return(p) /\ suspect' = suspect \ proc[p].alone
          \/ /\ Filled(table)[k] # Missing /\ suspect' = suspect
             /\ Set(p, [proc[p] EXCEPT !.pc = "entry", !.val = Filled(table)[k]])
      BY <1>14 DEF GetRow
    <3>2. Filled(table)[k] \in Values
      <4>1. k \in Keys  BY <1>1, <1>14 DEF GetRow, Shape
      <4>2. QED  BY <4>1 DEF Filled, TypeOK, Default, Values
    <3>3. [proc[p] EXCEPT !.pc = "entry", !.val = Filled(table)[k]] \in Doings
      BY <1>1, <3>2 DEF Doings
    <3>4. QED  BY <3>1, <3>3, SetType, ReturnType DEF TypeOK, Names
  <2>2. QED  BY <1>14, <2>1 DEF GetRow, TypeOK, Doings, Names
<1>15. CASE GetEntry(p)
  <2>1. cache' \in [Keys -> Values] /\ \A k \in Defaults : cache'[k] # Missing
    BY <1>1, <1>15 DEF GetEntry, TypeOK, Doings, Shape
  <2>2. suspect' \in SUBSET Names  BY <1>15 DEF GetEntry, TypeOK, Names
  <2>3. QED  BY <1>15, <2>1, <2>2, ReturnType DEF GetEntry, TypeOK, Doings, Names
<1>16. CASE PageFailed(p)
  <2>1. PICK ks \in SUBSET Gone(proc[p]) :
          /\ table' = [k \in Keys |-> IF k \in ks THEN Default ELSE table[k]]
          /\ cache' = [k \in Keys |-> IF k \in ks THEN Default ELSE cache[k]]
          /\ suspect' = suspect \ (proc[p].alone \cap ks)
    BY <1>16 DEF PageFailed
  <2>2. Default \in Values \ {Missing}  BY DEF Default, Values, Missing
  <2>3. /\ table' \in [Keys -> Values] /\ cache' \in [Keys -> Values]
        /\ \A k \in Defaults : cache'[k] # Missing
    BY <2>1, <2>2 DEF TypeOK
  <2>4. suspect' \in SUBSET Names  BY <2>1 DEF TypeOK, Names
  <2>5. QED  BY <1>16, <2>3, <2>4, ReturnType, MishapType DEF PageFailed, TypeOK, Doings, Names
<1>17. QED
  BY <1>2, <1>3, <1>4, <1>5, <1>6, <1>7, <1>8, <1>9, <1>10, <1>12, <1>13, <1>14, <1>15, <1>16 DEF Continue

LEMMA TypeNext == TypeOK /\ Shaped /\ [Next]_vars => TypeOK'
<1> SUFFICES ASSUME TypeOK, Shaped, [Next]_vars PROVE TypeOK'
  OBVIOUS
<1> USE DEF settingVars, pluginVars, counts
<1>1. CASE ImportDB
  <2>1. calls < MaxCalls /\ calls' = calls + 1  BY <1>1 DEF ImportDB
  <2>2. calls' \in 0..MaxCalls  BY <2>1 DEF TypeOK
  <2>3. {Missing, calls + 2} \subseteq Values  BY <2>1, NewValue DEF Values, Missing
  <2>4. table' \in [Keys -> Values]  BY <1>1, <2>3 DEF ImportDB
  <2>5. proc' \in [Procs -> Doings]
    <3>1. \A p \in Procs : proc[p] \in Doings  BY DEF TypeOK, Doings, Names
    <3>2. \A p \in Procs : [proc[p] EXCEPT !.alone = {}] \in Doings  BY <3>1 DEF Doings
    <3>3. QED  BY <1>1, <3>2 DEF ImportDB
  <2>6. QED  BY <1>1, <2>2, <2>4, <2>5 DEF ImportDB, TypeOK, Doings, Names
<1>2. CASE Restart
  <2>1. Default \in Values \ {Missing}  BY DEF Default, Values, Missing
  <2>2. /\ Filled(table) \in [Keys -> Values]
        /\ \A k \in Defaults : Filled(table)[k] # Missing
    BY <2>1 DEF Filled, TypeOK
  <2>3. restarts' \in 0..MaxRestarts
    <3>1. restarts < MaxRestarts /\ restarts' = restarts + 1  BY <1>2 DEF Restart
    <3>2. QED  BY <3>1 DEF TypeOK
  <2>4. proc' \in [Procs -> Doings]  BY <1>2, IdleCall DEF Restart
  <2>5. QED  BY <1>2, <2>2, <2>3, <2>4 DEF Restart, TypeOK, Doings, Names
<1>3. CASE UNCHANGED vars  BY <1>3 DEF vars, TypeOK
<1>4. QED  BY <1>1, <1>2, <1>3, TypeBegin, TypeContinue DEF Next

-----------------------------------------------------------------------------
(* How calls begin, go on and end.                                         *)

LEMMA InitIInv == Init => IInv
<1> SUFFICES ASSUME Init PROVE IInv
  OBVIOUS
<1>1. \A p \in Procs : proc[p] = Idle  BY DEF Init
<1>2. \A k \in Keys : cache[k] = table[k]  BY DEF Init
<1>3. \A x, y \in Plugins : enabled[x] = flags[x] /\ (flags[x] /\ flags[y] => x = y)
  BY DEF Init, AtMostOne
<1>4. Shaped  BY <1>1, IdleCall DEF Shaped, Shape
<1>5. Owned  BY <1>1, IdleCall DEF Owned
<1>6. KeysAgree
  <2>1. ASSUME NEW k \in Keys PROVE KeyAgrees(k)
    BY <1>1, <1>2, IdleCall DEF KeyAgrees
  <2>2. QED  BY <2>1 DEF KeysAgree
<1>7. FlagsAgree  BY <1>1, <1>3, IdleCall DEF FlagsAgree, FlagAgrees
<1>8. Transport  BY <1>3 DEF Transport
<1>9. QED  BY <1>4, <1>5, <1>6, <1>7, <1>8 DEF IInv

\* Two records of a call that differ at most in what it has for itself.
Alike(t, s) ==
    /\ t.op = s.op /\ t.pc = s.pc /\ t.val = s.val /\ t.todo = s.todo /\ t.done = s.done
    /\ t.on = s.on /\ t.snap = s.snap

LEMMA AlikeCalls ==
  /\ \A s \in Doings : \A a : Alike([s EXCEPT !.alone = a], s) /\ [s EXCEPT !.alone = a].alone = a
  /\ \A s, t : Alike(t, s) => ConcernedBy(t) = ConcernedBy(s)
  /\ \A s, t : Alike(t, s) /\ Shape(s) /\ s.op # "none" => Shape(t)
<1>1. ASSUME NEW s \in Doings, NEW a
      PROVE  Alike([s EXCEPT !.alone = a], s) /\ [s EXCEPT !.alone = a].alone = a
  BY DEF Doings, Alike
<1>2. \A s, t : Alike(t, s) => ConcernedBy(t) = ConcernedBy(s)
  BY DEF Alike, ConcernedBy
<1>3. \A s, t : Alike(t, s) /\ Shape(s) /\ s.op # "none" => Shape(t)
  BY DEF Alike, Shape
<1>4. QED  BY <1>1, <1>2, <1>3

\* A call that begins takes what it concerns away from the others.
LEMMA CallEffect ==
  ASSUME TypeOK, Shaped, NEW p \in Procs, NEW q \in Doings, Shape(q), q.op # "none", Call(p, q)
  PROVE  /\ proc[p] = Idle /\ Shaped'
         /\ \A r \in Procs : Alike(proc'[r], IF r = p THEN q ELSE proc[r])
         /\ \A r \in Procs : ConcernedBy(proc'[r]) = IF r = p THEN ConcernedBy(q) ELSE ConcernedBy(proc[r])
         /\ proc'[p].alone = ConcernedBy(q) \ InFlight
         /\ \A r \in Procs \ {p} : proc'[r].alone = proc[r].alone \ ConcernedBy(q)
         /\ suspect' = suspect \cup (ConcernedBy(q) \cap InFlight)
<1>1. \A r \in Procs : proc[r] \in Doings  BY DEF TypeOK, Doings, Names
<1>2. proc[p] = Idle  BY DEF Call, Calls, Shaped, Shape
<1>3. \A r \in Procs : proc'[r] = IF r = p THEN [q EXCEPT !.alone = ConcernedBy(q) \ InFlight]
                                  ELSE [proc[r] EXCEPT !.alone = proc[r].alone \ ConcernedBy(q)]
  BY DEF Call
<1>4. \A r \in Procs : Alike(proc'[r], IF r = p THEN q ELSE proc[r])
  <2> SUFFICES ASSUME NEW r \in Procs PROVE Alike(proc'[r], IF r = p THEN q ELSE proc[r])
    OBVIOUS
  <2>1. CASE r = p
    <3>1. proc'[r] = [q EXCEPT !.alone = ConcernedBy(q) \ InFlight]  BY <1>3, <2>1
    <3>2. QED  BY <2>1, <3>1 DEF Alike, Doings
  <2>2. CASE r # p
    <3>1. proc'[r] = [proc[r] EXCEPT !.alone = proc[r].alone \ ConcernedBy(q)]  BY <1>3, <2>2
    <3>2. QED  BY <1>1, <2>2, <3>1 DEF Alike, Doings
  <2>3. QED  BY <2>1, <2>2
<1>5. \A r \in Procs : ConcernedBy(proc'[r]) = IF r = p THEN ConcernedBy(q) ELSE ConcernedBy(proc[r])
  BY <1>4, AlikeCalls
<1>6. /\ proc'[p].alone = ConcernedBy(q) \ InFlight
      /\ \A r \in Procs \ {p} : proc'[r].alone = proc[r].alone \ ConcernedBy(q)
  <2>1. proc'[p] = [q EXCEPT !.alone = ConcernedBy(q) \ InFlight]  BY <1>3
  <2>2. ASSUME NEW r \in Procs \ {p} PROVE proc'[r].alone = proc[r].alone \ ConcernedBy(q)
    <3>1. proc'[r] = [proc[r] EXCEPT !.alone = proc[r].alone \ ConcernedBy(q)]  BY <1>3
    <3>2. QED  BY <1>1, <3>1 DEF Doings
  <2>3. QED  BY <2>1, <2>2 DEF Doings
<1>7. Shaped'
  <2> SUFFICES ASSUME NEW r \in Procs PROVE Shape(proc'[r])
    BY DEF Shaped
  <2>1. CASE r = p  BY <1>4, <2>1, AlikeCalls
  <2>2. CASE r # p /\ proc[r].op # "none"  BY <1>4, <2>2, AlikeCalls DEF Shaped
  <2>3. CASE r # p /\ proc[r].op = "none"
    <3>1. proc[r] = Idle  BY <2>3 DEF Shaped, Shape
    <3>2. proc'[r] = [Idle EXCEPT !.alone = Idle.alone \ ConcernedBy(q)]  BY <1>3, <2>3, <3>1
    <3>3. proc'[r] = Idle
      <4>1. Idle.alone \ ConcernedBy(q) = Idle.alone  BY IdleCall
      <4>2. QED  BY <3>2, <4>1 DEF Idle
    <3>4. QED  BY <3>3, IdleCall DEF Shape
  <2>4. QED  BY <2>1, <2>2, <2>3
<1>8. QED  BY <1>2, <1>4, <1>5, <1>6, <1>7 DEF Call

\* Others are in flight exactly with what they concern.
LEMMA Flights ==
  ASSUME Shaped, NEW x
  PROVE  x \in InFlight <=> \E r \in Procs : x \in ConcernedBy(proc[r])
<1>1. \A r \in Procs : ~Calls(r) => ConcernedBy(proc[r]) = {}
  BY IdleCall DEF Calls, Shaped, Shape
<1>2. QED  BY <1>1 DEF InFlight

LEMMA BeginOwned ==
  ASSUME TypeOK, IInv, NEW p \in Procs, NEW q \in Doings, Shape(q), q.op # "none", Call(p, q)
  PROVE  Owned'
<1>1. /\ proc[p] = Idle
      /\ \A r \in Procs : ConcernedBy(proc'[r]) = IF r = p THEN ConcernedBy(q) ELSE ConcernedBy(proc[r])
      /\ proc'[p].alone = ConcernedBy(q) \ InFlight
      /\ \A r \in Procs \ {p} : proc'[r].alone = proc[r].alone \ ConcernedBy(q)
      /\ suspect' = suspect \cup (ConcernedBy(q) \cap InFlight)
  BY CallEffect DEF IInv
<1>2. \A r \in Procs : ConcernedBy(proc[r]) \subseteq InFlight  BY Flights DEF IInv
<1>3. ASSUME NEW r \in Procs
      PROVE  /\ proc'[r].alone \subseteq ConcernedBy(proc'[r])
             /\ ConcernedBy(proc'[r]) \subseteq proc'[r].alone \cup suspect'
  <2>1. CASE r = p  BY <1>1, <2>1
  <2>2. CASE r # p
    <3>1. proc[r].alone \subseteq ConcernedBy(proc[r])
            /\ ConcernedBy(proc[r]) \subseteq proc[r].alone \cup suspect
      BY DEF IInv, Owned
    <3>2. QED  BY <1>1, <1>2, <2>2, <3>1
  <2>3. QED  BY <2>1, <2>2
<1>4. ASSUME NEW r \in Procs, NEW s \in Procs, r # s
      PROVE  proc'[r].alone \cap ConcernedBy(proc'[s]) = {}
  <2>1. CASE r = p  BY <1>1, <1>2, <1>4, <2>1
  <2>2. CASE s = p  BY <1>1, <1>4, <2>2
  <2>3. CASE r # p /\ s # p  BY <1>1, <1>4, <2>3 DEF IInv, Owned
  <2>4. QED  BY <2>1, <2>2, <2>3
<1>5. QED  BY <1>3, <1>4 DEF Owned

LEMMA BeginKeepsIInv == ASSUME TypeOK, IInv, NEW p \in Procs, Begin(p) PROVE IInv'
<1>1. PICK q \in Doings :
           /\ Call(p, q) /\ Shape(q) /\ q.op # "none" /\ q.pc # "entry" /\ q.pc # "warm" /\ q.done = {}
           /\ q.op = "get" => \A k \in ConcernedBy(q) : cache[k] = Missing
           /\ UNCHANGED <<settingVars, flags, loadedTwo, writer>>
           /\ \/ q.op # "switch" /\ enabled' = enabled
              \/ /\ q.op = "switch" /\ q.pc = IF q.on THEN "others" ELSE "persist"
                 /\ \E x \in Plugins : q.todo = {x} /\ enabled' = [enabled EXCEPT ![x] = q.on]
  BY Beginnings
<1>2. /\ proc[p] = Idle /\ Shaped'
      /\ \A r \in Procs : Alike(proc'[r], IF r = p THEN q ELSE proc[r])
      /\ \A r \in Procs : ConcernedBy(proc'[r]) = IF r = p THEN ConcernedBy(q) ELSE ConcernedBy(proc[r])
      /\ proc'[p].alone = ConcernedBy(q) \ InFlight
      /\ \A r \in Procs \ {p} : proc'[r].alone = proc[r].alone \ ConcernedBy(q)
      /\ suspect' = suspect \cup (ConcernedBy(q) \cap InFlight)
  BY <1>1, CallEffect DEF IInv
<1>3. Owned'  BY <1>1, BeginOwned
<1>4. UNCHANGED <<table, cache, flags, loadedTwo>>  BY <1>1 DEF settingVars
<1>5. \A x : x \in InFlight <=> \E r \in Procs : x \in ConcernedBy(proc[r])  BY Flights DEF IInv
<1>6. KeysAgree'
  <2> SUFFICES ASSUME NEW k \in Keys PROVE KeyAgrees(k)'
    BY DEF KeysAgree
  <2>1. KeyAgrees(k)  BY DEF IInv, KeysAgree
  <2>2. k \notin suspect' /\ (\A r \in Procs : k \notin ConcernedBy(proc'[r])) => cache[k] = table[k]
    <3>1. (\A r \in Procs : k \notin ConcernedBy(proc'[r])) => \A r \in Procs : k \notin ConcernedBy(proc[r])
      BY <1>2, IdleCall
    <3>2. QED  BY <1>2, <2>1, <3>1 DEF KeyAgrees
  <2>3. ASSUME NEW r \in Procs, k \in proc'[r].alone
        PROVE  /\ Known(proc'[r], k, table[k], cache[k])
               /\ k \notin suspect' /\ Untouched(proc'[r], k) => cache[k] = table[k]
    <3>1. CASE r = p
      <4>1. k \in ConcernedBy(q) /\ \A s \in Procs : k \notin ConcernedBy(proc[s])
        BY <1>2, <1>5, <2>3, <3>1
      <4>2. k \notin suspect' => cache[k] = table[k]  BY <1>2, <2>1, <4>1 DEF KeyAgrees
      <4>3. Alike(proc'[r], q)  BY <1>2, <3>1
      <4>4. Known(proc'[r], k, table[k], cache[k])  BY <1>1, <4>1, <4>3 DEF Alike, Known
      <4>5. QED  BY <4>2, <4>4
    <3>2. CASE r # p
      <4>1. k \in proc[r].alone /\ Alike(proc'[r], proc[r])  BY <1>2, <2>3, <3>2
      <4>2. Known(proc[r], k, table[k], cache[k]) => Known(proc'[r], k, table[k], cache[k])
        BY <4>1 DEF Known, Alike
      <4>3. Untouched(proc'[r], k) => Untouched(proc[r], k)  BY <4>1 DEF Untouched, Alike
      <4>4. QED  BY <1>2, <2>1, <4>1, <4>2, <4>3 DEF KeyAgrees
    <3>3. QED  BY <3>1, <3>2
  <2>4. QED  BY <1>4, <2>2, <2>3 DEF KeyAgrees
<1>7. FlagsAgree'
  <2> SUFFICES ASSUME NEW x \in Plugins, x \notin suspect'
               PROVE  /\ (\A r \in Procs : x \notin ConcernedBy(proc'[r])) => flags[x] = enabled'[x]
                      /\ \A r \in Procs : proc'[r].op = "switch" =>
                            /\ x \in proc'[r].todo => enabled'[x] = proc'[r].on
                            /\ x \in proc'[r].done => ~enabled'[x]
                            /\ x \notin proc'[r].todo \cup proc'[r].done => flags[x] = enabled'[x]
    BY <1>4 DEF FlagsAgree, FlagAgrees
  <2>1. FlagAgrees(x) /\ x \notin suspect  BY <1>2 DEF IInv, FlagsAgree
  <2>2. CASE q.op # "switch"
    <3>1. enabled' = enabled /\ x \notin ConcernedBy(q)
      <4>1. ConcernedBy(q) \subseteq Keys  BY <1>1, <2>2, Concerns DEF Shape, Doings
      <4>2. QED  BY <1>1, <2>2, <4>1
    <3>2. (\A r \in Procs : x \notin ConcernedBy(proc'[r])) => \A r \in Procs : x \notin ConcernedBy(proc[r])
      BY <1>2, IdleCall
    <3>3. \A r \in Procs : proc'[r].op = "switch" => r # p /\ Alike(proc'[r], proc[r])
      BY <1>2, <2>2 DEF Alike
    <3>4. QED  BY <2>1, <3>1, <3>2, <3>3 DEF FlagAgrees, Alike
  <2>3. CASE q.op = "switch"
    <3>1. x \in ConcernedBy(q)  BY <2>3, Concerns
    <3>2. \A r \in Procs : x \notin ConcernedBy(proc[r])  BY <1>2, <1>5, <3>1
    <3>3. flags[x] = enabled[x]  BY <2>1, <3>2 DEF FlagAgrees
    <3>4. ASSUME NEW r \in Procs, proc'[r].op = "switch" PROVE r = p
      <4>1. ConcernedBy(proc'[r]) = Plugins  BY <3>4, Concerns
      <4>2. QED  BY <1>2, <3>2, <4>1
    <3>5. Alike(proc'[p], q) /\ x \in ConcernedBy(proc'[p])  BY <1>2, <3>1
    <3>6. PICK y \in Plugins : q.todo = {y} /\ enabled' = [enabled EXCEPT ![y] = q.on]
      BY <1>1, <2>3
    <3>7. enabled'[x] = IF x = y THEN q.on ELSE enabled[x]  BY <3>6 DEF TypeOK
    <3>8. QED  BY <1>1, <3>3, <3>4, <3>5, <3>6, <3>7 DEF Alike
  <2>4. QED  BY <2>2, <2>3
<1>8. Transport'
  <2> SUFFICES ASSUME ~loadedTwo, NEW x \in Plugins, NEW y \in Plugins,
                      enabled'[x], enabled'[y], ~Claimed(x)', ~Claimed(y)'
               PROVE  x = y
    BY <1>4 DEF Transport
  <2>1. \A z : ~Claimed(z)' => ~Claimed(z)
    <3>1. \A r \in Procs : proc[r].pc = "others" => r # p  BY <1>2, IdleCall
    <3>2. QED  BY <1>2, <3>1 DEF Claimed, Alike
  <2>2. \A z \in Plugins : enabled'[z] /\ ~Claimed(z)' => enabled[z]
    <3>1. Alike(proc'[p], q)  BY <1>2
    <3>2. QED  BY <1>1, <3>1 DEF Claimed, Alike, TypeOK
  <2>3. QED  BY <2>1, <2>2 DEF IInv, Transport
<1>9. QED  BY <1>2, <1>3, <1>6, <1>7, <1>8 DEF IInv

-----------------------------------------------------------------------------
(* A step of one call: it goes on with what it concerns, or it ends.        *)

LEMMA StepOwned ==
  ASSUME Owned, NEW p \in Procs, NEW t,
         \A r \in Procs : proc'[r] = IF r = p THEN t ELSE proc[r],
         \/ ConcernedBy(t) = ConcernedBy(proc[p]) /\ t.alone = proc[p].alone /\ suspect \subseteq suspect'
         \/ t = Idle /\ suspect \ proc[p].alone \subseteq suspect'
  PROVE  Owned'
<1>1. \A r \in Procs : /\ proc[r].alone \subseteq ConcernedBy(proc[r])
                       /\ ConcernedBy(proc[r]) \subseteq proc[r].alone \cup suspect
  BY DEF Owned
<1>2. \A r, s \in Procs : r # s => proc[r].alone \cap ConcernedBy(proc[s]) = {}  BY DEF Owned
<1>3. ASSUME NEW r \in Procs
      PROVE  /\ proc'[r].alone \subseteq ConcernedBy(proc'[r])
             /\ ConcernedBy(proc'[r]) \subseteq proc'[r].alone \cup suspect'
  <2>1. CASE r = p  BY <1>1, <2>1, IdleCall
  <2>2. CASE r # p
    <3>1. proc'[r] = proc[r] /\ proc[p].alone \cap ConcernedBy(proc[r]) = {}  BY <1>2, <2>2
    <3>2. QED  BY <1>1, <3>1
  <2>3. QED  BY <2>1, <2>2
<1>4. ASSUME NEW r \in Procs, NEW s \in Procs, r # s
      PROVE  proc'[r].alone \cap ConcernedBy(proc'[s]) = {}
  <2>1. proc[r].alone \cap ConcernedBy(proc[s]) = {}  BY <1>2, <1>4
  <2>2. proc'[r].alone \subseteq proc[r].alone  BY IdleCall
  <2>3. ConcernedBy(proc'[s]) \subseteq ConcernedBy(proc[s])  BY IdleCall
  <2>4. QED  BY <2>1, <2>2, <2>3
<1>5. QED  BY <1>3, <1>4 DEF Owned

\* It is enough to look at the keys that the call has for itself.
LEMMA StepKeys ==
  ASSUME Owned, KeysAgree, NEW p \in Procs, NEW t,
         \A r \in Procs : proc'[r] = IF r = p THEN t ELSE proc[r],
         ConcernedBy(t) \subseteq ConcernedBy(proc[p]), t.alone \subseteq proc[p].alone,
         suspect \ proc[p].alone \subseteq suspect',
         \A k \in Keys \ ConcernedBy(proc[p]) :
            table'[k] = table[k] /\ cache'[k] = cache[k] /\ (k \in suspect' => k \in suspect),
         \A k \in Keys \cap proc[p].alone :
            /\ k \notin suspect' /\ k \notin ConcernedBy(t) => cache'[k] = table'[k]
            /\ k \in t.alone =>
                  /\ Known(t, k, table'[k], cache'[k])
                  /\ k \notin suspect' /\ Untouched(t, k) => cache'[k] = table'[k]
  PROVE  KeysAgree'
<1> SUFFICES ASSUME NEW k \in Keys PROVE KeyAgrees(k)'
  BY DEF KeysAgree
<1>1. KeyAgrees(k)  BY DEF KeysAgree
<1>2. \A r \in Procs : /\ proc[r].alone \subseteq ConcernedBy(proc[r])
                       /\ ConcernedBy(proc[r]) \subseteq proc[r].alone \cup suspect
                       /\ r # p => proc[r].alone \cap ConcernedBy(proc[p]) = {}
                       /\ r # p => proc[p].alone \cap ConcernedBy(proc[r]) = {}
  BY DEF Owned
<1>3. CASE k \notin ConcernedBy(proc[p])
  <2>1. k \notin t.alone /\ k \notin ConcernedBy(t)  BY <1>2, <1>3
  <2>2. \A r \in Procs : k \in proc'[r].alone => proc'[r] = proc[r]  BY <2>1
  <2>3. (\A r \in Procs : k \notin ConcernedBy(proc'[r])) => \A r \in Procs : k \notin ConcernedBy(proc[r])
    BY <1>3
  <2>4. table'[k] = table[k] /\ cache'[k] = cache[k] /\ (k \in suspect' <=> k \in suspect)
    BY <1>2, <1>3
  <2>5. QED  BY <1>1, <2>2, <2>3, <2>4 DEF KeyAgrees
<1>4. CASE k \in ConcernedBy(proc[p]) \ proc[p].alone
  <2>1. k \in suspect'  BY <1>2, <1>4
  <2>2. \A r \in Procs : k \notin proc'[r].alone  BY <1>2, <1>4
  <2>3. QED  BY <2>1, <2>2 DEF KeyAgrees
<1>5. CASE k \in proc[p].alone
  <2>1. \A r \in Procs : r # p => k \notin ConcernedBy(proc'[r])  BY <1>2, <1>5
  <2>2. \A r \in Procs : r # p => k \notin proc'[r].alone  BY <1>2, <2>1
  <2>3. proc'[p] = t  OBVIOUS
  <2>4. k \notin suspect' /\ (\A r \in Procs : k \notin ConcernedBy(proc'[r])) => cache'[k] = table'[k]
    BY <1>5, <2>3
  <2>5. QED  BY <1>5, <2>2, <2>3, <2>4 DEF KeyAgrees
<1>6. QED  BY <1>2, <1>3, <1>4, <1>5

\* A step of a call about keys switches no plugin, and stores no other flag but those
\* that it puts under suspicion.
LEMMA SettingStep ==
  ASSUME TypeOK, IInv, NEW p \in Procs, NEW t,
         \A r \in Procs : proc'[r] = IF r = p THEN t ELSE proc[r],
         proc[p].op \in {"get", "put", "save", "page"}, Shape(t), UNCHANGED <<enabled, loadedTwo>>,
         \A x \in Plugins \ suspect' : flags'[x] = flags[x],
         \/ /\ t.op = proc[p].op /\ ConcernedBy(t) = ConcernedBy(proc[p])
            /\ t.alone = proc[p].alone /\ suspect \subseteq suspect'
         \/ t = Idle /\ suspect \ proc[p].alone \subseteq suspect',
         suspect' \subseteq suspect \cup (Keys \cap ConcernedBy(proc[p])) \cup Plugins
  PROVE  /\ Shaped' /\ Owned' /\ FlagsAgree' /\ Transport'
         /\ ConcernedBy(t) \subseteq ConcernedBy(proc[p]) /\ t.alone \subseteq proc[p].alone
         /\ suspect \ proc[p].alone \subseteq suspect'
         /\ proc[p].alone \subseteq ConcernedBy(proc[p]) /\ ConcernedBy(proc[p]) \subseteq Keys
<1>1. proc[p] \in Doings /\ Shape(proc[p])  BY DEF TypeOK, IInv, Shaped, Doings, Names
<1>2. ConcernedBy(proc[p]) \subseteq Keys  BY <1>1, Concerns DEF Shape
<1>3. proc[p].alone \subseteq ConcernedBy(proc[p])  BY DEF IInv, Owned
<1>4. Shaped'  BY DEF IInv, Shaped
<1>5. Owned'  BY StepOwned DEF IInv
<1>6. ConcernedBy(t) \subseteq ConcernedBy(proc[p]) /\ t.alone \subseteq proc[p].alone
  BY IdleCall
<1>7. t.op # "switch" /\ t.pc # "others" /\ proc[p].pc # "others"
  BY <1>1, IdleCall DEF Shape
<1>8. FlagsAgree'
  <2> SUFFICES ASSUME NEW x \in Plugins, x \notin suspect'
               PROVE  /\ (\A r \in Procs : x \notin ConcernedBy(proc'[r])) => flags[x] = enabled[x]
                      /\ \A r \in Procs : proc'[r].op = "switch" =>
                            /\ x \in proc'[r].todo => enabled[x] = proc'[r].on
                            /\ x \in proc'[r].done => ~enabled[x]
                            /\ x \notin proc'[r].todo \cup proc'[r].done => flags[x] = enabled[x]
    BY DEF FlagsAgree, FlagAgrees
  <2>1. x \notin ConcernedBy(proc[p])  BY <1>2
  <2>2. x \notin suspect  BY <1>3, <2>1
  <2>3. FlagAgrees(x)  BY DEF IInv, FlagsAgree
  <2>4. (\A r \in Procs : x \notin ConcernedBy(proc'[r])) => \A r \in Procs : x \notin ConcernedBy(proc[r])
    BY <2>1
  <2>5. \A r \in Procs : proc'[r].op = "switch" => proc'[r] = proc[r]  BY <1>7
  <2>6. QED  BY <2>2, <2>3, <2>4, <2>5 DEF FlagAgrees
<1>9. Transport'
  <2>1. \A x : Claimed(x)' <=> Claimed(x)  BY <1>7 DEF Claimed
  <2>2. QED  BY <2>1 DEF IInv, Transport
<1>10. QED  BY <1>2, <1>3, <1>4, <1>5, <1>6, <1>8, <1>9

LEMMA SetPoint ==
  ASSUME TypeOK, NEW p \in Procs, NEW t, Set(p, t)
  PROVE  \A r \in Procs : proc'[r] = IF r = p THEN t ELSE proc[r]
  BY DEF TypeOK, Set

LEMMA PutKeepsIInv ==
  ASSUME TypeOK, IInv, NEW p \in Procs, PutRow(p) \/ PutFailed(p) \/ PutEntry(p)
  PROVE  IInv'
<1>1. proc[p] \in Doings /\ Shape(proc[p]) /\ proc[p].op = "put"
  BY DEF TypeOK, IInv, Shaped, Doings, Names, PutRow, PutFailed, PutEntry
<1>2. ConcernedBy(proc[p]) = proc[p].todo /\ proc[p].todo \subseteq Keys /\ proc[p].val # Missing
  <2>1. proc[p].todo \subseteq Keys /\ proc[p].done = {} /\ proc[p].val # Missing  BY <1>1 DEF Shape
  <2>2. ConcernedBy(proc[p]) = proc[p].todo \cup proc[p].done  BY <1>1, Concerns
  <2>3. QED  BY <2>1, <2>2
<1>3. \A k \in Keys : KeyAgrees(k)  BY DEF IInv, KeysAgree
<1>4. proc[p].alone \subseteq proc[p].todo  BY <1>2 DEF IInv, Owned
<1>5. CASE PutRow(p)
  <2> DEFINE t == [proc[p] EXCEPT !.pc = "entry"]
  <2>1. \A r \in Procs : proc'[r] = IF r = p THEN t ELSE proc[r]  BY <1>5, SetPoint DEF PutRow
  <2>2. /\ t.op = proc[p].op /\ t.op = "put" /\ t.pc = "entry" /\ t.val = proc[p].val /\ t.todo = proc[p].todo
        /\ t.done = proc[p].done /\ t.alone = proc[p].alone
    BY <1>1 DEF Doings
  <2> HIDE DEF t
  <2>3. Shape(t)  BY <1>1, <2>2 DEF Shape
  <2>4. ConcernedBy(t) = ConcernedBy(proc[p])  BY <2>2 DEF ConcernedBy
  <2>5. UNCHANGED <<pluginVars, cache, suspect>>  BY <1>5 DEF PutRow
  <2>6. \A k \in Keys : table'[k] = IF k \in proc[p].todo THEN proc[p].val ELSE table[k]
    BY <1>5 DEF PutRow
  <2>7. Shaped' /\ Owned' /\ FlagsAgree' /\ Transport'
    BY <1>1, <2>1, <2>2, <2>3, <2>4, <2>5, SettingStep DEF pluginVars
  <2>8. \A k \in Keys \cap proc[p].alone :
          Known(t, k, table'[k], cache'[k]) /\ ~Untouched(t, k) /\ k \in ConcernedBy(t)
    BY <1>1, <1>2, <1>4, <2>2, <2>4, <2>6 DEF Known, Untouched
  <2>10. KeysAgree'
    BY <1>2, <1>4, <2>1, <2>2, <2>4, <2>5, <2>6, <2>8, StepKeys DEF IInv
  <2>11. QED  BY <2>7, <2>10 DEF IInv
<1>6. CASE PutFailed(p)
  <2>1. \A r \in Procs : proc'[r] = IF r = p THEN Idle ELSE proc[r]
    BY <1>6, SetPoint DEF PutFailed, Return
  <2>2. UNCHANGED <<settingVars, pluginVars, suspect>> /\ proc[p].pc = "row"  BY <1>6 DEF PutFailed
  <2>3. Shape(Idle)  BY IdleCall DEF Shape
  <2>4. Shaped' /\ Owned' /\ FlagsAgree' /\ Transport'
    BY <1>1, <2>1, <2>2, <2>3, SettingStep DEF pluginVars
  <2>5. \A k \in proc[p].alone : k \notin suspect => cache[k] = table[k]
    BY <1>1, <1>2, <1>3, <1>4, <2>2 DEF KeyAgrees, Untouched
  <2>6. KeysAgree'
    BY <1>2, <2>1, <2>2, <2>5, IdleCall, StepKeys DEF IInv, settingVars
  <2>7. QED  BY <2>4, <2>6 DEF IInv
<1>7. CASE PutEntry(p)
  <2>1. \A r \in Procs : proc'[r] = IF r = p THEN Idle ELSE proc[r]
    BY <1>7, SetPoint DEF PutEntry, Return
  <2>2. UNCHANGED <<table, pluginVars>> /\ proc[p].pc = "entry" /\ suspect' = suspect \ proc[p].alone
    BY <1>7 DEF PutEntry
  <2>3. \A k \in Keys : cache'[k] = IF k \in proc[p].todo THEN proc[p].val ELSE cache[k]
    BY <1>7 DEF PutEntry
  <2>4. Shape(Idle)  BY IdleCall DEF Shape
  <2>5. Shaped' /\ Owned' /\ FlagsAgree' /\ Transport'
    BY <1>1, <2>1, <2>2, <2>4, SettingStep DEF pluginVars
  <2>6. \A k \in proc[p].alone : cache'[k] = table[k]
    BY <1>1, <1>2, <1>3, <1>4, <2>2, <2>3 DEF KeyAgrees, Known
  <2>7. KeysAgree'
    BY <1>2, <2>1, <2>2, <2>3, <2>6, IdleCall, StepKeys DEF IInv
  <2>8. QED  BY <2>5, <2>7 DEF IInv
<1>8. QED  BY <1>5, <1>6, <1>7

LEMMA SaveKeepsIInv ==
  ASSUME TypeOK, IInv, NEW p \in Procs, SaveKey(p) \/ SaveCommitted(p) \/ SaveRolledBack(p)
  PROVE  IInv'
<1>1. proc[p] \in Doings /\ Shape(proc[p]) /\ proc[p].op = "save"
  BY DEF TypeOK, IInv, Shaped, Doings, Names, SaveKey, SaveCommitted, SaveRolledBack
<1>2. /\ ConcernedBy(proc[p]) = proc[p].todo \cup proc[p].done /\ ConcernedBy(proc[p]) \subseteq Keys
      /\ proc[p].val # Missing /\ proc[p].pc = "row"
  <2>1. proc[p].todo \cup proc[p].done \subseteq Keys /\ proc[p].val # Missing /\ proc[p].pc = "row"
    BY <1>1 DEF Shape
  <2>2. ConcernedBy(proc[p]) = proc[p].todo \cup proc[p].done  BY <1>1, Concerns
  <2>3. QED  BY <2>1, <2>2
<1>3. \A k \in Keys : KeyAgrees(k)  BY DEF IInv, KeysAgree
<1>4. proc[p].alone \subseteq ConcernedBy(proc[p])  BY DEF IInv, Owned
<1>5. Shape(Idle)  BY IdleCall DEF Shape
<1>6. CASE SaveKey(p)
  <2>1. PICK h \in proc[p].todo :
          /\ cache' = [cache EXCEPT ![h] = proc[p].val]
          /\ Set(p, [proc[p] EXCEPT !.todo = @ \ {h}, !.done = @ \cup {h}])
    BY <1>6 DEF SaveKey
  <2> DEFINE t == [proc[p] EXCEPT !.todo = @ \ {h}, !.done = @ \cup {h}]
  <2>2. \A r \in Procs : proc'[r] = IF r = p THEN t ELSE proc[r]  BY <2>1, SetPoint
  <2>3. /\ t.op = "save" /\ t.pc = "row" /\ t.val = proc[p].val /\ t.alone = proc[p].alone
        /\ t.todo = proc[p].todo \ {h} /\ t.done = proc[p].done \cup {h}
    BY <1>1, <1>2 DEF Doings
  <2> HIDE DEF t
  <2>4. Shape(t)  BY <1>1, <1>2, <2>3 DEF Shape
  <2>5. ConcernedBy(t) = ConcernedBy(proc[p])  BY <1>2, <2>3, Concerns
  <2>6. UNCHANGED <<table, pluginVars, suspect>>  BY <1>6 DEF SaveKey
  <2>7. \A k \in Keys : cache'[k] = IF k = h THEN proc[p].val ELSE cache[k]  BY <2>1 DEF TypeOK
  <2>8. Shaped' /\ Owned' /\ FlagsAgree' /\ Transport'
    BY <1>1, <2>2, <2>3, <2>4, <2>5, <2>6, SettingStep DEF pluginVars
  <2>9. ASSUME NEW k \in Keys \cap proc[p].alone
        PROVE  /\ k \in ConcernedBy(t)
               /\ Known(t, k, table'[k], cache'[k])
               /\ k \notin suspect' /\ Untouched(t, k) => cache'[k] = table'[k]
    <3>1. KeyAgrees(k)  BY <1>3
    <3>2. k \in t.done => cache'[k] = t.val  BY <1>1, <2>3, <2>7, <3>1 DEF KeyAgrees, Known
    <3>3. k \notin suspect /\ k \in t.todo => cache'[k] = table[k]
      BY <1>1, <2>3, <2>7, <3>1 DEF KeyAgrees, Untouched
    <3>4. QED  BY <1>4, <2>3, <2>5, <2>6, <3>2, <3>3 DEF Known, Untouched
  <2>10. KeysAgree'
    BY <1>2, <2>2, <2>3, <2>5, <2>6, <2>7, <2>9, StepKeys DEF IInv
  <2>11. QED  BY <2>8, <2>10 DEF IInv
<1>7. CASE SaveCommitted(p)
  <2>1. \A r \in Procs : proc'[r] = IF r = p THEN Idle ELSE proc[r]
    BY <1>7, SetPoint DEF SaveCommitted, Return
  <2>2. /\ UNCHANGED <<cache, enabled, loadedTwo>> /\ proc[p].todo = {}
        /\ suspect' = (suspect \ {k \in proc[p].alone : table[k] # Missing})
                         \cup {k \in proc[p].done : table[k] = Missing}
                         \cup {x \in Plugins : flags'[x] # flags[x]}
    BY <1>7 DEF SaveCommitted
  <2>3. \A k \in Keys :
          table'[k] = IF k \in proc[p].done /\ table[k] # Missing THEN proc[p].val ELSE table[k]
    BY <1>7 DEF SaveCommitted
  <2>4. Shaped' /\ Owned' /\ FlagsAgree' /\ Transport'
    <3>1. suspect \ proc[p].alone \subseteq suspect'  BY <2>2
    <3>2. \A x \in Plugins \ suspect' : flags'[x] = flags[x]  BY <2>2
    <3>3. suspect' \subseteq suspect \cup (Keys \cap ConcernedBy(proc[p])) \cup Plugins
      BY <1>2, <2>2
    <3>4. QED  BY <1>1, <1>5, <2>1, <2>2, <3>1, <3>2, <3>3, SettingStep
  <2>5. ASSUME NEW k \in Keys \cap proc[p].alone, k \notin suspect'
        PROVE  cache'[k] = table'[k]
    <3>1. k \in proc[p].done /\ cache[k] = proc[p].val
      BY <1>1, <1>2, <1>3, <1>4, <2>2 DEF KeyAgrees, Known
    <3>2. table[k] # Missing  BY <2>2, <2>5, <3>1
    <3>3. QED  BY <1>2, <2>2, <2>3, <3>1, <3>2
  <2>6. KeysAgree'
    <3>1. \A k \in Keys \ ConcernedBy(proc[p]) :
            table'[k] = table[k] /\ cache'[k] = cache[k] /\ (k \in suspect' => k \in suspect)
      BY <1>2, <2>2, <2>3
    <3>2. suspect \ proc[p].alone \subseteq suspect'  BY <2>2
    <3>3. QED  BY <1>2, <2>1, <2>5, <3>1, <3>2, IdleCall, StepKeys DEF IInv
  <2>7. QED  BY <2>4, <2>6 DEF IInv
<1>8. CASE SaveRolledBack(p)
  <2>1. \A r \in Procs : proc'[r] = IF r = p THEN Idle ELSE proc[r]
    BY <1>8, SetPoint DEF SaveRolledBack, Return
  <2>2. UNCHANGED <<settingVars, pluginVars>> /\ suspect' = suspect \cup proc[p].done
    BY <1>8 DEF SaveRolledBack
  <2>3. Shaped' /\ Owned' /\ FlagsAgree' /\ Transport'
    BY <1>1, <1>2, <1>5, <2>1, <2>2, SettingStep DEF pluginVars
  <2>4. \A k \in Keys \cap proc[p].alone : k \notin suspect' => cache[k] = table[k]
    BY <1>1, <1>2, <1>3, <1>4, <2>2 DEF KeyAgrees, Untouched
  <2>5. KeysAgree'
    BY <1>2, <2>1, <2>2, <2>4, IdleCall, StepKeys DEF IInv, settingVars
  <2>6. QED  BY <2>3, <2>5 DEF IInv
<1>9. QED  BY <1>6, <1>7, <1>8

LEMMA GetKeepsIInv ==
  ASSUME TypeOK, IInv, NEW p \in Procs, GetRow(p) \/ GetEntry(p)
  PROVE  IInv'
<1>1. proc[p] \in Doings /\ Shape(proc[p]) /\ proc[p].op = "get"
  BY DEF TypeOK, IInv, Shaped, Doings, Names, GetRow, GetEntry
<1>2. ConcernedBy(proc[p]) = proc[p].todo /\ proc[p].todo \subseteq Keys
  <2>1. proc[p].todo \subseteq Keys /\ proc[p].done = {}  BY <1>1 DEF Shape
  <2>2. ConcernedBy(proc[p]) = proc[p].todo \cup proc[p].done  BY <1>1, Concerns
  <2>3. QED  BY <2>1, <2>2
<1>3. \A k \in Keys : KeyAgrees(k)  BY DEF IInv, KeysAgree
<1>4. proc[p].alone \subseteq proc[p].todo  BY <1>2 DEF IInv, Owned
<1>5. Shape(Idle)  BY IdleCall DEF Shape
<1>6. \A k \in proc[p].alone : cache[k] = Missing /\ k \notin Defaults /\ Filled(table)[k] = table[k]
  <2>1. \A k \in proc[p].alone : cache[k] = Missing  BY <1>1, <1>2, <1>3, <1>4 DEF KeyAgrees, Known
  <2>2. \A k \in proc[p].alone : k \in Keys /\ k \notin Defaults  BY <1>2, <1>4, <2>1 DEF TypeOK
  <2>3. QED  BY <2>1, <2>2 DEF Filled
<1>7. CASE GetRow(p)
  <2>1. PICK h \in proc[p].todo :
          \/ Filled(table)[h] = Missing /\ Return(p) /\ suspect' = suspect \ proc[p].alone
          \/ /\ Filled(table)[h] # Missing /\ suspect' = suspect
             /\ Set(p, [proc[p] EXCEPT !.pc = "entry", !.val = Filled(table)[h]])
    BY <1>7 DEF GetRow
  <2>2. UNCHANGED <<table, cache, flags, enabled, loadedTwo>>  BY <1>7 DEF GetRow, settingVars, pluginVars
  <2>3. PICK k \in Keys : proc[p].todo = {k}  BY <1>1 DEF Shape
  <2>4. h = k  BY <2>3
  <2>5. CASE Filled(table)[h] = Missing /\ Return(p) /\ suspect' = suspect \ proc[p].alone
    <3>1. \A r \in Procs : proc'[r] = IF r = p THEN Idle ELSE proc[r]
      BY <2>5, SetPoint DEF Return
    <3>2. Shaped' /\ Owned' /\ FlagsAgree' /\ Transport'
      BY <1>1, <1>5, <2>2, <2>5, <3>1, SettingStep
    <3>3. \A g \in proc[p].alone : cache[g] = table[g]  BY <1>4, <1>6, <2>3, <2>4, <2>5
    <3>4. KeysAgree'
      BY <1>2, <2>2, <2>5, <3>1, <3>3, IdleCall, StepKeys DEF IInv
    <3>5. QED  BY <3>2, <3>4 DEF IInv
  <2>6. CASE /\ Filled(table)[h] # Missing /\ suspect' = suspect
             /\ Set(p, [proc[p] EXCEPT !.pc = "entry", !.val = Filled(table)[h]])
    <3> DEFINE t == [proc[p] EXCEPT !.pc = "entry", !.val = Filled(table)[h]]
    <3>1. \A r \in Procs : proc'[r] = IF r = p THEN t ELSE proc[r]  BY <2>6, SetPoint
    <3>2. /\ t.op = "get" /\ t.pc = "entry" /\ t.val = Filled(table)[h] /\ t.todo = proc[p].todo
          /\ t.done = proc[p].done /\ t.alone = proc[p].alone
      BY <1>1 DEF Doings
    <3> HIDE DEF t
    <3>3. Shape(t)  BY <1>1, <2>6, <3>2 DEF Shape
    <3>4. ConcernedBy(t) = ConcernedBy(proc[p])  BY <1>1, <3>2, Concerns
    <3>5. Shaped' /\ Owned' /\ FlagsAgree' /\ Transport'
      BY <1>1, <2>2, <2>6, <3>1, <3>2, <3>3, <3>4, SettingStep
    <3>6. ASSUME NEW g \in Keys \cap proc[p].alone
          PROVE  /\ g \in ConcernedBy(t) /\ Known(t, g, table[g], cache[g])
                 /\ g \notin suspect => cache[g] = table[g]
      <4>1. g = h /\ KeyAgrees(g)  BY <1>3, <1>4, <2>3, <2>4
      <4>2. g \in ConcernedBy(t)  BY <1>2, <1>4, <3>4
      <4>3. Known(t, g, table[g], cache[g])  BY <1>6, <3>2, <4>1 DEF Known
      <4>4. g \notin suspect => cache[g] = table[g]  BY <1>1, <4>1 DEF KeyAgrees, Untouched
      <4>5. QED  BY <4>2, <4>3, <4>4
    <3>7. KeysAgree'
      BY <1>2, <2>2, <2>6, <3>1, <3>2, <3>4, <3>6, StepKeys DEF IInv
    <3>8. QED  BY <3>5, <3>7 DEF IInv
  <2>7. QED  BY <2>1, <2>5, <2>6
<1>8. CASE GetEntry(p)
  <2>1. \A r \in Procs : proc'[r] = IF r = p THEN Idle ELSE proc[r]
    BY <1>8, SetPoint DEF GetEntry, Return
  <2>2. /\ UNCHANGED <<table, flags, enabled, loadedTwo>> /\ proc[p].pc = "entry"
        /\ suspect' = suspect \ {k \in proc[p].alone : table[k] # Missing}
    BY <1>8 DEF GetEntry, pluginVars
  <2>3. \A k \in Keys : cache'[k] = IF k \in proc[p].todo THEN proc[p].val ELSE cache[k]
    BY <1>8 DEF GetEntry
  <2>4. Shaped' /\ Owned' /\ FlagsAgree' /\ Transport'  BY <1>1, <1>5, <2>1, <2>2, SettingStep
  <2>5. \A k \in proc[p].alone : cache'[k] = table[k]
    BY <1>1, <1>2, <1>3, <1>4, <2>2, <2>3 DEF KeyAgrees, Known
  <2>6. KeysAgree'
    BY <1>2, <2>1, <2>2, <2>3, <2>5, IdleCall, StepKeys DEF IInv
  <2>7. QED  BY <2>4, <2>6 DEF IInv
<1>9. QED  BY <1>7, <1>8

LEMMA PageKeepsIInv ==
  ASSUME TypeOK, IInv, NEW p \in Procs, PageRead(p) \/ PageWarm(p) \/ PageFailed(p)
  PROVE  IInv'
<1>1. proc[p] \in Doings /\ Shape(proc[p]) /\ proc[p].pc \in {"page", "warm"}
  <2>1. proc[p] \in Doings /\ Shape(proc[p])  BY DEF TypeOK, IInv, Shaped, Doings, Names
  <2>2. QED  BY <2>1 DEF PageRead, PageWarm, PageFailed, Shape
<1>2. proc[p].op = "page"  BY <1>1 DEF Shape, Doings
<1>3. ConcernedBy(proc[p]) = Keys  BY <1>2, Concerns
<1>4. \A k \in Keys : KeyAgrees(k)  BY DEF IInv, KeysAgree
<1>5. \A k \in Keys \cap proc[p].alone :
        /\ proc[p].pc = "warm" => proc[p].snap[k] = table[k]
        /\ k \notin suspect => cache[k] = table[k]
  BY <1>2, <1>4 DEF KeyAgrees, Known, Untouched
<1>6. Default # Missing /\ Defaults \subseteq Keys  BY DEF Default, Missing
<1>7. Shape(Idle)  BY IdleCall DEF Shape
<1>8. CASE PageRead(p)
  <2> DEFINE t == [proc[p] EXCEPT !.pc = "warm", !.snap = table]
  <2>1. \A r \in Procs : proc'[r] = IF r = p THEN t ELSE proc[r]  BY <1>8, SetPoint DEF PageRead
  <2>2. t.op = "page" /\ t.pc = "warm" /\ t.alone = proc[p].alone /\ t.snap = table
    BY <1>1, <1>2 DEF Doings
  <2> HIDE DEF t
  <2>3. Shape(t)  BY <2>2 DEF Shape
  <2>4. ConcernedBy(t) = ConcernedBy(proc[p]) /\ ConcernedBy(t) = Keys  BY <1>3, <2>2, Concerns
  <2>5. UNCHANGED <<table, cache, flags, enabled, loadedTwo, suspect>>
    BY <1>8 DEF PageRead, settingVars, pluginVars
  <2>6. Shaped' /\ Owned' /\ FlagsAgree' /\ Transport'
    BY <1>2, <2>1, <2>2, <2>3, <2>4, <2>5, SettingStep
  <2>7. \A k \in Keys : Known(t, k, table[k], cache[k])  BY <2>2 DEF Known
  <2>8. KeysAgree'
    BY <1>3, <1>5, <2>1, <2>2, <2>4, <2>5, <2>7, StepKeys DEF IInv
  <2>9. QED  BY <2>6, <2>8 DEF IInv
<1>9. CASE PageWarm(p)
  <2>1. \A r \in Procs : proc'[r] = IF r = p THEN Idle ELSE proc[r]
    BY <1>9, SetPoint DEF PageWarm, Return
  <2>2. /\ UNCHANGED <<flags, enabled, loadedTwo>> /\ proc[p].pc = "warm"
        /\ suspect' = suspect \ {k \in proc[p].alone : Filled(proc[p].snap)[k] # Missing}
    BY <1>9 DEF PageWarm, pluginVars
  <2>3. \A k \in Keys :
          /\ table'[k] = IF k \in Gone(proc[p]) THEN Default ELSE table[k]
          /\ cache'[k] = IF Filled(proc[p].snap)[k] # Missing THEN Filled(proc[p].snap)[k] ELSE cache[k]
    BY <1>9 DEF PageWarm, Warmed
  <2>4. Shaped' /\ Owned' /\ FlagsAgree' /\ Transport'  BY <1>2, <1>3, <1>7, <2>1, <2>2, SettingStep
  <2>5. ASSUME NEW k \in Keys \cap proc[p].alone, k \notin suspect' PROVE cache'[k] = table'[k]
    <3>1. proc[p].snap[k] = table[k]  BY <1>5, <2>2
    <3>2. Filled(proc[p].snap)[k] = IF k \in Gone(proc[p]) THEN Default ELSE table[k]
      BY <2>2, <3>1 DEF Filled, Gone
    <3>3. CASE Filled(proc[p].snap)[k] # Missing  BY <2>3, <3>2, <3>3
    <3>4. CASE Filled(proc[p].snap)[k] = Missing
      <4>1. k \notin suspect /\ cache[k] = table[k]  BY <1>5, <2>2, <2>5, <3>4
      <4>2. QED  BY <1>6, <2>3, <3>2, <3>4, <4>1
    <3>5. QED  BY <3>3, <3>4
  <2>6. KeysAgree'
    <3>1. suspect \ proc[p].alone \subseteq suspect'  BY <2>2
    <3>2. QED  BY <1>3, <2>1, <2>5, <3>1, IdleCall, StepKeys DEF IInv
  <2>7. QED  BY <2>4, <2>6 DEF IInv
<1>10. CASE PageFailed(p)
  <2>1. \A r \in Procs : proc'[r] = IF r = p THEN Idle ELSE proc[r]
    BY <1>10, SetPoint DEF PageFailed, Return
  <2>2. PICK ks \in SUBSET Gone(proc[p]) :
          /\ table' = [k \in Keys |-> IF k \in ks THEN Default ELSE table[k]]
          /\ cache' = [k \in Keys |-> IF k \in ks THEN Default ELSE cache[k]]
          /\ suspect' = suspect \ (proc[p].alone \cap ks)
    BY <1>10 DEF PageFailed
  <2>3. UNCHANGED <<flags, enabled, loadedTwo>>  BY <1>10 DEF PageFailed, pluginVars
  <2>4. Shaped' /\ Owned' /\ FlagsAgree' /\ Transport'
    BY <1>2, <1>3, <1>7, <2>1, <2>2, <2>3, SettingStep
  <2>5. \A k \in Keys \cap proc[p].alone : k \notin suspect' => cache'[k] = table'[k]
    BY <1>5, <2>2
  <2>6. KeysAgree'
    <3>1. suspect \ proc[p].alone \subseteq suspect'  BY <2>2
    <3>2. QED  BY <1>3, <2>1, <2>5, <3>1, IdleCall, StepKeys DEF IInv
  <2>7. QED  BY <2>4, <2>6 DEF IInv
<1>11. QED  BY <1>8, <1>9, <1>10

LEMMA SwitchKeepsIInv ==
  ASSUME TypeOK, IInv, NEW p \in Procs, DisableOthers(p) \/ StoreFlag(p) \/ StoreFlagFailed(p)
  PROVE  IInv'
<1>1. proc[p] \in Doings /\ Shape(proc[p]) /\ proc[p].pc \in {"others", "persist"}
  BY DEF TypeOK, IInv, Shaped, Doings, Names, DisableOthers, StoreFlag, StoreFlagFailed
<1>2. proc[p].op = "switch"  BY <1>1 DEF Shape, Doings
<1>3. ConcernedBy(proc[p]) = Plugins  BY <1>2, Concerns
<1>4. PICK z \in Plugins : proc[p].todo = {z}  BY <1>1, <1>2 DEF Shape
<1>5. proc[p].done \subseteq Plugins \ {z} /\ (proc[p].pc = "others" => proc[p].done = {} /\ proc[p].on)
  BY <1>1, <1>2, <1>4 DEF Shape
<1>6. UNCHANGED <<table, cache>> /\ suspect \subseteq suspect' /\ suspect' \subseteq suspect \cup Plugins
  <2>1. ToStore(proc[p]) \subseteq Plugins  BY <1>4, <1>5 DEF ToStore
  <2>2. QED  BY <2>1 DEF DisableOthers, StoreFlag, StoreFlagFailed, settingVars
<1>7. proc[p].alone \subseteq Plugins  BY <1>3 DEF IInv, Owned
<1>8. \A x \in Plugins \ suspect : \A r \in Procs : r # p => x \notin ConcernedBy(proc[r])
  BY <1>3 DEF IInv, Owned
<1>9. \A x \in Plugins \ suspect :
        /\ x = z => enabled[x] = proc[p].on
        /\ x \in proc[p].done => ~enabled[x]
        /\ x # z /\ x \notin proc[p].done => flags[x] = enabled[x]
  BY <1>2, <1>4 DEF IInv, FlagsAgree, FlagAgrees
\* What is the same in the three steps.
<1>10. ASSUME NEW t, \A r \in Procs : proc'[r] = IF r = p THEN t ELSE proc[r], t.pc # "others",
              \/ /\ t.op = "switch" /\ t.alone = proc[p].alone /\ t.todo = {z} /\ t.pc = "persist"
                 /\ t.done \subseteq Plugins \ {z}
                 /\ \A x \in Plugins \ suspect' :
                       /\ x = z => enabled'[x] = t.on
                       /\ x \in t.done => ~enabled'[x]
                       /\ x # z /\ x \notin t.done => flags'[x] = enabled'[x]
              \/ t = Idle /\ \A x \in Plugins \ suspect' : flags'[x] = enabled'[x]
       PROVE  Shaped' /\ Owned' /\ KeysAgree' /\ FlagsAgree'
  <2>1. t.op = "switch" \/ t = Idle  BY <1>10
  <2>2. Shape(t)
    <3>1. CASE t = Idle  BY <3>1, IdleCall DEF Shape
    <3>2. CASE t.op = "switch"  BY <1>10, <3>2, IdleCall DEF Shape
    <3>3. QED  BY <2>1, <3>1, <3>2
  <2>3. Shaped'  BY <1>10, <2>2 DEF IInv, Shaped
  <2>4. t.op = "switch" => ConcernedBy(t) = Plugins  BY Concerns
  <2>5. Owned'
    <3>1. \/ ConcernedBy(t) = ConcernedBy(proc[p]) /\ t.alone = proc[p].alone /\ suspect \subseteq suspect'
          \/ t = Idle /\ suspect \ proc[p].alone \subseteq suspect'
      BY <1>3, <1>6, <1>10, <2>4
    <3>2. QED  BY <1>10, <3>1, StepOwned DEF IInv
  <2>6. ConcernedBy(t) \subseteq ConcernedBy(proc[p]) /\ t.alone \subseteq proc[p].alone
    BY <1>3, <1>10, <2>4, IdleCall
  <2>7. KeysAgree'
    <3>1. Keys \cap proc[p].alone = {}  BY <1>7
    <3>2. \A k \in Keys \ ConcernedBy(proc[p]) :
            table'[k] = table[k] /\ cache'[k] = cache[k] /\ (k \in suspect' => k \in suspect)
      BY <1>6
    <3>3. QED  BY <1>6, <1>10, <2>6, <3>1, <3>2, StepKeys DEF IInv
  <2>8. FlagsAgree'
    <3> SUFFICES ASSUME NEW x \in Plugins, x \notin suspect'
                 PROVE  /\ (\A r \in Procs : x \notin ConcernedBy(proc'[r])) => flags'[x] = enabled'[x]
                        /\ \A r \in Procs : proc'[r].op = "switch" =>
                              /\ x \in proc'[r].todo => enabled'[x] = proc'[r].on
                              /\ x \in proc'[r].done => ~enabled'[x]
                              /\ x \notin proc'[r].todo \cup proc'[r].done => flags'[x] = enabled'[x]
      BY DEF FlagsAgree, FlagAgrees
    <3>1. \A r \in Procs : r # p => x \notin ConcernedBy(proc[r])  BY <1>6, <1>8
    <3>2. \A r \in Procs : proc'[r].op = "switch" => r = p
      <4>1. \A r \in Procs : proc[r].op = "switch" => x \in ConcernedBy(proc[r])  BY Concerns
      <4>2. QED  BY <1>10, <3>1, <4>1
    <3>3. proc'[p] = t  BY <1>10
    <3>4. CASE t = Idle  BY <1>10, <3>2, <3>3, <3>4, IdleCall
    <3>5. CASE t.op = "switch"
      <4>1. t # Idle  BY <3>5, IdleCall
      <4>2. x \in ConcernedBy(proc'[p])  BY <2>4, <3>3, <3>5
      <4>3. QED  BY <1>10, <3>2, <3>3, <4>1, <4>2
    <3>6. QED  BY <2>1, <3>4, <3>5
  <2>9. QED  BY <2>3, <2>5, <2>7, <2>8
<1>11. CASE DisableOthers(p)
  <2> DEFINE others == {y \in Plugins \ proc[p].todo : enabled[y]}
             t == [proc[p] EXCEPT !.pc = "persist", !.done = others]
  <2>1. \A r \in Procs : proc'[r] = IF r = p THEN t ELSE proc[r]  BY <1>11, SetPoint DEF DisableOthers
  <2>2. /\ t.op = "switch" /\ t.pc = "persist" /\ t.todo = {z} /\ t.done = others
        /\ t.alone = proc[p].alone /\ t.on = proc[p].on
    BY <1>1, <1>2, <1>4 DEF Doings
  <2>3. /\ proc[p].done = {} /\ UNCHANGED <<flags, suspect>> /\ loadedTwo' = FALSE
        /\ \A y \in Plugins : enabled'[y] = (enabled[y] /\ y \notin others)
    BY <1>5, <1>11 DEF DisableOthers
  <2>4. \A y \in Plugins : y \in others <=> y # z /\ enabled[y]  BY <1>4
  <2>5. others \subseteq Plugins \ {z}  BY <1>4
  <2> HIDE DEF t, others
  <2>6. \A x \in Plugins \ suspect :
          /\ x = z => enabled'[x] = t.on
          /\ x \in t.done => ~enabled'[x]
          /\ x # z /\ x \notin t.done => flags'[x] = enabled'[x]
    <3> SUFFICES ASSUME NEW x \in Plugins \ suspect
                 PROVE  /\ x = z => enabled'[x] = t.on
                        /\ x \in t.done => ~enabled'[x]
                        /\ x # z /\ x \notin t.done => flags'[x] = enabled'[x]
      OBVIOUS
    <3>1. enabled'[x] = (enabled[x] /\ x \notin others)  BY <2>3
    <3>2. x = z => enabled'[x] = enabled[x]
      <4>1. enabled[x] \in BOOLEAN  BY DEF TypeOK
      <4>2. x = z => x \notin others  BY <2>4
      <4>3. QED  BY <3>1, <4>1, <4>2
    <3>3. x = z => enabled[x] = proc[p].on  BY <1>9
    <3>4. x # z /\ x \notin others => flags[x] = enabled[x]  BY <1>9, <2>3
    <3>5. x # z /\ x \notin others => enabled'[x] = enabled[x]
      <4>1. enabled[x] \in BOOLEAN  BY DEF TypeOK
      <4>2. QED  BY <3>1, <4>1
    <3>6. QED  BY <2>2, <2>3, <3>1, <3>2, <3>3, <3>4, <3>5
  <2>7. Shaped' /\ Owned' /\ KeysAgree' /\ FlagsAgree'
    <3>1. t.pc # "others" /\ t.done \subseteq Plugins \ {z} /\ suspect' = suspect  BY <2>2, <2>3, <2>5
    <3>2. QED  BY <1>10, <2>1, <2>2, <2>6, <3>1
  <2>8. Transport'
    <3>1. \A x \in Plugins : enabled'[x] => x = z  BY <2>3, <2>4
    <3>2. QED  BY <3>1 DEF Transport
  <2>9. QED  BY <2>7, <2>8 DEF IInv
\* A flag is stored, or is not.
<1>12. ASSUME NEW x \in ToStore(proc[p]), proc[p].pc = "persist", Stored(p, x),
              UNCHANGED <<enabled, loadedTwo>>, suspect \subseteq suspect',
              \A y \in Plugins \ suspect' :
                 flags'[y] = IF y = x THEN proc[p].done = {} /\ proc[p].on ELSE flags[y]
       PROVE  IInv'
  <2> DEFINE t == IF proc[p].done # {} THEN [proc[p] EXCEPT !.done = @ \ {x}] ELSE Idle
  <2>1. \A r \in Procs : proc'[r] = IF r = p THEN t ELSE proc[r]
    <3>1. Set(p, t)  BY <1>12 DEF Stored, Return
    <3>2. QED  BY <3>1, SetPoint
  <2>2. CASE proc[p].done # {}
    <3>1. x \in proc[p].done  BY <1>12, <2>2 DEF ToStore
    <3>2. /\ t.op = "switch" /\ t.pc = "persist" /\ t.todo = {z} /\ t.done = proc[p].done \ {x}
          /\ t.alone = proc[p].alone /\ t.on = proc[p].on
      BY <1>1, <1>2, <1>4, <1>12, <2>2 DEF Doings
    <3> HIDE DEF t
    <3>3. ASSUME NEW y \in Plugins \ suspect'
          PROVE  /\ y = z => enabled'[y] = t.on
                 /\ y \in t.done => ~enabled'[y]
                 /\ y # z /\ y \notin t.done => flags'[y] = enabled'[y]
      <4>1. enabled'[y] = enabled[y] /\ y \notin suspect  BY <1>12
      <4>2. y = x => flags'[y] = FALSE  BY <1>12, <2>2
      <4>3. y = x => enabled[y] = FALSE
        <5>1. y = x => ~enabled[y]  BY <1>9, <3>1, <4>1
        <5>2. enabled[y] \in BOOLEAN  BY DEF TypeOK
        <5>3. QED  BY <5>1, <5>2
      <4>4. y # x => flags'[y] = flags[y]  BY <1>12
      <4>5. QED  BY <1>9, <3>2, <4>1, <4>2, <4>3, <4>4
    <3>4. Shaped' /\ Owned' /\ KeysAgree' /\ FlagsAgree'
      <4>1. t.pc # "others" /\ t.done \subseteq Plugins \ {z}  BY <1>5, <3>2
      <4>2. QED  BY <1>10, <2>1, <3>2, <3>3, <4>1
    <3>5. Transport'
      <4>1. \A y : Claimed(y)' <=> Claimed(y)  BY <1>12, <2>1, <3>2 DEF Claimed
      <4>2. QED  BY <1>12, <4>1 DEF IInv, Transport
    <3>6. QED  BY <3>4, <3>5 DEF IInv
  <2>3. CASE proc[p].done = {}
    <3>1. x = z  BY <1>4, <1>12, <2>3 DEF ToStore
    <3>2. t = Idle  BY <2>3
    <3> HIDE DEF t
    <3>3. ASSUME NEW y \in Plugins \ suspect' PROVE flags'[y] = enabled'[y]
      <4>1. enabled'[y] = enabled[y] /\ y \notin suspect  BY <1>12
      <4>2. CASE y = x
        <5>1. flags'[y] = proc[p].on
          <6>1. proc[p].on \in BOOLEAN  BY <1>1 DEF Doings
          <6>2. QED  BY <1>12, <2>3, <4>2, <6>1
        <5>2. QED  BY <1>9, <3>1, <4>1, <4>2, <5>1
      <4>3. CASE y # x  BY <1>9, <1>12, <2>3, <3>1, <4>1, <4>3
      <4>4. QED  BY <4>2, <4>3
    <3>4. Shaped' /\ Owned' /\ KeysAgree' /\ FlagsAgree'  BY <1>10, <2>1, <3>2, <3>3, IdleCall
    <3>5. Transport'
      <4>1. \A y : Claimed(y)' <=> Claimed(y)  BY <1>12, <2>1, <3>2, IdleCall DEF Claimed
      <4>2. QED  BY <1>12, <4>1 DEF IInv, Transport
    <3>6. QED  BY <3>4, <3>5 DEF IInv
  <2>4. QED  BY <2>2, <2>3
<1>13. CASE StoreFlag(p)
  <2>1. PICK x \in ToStore(proc[p]) :
          flags' = [flags EXCEPT ![x] = proc[p].done = {} /\ proc[p].on] /\ Stored(p, x)
    BY <1>13 DEF StoreFlag
  <2>2. proc[p].pc = "persist" /\ UNCHANGED <<enabled, loadedTwo, suspect>>  BY <1>13 DEF StoreFlag
  <2>3. \A y \in Plugins : flags'[y] = IF y = x THEN proc[p].done = {} /\ proc[p].on ELSE flags[y]
    BY <2>1 DEF TypeOK
  <2>4. QED  BY <1>12, <2>1, <2>2, <2>3
<1>14. CASE StoreFlagFailed(p)
  <2>1. PICK x \in ToStore(proc[p]) : Stored(p, x) /\ suspect' = suspect \cup {x}
    BY <1>14 DEF StoreFlagFailed
  <2>2. proc[p].pc = "persist" /\ UNCHANGED pluginVars  BY <1>14 DEF StoreFlagFailed
  <2>3. \A y \in Plugins \ suspect' : y # x /\ flags'[y] = flags[y]  BY <2>1, <2>2 DEF pluginVars
  <2>4. QED  BY <1>12, <2>1, <2>2, <2>3 DEF pluginVars
<1>15. QED  BY <1>11, <1>13, <1>14

LEMMA ImportKeepsIInv == ASSUME TypeOK, IInv, ImportDB PROVE IInv'
<1>1. \A r \in Procs : proc[r] \in Doings  BY DEF TypeOK, Doings, Names
<1>2. \A r \in Procs : proc'[r] = [proc[r] EXCEPT !.alone = {}]  BY DEF ImportDB
<1>3. \A r \in Procs : Alike(proc'[r], proc[r]) /\ proc'[r].alone = {}
  BY <1>1, <1>2 DEF Alike, Doings
<1>4. UNCHANGED <<enabled, loadedTwo>> /\ suspect' = Names  BY DEF ImportDB, Names
<1>5. Shaped'
  <2> SUFFICES ASSUME NEW r \in Procs PROVE Shape(proc'[r])
    BY DEF Shaped
  <2>1. Shape(proc[r])  BY DEF IInv, Shaped
  <2>2. CASE proc[r].op # "none"  BY <1>3, <2>1, <2>2, AlikeCalls
  <2>3. CASE proc[r].op = "none"
    <3>1. proc'[r] = [Idle EXCEPT !.alone = {}]  BY <1>2, <2>1, <2>3 DEF Shape
    <3>2. proc'[r] = Idle  BY <3>1 DEF Idle
    <3>3. QED  BY <3>2, IdleCall DEF Shape
  <2>4. QED  BY <2>2, <2>3
<1>6. Owned'
  <2>1. \A r \in Procs : ConcernedBy(proc'[r]) \subseteq suspect'
    BY <1>1, <1>3, <1>4, AlikeCalls, Concerns
  <2>2. QED  BY <1>3, <2>1 DEF Owned
<1>7. KeysAgree'  BY <1>3, <1>4 DEF KeysAgree, KeyAgrees, Names
<1>8. FlagsAgree'  BY <1>4 DEF FlagsAgree, FlagAgrees, Names
<1>9. Transport'
  <2>1. \A x : Claimed(x)' <=> Claimed(x)  BY <1>3 DEF Claimed, Alike
  <2>2. QED  BY <1>4, <2>1 DEF IInv, Transport
<1>10. QED  BY <1>5, <1>6, <1>7, <1>8, <1>9 DEF IInv

LEMMA RestartKeepsIInv == ASSUME TypeOK, IInv, Restart PROVE IInv'
<1>1. \A r \in Procs : proc'[r] = Idle  BY DEF Restart
<1>2. \A k \in Keys : cache'[k] = table'[k]  BY DEF Restart
<1>3. enabled' = flags /\ flags' = flags /\ loadedTwo' = ~AtMostOne(flags)  BY DEF Restart
<1>4. Shaped'  BY <1>1, IdleCall DEF Shaped, Shape
<1>5. Owned'  BY <1>1, IdleCall DEF Owned
<1>6. KeysAgree'  BY <1>1, <1>2, IdleCall DEF KeysAgree, KeyAgrees
<1>7. FlagsAgree'  BY <1>1, <1>3, IdleCall DEF FlagsAgree, FlagAgrees
<1>8. Transport'  BY <1>3 DEF Transport, AtMostOne
<1>9. QED  BY <1>4, <1>5, <1>6, <1>7, <1>8 DEF IInv

LEMMA NextKeepsIInv == TypeOK /\ IInv /\ [Next]_vars => IInv'
<1> SUFFICES ASSUME TypeOK, IInv, [Next]_vars PROVE IInv'
  OBVIOUS
<1>1. ASSUME NEW p \in Procs, Continue(p) PROVE IInv'
  BY <1>1, GetKeepsIInv, PutKeepsIInv, SaveKeepsIInv, PageKeepsIInv, SwitchKeepsIInv DEF Continue
<1>2. CASE UNCHANGED vars
  <2>1. UNCHANGED <<table, cache, flags, enabled, loadedTwo, proc, suspect>>
    BY <1>2 DEF vars, settingVars, pluginVars
  <2>2. Shaped' /\ Owned'  BY <2>1 DEF IInv, Shaped, Owned
  <2>3. KeysAgree' /\ FlagsAgree'
    BY <2>1 DEF IInv, KeysAgree, KeyAgrees, Known, Untouched, FlagsAgree, FlagAgrees
  <2>4. Transport'  BY <2>1 DEF IInv, Transport, Claimed
  <2>5. QED  BY <2>2, <2>3, <2>4 DEF IInv
<1>3. QED  BY <1>1, <1>2, BeginKeepsIInv, ImportKeepsIInv, RestartKeepsIInv DEF Next

-----------------------------------------------------------------------------
(* The theorems.                                                           *)

LEMMA Invariance == Spec => [](TypeOK /\ IInv)
<1>1. Init => TypeOK /\ IInv  BY TypeInit, InitIInv
<1>2. TypeOK /\ IInv /\ [Next]_vars => (TypeOK /\ IInv)'
  BY TypeNext, NextKeepsIInv DEF IInv
<1>3. QED  BY <1>1, <1>2, PTL DEF Spec

\* Every variable keeps its type, for any number of keys, plugins and calls.
THEOREM TypeCorrect == Spec => []TypeOK
  BY Invariance, PTL

\* "All reads go through the cache": once no call concerns a key, what is served from
\* memory is what is stored, but for the causes listed under Suspicions.
THEOREM CoherentHolds == Spec => []Coherent
<1>1. IInv => Coherent
  BY Flights DEF IInv, KeysAgree, KeyAgrees, Coherent
<1>2. QED  BY <1>1, Invariance, PTL

\* A restart does not change which plugins are enabled, but for the same causes.
THEOREM FlagsKeptHolds == Spec => []FlagsKept
<1>1. IInv => FlagsKept
  BY Flights DEF IInv, FlagsAgree, FlagAgrees, FlagsKept
<1>2. QED  BY <1>1, Invariance, PTL

\* "These wrappers are mutually exclusive": in any interleaving of requests, at most one
\* transport plugin is enabled once each request has disabled the others.
THEOREM OneTransportHolds == Spec => []OneTransport
<1>1. IInv => OneTransport  BY DEF IInv, Transport, Claimed, OneTransport, AtMostOne
<1>2. QED  BY <1>1, Invariance, PTL

=============================================================================
