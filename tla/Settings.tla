------------------------------ MODULE Settings ------------------------------
(***************************************************************************)
(* The settings table, its copy in memory (service/setting.go), and the    *)
(* switch of the transport plugins, whose state is kept both in memory     *)
(* (core/plugin/plugin.go) and in that table.                              *)
(*                                                                         *)
(* A process is a request or a background loop inside one call.  Row and   *)
(* cache entry are written by separate steps, a saved page writes its      *)
(* entries before it commits, and GetAllSetting puts into the cache what   *)
(* it read earlier; so does a read that found no entry.  A value is the     *)
(* number of the call that wrote it, Default is what defaultValueMap has   *)
(* for a key, or what a row held from before, Missing is no row, no entry. *)
(***************************************************************************)
EXTENDS Naturals

CONSTANTS
    Keys,       \* settings, "config" and the evasion watcher's among them
    Defaults,   \* the keys of defaultValueMap; the evasion watcher's are not
    Plugins,    \* transport plugins
    Procs,      \* calls that may be in progress at the same time
    NoProc,
    MaxCalls, MaxMishaps, MaxRestarts   \* bounds

Missing == 0
Default == 1
Values == 0..(MaxCalls + 1)

ASSUME NoProcAssumption == NoProc \notin Procs
ASSUME NamesAssumption == Keys \cap Plugins = {} /\ Defaults \subseteq Keys
ASSUME BoundsAssumption == MaxCalls \in Nat /\ MaxMishaps \in Nat /\ MaxRestarts \in Nat

VARIABLES
    table, cache,   \* the settings table and settingsCache
    flags, enabled, \* "plugin.<name>.enabled" in the table, Plugin.Enabled() in memory
    writer,         \* the process whose transaction holds SQLite's write lock
    proc,           \* what each process is doing
    calls, mishaps, restarts,   \* counted for the bounds
    suspect,        \* keys and plugins whose two copies may differ (see Suspicions)
    loadedTwo       \* a restart has loaded two enabled transport plugins

settingVars == <<table, cache>>
pluginVars == <<flags, enabled, loadedTwo>>
counts == <<calls, mishaps, restarts>>
vars == <<settingVars, pluginVars, writer, proc, counts, suspect>>

AtMostOne(f) == \A x, y \in Plugins : f[x] /\ f[y] => x = y

Idle == [op |-> "none", pc |-> "idle", val |-> 0, todo |-> {}, done |-> {}, on |-> FALSE,
         alone |-> {}, snap |-> [k \in Keys |-> Missing]]

TypeOK ==
    /\ table \in [Keys -> Values]
    /\ cache \in [Keys -> Values] /\ \A k \in Defaults : cache[k] # Missing
    /\ flags \in [Plugins -> BOOLEAN] /\ enabled \in [Plugins -> BOOLEAN]
    /\ writer \in Procs \cup {NoProc}
    /\ proc \in [Procs ->
          [op : {"none", "get", "put", "save", "page", "switch"},
           pc : {"idle", "row", "entry", "page", "warm", "others", "persist"},
           val : Values, todo : SUBSET (Keys \cup Plugins), done : SUBSET (Keys \cup Plugins),
           on : BOOLEAN, alone : SUBSET (Keys \cup Plugins), snap : [Keys -> Values]]]
    /\ calls \in 0..MaxCalls /\ mishaps \in 0..MaxMishaps /\ restarts \in 0..MaxRestarts
    /\ suspect \in SUBSET (Keys \cup Plugins) /\ loadedTwo \in BOOLEAN

\* What is read of a table, or stored in it, with the defaults for what it lacks.
Filled(t) == [k \in Keys |-> IF t[k] = Missing /\ k \in Defaults THEN Default ELSE t[k]]

\* After APP.Init: GetAllSetting has stored the defaults and filled the cache; a key
\* without a default has the row of earlier days, or none.
Init ==
    /\ table \in [Keys -> {Missing, Default}] /\ table = Filled(table)
    /\ cache = table
    /\ flags \in [Plugins -> BOOLEAN] /\ AtMostOne(flags)
    /\ enabled = flags
    /\ writer = NoProc
    /\ proc = [p \in Procs |-> Idle]
    /\ calls = 0 /\ mishaps = 0 /\ restarts = 0
    /\ suspect = {} /\ loadedTwo = FALSE

-----------------------------------------------------------------------------
(* Suspicions.  Two copies may differ                                       *)
(*   - after two calls that concern the same key or the plugins overlapped, *)
(*   - after a page was rolled back, or updated a key that has no row,       *)
(*   - after a database was imported,                                        *)
(*   - after a plugin's flag could not be stored, and                        *)
(*   - after an old page was saved, with the flags it had been given.        *)
(* A call that had a key for itself and wrote, or cached, both its copies    *)
(* makes them agree again.                                                   *)

Calls(p) == proc[p].pc # "idle"

\* What a call reads or writes, from its beginning to its end.
ConcernedBy(q) ==
    CASE q.op = "page" -> Keys
      [] q.op = "switch" -> Plugins
      [] OTHER -> q.todo \cup q.done

InFlight == UNION {ConcernedBy(proc[p]) : p \in {p \in Procs : Calls(p)}}

Mishap == mishaps < MaxMishaps /\ mishaps' = mishaps + 1 /\ UNCHANGED <<calls, restarts>>

Set(p, q) == proc' = [proc EXCEPT ![p] = q]

\* A call begins: whatever it concerns is nobody's alone any more.
Call(p, q) ==
    /\ ~Calls(p) /\ calls < MaxCalls /\ calls' = calls + 1
    /\ proc' = [s \in Procs |->
          IF s = p THEN [q EXCEPT !.alone = ConcernedBy(q) \ InFlight]
                   ELSE [proc[s] EXCEPT !.alone = @ \ ConcernedBy(q)]]
    /\ suspect' = suspect \cup (ConcernedBy(q) \cap InFlight)
    /\ UNCHANGED <<mishaps, restarts>>

Return(p) == Set(p, Idle)

-----------------------------------------------------------------------------
(* getString, for a key that has no entry: the row or the default, then    *)
(* the entry.  A key that has one is served from it.                       *)

Get(p) ==
    /\ \E k \in Keys : /\ cache[k] = Missing
                      /\ Call(p, [Idle EXCEPT !.op = "get", !.pc = "row", !.todo = {k}])
    /\ UNCHANGED <<settingVars, pluginVars, writer>>

\* Without row and default the key is refused, and there is still no entry.
GetRow(p) ==
    /\ proc[p].op = "get" /\ proc[p].pc = "row"
    /\ \E k \in proc[p].todo :
          \/ Filled(table)[k] = Missing /\ Return(p) /\ suspect' = suspect \ proc[p].alone
          \/ /\ Filled(table)[k] # Missing /\ suspect' = suspect
             /\ Set(p, [proc[p] EXCEPT !.pc = "entry", !.val = Filled(table)[k]])
    /\ UNCHANGED <<settingVars, pluginVars, writer, counts>>

GetEntry(p) ==
    /\ proc[p].op = "get" /\ proc[p].pc = "entry"
    /\ cache' = [k \in Keys |-> IF k \in proc[p].todo THEN proc[p].val ELSE cache[k]]
    /\ suspect' = suspect \ {k \in proc[p].alone : table[k] # Missing}
    /\ Return(p)
    /\ UNCHANGED <<table, pluginVars, writer, counts>>

-----------------------------------------------------------------------------
(* saveSetting: the row, then the entry.                                   *)

Put(p) ==
    /\ \E k \in Keys : Call(p, [Idle EXCEPT !.op = "put", !.pc = "row", !.val = calls + 2, !.todo = {k}])
    /\ UNCHANGED <<settingVars, pluginVars, writer>>

PutRow(p) ==
    /\ proc[p].op = "put" /\ proc[p].pc = "row" /\ writer = NoProc
    /\ table' = [k \in Keys |-> IF k \in proc[p].todo THEN proc[p].val ELSE table[k]]
    /\ Set(p, [proc[p] EXCEPT !.pc = "entry"])
    /\ UNCHANGED <<cache, pluginVars, writer, counts, suspect>>

\* Without the row there is no entry: both keep what they had.
PutFailed(p) ==
    /\ proc[p].op = "put" /\ proc[p].pc = "row" /\ Mishap
    /\ Return(p)
    /\ UNCHANGED <<settingVars, pluginVars, writer, suspect>>

\* Mutated form: only an empty cache is filled, as a comment has it ("invalidate").
PutEntryKept(p) ==
    /\ proc[p].op = "put" /\ proc[p].pc = "entry"
    /\ suspect' = suspect \ proc[p].alone
    /\ Return(p)
    /\ UNCHANGED <<settingVars, pluginVars, writer, counts>>

PutEntry(p) ==
    /\ proc[p].op = "put" /\ proc[p].pc = "entry"
    /\ cache' = [k \in Keys |-> IF k \in proc[p].todo THEN proc[p].val ELSE cache[k]]
    /\ suspect' = suspect \ proc[p].alone
    /\ Return(p)
    /\ UNCHANGED <<table, pluginVars, writer, counts>>

-----------------------------------------------------------------------------
(* SettingService.Save and SaveConfig, in the transaction of               *)
(* ConfigService.Save: each key's row, then its entry, then the commit.     *)

SavePage(p) ==
    /\ \E ks \in SUBSET Keys \ {{}} :
          Call(p, [Idle EXCEPT !.op = "save", !.pc = "row", !.val = calls + 2, !.todo = ks])
    /\ UNCHANGED <<settingVars, pluginVars, writer>>

SaveKey(p) ==
    /\ proc[p].op = "save" /\ writer \in {NoProc, p}
    /\ writer' = p
    /\ \E k \in proc[p].todo :
          /\ cache' = [cache EXCEPT ![k] = proc[p].val]
          /\ Set(p, [proc[p] EXCEPT !.todo = @ \ {k}, !.done = @ \cup {k}])
    /\ UNCHANGED <<table, pluginVars, counts, suspect>>

\* UPDATE stores nothing for a key that has no row, which is in the cache all the same.
\* A page sends back whatever rows it was given, the flags of the plugins too, as they
\* were when it was read.
SaveCommitted(p) ==
    /\ proc[p].op = "save" /\ proc[p].todo = {}
    /\ table' = [k \in Keys |->
          IF k \in proc[p].done /\ table[k] # Missing THEN proc[p].val ELSE table[k]]
    /\ flags' \in [Plugins -> BOOLEAN]
    /\ suspect' = (suspect \ {k \in proc[p].alone : table[k] # Missing})
                     \cup {k \in proc[p].done : table[k] = Missing}
                     \cup {x \in Plugins : flags'[x] # flags[x]}
    /\ writer' = NoProc
    /\ Return(p)
    /\ UNCHANGED <<cache, enabled, loadedTwo, counts>>

\* A certificate's file does not exist, or a statement fails: the keys handled before
\* stay in the cache.
SaveRolledBack(p) ==
    /\ proc[p].op = "save" /\ Mishap
    /\ suspect' = suspect \cup proc[p].done
    /\ writer' = IF writer = p THEN NoProc ELSE writer
    /\ Return(p)
    /\ UNCHANGED <<settingVars, pluginVars>>

-----------------------------------------------------------------------------
(* GetAllSetting, for the settings page and for subscription addresses.    *)

Page(p) ==
    /\ Call(p, [Idle EXCEPT !.op = "page", !.pc = "page"])
    /\ UNCHANGED <<settingVars, pluginVars, writer>>

PageRead(p) ==
    /\ proc[p].pc = "page"
    /\ Set(p, [proc[p] EXCEPT !.pc = "warm", !.snap = table])
    /\ UNCHANGED <<settingVars, pluginVars, writer, counts, suspect>>

\* The defaults that a page found no row for.
Gone(q) == {k \in Defaults : q.pc = "warm" /\ q.snap[k] = Missing}

\* A key that was read without a row and without a default keeps its entry.
Warmed(q) ==
    [k \in Keys |-> IF Filled(q.snap)[k] # Missing THEN Filled(q.snap)[k] ELSE cache[k]]

\* Mutated form: a key without a row is cached as it was read.
PageWarmUnfilled(p) ==
    /\ proc[p].pc = "warm" /\ writer = NoProc
    /\ table' = Filled(table) /\ cache' = proc[p].snap
    /\ suspect' = suspect \ proc[p].alone
    /\ Return(p)
    /\ UNCHANGED <<pluginVars, writer, counts>>

\* Defaults without a row are saved, then everything is cached as read.
PageWarm(p) ==
    /\ proc[p].pc = "warm" /\ (Gone(proc[p]) = {} \/ writer = NoProc)
    /\ table' = [k \in Keys |-> IF k \in Gone(proc[p]) THEN Default ELSE table[k]]
    /\ cache' = Warmed(proc[p])
    /\ suspect' = suspect \ {k \in proc[p].alone : Filled(proc[p].snap)[k] # Missing}
    /\ Return(p)
    /\ UNCHANGED <<pluginVars, writer, counts>>

\* The rows cannot be read, or after some of the defaults one cannot be saved.
PageFailed(p) ==
    /\ proc[p].op = "page" /\ Mishap
    /\ \E ks \in SUBSET Gone(proc[p]) :
          /\ ks = {} \/ writer = NoProc
          /\ table' = [k \in Keys |-> IF k \in ks THEN Default ELSE table[k]]
          /\ cache' = [k \in Keys |-> IF k \in ks THEN Default ELSE cache[k]]
          /\ suspect' = suspect \ (proc[p].alone \cap ks)
    /\ Return(p)
    /\ UNCHANGED <<pluginVars, writer>>

-----------------------------------------------------------------------------
(* SetPluginEnabled, for a transport plugin.                               *)

Switch(p) ==
    /\ \E x \in Plugins, on \in BOOLEAN :
          /\ Call(p, [Idle EXCEPT !.op = "switch", !.pc = IF on THEN "others" ELSE "persist",
                                  !.todo = {x}, !.on = on])
          /\ enabled' = [enabled EXCEPT ![x] = on]
    /\ UNCHANGED <<settingVars, flags, loadedTwo, writer>>

\* Mutated form: the others are looked up in the table instead of in memory.
DisableOthersStored(p) ==
    /\ proc[p].pc = "others"
    /\ LET others == {y \in Plugins \ proc[p].todo : flags[y]}
       IN  /\ enabled' = [y \in Plugins |-> enabled[y] /\ y \notin others]
           /\ Set(p, [proc[p] EXCEPT !.pc = "persist", !.done = others])
    /\ loadedTwo' = FALSE
    /\ UNCHANGED <<settingVars, flags, writer, counts, suspect>>

\* DisableOtherTransportPlugins returns those it has disabled.
DisableOthers(p) ==
    /\ proc[p].pc = "others"
    /\ LET others == {y \in Plugins \ proc[p].todo : enabled[y]}
       IN  /\ enabled' = [y \in Plugins |-> enabled[y] /\ y \notin others]
           /\ Set(p, [proc[p] EXCEPT !.pc = "persist", !.done = others])
    /\ loadedTwo' = FALSE
    /\ UNCHANGED <<settingVars, flags, writer, counts, suspect>>

\* The flags of the others are stored one by one, and that of the plugin last.
ToStore(q) == IF q.done # {} THEN q.done ELSE q.todo

Stored(p, x) ==
    IF proc[p].done # {}
    THEN Set(p, [proc[p] EXCEPT !.done = @ \ {x}])
    ELSE Return(p)

\* Mutated form: the flags of the others are left as they are.
StoreFlagOwn(p) ==
    /\ proc[p].pc = "persist" /\ writer = NoProc
    /\ \E x \in proc[p].todo : flags' = [flags EXCEPT ![x] = proc[p].on]
    /\ Return(p)
    /\ UNCHANGED <<settingVars, enabled, loadedTwo, writer, counts, suspect>>

StoreFlag(p) ==
    /\ proc[p].pc = "persist" /\ writer = NoProc
    /\ \E x \in ToStore(proc[p]) :
          /\ flags' = [flags EXCEPT ![x] = proc[p].done = {} /\ proc[p].on]
          /\ Stored(p, x)
    /\ UNCHANGED <<settingVars, enabled, loadedTwo, writer, counts, suspect>>

\* The error is logged, and the request goes on.
StoreFlagFailed(p) ==
    /\ proc[p].pc = "persist" /\ Mishap
    /\ \E x \in ToStore(proc[p]) : Stored(p, x) /\ suspect' = suspect \cup {x}
    /\ UNCHANGED <<settingVars, pluginVars, writer>>

-----------------------------------------------------------------------------
(* The database is replaced; the process restarts.                         *)

\* ImportDB and the restart by SIGHUP that it asks for: neither APP.Stop nor APP.Start
\* touches the cache or the plugins.  "settings reset" on the command line, by another
\* process, is the case in which every row is gone.
ImportDB ==
    /\ writer = NoProc /\ calls < MaxCalls /\ calls' = calls + 1
    /\ table' \in [Keys -> {Missing, calls + 2}]
    /\ flags' \in [Plugins -> BOOLEAN]
    /\ proc' = [p \in Procs |-> [proc[p] EXCEPT !.alone = {}]]
    /\ suspect' = Keys \cup Plugins
    /\ UNCHANGED <<cache, enabled, loadedTwo, writer, mishaps, restarts>>

\* The process ends; GetAllSetting and LoadPluginStates of APP.Init.
Restart ==
    /\ restarts < MaxRestarts /\ restarts' = restarts + 1
    /\ proc' = [p \in Procs |-> Idle] /\ writer' = NoProc
    /\ table' = Filled(table) /\ cache' = Filled(table)
    /\ enabled' = flags /\ flags' = flags
    /\ loadedTwo' = ~AtMostOne(flags)
    /\ suspect' = {}
    /\ UNCHANGED <<calls, mishaps>>

-----------------------------------------------------------------------------

Begin(p) == Get(p) \/ Put(p) \/ SavePage(p) \/ Page(p) \/ Switch(p)

Continue(p) ==
    \/ GetRow(p) \/ GetEntry(p)
    \/ PutRow(p) \/ PutFailed(p) \/ PutEntry(p)
    \/ SaveKey(p) \/ SaveCommitted(p) \/ SaveRolledBack(p)
    \/ PageRead(p) \/ PageWarm(p) \/ PageFailed(p)
    \/ DisableOthers(p) \/ StoreFlag(p) \/ StoreFlagFailed(p)

Next == (\E p \in Procs : Begin(p) \/ Continue(p)) \/ ImportDB \/ Restart

Spec == Init /\ [][Next]_vars

-----------------------------------------------------------------------------

\* "All reads go through the cache": when no call concerns a key any more, what is
\* served from memory is what is stored, but for the causes listed under Suspicions.
Coherent == \A k \in Keys \ (suspect \cup InFlight) : cache[k] = table[k]

\* A plugin is stored as it is switched, so that a restart does not change which
\* plugins are enabled, but for the same causes.
FlagsKept == \A x \in Plugins \ (suspect \cup InFlight) : flags[x] = enabled[x]

\* "These wrappers are mutually exclusive": in any interleaving of requests, once each
\* has disabled the others, at most one transport plugin is enabled.  (Flags stored
\* by overlapping requests may be loaded together by a restart: loadedTwo.)
OneTransport ==
    ~loadedTwo /\ (\A p \in Procs : proc[p].pc # "others") => AtMostOne(enabled)

=============================================================================
