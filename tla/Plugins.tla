------------------------------- MODULE Plugins -------------------------------
(* The plugin host: plugin/host.Registry with its file store, the installer's *)
(* cache directories, and app.pluginControl, which the HTTP handlers call.    *)
(*                                                                            *)
(* Every operation is a goroutine of its own and takes Registry.mu several    *)
(* times; the store has a lock of its own and replaces its file by a rename.  *)
(* The daemon serves requests before Registry.Start has read the records, and *)
(* it may die at any point.                                                   *)
EXTENDS Naturals, FiniteSets, TLC

CONSTANTS
  PlCallers,      \* concurrent requests
  Starter,        \* the goroutine of Daemon.Start
  RemotePlugins, BuiltIns,   \* identifiers of plugins
  Archives,       \* what an install may fetch; see PlArchive
  PlConfigs, PlNone,         \* saved configurations, and none
  MaxPlRequests, MaxPlRestarts   \* bounds of the instance

PluginIds == RemotePlugins \cup BuiltIns
PlArchive == [id : PluginIds, digest : Nat, valid : BOOLEAN, builtIn : BOOLEAN,
              sources : BOOLEAN, http : BOOLEAN]

ASSUME PluginsConstants ==
  /\ Starter \notin PlCallers /\ RemotePlugins \cap BuiltIns = {} /\ PlNone \notin PlConfigs
  /\ Archives \subseteq PlArchive /\ {MaxPlRequests, MaxPlRestarts} \subseteq Nat
  /\ \A a \in Archives : <<a.id, a.digest>> # PlNone

VARIABLES
  plEntries,   \* Registry.entries
  plRecords,   \* the records of the file store
  plDirs,      \* the cache directories that exist
  plOps,       \* what each goroutine is doing
  plStart,     \* Registry.Start: the records it has listed and not handled yet
  plRaced,     \* history: plugins on which two operations have overlapped
  plCount      \* requests and restarts so far

plVars == <<plEntries, plRecords, plDirs, plOps, plStart, plRaced, plCount>>

PlAbsent == [state |-> "absent"]
PlIdle == [pc |-> "idle"]
Goroutines == PlCallers \cup {Starter}
EntryStates == {"installed", "enabled", "disabled", "error"}
DirOf(a) == <<a.id, a.digest>>

\* RegisterBuiltIn, from NewDaemon: the built-ins of a fresh registry.
RegisterBuiltIns ==
  [p \in PluginIds |->
    IF p \in BuiltIns THEN [state |-> "installed", dir |-> PlNone, config |-> PlNone, runnable |-> TRUE]
    ELSE PlAbsent]

PluginsInit ==
  /\ plEntries = RegisterBuiltIns
  /\ plRecords = [p \in PluginIds |-> PlAbsent]
  /\ plDirs = {} /\ plRaced = {}
  /\ plOps = [g \in Goroutines |-> PlIdle]
  /\ plStart = [pc |-> "list"]
  /\ plCount = [requests |-> 0, restarts |-> 0]

-----------------------------------------------------------------------------
(* Operations. *)

\* Goroutine g starts an operation on p.
Busy(p) ==
  \/ \E g \in Goroutines : plOps[g] # PlIdle /\ plOps[g].id = p
  \/ plStart.pc = "list"
  \/ plStart.pc \in {"records", "rest"} /\ p \in plStart.todo
Requested(c, p) ==
  /\ plOps[c] = PlIdle /\ plCount.requests < MaxPlRequests
  /\ plCount' = [plCount EXCEPT !.requests = @ + 1]
  /\ plRaced' = IF Busy(p) THEN plRaced \cup {p} ELSE plRaced

\* Installer.Install and writeToCache: the manifest is parsed and validated,
\* and the files are written to the directory of the identifier and digest.
Accepts(a) == a.valid /\ ~a.builtIn
HandleInstallPlugin(c, a) ==
  /\ Accepts(a) /\ Requested(c, a.id)
  /\ plDirs' = plDirs \cup {DirOf(a)}
  /\ plOps' = [plOps EXCEPT ![c] = [pc |-> "extracted", id |-> a.id, archive |-> a]]
  /\ UNCHANGED <<plEntries, plRecords, plStart>>

\* pluginControl.Install: data sources need the http scope; the directory of
\* the version to replace is looked up.
InstallChecks(g) ==
  /\ plOps[g].pc = "extracted"
  /\ LET a == plOps[g].archive
         prev == plEntries[a.id] IN
       plOps' = [plOps EXCEPT ![g] =
         IF a.sources /\ ~a.http THEN PlIdle
         ELSE [pc |-> "register", id |-> a.id, archive |-> a,
               prev |-> IF prev = PlAbsent \/ a.id \in BuiltIns THEN PlNone ELSE prev.dir]]
  /\ UNCHANGED <<plEntries, plRecords, plDirs, plStart, plRaced, plCount>>

\* RegisterRemote, before it persists.
RegisterRemote(g) ==
  /\ plOps[g].pc = "register"
  /\ LET p == plOps[g].id
         a == plOps[g].archive
         kept == IF plEntries[p] = PlAbsent THEN PlNone ELSE plEntries[p].config IN
       IF p \in BuiltIns
       THEN plOps' = [plOps EXCEPT ![g] = PlIdle] /\ UNCHANGED plEntries
       ELSE /\ plEntries' = [plEntries EXCEPT ![p] =
                 [state |-> "installed", dir |-> DirOf(a), config |-> kept, runnable |-> ~a.sources \/ a.http]]
            /\ plOps' = [plOps EXCEPT ![g] =
                 [pc |-> "persist", id |-> p, then |-> "enable", dir |-> DirOf(a), prev |-> plOps[g].prev]]
  /\ UNCHANGED <<plRecords, plDirs, plStart, plRaced, plCount>>

\* Enable, before it persists; nothing is persisted for a built-in.
Enabled(e) == [e EXCEPT !.state = IF e.runnable THEN "enabled" ELSE "error"]
EnableLocked(p, g, next) ==
  LET e == plEntries[p] IN
    /\ plEntries' = IF e.state \in {"absent", "enabled"} THEN plEntries ELSE [plEntries EXCEPT ![p] = Enabled(e)]
    /\ plOps' = [plOps EXCEPT ![g] =
         IF e = PlAbsent \/ (e.state # "enabled" /\ ~e.runnable) THEN PlIdle
         ELSE IF e.state = "enabled" \/ p \in BuiltIns THEN (IF next.pc = "return" THEN PlIdle ELSE next)
         ELSE [pc |-> "persist", id |-> p, then |-> next.pc, dir |-> next.dir, prev |-> next.prev]]

InstallEnables(g) ==
  /\ plOps[g].pc = "enable"
  /\ EnableLocked(plOps[g].id, g, [plOps[g] EXCEPT !.pc = "clean"])
  /\ UNCHANGED <<plRecords, plDirs, plStart, plRaced, plCount>>
\* What is left to do after Enable, Disable and SetConfig have persisted.
PlReturns(p) == [pc |-> "return", id |-> p, dir |-> PlNone, prev |-> PlNone]
PersistsThenReturns(p) == [pc |-> "persist", id |-> p, then |-> "return", dir |-> PlNone, prev |-> PlNone]
HandleEnablePlugin(c, p) ==
  /\ Requested(c, p) /\ EnableLocked(p, c, PlReturns(p))
  /\ UNCHANGED <<plRecords, plDirs, plStart>>

\* Disable and SetConfig, before they persist.
PlChange(c, p, e) ==
  /\ plEntries[p] # PlAbsent /\ Requested(c, p)
  /\ plEntries' = [plEntries EXCEPT ![p] = e]
  /\ plOps' = [plOps EXCEPT ![c] = PersistsThenReturns(p)]
  /\ UNCHANGED <<plRecords, plDirs, plStart>>
HandleDisablePlugin(c, p) == PlChange(c, p, [plEntries[p] EXCEPT !.state = "disabled"])
HandlePutPluginConfig(c, p, cfg) == PlChange(c, p, [plEntries[p] EXCEPT !.config = cfg])

\* A bug for comparison: only the state is recorded.
RecordOfState(e) == [e EXCEPT !.config = PlNone]
\* persist: the record of an entry as it is now ...
RecordOf(e) == e
Continue(op) ==
  IF op.then = "return" THEN PlIdle ELSE [pc |-> op.then, id |-> op.id, dir |-> op.dir, prev |-> op.prev]
PersistReads(g) ==
  /\ plOps[g].pc = "persist"
  /\ plOps' = [plOps EXCEPT ![g] =
       IF plEntries[@.id] # PlAbsent
         THEN [pc |-> "save", id |-> @.id, then |-> @.then, dir |-> @.dir, prev |-> @.prev,
               rec |-> RecordOf(plEntries[@.id])]
       ELSE IF @.then = "enable" THEN PlIdle ELSE Continue(@)]
  /\ UNCHANGED <<plEntries, plRecords, plDirs, plStart, plRaced, plCount>>
\* ... and FileStore.Save, after the registry's lock was released.
SaveRecord(g) ==
  /\ plOps[g].pc = "save"
  /\ plRecords' = [plRecords EXCEPT ![plOps[g].id] = plOps[g].rec]
  /\ plOps' = [plOps EXCEPT ![g] = Continue(@)]
  /\ UNCHANGED <<plEntries, plDirs, plStart, plRaced, plCount>>

\* The end of Install: the directory of the version it replaced is removed.
CleanPrevious(g) ==
  /\ plOps[g].pc = "clean"
  /\ plDirs' = IF plOps[g].prev = plOps[g].dir THEN plDirs ELSE plDirs \ {plOps[g].prev}
  /\ plOps' = [plOps EXCEPT ![g] = PlIdle]
  /\ UNCHANGED <<plEntries, plRecords, plStart, plRaced, plCount>>

\* pluginControl.Uninstall: Get, Registry.Remove in two steps, then the files.
HandleUninstallPlugin(c, p) ==
  /\ p \notin BuiltIns /\ plEntries[p] # PlAbsent /\ Requested(c, p)
  /\ plOps' = [plOps EXCEPT ![c] = [pc |-> "remove", id |-> p, dir |-> plEntries[p].dir]]
  /\ UNCHANGED <<plEntries, plRecords, plDirs, plStart>>
\* A bug for comparison: the files go first.
RemoveEntryAndFiles(g) ==
  /\ plOps[g].pc = "remove" /\ plEntries[plOps[g].id] # PlAbsent
  /\ plEntries' = [plEntries EXCEPT ![plOps[g].id] = PlAbsent]
  /\ plDirs' = plDirs \ {plOps[g].dir}
  /\ plOps' = [plOps EXCEPT ![g].pc = "delete"]
  /\ UNCHANGED <<plRecords, plStart, plRaced, plCount>>
RemoveEntry(g) ==
  /\ plOps[g].pc = "remove"
  /\ plEntries' = [plEntries EXCEPT ![plOps[g].id] = PlAbsent]
  /\ plOps' = [plOps EXCEPT ![g] = IF plEntries[@.id] = PlAbsent THEN PlIdle ELSE [@ EXCEPT !.pc = "delete"]]
  /\ UNCHANGED <<plRecords, plDirs, plStart, plRaced, plCount>>
DeleteRecord(g) ==
  /\ plOps[g].pc = "delete"
  /\ plRecords' = [plRecords EXCEPT ![plOps[g].id] = PlAbsent]
  /\ plOps' = [plOps EXCEPT ![g].pc = "files"]
  /\ UNCHANGED <<plEntries, plDirs, plStart, plRaced, plCount>>
UninstallFiles(g) ==
  /\ plOps[g].pc = "files"
  /\ plDirs' = plDirs \ {plOps[g].dir}
  /\ plOps' = [plOps EXCEPT ![g] = PlIdle]
  /\ UNCHANGED <<plEntries, plRecords, plStart, plRaced, plCount>>

-----------------------------------------------------------------------------
(* Registry.Start and restarts. *)

StartLists ==
  /\ plStart.pc = "list"
  /\ plStart' = [pc |-> "records", recs |-> plRecords, todo |-> {p \in PluginIds : plRecords[p] # PlAbsent}]
  /\ UNCHANGED <<plEntries, plRecords, plDirs, plOps, plRaced, plCount>>

\* One record: a remote plugin gets an entry unless it has one, a built-in its
\* saved configuration; then it stays disabled or is enabled.
Loaded(p, rec) ==
  LET e == plEntries[p] IN
    IF p \in BuiltIns THEN [e EXCEPT !.config = IF rec.config = PlNone THEN @ ELSE rec.config]
    ELSE IF e = PlAbsent THEN [rec EXCEPT !.state = "installed"] ELSE e
StartRecord(p) ==
  /\ plStart.pc = "records" /\ p \in plStart.todo /\ plOps[Starter] = PlIdle
  /\ plStart' = [plStart EXCEPT !.todo = @ \ {p}]
  /\ LET rec == plStart.recs[p]
         e == Loaded(p, rec)
         enables == rec.state # "disabled" /\ e.state # "enabled" IN
       /\ plEntries' = [plEntries EXCEPT ![p] =
            IF rec.state = "disabled" THEN [e EXCEPT !.state = "disabled"]
            ELSE IF enables THEN Enabled(e) ELSE e]
       /\ plOps' = [plOps EXCEPT ![Starter] =
            IF enables /\ e.runnable /\ p \notin BuiltIns
            THEN PersistsThenReturns(p) ELSE PlIdle]
  /\ UNCHANGED <<plRecords, plDirs, plRaced, plCount>>

\* "Start built-ins that had no persisted record": whatever is still installed.
StartRest ==
  /\ plStart.pc = "records" /\ plStart.todo = {} /\ plOps[Starter] = PlIdle
  /\ plStart' = [pc |-> "rest", todo |-> {p \in PluginIds : plEntries[p].state = "installed"}]
  /\ UNCHANGED <<plEntries, plRecords, plDirs, plOps, plRaced, plCount>>
StartInstalled(p) ==
  /\ plStart.pc = "rest" /\ p \in plStart.todo /\ plOps[Starter] = PlIdle
  /\ plStart' = [plStart EXCEPT !.todo = @ \ {p}]
  /\ EnableLocked(p, Starter, PlReturns(p))
  /\ UNCHANGED <<plRecords, plDirs, plRaced, plCount>>
StartReturns ==
  /\ plStart.pc = "rest" /\ plStart.todo = {} /\ plOps[Starter] = PlIdle
  /\ plStart' = [pc |-> "done"]
  /\ UNCHANGED <<plEntries, plRecords, plDirs, plOps, plRaced, plCount>>

PluginsRestart ==
  /\ plCount.restarts < MaxPlRestarts
  /\ plEntries' = RegisterBuiltIns
  /\ plOps' = [g \in Goroutines |-> PlIdle]
  /\ plStart' = [pc |-> "list"]
  /\ plCount' = [plCount EXCEPT !.restarts = @ + 1]
  /\ UNCHANGED <<plRecords, plDirs, plRaced>>

PluginsNext ==
  \/ \E c \in PlCallers :
       \/ \E a \in Archives : HandleInstallPlugin(c, a)
       \/ \E p \in PluginIds :
            \/ HandleEnablePlugin(c, p) \/ HandleDisablePlugin(c, p) \/ HandleUninstallPlugin(c, p)
            \/ \E cfg \in PlConfigs : HandlePutPluginConfig(c, p, cfg)
  \/ \E g \in Goroutines :
       \/ InstallChecks(g) \/ RegisterRemote(g) \/ InstallEnables(g) \/ CleanPrevious(g)
       \/ PersistReads(g) \/ SaveRecord(g)
       \/ RemoveEntry(g) \/ DeleteRecord(g) \/ UninstallFiles(g)
  \/ StartLists \/ \E p \in PluginIds : StartRecord(p) \/ StartInstalled(p)
  \/ StartRest \/ StartReturns \/ PluginsRestart

-----------------------------------------------------------------------------
EntryType == [state : EntryStates, dir : {DirOf(a) : a \in Archives} \cup {PlNone},
              config : PlConfigs \cup {PlNone}, runnable : BOOLEAN]
PluginsTypeOK ==
  /\ plEntries \in [PluginIds -> EntryType \cup {PlAbsent}]
  /\ plRecords \in [PluginIds -> EntryType \cup {PlAbsent}]
  /\ plDirs \subseteq {DirOf(a) : a \in Archives}
  /\ \A p \in BuiltIns : plEntries[p] # PlAbsent

\* Installs, upgrades, rollbacks and uninstalls that do not overlap on the same
\* plugin, cut short by a crash anywhere, never leave a plugin whose files are
\* gone: neither the running registry nor the records that the next start
\* loads name a directory that was removed.
InstallDirsKept ==
  \A p \in RemotePlugins \ plRaced :
    /\ plEntries[p] # PlAbsent => plEntries[p].dir \in plDirs
    /\ plRecords[p] # PlAbsent => plRecords[p].dir \in plDirs

\* What a restart would restore of p is what p is now.
Restores(p) ==
  LET e == plEntries[p]
      r == plRecords[p] IN
    IF p \in BuiltIns
    THEN /\ e.config = IF r = PlAbsent THEN PlNone ELSE r.config
         /\ e.state = "disabled" => r.state = "disabled"
    ELSE /\ (e = PlAbsent) = (r = PlAbsent)
         /\ e # PlAbsent => e.dir = r.dir /\ e.config = r.config /\ (e.state = "disabled") = (r.state = "disabled")
PluginAtRest(p) == plStart.pc = "done" /\ ~Busy(p)

\* "Plugin records (remote installs + per-plugin config) persist to a JSON file":
\* once the operations on a plugin are over, a restart brings back what it was,
\* installed or not, its version, its configuration and whether it is disabled.
RestartRestores == \A p \in PluginIds \ plRaced : PluginAtRest(p) => Restores(p)

\* "Start loads persisted plugin state and starts all enabled plugins": a
\* built-in that was disabled and enabled again starts at the next start.
ReenabledStays ==
  \A p \in BuiltIns \ plRaced :
    PluginAtRest(p) /\ plEntries[p].state = "enabled" => plRecords[p].state # "disabled"

\* An installed plugin keeps its files and a restart brings it back as it was,
\* through upgrades, failed installs and restarts at any step.
PluginsKept == PluginsTypeOK /\ InstallDirsKept /\ RestartRestores
=============================================================================
