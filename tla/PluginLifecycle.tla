---------------------------- MODULE PluginLifecycle ----------------------------
(***************************************************************************)
(* Installing, enabling, disabling, uninstalling and purging plugins, and  *)
(* what the start of the application writes about them.  Every operation   *)
(* holds one lock in Redis, renewed while it runs; the record of a plugin, *)
(* its migration history and its migration are written by transactions of  *)
(* their own.                                                              *)
(*                                                                         *)
(* A process runs one administrator's operation, or is an application that *)
(* starts, runs and shuts down.  A plugin has one release and at most one  *)
(* migration; its onPurge hook drops what the migration made.              *)
(***************************************************************************)
EXTENDS Naturals

CONSTANTS
  Plugins,
  Requires,        \* of each plugin: the plugins its manifest depends on
  Migrating,       \* the plugins that declare a migration
  DefaultEnabled,  \* the plugins the start of the application installs
  Operators,       \* processes that run an administrator's operation at a time
  Servers,         \* applications: they start, serve and shut down
  Free,            \* no process: nobody holds the lifecycle lock
  Dead,            \* no process: the holder of the lock was killed
  MaxTroubles      \* bound: errors, lost locks and killed processes

Processes == Operators \cup Servers
ASSUME PluginAssumption ==
  /\ Requires \in [Plugins -> SUBSET Plugins]
  /\ Migrating \subseteq Plugins /\ DefaultEnabled \subseteq Plugins
  /\ \A p \in DefaultEnabled : Requires[p] = {}
  /\ {Free, Dead} \cap Processes = {} /\ Free # Dead
  /\ MaxTroubles \in Nat

VARIABLES
  lifecycleLock,   \* the value of the key in Redis
  record,          \* sys_plugin, and whether its menus and jobs are on
  history,         \* sys_plugin_migration
  applied,         \* how often the migration of each plugin was committed
  process,
  ready,           \* the marker of this start generation
  unimportable,    \* plugins some Python dependency of which is missing
  troubles,
  unsure,          \* a commit of their migration was answered with an error
  blindly,         \* recovered at a start without a look at their dependencies
  overlap          \* an operation began while another had lost the lock

pluginVars == <<lifecycleLock, record, history, applied, process, ready,
                unimportable, troubles, unsure, blindly, overlap>>

NoRecord == [known |-> FALSE, installed |-> FALSE, on |-> FALSE,
             status |-> "discovered", served |-> FALSE]
Resting == [kind |-> "none", plugin |-> {}, at |-> "rest", todo |-> {},
            registry |-> {}, lost |-> FALSE]

Plugin(r) == CHOOSE p \in Plugins : process[r].plugin = {p}
IsAt(r, at) == process[r].at = at
Step(r, at) == process' = [process EXCEPT ![r].at = at]

IsError(p) == record[p].status \in {"error", "dependency_error"}
InUse(p) == record[p].installed /\ record[p].on /\ ~IsError(p)
NeededByNobody(p) == FALSE
Needed(p) == \E d \in Plugins : p \in Requires[d] /\ InUse(d)
DependenciesMet(p) == \A d \in Requires[p] : InUse(d)
AcceptsRunning(p) == FALSE
HistoryRefuses(p) == p \in Migrating /\ history[p] = "running"
\* An install keeps its changes of the record to itself until it commits.
HoldsRecord(r, p) ==
  /\ process[r].plugin = {p}
  /\ process[r].at \in {"migrate", "execute", "failed", "executed", "finish"}
RecordFree(p) == \A r \in Processes : ~HoldsRecord(r, p)

\* The discovered plugin is written first when there is no record yet.
Written(p) == IF record[p].known THEN record[p]
              ELSE [NoRecord EXCEPT !.known = TRUE, !.on = TRUE]
InError(p, status) ==
  [record EXCEPT ![p] = [Written(p) EXCEPT !.status = status, !.served = FALSE]]

\* The end of an operation deletes the key if it still holds its own value.
Release(r) == lifecycleLock' = IF lifecycleLock = r THEN Free ELSE lifecycleLock
End(r) ==
  /\ process' = [process EXCEPT ![r] = Resting]
  /\ Release(r)
Trouble == troubles < MaxTroubles /\ troubles' = troubles + 1
Quiet == UNCHANGED troubles
StoresUntouched == UNCHANGED <<record, history, applied, unsure, blindly>>
EnvironmentUntouched == UNCHANGED <<ready, unimportable, overlap>>

-----------------------------------------------------------------------------
\* An administrator's command or request acquires the lock; while another
\* operation holds it, it is refused and nothing is written.
Operations == {"install", "enable", "disable", "uninstall", "purge", "mark"}
Acquire(r, work) ==
  /\ IsAt(r, "rest") /\ lifecycleLock = Free
  /\ lifecycleLock' = r
  /\ process' = [process EXCEPT ![r] = work]
  /\ overlap' = (overlap \/ \E q \in Processes : process[q].lost)
Begin(r, kind, p) ==
  /\ kind = "mark" => history[p] \in {"running", "failed"}
  /\ Acquire(r, [Resting EXCEPT !.kind = kind, !.plugin = {p},
                   !.at = IF kind = "mark" THEN "write" ELSE "check"])
  /\ StoresUntouched /\ Quiet /\ UNCHANGED <<ready, unimportable>>

\* Refused or failed, an install or enable marks the plugin as erroneous.
Check(r) ==
  LET p == Plugin(r) k == process[r].kind IN
  /\ IsAt(r, "check")
  /\ \/ /\ k \in {"install", "enable"} /\ DependenciesMet(p) /\ ~HistoryRefuses(p)
        /\ Step(r, IF k = "install" THEN "upsert" ELSE "write")
        /\ UNCHANGED lifecycleLock
     \/ /\ k \in {"install", "enable"} /\ ~(DependenciesMet(p) /\ ~HistoryRefuses(p))
        /\ Step(r, "report") /\ UNCHANGED lifecycleLock
     \/ /\ k \in {"disable", "uninstall", "purge"} /\ ~Needed(p)
        /\ Step(r, "write") /\ UNCHANGED lifecycleLock
     \/ k \in {"disable", "uninstall", "purge"} /\ Needed(p) /\ End(r)
  /\ StoresUntouched /\ EnvironmentUntouched /\ Quiet

Upsert(r) ==
  /\ IsAt(r, "upsert") /\ RecordFree(Plugin(r))
  /\ Step(r, "migrate")
  /\ UNCHANGED lifecycleLock /\ StoresUntouched /\ EnvironmentUntouched /\ Quiet

\* Skipped when recorded as a success, refused when it may be half done.
Migrate(r) ==
  LET p == Plugin(r) IN
  /\ IsAt(r, "migrate")
  /\ \/ /\ p \notin Migrating \/ history[p] = "success"
        /\ Step(r, "finish") /\ UNCHANGED history
     \/ HistoryRefuses(p) /\ Step(r, "report") /\ UNCHANGED history
     \/ /\ p \in Migrating /\ ~HistoryRefuses(p) /\ history[p] # "success"
        /\ history' = [history EXCEPT ![p] = "running"]
        /\ Step(r, "execute")
  /\ UNCHANGED <<lifecycleLock, record, applied, unsure, blindly>>
  /\ EnvironmentUntouched /\ Quiet

\* The migration and its commit, which may fail or only seem to fail.
Applies(p) == applied' = [applied EXCEPT ![p] = @ + 1]
Execute(r) ==
  LET p == Plugin(r) IN
  /\ IsAt(r, "execute")
  /\ \/ Applies(p) /\ Step(r, "executed") /\ Quiet /\ UNCHANGED unsure
     \/ Step(r, "failed") /\ Trouble /\ UNCHANGED <<applied, unsure>>
     \/ /\ Applies(p) /\ Step(r, "failed") /\ Trouble
        /\ unsure' = unsure \cup {p}
  /\ UNCHANGED <<lifecycleLock, record, history, blindly>> /\ EnvironmentUntouched

\* When the outcome cannot be recorded, the history stays "running".
AfterOutcome(ok) == IF ok THEN "finish" ELSE "report"
RecordOutcome(r) ==
  LET p == Plugin(r) ok == IsAt(r, "executed") IN
  /\ process[r].at \in {"executed", "failed"}
  /\ \/ /\ history' = [history EXCEPT ![p] = IF ok THEN "success" ELSE "failed"]
        /\ Step(r, AfterOutcome(ok)) /\ Quiet
     \/ Step(r, "report") /\ Trouble /\ UNCHANGED history
  /\ UNCHANGED <<lifecycleLock, record, applied, unsure, blindly>>
  /\ EnvironmentUntouched

\* The start of the application continues with the next default plugin.
Continue(r) ==
  IF process[r].kind = "start"
  THEN /\ process' = [process EXCEPT ![r].at = "defaults", ![r].plugin = {}]
       /\ UNCHANGED lifecycleLock
  ELSE End(r)

\* Seeds, the onInstall hook, the installed version and the commit.
Installed(p) ==
  LET row == Written(p) IN
  [row EXCEPT !.installed = TRUE, !.status = "installed", !.served = row.on]
Finish(r) ==
  LET p == Plugin(r) IN
  /\ IsAt(r, "finish")
  /\ \/ /\ record' = [record EXCEPT ![p] = Installed(p)]
        /\ blindly' = blindly \ {p}
        /\ Continue(r) /\ Quiet
     \/ /\ Step(r, "report") /\ Trouble
        /\ UNCHANGED <<lifecycleLock, record, blindly>>
  /\ UNCHANGED <<history, applied, unsure>> /\ EnvironmentUntouched

\* In a transaction of its own; an operation marks only a plugin with a record.
Report(r) ==
  LET p == Plugin(r) IN
  /\ IsAt(r, "report") /\ RecordFree(p)
  /\ \/ /\ process[r].kind = "start" \/ record[p].known
        /\ record' = InError(p, "error") /\ Quiet
     \/ process[r].kind # "start" /\ ~record[p].known /\ Quiet /\ UNCHANGED record
     \/ Trouble /\ UNCHANGED record
  /\ Continue(r)
  /\ UNCHANGED <<history, applied, unsure, blindly>> /\ EnvironmentUntouched

Enabled(p) ==
  [record EXCEPT ![p].on = TRUE, ![p].served = TRUE]
DisabledKeepsMenus(p) == [record EXCEPT ![p].on = FALSE]
Disabled(p) ==
  [record EXCEPT ![p].on = FALSE, ![p].served = FALSE]
Uninstalled(p) == [record EXCEPT ![p] = [NoRecord EXCEPT !.known = TRUE]]
Enable(r) ==
  LET p == Plugin(r) IN
  /\ IsAt(r, "write") /\ process[r].kind = "enable" /\ RecordFree(p)
  /\ \/ /\ record[p].installed /\ record[p].status = "installed"
        /\ record' = Enabled(p) /\ blindly' = blindly \ {p} /\ End(r)
     \/ /\ ~(record[p].installed /\ record[p].status = "installed")
        /\ Step(r, "report") /\ UNCHANGED <<lifecycleLock, record, blindly>>
  /\ UNCHANGED <<history, applied, unsure>> /\ EnvironmentUntouched /\ Quiet

Disable(r) ==
  LET p == Plugin(r) IN
  /\ IsAt(r, "write") /\ process[r].kind \in {"disable", "uninstall"} /\ RecordFree(p)
  /\ record' = IF ~record[p].known THEN record
               ELSE IF process[r].kind = "disable" THEN Disabled(p) ELSE Uninstalled(p)
  /\ End(r)
  /\ UNCHANGED <<history, applied, unsure, blindly>> /\ EnvironmentUntouched /\ Quiet

Purge(r) ==
  LET p == Plugin(r) IN
  /\ IsAt(r, "write") /\ process[r].kind = "purge" /\ RecordFree(p)
  /\ record' = [record EXCEPT ![p] = NoRecord]
  /\ history' = [history EXCEPT ![p] = "none"]
  /\ applied' = [applied EXCEPT ![p] = 0]
  /\ unsure' = unsure \ {p}
  /\ End(r)
  /\ UNCHANGED blindly /\ EnvironmentUntouched /\ Quiet

\* The administrator has looked whether the migration is in the database.
Marked(p) ==
  IF applied[p] > 0 /\ history[p] \in {"running", "failed"} THEN "success"
  ELSE IF applied[p] = 0 /\ history[p] = "running" THEN "failed" ELSE history[p]
Mark(r) ==
  /\ IsAt(r, "write") /\ process[r].kind = "mark"
  /\ history' = [history EXCEPT ![Plugin(r)] = Marked(Plugin(r))]
  /\ End(r)
  /\ UNCHANGED <<record, applied, unsure, blindly>> /\ EnvironmentUntouched /\ Quiet

-----------------------------------------------------------------------------
\* The start of an application.  One process writes; a later one of the same
\* generation finds the marker and writes nothing, unless a default plugin
\* has lost its record.
DefaultsMissing ==
  {p \in DefaultEnabled :
     ~record[p].known
     \/ (~record[p].installed /\ record[p].on /\ record[p].status = "discovered")}
BeginStart(r) ==
  /\ ready # "failed" /\ (ready = "missing" \/ DefaultsMissing # {})
  /\ Acquire(r, [Resting EXCEPT !.kind = "start", !.at = "defaults",
                   !.todo = DefaultsMissing])
  /\ ready' = "missing"
  /\ StoresUntouched /\ Quiet /\ UNCHANGED unimportable

\* The install of a default plugin does not ask for other plugins.
StartDefault(r, p) ==
  /\ IsAt(r, "defaults") /\ p \in process[r].todo
  /\ \/ /\ p \notin unimportable
        /\ process' = [process EXCEPT ![r].at = "upsert", ![r].plugin = {p},
                         ![r].todo = @ \ {p}]
        /\ UNCHANGED record
     \/ /\ p \in unimportable /\ RecordFree(p)
        /\ record' = InError(p, "dependency_error")
        /\ process' = [process EXCEPT ![r].todo = @ \ {p}]
  /\ UNCHANGED <<lifecycleLock, history, applied, unsure, blindly>>
  /\ EnvironmentUntouched /\ Quiet

\* The registry is a snapshot of the database, which the process reads again
\* after every change of its own.
InUseIn(rec) ==
  {p \in Plugins : rec[p].installed /\ rec[p].on
                   /\ rec[p].status \notin {"error", "dependency_error"}}
LoadRegistry(r) ==
  /\ IsAt(r, "defaults") /\ process[r].todo = {}
  /\ process' = [process EXCEPT ![r].at = "imports", ![r].registry = InUseIn(record),
       ![r].todo = {p \in Plugins : InUse(p) \/ record[p].status = "dependency_error"}]
  /\ UNCHANGED lifecycleLock /\ StoresUntouched /\ EnvironmentUntouched /\ Quiet

\* A plugin whose Python dependencies are missing is taken out of use; one
\* that was taken out for that reason comes back when they are there again.
Recovered(p) ==
  [record EXCEPT ![p].status = IF record[p].installed THEN "installed" ELSE "discovered"]
Reload(r, p) ==
  process' = [process EXCEPT ![r].todo = @ \ {p}, ![r].registry = InUseIn(record')]
CheckImports(r, p) ==
  /\ IsAt(r, "imports") /\ p \in process[r].todo /\ RecordFree(p)
  /\ \/ /\ p \in unimportable
        /\ record' = InError(p, "dependency_error") /\ Reload(r, p)
        /\ UNCHANGED blindly
     \/ /\ p \notin unimportable /\ record[p].status = "dependency_error"
        /\ record' = Recovered(p) /\ Reload(r, p)
        /\ blindly' = IF DependenciesMet(p) THEN blindly ELSE blindly \cup {p}
     \/ /\ p \notin unimportable /\ record[p].status # "dependency_error"
        /\ process' = [process EXCEPT ![r].todo = @ \ {p}]
        /\ UNCHANGED <<record, blindly>>
  /\ UNCHANGED <<lifecycleLock, history, applied, unsure>>
  /\ EnvironmentUntouched /\ Quiet

NextStage(r, from, to) ==
  /\ IsAt(r, from) /\ process[r].todo = {}
  /\ process' = [process EXCEPT ![r].at = to, ![r].todo = process[r].registry]
  /\ UNCHANGED lifecycleLock /\ StoresUntouched /\ EnvironmentUntouched /\ Quiet
StartResources(r) == NextStage(r, "imports", "resources")
StartHooks(r) == NextStage(r, "resources", "hooks")

\* Menus and jobs of every plugin of the registry, each in its transaction.
SyncResources(r, p) ==
  /\ IsAt(r, "resources") /\ p \in process[r].todo
  /\ \/ /\ record' = [record EXCEPT ![p].served = TRUE]
        /\ process' = [process EXCEPT ![r].todo = @ \ {p}]
        /\ Quiet
     \/ /\ RecordFree(p) /\ record' = InError(p, "error")
        /\ Reload(r, p) /\ Trouble
  /\ UNCHANGED <<lifecycleLock, history, applied, unsure, blindly>>
  /\ EnvironmentUntouched

\* The onStartup hook of a plugin, and the onShutdown hook of an application
\* that once was the writer: it holds no lock any more.
RunHook(r, p) ==
  /\ process[r].at \in {"hooks", "shutdown"} /\ p \in process[r].todo
  /\ \/ /\ process' = [process EXCEPT ![r].todo = @ \ {p}]
        /\ Quiet /\ UNCHANGED record
     \/ /\ RecordFree(p) /\ Trouble
        /\ record' = InError(p, "error") /\ Reload(r, p)
  /\ UNCHANGED <<lifecycleLock, history, applied, unsure, blindly>>
  /\ EnvironmentUntouched

Started(r) ==
  /\ IsAt(r, "hooks") /\ process[r].todo = {}
  /\ ready' = "success"
  /\ process' = [process EXCEPT ![r].at = "serving", ![r].lost = FALSE]
  /\ Release(r)
  /\ StoresUntouched /\ Quiet /\ UNCHANGED <<unimportable, overlap>>
StartFails(r) ==
  /\ process[r].at \in {"defaults", "imports", "resources", "hooks"} /\ Trouble
  /\ ready' = "failed"
  /\ End(r)
  /\ StoresUntouched /\ UNCHANGED <<unimportable, overlap>>
\* The marker of a failure expires; a new deployment has a marker of its own.
MarkerGone ==
  /\ ready # "missing" /\ ready' = "missing"
  /\ UNCHANGED <<lifecycleLock, process, unimportable, overlap>>
  /\ StoresUntouched /\ Quiet
Shutdown(r) ==
  /\ IsAt(r, "serving")
  /\ process' = [process EXCEPT ![r].at = "shutdown", ![r].todo = process[r].registry]
  /\ UNCHANGED lifecycleLock /\ StoresUntouched /\ EnvironmentUntouched /\ Quiet
Stopped(r) ==
  /\ IsAt(r, "shutdown") /\ process[r].todo = {}
  /\ process' = [process EXCEPT ![r] = Resting]
  /\ UNCHANGED lifecycleLock /\ StoresUntouched /\ EnvironmentUntouched /\ Quiet

-----------------------------------------------------------------------------
\* Redis loses the key; the owner notices at the next renewal and is
\* cancelled, its open transaction rolled back and nothing else written.
LoseLock(r) ==
  /\ lifecycleLock = r /\ Trouble
  /\ lifecycleLock' = Free
  /\ process' = [process EXCEPT ![r].lost = TRUE]
  /\ StoresUntouched /\ EnvironmentUntouched
LossNoticed(r) ==
  /\ process[r].lost
  /\ process' = [process EXCEPT ![r] = Resting]
  /\ UNCHANGED lifecycleLock /\ StoresUntouched /\ EnvironmentUntouched /\ Quiet
\* A renewal that cannot reach Redis interrupts its owner as well.
RenewalFails(r) ==
  /\ lifecycleLock = r /\ Trouble /\ End(r)
  /\ StoresUntouched /\ EnvironmentUntouched
Killed(r) ==
  /\ ~IsAt(r, "rest") /\ Trouble
  /\ lifecycleLock' = IF lifecycleLock = r THEN Dead ELSE lifecycleLock
  /\ process' = [process EXCEPT ![r] = Resting]
  /\ StoresUntouched /\ EnvironmentUntouched
KeyExpires ==
  /\ lifecycleLock = Dead /\ lifecycleLock' = Free
  /\ UNCHANGED process /\ StoresUntouched /\ EnvironmentUntouched /\ Quiet
\* A package of the environment is removed, or installed again.
PackagesChange(p) ==
  /\ \/ p \notin unimportable /\ Trouble /\ unimportable' = unimportable \cup {p}
     \/ p \in unimportable /\ Quiet /\ unimportable' = unimportable \ {p}
  /\ UNCHANGED <<lifecycleLock, process, ready, overlap>> /\ StoresUntouched

PluginInit ==
  /\ lifecycleLock = Free
  /\ record = [p \in Plugins |-> NoRecord]
  /\ history = [p \in Plugins |-> "none"]
  /\ applied = [p \in Plugins |-> 0]
  /\ process = [r \in Processes |-> Resting]
  /\ ready = "missing" /\ unimportable = {} /\ troubles = 0
  /\ unsure = {} /\ blindly = {} /\ overlap = FALSE

Works(r) ==
  \/ Check(r) \/ Upsert(r) \/ Migrate(r) \/ Execute(r) \/ RecordOutcome(r)
  \/ Finish(r) \/ Report(r) \/ Enable(r) \/ Disable(r) \/ Purge(r) \/ Mark(r)
  \/ LoadRegistry(r) \/ StartResources(r) \/ StartHooks(r) \/ Started(r) \/ Stopped(r)
  \/ \E p \in Plugins :
       StartDefault(r, p) \/ CheckImports(r, p) \/ SyncResources(r, p) \/ RunHook(r, p)
PluginNext ==
  \/ \E r \in Operators, k \in Operations, p \in Plugins : Begin(r, k, p)
  \/ \E r \in Servers : BeginStart(r) \/ StartFails(r) \/ Shutdown(r)
  \/ \E r \in Processes :
       Works(r) \/ LoseLock(r) \/ LossNoticed(r) \/ RenewalFails(r) \/ Killed(r)
  \/ MarkerGone \/ KeyExpires
  \/ \E p \in Plugins : PackagesChange(p)
PluginFairness ==
  /\ \A r \in Processes : WF_pluginVars(Works(r))
  /\ WF_pluginVars(KeyExpires)
  /\ \A r \in Operators, p \in Migrating : SF_pluginVars(Begin(r, "mark", p))
PluginSpec == PluginInit /\ [][PluginNext]_pluginVars /\ PluginFairness

-----------------------------------------------------------------------------
(* Properties. *)

Stages == {"rest", "check", "upsert", "migrate", "execute", "executed", "failed",
           "finish", "report", "write", "defaults", "imports", "resources",
           "hooks", "serving", "shutdown"}
\* The values each part of the state ranges over; the lock is with a process
\* that is in the middle of an operation, with the dead, or free.
PluginTypeOK ==
  /\ lifecycleLock \in Processes \cup {Free, Dead}
  /\ lifecycleLock \in Processes =>
       process[lifecycleLock].at \notin {"rest", "serving", "shutdown"}
  /\ record \in [Plugins ->
       [known : BOOLEAN, installed : BOOLEAN, on : BOOLEAN, served : BOOLEAN,
        status : {"discovered", "installed", "error", "dependency_error"}]]
  /\ history \in [Plugins -> {"none", "running", "success", "failed"}]
  /\ applied \in [Plugins -> Nat]
  /\ process \in [Processes ->
       [kind : Operations \cup {"none", "start"}, plugin : SUBSET Plugins,
        at : Stages, todo : SUBSET Plugins, registry : SUBSET Plugins,
        lost : BOOLEAN]]
  /\ ready \in {"missing", "success", "failed"}
  /\ unimportable \subseteq Plugins /\ troubles \in 0..MaxTroubles
  /\ unsure \subseteq Plugins /\ blindly \subseteq Plugins /\ overlap \in BOOLEAN

\* A migration is applied at most once, whatever fails or is killed between
\* its commit and the record of it, unless the answer of that commit was lost
\* or two operations overlapped.
MigratedOnce == ~overlap => \A p \in Plugins \ unsure : applied[p] <= 1

\* An installed plugin has had its migration, and its history says so.
InstalledMeansMigrated ==
  ~overlap => \A p \in Migrating :
                record[p].installed => history[p] = "success" /\ applied[p] > 0

\* The plugins that a plugin in use depends on are installed and enabled.
\* The start of the application may bring a plugin back blindly.
DependenciesStay ==
  ~overlap => \A p \in Plugins \ blindly :
                InUse(p) => \A d \in Requires[p] : record[d].installed /\ record[d].on

\* Once the writer of a start has set its marker, every plugin in use is
\* served, whatever was enabled, disabled or marked as erroneous since.
ReadyMeansServed ==
  ready = "success" /\ ~overlap => \A p \in Plugins : InUse(p) => record[p].served

\* A plugin that is disabled, uninstalled, purged or cannot be imported shows
\* no menus and runs no jobs, however its operations and starts interleave.
MenusFollowTheRecord ==
  ~overlap => \A p \in Plugins :
                record[p].served => /\ record[p].installed /\ record[p].on
                                    /\ record[p].status # "dependency_error"

\* An installed plugin has been migrated, and once.
MigratedExactlyOnce == PluginTypeOK /\ MigratedOnce /\ InstalledMeansMigrated

\* The plugins that are served are those the records say are in use, and what
\* they need is in use as well.
ServedAsRecorded == DependenciesStay /\ ReadyMeansServed /\ MenusFollowTheRecord
=============================================================================
