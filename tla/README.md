# A TLA+ verification of Hephaestos

Hephaestos runs game servers on a Windows machine from a web dashboard. A
FastAPI backend (`app/`) keeps everything it knows in one JSON file; a
PowerShell agent (`agent/`) on the game machine is started by a scheduled task
every two minutes, reports the state of the servers, fetches *orders* with a
long poll, executes them one at a time and reports their verdicts. The backend
never calls the agent.

The modules here model the parts in which steps of several actors meet: the
orders, the automatic restart of crashed servers, the automatic updates of games and
of mods, what an order does to a running game, its saves and their backups, the
registry of the servers and its copy on the agent, accounts and sessions, and the
editor of configuration files. TLC checks them on small instances; TLAPS proves the
results listed under *Theorems* for every value of the constants.

To check: `tlc -config X.cfg M` with the module and configuration of a run,
`tlapm M.tla` for the modules named `...Proofs`. Section 3 lists the runs, and the
configurations that show what the code does not keep.

## 1. Inventory

| component | source | state it keeps | operations |
|---|---|---|---|
| order queue | `app/storage.py`, `routes_admin.py`, `routes_agent.py`, `agent/hephaestos-agent.ps1` | `orders`, `orders_expired_unnotified`, `servers_desired_state`; in the agent the ids attempted in the cycle | create, cancel, list, groom (expire, purge), GET, acknowledge, verdict, alert |
| crash recovery | `app/crash_recovery.py` | attempts, breaker and up-streak of each server | one pass over the registry in each GET |
| game auto-update | `app/game_updates.py`, `steam.py` | `game_auto` markers, cache of public builds | one pass in each GET, suspended on Steam |
| Workshop mods | `app/mods.py` | installed ids, metadata, `mods_auto` markers | batch update and its final restart, install, remove |
| deployment | `app/routes_deploy.py`, `routes_agent.py` | `status` of a registry entry, exe candidates | install, scan, setup, delete |
| registry and config push | `app/storage.py`, agent config | registry entries, hash of the config | adopt the agent's fields, edit, push, apply |
| agent lock | `agent/hephaestos-agent.ps1` | lock file with a time | test, take, steal, release |
| game process operations | `agent/hephaestos-lib.ps1` | process, files | stop, start, restart, update, restore as sequences of steps |
| save backup and restore | `agent/hephaestos-lib.ps1` | zip files | backup, prune, restore with a safety copy |
| file editor | `app/routes_files.py`, `static/app.js`, lib | copies of files with an expiry | list, read, write if the hash still matches |
| BepInEx mods | `app/bepinex.py`, `bepinex_sources.py`, `storage_bepinex.py`, lib | latest and installed versions, paths of each mod | check of the versions, update of several mods with rollback |
| accounts and sessions | `app/auth.py`, `routes_users.py`, `storage.py` | users, hashed sessions, failed logins | login, logout, create, delete, change role or password |
| player log | `app/storage.py` | open sessions, connection log, totals | one merge per report |
| state file | `app/storage.py` | `state.json` | write, fsync, rename, fsync of the directory |
| readers, clients, dashboard, metrics, packaging | the rest | none that matters here | I/O and rendering; what they return is an input of the models |

**How they interact.** The dashboard and the automatic passes create orders in
the store. `GET /api/agent/orders` first runs the three passes (crash recovery,
game updates, mods), then grooms the list, sends the alerts of what expired and
returns the live orders with the agent's config. `POST /api/agent/orders/{id}`
moves an order on, and a `done` also moves `servers_desired_state`, which crash
recovery reads; `POST /api/agent/state` feeds all three passes.

**What is hard.**

- *Atomicity.* Every `Store` method runs under one asyncio lock without an
  `await` of its own, and a handler that only calls the store never really
  suspends. The points where another handler can run are the network calls: an
  alert to the webhook (5 s), a call to Steam (15 s), the pause of the long
  poll. What was read before one of them is used after it.
- *Lost and late messages.* The agent gives up a request after a timeout; the
  backend may handle it all the same, later, after the order was closed,
  expired or purged. Only a 409 stops the agent from executing an order.
- *Crashes and restarts.* An agent that dies executing leaves the order
  `running`, and it is handed again. A backend that dies loses its handlers,
  among them alerts already taken out of the file, and may stop between two
  writes that belong together.
- *Several systems of record.* The date of a mod comes from a verdict or from a
  report, whichever arrives; the registry is fed by the wizard, the editor and the
  agent's first reports; the books of BepInEx and the files may part when a step fails.
- *Time.* Orders expire after 24 h and are purged after 7 days; attempts leave
  a sliding window of 60 minutes; automatic updates are 24 h apart.

## 2. Modules

| module | what it is | reads |
|---|---|---|
| `OrderStore` | the order list as plain data: groom, add, cancel, record | - |
| `OrderLifecycle` | abstract: what the queue promises about one order | - |
| `OrderQueue` | backend, wire and agent of the orders; implements `OrderLifecycle` | `OrderStore` |
| `CrashRecovery` | the loop report - poll - decision - start - verdict, with breaker and alert | - |
| `AutoUpdates` | the automatic update of games with overlapping GET handlers | - |
| `GameServer` | one game server of the agent: stop, start, restart, update, backup, restore, beside a game that lives its own life | - |
| `Mods` | Workshop mods of one server: dates, batches, requests that wait for Steam, the agent that executes them | - |
| `BepInEx` | the update of several BepInEx mods in one order, with rollback, beside the checks of their versions | - |
| `Registry` | entries of the registry between wizard, editor and agent; the configuration pushed to the agent | - |
| `Accounts` | accounts, sessions, logins, and the script that creates an account | - |
| `FileEditor` | a file read, edited and written by several admins beside the game | - |
| `OrderQueueProofs`, `AutoUpdatesProofs`, `CrashRecoveryProofs`, `ModsProofs`, `BepInExProofs`, `FileEditorProofs`, `RegistryProofs` | theorems and proofs | the module of that name |
| `AccountsAndSavesProofs` | theorems and proofs | `Accounts` and `GameServer` |
| `MCOrderQueue`, `MCCrashRecovery`, `MCAutoUpdates`, `MCGameServer`, `MCMods`, `MCBepInEx`, `MCRegistry`, `MCAccounts`, `MCFileEditor` | values of the constants for TLC | the module of that name |

### OrderStore and OrderQueue

State: `orders` is `data["orders"]`. The list is append-only between two
purges, so an order is named by its rank of creation, and the list is a
function from the ranks still listed. `unnotified` is
`orders_expired_unnotified`, `desired` is `servers_desired_state`, `active` the
registry entries whose status is `active`, `now` the clock in hours. `listing`
is the copy of the orders the agent has received, `alerting` the expiries popped
by the GET handler whose alert is not sent. `pc`, `cur`, `attempted`, `result`
are `Invoke-HephAgentCycle`; `late` the reports the agent gave up that are still
under way.

| action | code |
|---|---|
| `AddOrder` | `add_order`: groom, `reject_if`, append, in one write |
| `CancelOrder` | the DELETE route: `pending_orders` (which grooms), then `cancel_order` |
| `ListServers` | `GET /api/servers`, which grooms |
| `GetOrders`, `SendAlert`, `TakeNothing`, `TakeOrder`, `IgnoreOrder`, `GetFails` | `GET /api/agent/orders` up to its alerts, each alert, and what the agent makes of the response |
| `AnswerAck`, `GiveUpAck`, `MisreadAck` | `Set-HephOrderStatus ... running`: answered; timed out; timed out for an order whose id contains `409` |
| `FinishExecution`, `AnswerVerdict`, `GiveUpVerdict` | the switch on the order type, and the verdict |
| `LateReport` | a report given up by the agent reaches the backend after all; one that is lost is one for which this step never comes |
| `EndCycle`, `AgentCrash`, `BackendCrash`, `Tick` | the deadline of the drain, the two crashes, the clock |

The groom is part of every action that performs it, never a step of its own. A
refused `add_order` writes nothing (the exception leaves the update before the
write), so it is no step. The long poll's repeated look at the list between two
pauses is one look: nothing is held across the pause. Order types other than
those that change `desired` behave alike in this module; a `done` of a mod or
deployment order changes state of components not modelled here.

### CrashRecovery

`attempts`, `breaker`, `streak` are the three fields of `crash_recovery[name]`;
`queue` keeps only the live orders, oldest first (their whole life is the
subject of `OrderQueue`; an order too old to be live is not in it, and expiry,
after 24 h, is far from the 60 minutes of the window). `poll[h]` is the local state of
`auto_enqueue_crash_restarts` in one handler: the servers left to look at and what it
read before its first `await`. Each branch of the loop body is an action: `PassOver`,
`CountUp`, `ClearHistory`, `HoldBack`, `TripBreaker` (then `AlertSent`),
`AutoStart`, and `KilledBeforeOrder` for a backend that dies between
`set_crash_recovery` and `add_order`. While a handler is at "run" the event loop is
taken (`EventLoopFree`); only the alert lets others run. The webhook is
configured; without one the handler does not suspend, which is the behaviours
where `AlertSent` comes at once.

Handlers overlap, as in `AutoUpdates`: an agent that died, or whose GET took longer than
it waits (`GetFails`), leaves its handler behind, which goes on with what it read;
`awaited` is the one whose answer the agent still wants. Nothing in the route prevents
this, and a handler suspended on a breaker alert queues a start for which another has
queued one meanwhile: the pile-up is bounded by the handlers in flight and not by one
(`PileUpBounded`; section 3 has the counterexample to `NoPileUp`).

A sequence of attempts at the same tick is told apart by `rank`, as the code's
timestamps are by their microseconds. `autos`, `alerts`, `upReports`, `loop`
are history: what was really started, alerted and reported in the episode.

### AutoUpdates

`players` and `local` are the fields of `servers[name]` that the pass reads,
`marker` is `game_auto[name]`, `public` the build Steam publishes. `handler[h]`
is one GET in flight: an agent whose GET timed out (45 s) goes on, and its next
cycle sends another while the first still waits for Steam. `HitCache` and
`Fetch`/`Fetched` are the two cases of `public_buildid`: a cached build of at
most 15 minutes, or a suspension and then any build published so far, or none.
`Enqueue` is `add_order` and `set_game_auto_marker`; `KilledBeforeMarker` is a
backend that dies between the two. Hours do not pass while a handler is in
flight: it lasts seconds.

### GameServer

One server and its live order. `proc` is the game process: asked to end it is
"closing" and saves before it ends, killed by `taskkill /F` it does not; it saves,
crashes, hangs and ends between any two commands of the agent (`Play`, `Flush`,
`End`, `GameCrash`). `live`, `save` and `zips` hold worlds: the one in memory, the one
in the saves directory, and one for each backup, numbered in the order of their
names, on which the purge sorts. `at` is the next command of the agent:

| action | code |
|---|---|
| `Begin` | the switch on the order type; a restore looks for its zip before it stops anything |
| `StopThrows`, `NothingToStop`, `AskToEnd`, `SeenDown`, `WaitTimesOut` | `Stop-GameServer`: no password, no process, the request of each adapter (with `/F` when RCON fails), the end of the process, the 120 s of `Wait-Process` |
| `BackUp`, `BackupFails`, `DailyBackup` | `Backup-GameSave` with its purge, for an order and at the end of a cycle |
| `RunSteam`, `SteamThrows` | `Update-GameServer` after its backup: a success, a failure that starts the old version, an exception that leaves the game down |
| `Clear`, `Extract`, `ExtractFails` | `Restore-GameSave` after its safety copy |
| `Launch`, `FoundRunning`, `StartFails` | `Start-GameServer`: a new process, one that is already there, none after 60 s |
| `Report`, `LoseReport`, `AgentCrash` | the verdict; a lost one and a dead agent leave the order live, and it is run again |

Errors of `Remove-Item` do not stop the script, so clearing beside a live process
leaves some files (`Broken`). The scheduled task that runs the game ignores a second
start while the process exists, whence `FoundRunning`. An agent killed over a zip
leaves a torn one, over an extraction broken saves. The password of `palworld-rcon`
is read only if the game runs, that of `rcon-generic` is wanted always. Two cycles of
the agent in parallel (a stolen lock) are not modelled here.

### Mods

`installed`, `meta` are `mods_state` and `mods_metadata`; a date is the number of
publications before it, so that what happens between two of them bears the same one.
`vacant` and `up` are what the last report says of players and process. `call[c]` is a
request suspended on Steam: the automatic path of `GET /orders`, the button, the
dashboard's list, an install. The two module-level timers (`cooling`, `fresh`) elapse
when they like.

| action | code |
|---|---|
| `StartCall`, `BulkAnswer`, `ItemAnswer` | `auto_enqueue_mod_updates`, `update_all_mods`, `build_mods_entry_fields` up to Steam, and what follows its answer in one go: the dates, the second look (`MayEnqueue`, `Targets`), the orders and their restart (`Enqueue`), the titles |
| `InstallMod`, `InstallAnswer`, `InstallFails`, `RemoveMod`, `CancelOrder`, `Expire` | the routes, and the groom |
| `Execute`, `Verdict`, `Report`, `ReportLost`, `AgentCrash` | the agent: an install that fails may have removed the old copy; the verdict dates the mod (`Stamped`), the report fills in what has no date and drops what is gone (`StateUpdated`) |
| `Publish` | an author publishes |

`unstamped`, `overtaken`, `unheard`, `owed` are history: what was written and not dated
since; what was published again meanwhile, or lost its date with its entry; the orders
executed whose verdict the backend did not hear; what a batch still owes to its restart.
An install executed twice because its verdict was lost (`unheard`) may come after the
restart of its batch: its mod is then excused from `owed`, since the code adds no other
restart. A restart that fails, is cancelled or expires excuses all.

### BepInEx

The files of a mod are known by where they lie, since BepInEx loads all it finds: a
file, a folder, or a folder copied inside a folder of the same name. The order freezes
versions and paths (`Payload`). `Begin` is staging, stop and backup; `Replace` removes
all that must go and copies the mods of `done`, all of them or those before an exception,
then `RollBack`; `Verify` is the start and the log of the Chainloader. `Restored`
overwrites and removes nothing, as the code says of itself. `Verdict` moves the books
(`set_installed`) if the order is still live.

Few failures are exceptions here. The agent sets no `$ErrorActionPreference`, and
`Remove-Item` and `Copy-Item` do not stop the script: a path that is locked or cannot be
written is passed over, in the removal (`stuck`), the copy (`lost`), the backup (`saved`)
and the restore (`works`); `$written` lists it all the same, and the check afterwards
compares the names of plugins and not their versions, so that the order may be `done`
with old files, or with both. A stop may also give up after 120 s and leave the game
alive (`agent.live`), which locks any of its files from then on; without it, a file that
cannot be touched counts as a fault. `silent` is history: the mods of the present
execution with such a file.

What no verdict tells of is in `unsure` and `leftover`, the exceptions of the two
properties. `unsure`: a mod with a file that was not removed, copied, saved or restored
in silence; an execution interrupted, or withdrawn once begun, or whose verdict was lost.
It is left by a success that fails none of the mod's files and finds none left over.
`leftover`: the new files of a plugin that moved may be beside the old ones, after a
rollback, an interruption, a withdrawal, or a removal that did not work. A folder of a
later version is then copied inside the one left, so that the success of that order says
nothing of what lies at the path of the books (`Verdict` keeps such a mod in `unsure`).

A check of the versions asks one mod after the other; the button starts another without
waiting for the one under way.

### Registry

`entry` is `servers_registry`; of the agent's fields, the process (which the wizard
derives from the executable) and the arguments are kept. `Deploy`, `Adopt`, `SetUp` are
the wizard, `EditArgs`, `EditStatus` the editor, `Report` the report with its adoption,
`Poll` the GET with `Update-HephServersFromBackend`, `Execute` the three orders of the
wizard, `Verdict` the status they move. `task` is the scheduled task, created when there
is none and never replaced. `SetUp` writes the registry before the order is refused or
made, as the code does. `filed`, `refused`, `kept`, `forced` are history: the executable of
the last setup that became an order; the servers whose last setup was refused after it had
written the registry; those whose task was there already, for another executable; and
those whose status was changed by hand while an order was live.

### Accounts

A handler with its authentication is one action: none of the calls it awaits suspends
(the lock of the `Store` is never held across a suspension, bcrypt runs on the event
loop). `LetIn` is `require_admin`: the purge every so many requests (`Seen`), the
session, its renewal. `create-user.py` is another process: `ScriptLoads` and
`ScriptWrites` are two steps, and what happened between them is lost (`rolledBack`).
`version[u]` counts creations and changes of password of a name. The definitions that
`GameServer` also has (`Init`, `Next`, `Spec`, ...) bear the prefix of the module, since
`AccountsAndSavesProofs` extends both.

### FileEditor

A content is a number and its own hash. `OpenFile`, `LoadDetail`, `SaveFile` are the
dashboard, `PostWrite` a client of the API that sends the hash it was given. The agent's
steps on the file are separate (`ReadBytes`, `ReadHash`, `CheckHash`, `CopyAside`,
`Replace`), because the game writes its files when it likes. A `Copy-Item` to the backup
file that fails does not stop the script (`"uncopied"`): the file is replaced without one;
a `Move-Item` that fails leaves the old file behind a `done`. Every request counts
towards the purge (`Requested`); the counter goes with the process (`BackendRestart`).

## 3. Runs

| run | configuration | result | question |
|---|---|---|---|
| `order_delivery` | 2 orders (start, stop), 1 server that is switched off and on, 2 faults, no clock | 2.6 M states, pass | are orders begun in order, out of the admin's reach once begun, begun again only after a fault; does the desired state tell what was last done? |
| `order_expiry` | 2 starts, 1 fault, expiry after 1 h, purge after 2 h, 4 hours, fairness | 0.3 M, pass | does the queue implement `OrderLifecycle`; is no expiry silent; is every order closed and every recorded expiry alerted? |
| `crash_recovery` | 2 servers, 2 handlers, window of 1, 1 attempt, 1 fault, 1 tick | 2.6 M, pass | one alert an episode, no more automatic starts than handlers and one for the first server, whose stop is respected |
| `crash_recovery_liveness` | 1 server, 2 handlers, 2 attempts, 1 fault, 2 ticks, auto-restart switched off and on, fairness | 0.4 M, pass | are automatic starts bounded in each window, is every crash dealt with? |
| `auto_updates` | 1 server, 2 handlers, 2 builds, cooldown of 2 h, 5 hours, 1 kill | 0.1 M, pass | cooldown, uniqueness and empty server for automatic updates |
| `game_server` | 2 adapters, 2 zips kept, 4 orders or daily backups, 2 worlds, 1 fault, fairness | 1.3 M, pass | do backups hold the last saves, can a restore be undone, is "done" true, does every order get its verdict? |
| `mods` | 1 mod, 2 requests in flight, 2 publications, 3 orders, 1 fault | 2.5 M, pass | is no mod queued twice, is every batch applied by its restart, is an automatic install right, is no update missed? |
| `bepinex` | 2 mods (one in the root), 2 versions, a file and then a folder, 1 check in flight, 2 orders, 1 fault | 1.1 M, pass | do books and files agree after any failure, is a mod loaded once, does the latest version never go back? |
| `registry` | 1 seeded server and 1 new, 2 executables, 3 orders, 2 edits, 1 fault, fairness | 1.0 M, pass | has the admin the last word, is a server never taken back, does it run the executable last accepted, does the agent's configuration converge? |
| `accounts` | 2 names, 2 sessions, 4 changes, 4 half-days | 1.9 M, pass | does an admin remain, are sessions current, do they slide? |
| `file_editor` | 2 clients, 1 file, 3 contents, 3 orders, 1 fault, copies and moves that fail at will | 2.7 M, pass | is nothing overwritten unseen, does what was read in clear go? |
| `dashboard_save` | the same | violation | does the dashboard save a file it shows? |

Why the bounds suffice. Two orders are what replay, reordering, doubling and
cancelling need: each property relates at most two. Two faults let a
report be lost and its retry fail, or a late report meet a crash; the expiry run
keeps one, since the clock adds its own interference, and four hours allow an
order to be created, expire, be purged and be reported late. In crash recovery
two servers are what a suspension between them needs, and a window of one tick
lets attempts enter, leave and be made again. Two handlers are what an
overlap needs, here and in the automatic updates; a clock of twice the cooldown allows three automatic updates of one
server. For the game server, two kept zips and four orders are what it takes to fill
the backups, restore the oldest and make one more; `palworld-rcon` and `rcon-generic`
contain the behaviours of the two other adapters (what `generic-force` does,
`palworld-rcon` does when its RCON fails; what `generic-graceful` does, `rcon-generic`
does when its RCON works). One mod and two requests are what two batches that overlap need (a second mod
adds no interference: nothing relates two mods but the order of the batch), and two
publications one that comes before and one after a download. Two mods are what a partial failure needs, and two
versions, of which the first is a file and the second a folder, what a plugin that moves
needs. A plugin that is then updated where it moved to needs a third; with it one mod at a
time, in the root or not and with either layout first, was checked apart (three orders, two
faults, 0.2 M states), and it is such a behaviour, a folder nested in a leftover one, that
gave `BooksMatchDisk` its exception for `leftover` when its proof met it. The run
has one check of the versions in flight; that `LatestNeverBack` excepts nothing but an
overlap, for any number of checks, is what `LatestKept` proves. Two
sessions and four changes let an account be deleted, its name taken again and logged into
while the other session goes on. Every bound (`MaxOrders`, `MaxHour`, `MaxFaults`, `MaxQueue`, `MaxTime`,
`MaxBuild`, `MaxPlay`, `MaxEdits`, `MaxSessions`, `MaxChanges`, `MaxContents`, `Callers`, `Clients`,
`Switched`, `Toggled`, `Tracked`, `Buttons`, `Handlers`) is a named
constant and appears in a guard. Deadlock checking is off in `GameServer`, `Mods` and
`Registry`, where the bounded number of orders lets the system stop, on in the others.

### Disagreements between the code and what it says of itself

One is a run of its own:

- `dashboard_save` (`SaveAfterRead`): `saveFile` looks for the hash of the file in the
  list of the servers, where it never is (`GET /detail` alone has it), and always asks
  to read the file again. The editor of the dashboard cannot save; the API can.

The others are configurations to run by hand. Each checks one property that a comment,
a docstring or a test states and the code does not keep:

| `tlc -config` | module | property | what the code does |
|---|---|---|---|
| `MCOrderQueue409.cfg` | `MCOrderQueue` | `DroppedOnlyIfClosed` | `Set-HephOrderStatus` tells a 409 by looking for "409" in the text of the error, and that text quotes the URL, hence the order's id: a timeout of the acknowledgement makes the agent drop such an order for the cycle. |
| `MCCrashRecoveryLoop.cfg` | `MCCrashRecovery` | `CrashLoopStops` | The up-streak counts polls, not reports: several GETs of one cycle read the same report, and one report of uptime erases the history. |
| `MCCrashRecoveryStop.cfg` | `MCCrashRecovery` | `StopRespected` | Stops and live orders are read once, before the alert on an earlier server is awaited. `FirstStopRespected` holds: the first server of the registry is safe. |
| `MCCrashRecoveryPile.cfg` | `MCCrashRecovery` | `NoPileUp` | "un ordre (start/stop/restart/update...) deja en file resout deja la situation -- ne pas en empiler un second par-dessus" (`crash_recovery.py:69-70`): the handler of a later cycle queues a start of the second server while an earlier one awaits the alert on the first, and the earlier one then queues another, of what it read before. |
| `MCBepInExWritten.cfg` | `MCBepInEx` | `WrittenIsThere` | "Retourne la liste des chemins relatifs ... reellement ecrits" (`hephaestos-lib.ps1:2192-2195`): a path is listed whether or not its copy worked, and the books follow. |
| `MCRegistryNames.cfg` | `MCRegistry` | `RegistryNamesTask` | A setup refused because one is live has already written its executable in the registry, which from then on names what does not run. `ActiveRunsItsExe` says what holds. |
| `MCFileEditorBackup.cfg` | `MCFileEditor` | `BackedUp` | "sinon backup .hephaestos-bak ... puis ecriture atomique": a copy that fails raises no exception; the file is replaced, and the verdict says that a backup was made. |
| `MCAutoUpdatesPending.cfg` | `MCAutoUpdates` | `NeverOnTop` | The live orders are read before Steam is asked and not again, unlike the players (`NeverWithPlayers`) and the marker (`CooldownHeld`). |
| `MCGameServerStop.cfg` | `MCGameServer` | `EndAwaited` | After 120 s `Stop-GameServer` goes on, in silence or right after `taskkill /F`. `BackupHoldsSaves` and `DoneMeansDone` hold but for this case, which they name (`late`). |
| `MCGameServerSource.cfg` | `MCGameServer` | `SourceKept` | Restoring the oldest of `backup_keep` zips fails and destroys it: the purge after the safety copy removes it first. The saves remain in the safety copy (`SafetyCopy`). |

Three more are definitions of the new modules, to be put under `INVARIANT` (the second
under `PROPERTY`) in place of the properties of the module's configuration:
`BepInEx!NoDoubleLoad` (a rollback leaves the new files of a plugin that moved beside the
old ones: it is loaded twice; the code calls what is left harmless),
`Mods!ReportKeepsPending` (removed and installed again before a report, a mod loses its
entry although its install waits), `Registry!TaskReady` (a second set-up with another
executable says the task is ready, and the task is the old one).

Seen while modelling, and named by the properties that would otherwise fail: a batch
that finds a restart already queued ends without one of its own, and its mods are then
applied by nothing (`BatchApplied`), and so is a mod whose install is executed again, its
verdict lost, after that restart; a batch, of the button or automatic, may install again a
mod removed while Steam was asked (five orders show it, more than the run has); a field erased by the admin before the agent's first report is filled in
again (`AdminHasLastWord`); an adopted game whose scan fails can be neither set up nor
adopted again; a BepInEx order that is replayed and fails at its staging says that no
file was changed, though its first execution changed some; after the rollback of a plugin
that moved from a file to a folder, the next version's folder lands inside the one left, and
the books follow its success although the path they name holds the older version
(`Copy-BepInExPayload` copies onto what is there, `BooksMatchDisk` excepts it); a mod of which a file was locked is reported `done`, with its old
files or with both (`BooksMatchDisk` and `LoadedOnce` except it); a write replayed after a lost
verdict is refused and reported so, though it was done; `create-user.py` writes back what
the backend has changed meanwhile, revocations included (`SessionsCurrent`).

### Fairness

`OrderQueue`: weak fairness of `StartCycle` (the scheduled task), of the agent's and
backend's own steps (HTTP calls have timeouts, executions end, an alert takes 5 s
at most), and strong fairness of `EndCycle`, because the drain is bounded by a
wall-clock deadline of 100 s tested at every turn: it cannot be put off for ever by
orders that keep coming. There is no fairness on the clock, the admin, crashes or
late reports. `CrashRecovery`: the same for the agent, and strong fairness of each alert and
answer, since the event loop lets every handler have its turn.
`GameServer`: the agent's commands return, since every wait in them has a time limit;
nothing is assumed of the game. `Registry`: weak fairness of the report, the poll and the
verdict, which the scheduled task brings every two minutes; none of the admin, nor of an
answer that arrives. `AutoUpdates` claims nothing under fairness: an update that Steam never confirms
need not happen; neither do the four other modules, whose properties are of safety.

## 4. Theorems

Proved by TLAPS for any servers, bounds and settings that satisfy the named
assumptions of the modules (`BoundsAssumption`, `HoursAssumption`,
`RegistryAssumption`, `SettingsAssumption`), and from nothing else.

| module | theorem | what it says |
|---|---|---|
| `OrderQueueProofs` | `TypeCorrect` | `TypeOK` |
| | `StartedOrdersSafe` | `StartedNeverCancelled`: an order acknowledged in time is never pending again nor cancelled |
| | `ExpiriesTraced` | `ExpiryNeverSilent`: an expired order waits for its alert or was alerted, at one of these places only, unless the backend crashed with alerts in hand |
| | `LifecycleImplemented` | `ImplementsLifecycle`: the queue refines `OrderLifecycle` |
| | `DesiredFollowsEffect` | `DesiredIsEffect`: the desired state is what the last launch or stop did |
| | `BegunInCreationOrder` | `InOrderPerServer`: orders of one server are begun in the order of their creation |
| | `ExecutedOnce` | `RunOnce`: without a fault no order is executed twice |
| | `ReplaysPaid` | `ReplaysNeedFaults`: every execution of an order beyond its first is paid by a fault of its own |
| | `ButtonsNeverDouble` | `AdminOrdersUnique`: of two live orders of one kind the younger is not a button's |
| | `DropsAreRefusals` | `DropsExplained`: a live order is let go before its execution only by an agent that dies, or for an id that holds "409" and an acknowledgement without answer |
| `CrashRecoveryProofs` | `TypeCorrect` | `TypeOK` |
| | `StartsBounded` | `AutoStartsBounded`: at most `MaxAttempts` automatic starts of an episode in any window |
| | `AlertOnce` | `OneAlertPerEpisode` |
| | `PileUpIsBounded` | `PileUpBounded`: no more automatic starts of a server in the queue than handlers, one for the first |
| | `FirstStopHeeded` | `FirstStopRespected`: the first server is not started against a stop |
| `AutoUpdatesProofs` | `TypeCorrect` | `TypeOK` |
| | `CooldownAlwaysHeld` | `CooldownHeld` |
| | `UpdatesUnique` | `OneAutoUpdate` |
| | `PlayersRespected` | `NeverWithPlayers` |
| `ModsProofs` | `TypeCorrect` | `TypeOK` |
| | `InstallsAreSingle` | `OneInstallPerMod`: no mod has two installs in the queue |
| | `BatchesAreApplied` | `BatchApplied`: no mod of a batch stays unloaded once no restart is left |
| | `UpdatesAreShown` | `NoMissedUpdate`: a mod behind the date of Steam is shown as behind |
| | `AutoUpdatesAreProven` | `AutoInstallsProven`: only empty servers and mods really behind are updated automatically |
| `AccountsAndSavesProofs` (saves) | `TypesHold` | `TypeOK` |
| | `BackupsHoldSaves` | `BackupHoldsSaves`: the pre-update and pre-restore zips hold the last saves |
| | `RestoreCanBeUndone` | `SafetyCopy`: what a restore cleared stays in a zip until `backup_keep` newer ones exist |
| | `VerdictsAreTrue` | `DoneMeansDone` |
| | `BackupsBounded` | `ZipsBounded`: at most `backup_keep` zips, and one for each time the agent died |
| `BepInExProofs` | `TypeCorrect` | `TypeOK` |
| | `BooksFollowDisk` | `BooksMatchDisk`: the files at the paths of the books have the version of the books, but for the mods in `unsure` |
| | `ModsLoadedOnce` | `LoadedOnce`: a mod in neither `unsure` nor `leftover` lies in one place |
| | `LatestKept` | `LatestNeverBack` |
| `AccountsAndSavesProofs` (accounts) | `TypeCorrect` | `AccountsTypeOK` |
| | `AdminKept` | `AdminRemains`: once there is an account, one of them is an admin's |
| | `SessionsFresh` | `SessionsCurrent`: no session survives its account or its password |
| | `Sliding` | `SlidingExpiry`: a session ends a lifetime after its last request, or at most a throttle before |
| `FileEditorProofs` | `StaleReadsPurged` | `StaleReadsGo`: no round of requests finds what should have been purged |
| | `NothingLostUnseen` | `NoUnseenOverwrite`: a write replaces what its author was shown, and the backup has it unless its copy failed |
| `RegistryProofs` | `LastWordKept` | `AdminHasLastWord` |
| | `ActiveIsKept` | `ActiveStaysActive`: no late confirmation takes an active server back |
| | `ExeIsRight` | `ActiveRunsItsExe`: a server runs the executable of the last setup accepted, which the registry names unless a later one was refused; not for `forced`, `kept` and seeded servers |

**Order queue.** `TypeOK` is inductive once it is known what grooming does to a list
(`GroomedValue`: which orders it keeps and which it closes), since every action that
reads the list may groom it first. `StartedNeverCancelled` alone is not inductive: a
new order must not be one of those already acknowledged. `StartedInv` adds that
these were created, and the list never gives a rank twice.

- *Expiry.* `ExpiryInv` adds that the orders in the three places an expiry goes through
  are created and closed: one that expires now is then in none of them, and is not
  alerted twice.
- *Refinement.* The stage of an order is a function of the list and of what was run.
  One lemma for each step of `OrderLifecycle` (`MapsToTidy`, `MapsToSubmit`,
  `MapsToBegin`, `MapsToAcknowledge`, `MapsToConclude`, `MapsToStutter`) says which
  change of the list it stands for, and `LifeStep` sorts the actions among them. The
  one thing to know of the state is `RanInv`: only what the agent ran waits for its
  verdict, or has one under way.
- *Desired state.* While there is no fault, only the verdict in hand separates the
  desired states from their effect (`Foreseen`, `EffectInv`), the agent's copy of an
  order has the type and server of the listed one (`CopyInv`), and no report is under
  way on its own (`LateInv`).
- *Order of execution.* The agent takes the oldest order of its list not attempted in
  this cycle, and GETs a new list each time. `DrainInv` says why this is the order of
  creation: what is older than an order in hand or begun is closed or was passed over
  (`OlderPassed`, `BegunInOrder`), what a list lacks is younger than all it has
  (`LackIsYounger`), and an order begun is in no later list once its verdict is in
  (`BegunOnce`), which is also why none is executed twice.
- *Replays.* With faults, `PaidInv` is a balance: the executions, and the orders already
  run that the agent may still be led to run again (`Replayable`: live, or in the list in
  its hands, but for the one it executes), are at most the orders run and the faults. A
  replay takes its order out of `Replayable`, and only a fault puts one in (`ReachStep`,
  `BeginStep`): a verdict that arrives closes its order.

**Crash recovery.** `Typed` adds to `TypeOK` what a suspended handler remembers: the
servers it has left are the end of the registry, and an alert is only awaited past the
first of them.

- *Starts bounded.* The attempts recorded are pruned and counted by the code, the
  starts really queued are history. `BoundInv` links them: at most `MaxAttempts` are
  recorded, and every start still in the window is among them. A backend that dies
  between the two writes records an attempt too many, never one too few; the clock
  only takes starts out of the window.
- *Pile-up.* A handler looks at what it read before it was suspended. `Roomy` is a
  balance: the automatic starts of a server in the queue, and the handlers in flight that
  still have to look at it and read no order of it, are at most as many as the handlers;
  for the first server, at most one, since no handler is suspended before it. A handler
  that queues a start leaves that set, and none enters it while a start is in the queue;
  each passes a server once (this is where `RegistryAssumption`, a registry without
  duplicates, is needed).
- *First stop.* `Fresh` says that what was read is still so as long as the handler is
  at the first server; past it, `PastFirst` shows that it is not met again.
- *One alert* is inductive together with `Typed`.

**Automatic updates.** `UpdateInv` joins three facts to the properties. `Covered`: an
automatic update in the queue while a handler is in flight was there when that handler
read the queue, or has left its marker at the present hour, as no hour passes in
flight. `Asked`: a handler waits for Steam only about a server it saw no order of.
`Dated`: the marker is the hour of the last update written with one. A decision that
finds the cooldown over therefore finds no automatic update in the queue, however many
handlers overlap (`ChosenFresh`), and this is why re-reading the marker after the
answer of Steam, as the code does, is enough for uniqueness.

**Game server.** Each command relies on what those before it established, and none of
this is in the properties: `IInv` adds which orders reach each command (`Dispatched`),
that the game is down from the end of an awaited stop to the start (`Ended`), and that
the zip to restore is still the one chosen (`SourceIsChosen`). The purge is handled by
`NewestSurvives`, a counting argument: names are numbers up to `made`, so fewer than
`Keep` of them can follow one that is less than `Keep` from `made`. How many zips it
leaves (`NewestAreFew`) is another: the oldest of those it keeps (`OldestZip`, from the
well-foundedness of inclusion among finite sets) is followed by all the others it keeps,
and by fewer than `Keep`. The steps that do
not matter to an invariant are sorted into kinds once (`StepKinds`), by what they do to
the agent's place.

**Workshop mods.** `IInv` is the type invariant and four others, one for each part.

- *Queue.* What is added to the list is numbered from `made + 1` (`Numbered`), has one
  place for each mod (`SetToSeqFacts`, `BatchFacts`) and no install of a mod that has one:
  a batch leaves out the mods seen live at the second look, the button refuses. One lemma
  for each way the list changes says which orders it holds afterwards (`Added`, `Removed`,
  `Marked`, `WithoutFacts`); the invariant that they all keep is `QueueOK`, the orders in
  the order of their numbers and one install for each mod.
- *Batches.* `BatchApplied` alone is not inductive: a mod may be loaded now and replaced
  on disk by the next install. `OwedOK` adds that each install of an owed mod, if not
  executed yet or heard of since, has a restart behind it, that the agent executes the orders in
  the order of the list (what it passed over it has tried, and what it has tried is
  `unheard`), and that a restart done has loaded what is on disk: when its verdict takes
  it out of the list, nothing of the batch is left to apply.
- *Dates.* `Dates(w)` says of each mod where the four dates stand. A copy with a date
  and not overtaken is the last one published, or older than a version published after
  that date; and Steam's date is either not after the copy, or after `installed_at`. The
  verdict dates only a copy that had no date (`DatesOK`), since no report comes between
  an execution and its verdict; the first report dates one whose verdict never came.
- *Automatic batches.* A step that adds orders for the automatic path has looked at the
  players after the answer of Steam, and `Dates`, after the step, turns "Steam's date is
  after `installed_at`" into "the copy is behind what Steam has".

**BepInEx.** An order freezes the paths of its mods, and the books move only with its
verdict: what the agent removes is therefore where the books say the files are
(`OrderPaths`, `AgentOrder`, also for an order enqueued while a withdrawn one is still
executed). `DiskInv` says what is on disk at each place of the agent, of the mods that are
not in `unsure`. Before the replacement and after a rollback the files fit the books
(`Fits`); once all is replaced, those of the order are where its versions go, but for those
in `silent` (`Landed`), and the others fit. The backup of a mod is what was on disk, or
nothing: a rollback puts back the one, and the other is in `unsure`. What a removal takes
along is no more than what is nested in the paths removed (`OnlyUnder`). A mod that did not
move has its new place where the old one was: the only files left beside others are those
of a mod in `Moved`. `LatestInv`: what a source answers is at least what it answered before, so a
check that is alone brings nothing older than what is shown.

**Accounts.** The admin who acts remains one, unless it demotes itself, where the code counts
the admins first and another is left (`AnotherAdmin`); nobody deletes itself, and the
script creates an admin, whatever older state it writes back. `SessionsCurrent` is about sessions that still let someone in; `Current`
says it of every session in the file, expired or not, since a renewal or a purge decides
by the date alone. `SlidingExpiry` needs `Used`: no use lies in the future.

**File editor.** The hash a client sends is that of the content it was shown only if the
two were read of one version of the file and travelled together. `OverwriteInv` follows
the pair from `Get-Content` and `Get-FileHash` to the verdict (`Midway`), the backend's
copy and the editor (`Seen`) and the order (`Queued`); a file the game wrote in between
is in `raced`, the exception the property names. `Counted` bounds the requests that
found a stale read by those made since the last purge.

**Registry.** `WordHeld` adds that what the admin wrote is a value until the agent has
reported, so that the one adoption does not fill it in. `ActiveStaysActive` rests on
`Staged`, a live order of the wizard is one of the present stage of its entry, and on
`Filed`, two live orders have different identifiers and different subjects: a verdict
therefore closes the only order that could have moved the entry. `OneExe` says that for
a server the wizard alone has dealt with and whose task is not an older one (`Honest`), the
live order, the order under execution as long as it is live (`Started`) and the task once
the server is active name the executable last filed, and so does the entry unless the
last setup was refused: what a refused setup changes is the registry alone.

## 5. What is only model-checked, and what is not modelled

Liveness (`ActiveOrdersClose`, `ExpiriesAlerted`, `CrashesHandled`, `OrdersGetDone`,
`ConfigConverges`) is checked and not proved: reasoning about ENABLED and fairness is out
of the prover's reach. Every other property of a passing run is a theorem. The type
invariant of `Mods`, `BepInEx`, `Registry`, `Accounts` and `FileEditor` is stated in each
and holds in the same instances; it is not in the listed runs, which are kept to properties
that could fail (those of `Accounts`, `BepInEx` and `Mods` are proved). `AdminOrdersUnique` (`OrderQueue`) and `ZipsBounded` (`GameServer`) are proved
and in no run either.

Left out on purpose: the text of details and alerts, uuids (but for the `409` in
them), author names, the contents of orders, the agent's token, and the readers of
game state (RCON, A2S, logs, manifests), whose answers are inputs.

Not modelled:

- *Agent lock*: the lock file and two cycles in parallel. Every model of the agent
  assumes one cycle at a time; a model of the lock would say when that fails (a lock
  older than ten minutes is stolen unless steamcmd runs), and two cycles would have to be
  put in each of the others to say what follows.
- *Player log*: one merge of a list per report, by one actor.
- *State file*: write, fsync, rename, fsync of the directory. What a power cut leaves is
  decided by the file system; the models take a write of the `Store` as atomic.
- `list_files`, the searches of games and mods, metrics, the rendering of the dashboard
  and the container's entry point: they keep no state that another part depends on.

To come, if this development goes on: the agent lock.
