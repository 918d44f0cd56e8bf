----------------------------- MODULE GameServer -----------------------------
(***************************************************************************)
(* What the agent's orders do to one game server, its saves and their      *)
(* backups (hephaestos-lib.ps1): Stop-GameServer with its four adapters,   *)
(* Start-GameServer, Restart-, Update- and Restore-GameSave, Backup-.      *)
(*                                                                         *)
(* The game is a process of its own: it plays on, writes its saves when it *)
(* likes and ends when it likes, between any two commands of the agent.    *)
(* The agent runs one order at a time (OrderQueue models how it gets them) *)
(* and starts it over when it died, or when its verdict was lost.          *)
(***************************************************************************)
EXTENDS Integers, FiniteSets, Functions

CONSTANTS
  Adapters,    \* the values of stop_adapter considered
  Keep,        \* backup_keep
  MaxOrders,   \* bound: orders sent and daily backups
  MaxPlay,     \* bound: worlds the players make
  MaxFaults    \* bound: crashes of the agent or the game, lost verdicts

ASSUME BoundsAssumption ==
  /\ Adapters \subseteq {"palworld-rcon", "rcon-generic", "generic-graceful",
                         "generic-force"}
  /\ Keep \in Nat \ {0}
  /\ MaxOrders \in Nat /\ MaxPlay \in Nat /\ MaxFaults \in Nat

\* What a saves directory, the memory of a game or a zip holds: a world the
\* players made (1, 2, ...) or one of these.
Nothing == 0
Blank   == -1    \* the world a game makes when it finds no saves
Broken  == -2    \* the files of an extraction that was cut short
Torn    == -3    \* a zip cut short: it cannot be extracted
Worlds == {Blank, Broken} \cup (1..MaxPlay)

StopTypes  == {"stop", "restart", "update", "restore_save"}
OrderTypes == StopTypes \cup {"start", "backup"}
NoOrder    == [type |-> "none", file |-> 0]

VARIABLES
  adapter,   \* stop_adapter of the registry
  \* the machine
  proc,      \* the game: "down", "up", "closing" (asked to end), "killed" (/F)
  live,      \* the world in its memory
  save,      \* the world in its saves directory
  zips,      \* the backups: number of the zip, in name order -> its world
  made,      \* the zips made so far
  played,    \* the worlds the players made so far
  \* the backend
  reported,  \* servers[name].save_backups: the zips of the last state report
  order,     \* the live order of this server
  sent,      \* the orders sent and the daily backups made
  \* the agent
  at,        \* the command it runs next
  result,    \* the verdict it will report
  warned,    \* the backup of this order failed, and the detail says so
  \* history, read by no action
  chosen,    \* the world in the zip that a restore was asked for
  late,      \* Stop-GameServer gave the hand back before the game had ended
  launched,  \* this order started the game
  loaded,    \* the world the game read when it started
  wiped,     \* the last saves cleared, with no warning, by a restore ...
  wipedAt,   \* ... and the zips made when it did
  faults

machineVars == <<proc, live, save, zips, made>>
historyVars == <<chosen, late, launched, loaded, wiped, wipedAt>>
vars == <<adapter, machineVars, played, reported, order, sent,
          at, result, warned, historyVars, faults>>

Init ==
  /\ adapter \in Adapters
  /\ proc = "down" /\ live = Nothing /\ save = Nothing /\ played = 0
  /\ zips = << >> /\ made = 0 /\ reported = {}
  /\ order = NoOrder /\ sent = 0
  /\ at = "idle" /\ result = "none" /\ warned = FALSE
  /\ chosen = Nothing /\ late = FALSE /\ launched = FALSE /\ loaded = Nothing
  /\ wiped = Nothing /\ wipedAt = 0
  /\ faults = 0

-----------------------------------------------------------------------------
(* The backend.                                                            *)

\* An order of the dashboard or of the automations.  Only a zip that the
\* agent reported can be restored.
SendOrder(type, file) ==
  /\ order = NoOrder
  /\ sent < MaxOrders
  /\ IF type = "restore_save" THEN file \in reported ELSE file = 0
  /\ order' = [type |-> type, file |-> file]
  /\ sent' = sent + 1
  /\ UNCHANGED <<adapter, machineVars, played, reported, at, result, warned,
                 historyVars, faults>>

\* POST /api/agent/state, after an order and at the start of a cycle; it may
\* fail, so nothing makes it happen.
ReportState ==
  /\ at = "idle"
  /\ reported' = DOMAIN zips
  /\ UNCHANGED <<adapter, machineVars, played, order, sent, at, result,
                 warned, historyVars, faults>>

-----------------------------------------------------------------------------
(* The agent takes an order and dispatches it.                             *)

\* A dispatch that sends no order through Stop-GameServer but the stop.
FirstCommandByName(type) == type

FirstCommand(type) ==
  IF type \in StopTypes THEN "stop" ELSE type

Begin ==
  /\ at = "idle"
  /\ order # NoOrder
  /\ \/ /\ order.type = "restore_save" => order.file \in DOMAIN zips
        /\ at' = FirstCommand(order.type)
        /\ result' = "done"
     \/ /\ order.type = "restore_save"   \* "backup introuvable", or no manifest
        /\ at' = "report"
        /\ result' = "failed"
  /\ warned' = FALSE
  /\ chosen' = IF order.file \in DOMAIN zips THEN zips[order.file] ELSE Nothing
  /\ late' = FALSE /\ launched' = FALSE /\ loaded' = Nothing
  /\ UNCHANGED <<adapter, machineVars, played, reported, order, sent,
                 wiped, wipedAt, faults>>

\* An exception leaves the order with the verdict "failed".
Throw ==
  /\ result' = "failed"
  /\ at' = "report"

-----------------------------------------------------------------------------
(* Stop-GameServer.                                                        *)

\* What comes after the stop, and after the backup that follows it.
AfterStop == IF order.type = "stop" THEN "report" ELSE "backup"
AfterBackup ==
  [backup |-> "report", restart |-> "start", update |-> "steam",
   restore_save |-> "clear"][order.type]

\* A stop that swallows its exception.
StopSwallows ==
  /\ at = "stop"
  /\ proc # "down"
  /\ at' = AfterStop
  /\ UNCHANGED <<adapter, machineVars, played, reported, order, sent, result,
                 warned, historyVars, faults>>

\* The password cannot be read: palworld-rcon looks for it when the game
\* runs, rcon-generic always.
StopThrows ==
  /\ at = "stop"
  /\ \/ adapter = "palworld-rcon" /\ proc # "down"
     \/ adapter = "rcon-generic"
  /\ Throw
  /\ UNCHANGED <<adapter, machineVars, played, reported, order, sent, warned,
                 historyVars, faults>>

\* No process to stop: rcon-generic tries its commands, the others return.
NothingToStop ==
  /\ at = "stop"
  /\ proc = "down"
  /\ at' = AfterStop
  /\ UNCHANGED <<adapter, machineVars, played, reported, order, sent, result,
                 warned, historyVars, faults>>

\* How each adapter asks the game to end.  A game may ignore a request; RCON
\* may fail, and taskkill /F takes its place.
Asked ==
  {p \in {"closing", "killed", proc} :
     /\ adapter = "generic-force" => p = "killed"
     /\ adapter = "generic-graceful" => p # "killed"}

AskToEnd ==
  /\ at = "stop"
  /\ proc # "down"
  /\ proc' \in IF proc = "killed" THEN {"killed"} ELSE Asked
  /\ at' = "wait"
  /\ UNCHANGED <<adapter, live, save, zips, made, played, reported, order,
                 sent, result, warned, historyVars, faults>>

\* No Wait-Process at all.
SeenUnawaited ==
  /\ at = "wait"
  /\ at' = AfterStop
  /\ UNCHANGED <<adapter, machineVars, played, reported, order, sent, result,
                 warned, historyVars, faults>>

\* Wait-Process saw the process end.
SeenDown ==
  /\ at = "wait"
  /\ proc = "down"
  /\ at' = AfterStop
  /\ UNCHANGED <<adapter, machineVars, played, reported, order, sent, result,
                 warned, historyVars, faults>>

\* Wait-Process without -Timeout never gives up.
WaitForEver == FALSE

\* Wait-Process gave up after 120 s.  Two adapters go on in silence, two send
\* taskkill /F and go on without waiting for its effect.
WaitTimesOut ==
  /\ at = "wait"
  /\ proc # "down"
  /\ proc' = IF adapter \in {"generic-graceful", "rcon-generic"}
               THEN "killed" ELSE proc
  /\ at' = AfterStop
  /\ late' = TRUE
  /\ UNCHANGED <<adapter, live, save, zips, made, played, reported, order,
                 sent, result, warned, chosen, launched, loaded, wiped,
                 wipedAt, faults>>

-----------------------------------------------------------------------------
(* Backup-GameSave: manual, pre-restart, pre-update, pre-restore, daily.    *)

\* A purge that forgets -Descending, and one that keeps one more.
Oldest(names) == {n \in names : Cardinality({m \in names : m < n}) < Keep}
NewestAndOne(names) == {n \in names : Cardinality({m \in names : m > n}) <= Keep}

\* Sort-Object Name -Descending | Select-Object -Skip $keep | Remove-Item.
Newest(names) == {n \in names : Cardinality({m \in names : m > n}) < Keep}

WithZip(world) ==
  [n \in DOMAIN zips \cup {made + 1} |->
     IF n = made + 1 THEN world ELSE zips[n]]

MakeZip ==
  /\ save # Nothing
  /\ made' = made + 1
  /\ zips' = Restrict(WithZip(save), Newest(DOMAIN zips \cup {made + 1}))

BackUp ==
  /\ at = "backup"
  /\ MakeZip
  /\ at' = AfterBackup
  /\ UNCHANGED <<adapter, proc, live, save, played, reported, order, sent,
                 result, warned, historyVars, faults>>

\* The daily backup, at the end of a cycle; whether the newest zip is twenty
\* hours old is left open.
DailyBackup ==
  /\ at = "idle"
  /\ sent < MaxOrders
  /\ sent' = sent + 1
  /\ MakeZip
  /\ UNCHANGED <<adapter, proc, live, save, played, reported, order, at,
                 result, warned, historyVars, faults>>

\* No saves, no room for the zip: a manual backup fails, the others go on.
BackupFails ==
  /\ at = "backup"
  /\ IF order.type = "backup"
       THEN Throw /\ UNCHANGED warned
       ELSE warned' = TRUE /\ at' = AfterBackup /\ UNCHANGED result
  /\ UNCHANGED <<adapter, machineVars, played, reported, order, sent,
                 historyVars, faults>>

-----------------------------------------------------------------------------
(* Update-GameServer and Restore-GameSave after the backup.                *)

\* steamcmd ran: the game is started again whatever came of it.
RunSteam ==
  /\ at = "steam"
  /\ result' \in {"done", "failed"}
  /\ at' = "start"
  /\ UNCHANGED <<adapter, machineVars, played, reported, order, sent, warned,
                 historyVars, faults>>

\* No steamcmd, no manifest: the exception leaves the game down.
SteamThrows ==
  /\ at = "steam"
  /\ Throw
  /\ UNCHANGED <<adapter, machineVars, played, reported, order, sent, warned,
                 historyVars, faults>>

\* History: players' saves go, with no warning that they were not copied.
Wipe ==
  IF save \in {Nothing, Broken} \/ warned \/ late
    THEN UNCHANGED <<wiped, wipedAt>>
    ELSE wiped' = save /\ wipedAt' = made

\* Remove-Item on the content of the saves directory; the files that a game
\* still alive holds open stay.
Clear ==
  /\ at = "clear"
  /\ save' \in IF proc = "down" \/ save = Nothing
                 THEN {Nothing} ELSE {Nothing, Broken}
  /\ at' = "extract"
  /\ Wipe
  /\ UNCHANGED <<adapter, proc, live, zips, made, played, reported, order,
                 sent, result, warned, chosen, late, launched, loaded, faults>>

\* Expand-Archive of the zip the admin chose.
Extract ==
  /\ at = "extract"
  /\ order.file \in DOMAIN zips
  /\ zips[order.file] # Torn
  /\ save' = zips[order.file]
  /\ at' = "start"
  /\ UNCHANGED <<adapter, proc, live, zips, made, played, reported, order,
                 sent, result, warned, historyVars, faults>>

\* The zip is gone or torn, the disk is full: the game stays down.
ExtractFails ==
  /\ at = "extract"
  /\ \/ UNCHANGED save
     \/ order.file \in DOMAIN zips /\ save' = Broken
  /\ Throw
  /\ UNCHANGED <<adapter, proc, live, zips, made, played, reported, order,
                 sent, warned, historyVars, faults>>

-----------------------------------------------------------------------------
(* Start-GameServer.                                                       *)

InitialWorld == IF save = Nothing THEN Blank ELSE save

Launch ==
  /\ at = "start"
  /\ proc = "down"
  /\ proc' = "up"
  /\ live' = InitialWorld
  /\ loaded' = InitialWorld
  /\ launched' = TRUE
  /\ at' = "report"
  /\ UNCHANGED <<adapter, save, zips, made, played, reported, order, sent,
                 result, warned, chosen, late, wiped, wipedAt, faults>>

\* A process of that name is there, which may be about to end; the task that
\* runs it is not started twice.
FoundRunning ==
  /\ at = "start"
  /\ proc # "down"
  /\ at' = "report"
  /\ UNCHANGED <<adapter, machineVars, played, reported, order, sent, result,
                 warned, historyVars, faults>>

\* No process after 60 s.
StartFails ==
  /\ at = "start"
  /\ proc = "down"
  /\ Throw
  /\ UNCHANGED <<adapter, machineVars, played, reported, order, sent, warned,
                 historyVars, faults>>

-----------------------------------------------------------------------------
(* The verdict, and the failures of the agent.                             *)

Report ==
  /\ at = "report"
  /\ order' = NoOrder
  /\ at' = "idle"
  /\ UNCHANGED <<adapter, machineVars, played, reported, sent, result, warned,
                 historyVars, faults>>

\* The order is still live in the backend: the next cycle runs it again.
LoseReport ==
  /\ at = "report"
  /\ faults < MaxFaults
  /\ faults' = faults + 1
  /\ at' = "idle"
  /\ UNCHANGED <<adapter, machineVars, played, reported, order, sent, result,
                 warned, historyVars>>

\* The agent dies: a zip or an extraction in progress is cut short.
AgentCrash ==
  /\ at # "idle"
  /\ faults < MaxFaults
  /\ faults' = faults + 1
  /\ at' = "idle"
  /\ \/ UNCHANGED <<save, zips, made, wiped, wipedAt>>
     \/ /\ at = "backup" /\ save # Nothing
        /\ made' = made + 1
        /\ zips' = WithZip(Torn)
        /\ UNCHANGED <<save, wiped, wipedAt>>
     \/ /\ at = "clear" /\ save # Nothing
        /\ save' = Broken
        /\ Wipe
        /\ UNCHANGED <<zips, made>>
     \/ /\ at = "extract"
        /\ save' = Broken
        /\ UNCHANGED <<zips, made, wiped, wipedAt>>
  /\ UNCHANGED <<adapter, proc, live, played, reported, order, sent, result,
                 warned, chosen, late, launched, loaded>>

-----------------------------------------------------------------------------
(* The game.                                                               *)

Play ==
  /\ proc = "up"
  /\ played < MaxPlay
  /\ played' = played + 1
  /\ live' = played + 1
  /\ UNCHANGED <<adapter, proc, save, zips, made, reported, order, sent, at,
                 result, warned, historyVars, faults>>

\* An autosave, a Save command, or the save of a game that is closing.
Flush ==
  /\ proc \in {"up", "closing"}
  /\ save' = live
  /\ UNCHANGED <<adapter, proc, live, zips, made, played, reported, order,
                 sent, at, result, warned, historyVars, faults>>

\* A game that closes saves, one that was killed does not.
End ==
  /\ proc \in {"closing", "killed"}
  /\ proc' = "down"
  /\ live' = Nothing
  /\ save' = IF proc = "closing" THEN live ELSE save
  /\ UNCHANGED <<adapter, zips, made, played, reported, order, sent, at,
                 result, warned, historyVars, faults>>

GameCrash ==
  /\ proc \in {"up", "closing"}
  /\ faults < MaxFaults
  /\ faults' = faults + 1
  /\ proc' = "down"
  /\ live' = Nothing
  /\ UNCHANGED <<adapter, save, zips, made, played, reported, order, sent, at,
                 result, warned, historyVars>>

-----------------------------------------------------------------------------
Commands ==
  \/ Begin
  \/ StopThrows \/ NothingToStop \/ AskToEnd \/ SeenDown \/ WaitTimesOut
  \/ BackUp \/ BackupFails
  \/ RunSteam \/ SteamThrows
  \/ Clear \/ Extract \/ ExtractFails
  \/ Launch \/ FoundRunning \/ StartFails
  \/ Report

Others ==
  \/ \E type \in OrderTypes, file \in {0} \cup reported : SendOrder(type, file)
  \/ ReportState
  \/ DailyBackup

Game == Play \/ Flush \/ End \/ GameCrash

Next == Commands \/ Others \/ Game \/ LoseReport \/ AgentCrash

Spec == Init /\ [][Next]_vars

\* The scheduled task runs the agent again and again, and each of its
\* commands returns.  Nothing is assumed of the game.
FairSpec == Spec /\ WF_vars(Commands)

-----------------------------------------------------------------------------
(* Properties.                                                             *)

\* Types: the zips that an order or a report names were made, and there is no
\* command without its order.
TypeOK ==
  /\ adapter \in Adapters
  /\ proc \in {"down", "up", "closing", "killed"}
  /\ live \in Worlds \cup {Nothing}
  /\ save \in Worlds \cup {Nothing}
  /\ played \in 0..MaxPlay
  /\ made \in Nat
  /\ DOMAIN zips \subseteq 1..made
  /\ \A n \in DOMAIN zips : zips[n] \in Worlds \cup {Torn}
  /\ reported \subseteq 1..made
  /\ order \in [type : OrderTypes \cup {"none"}, file : 0..made]
  /\ order.type = "none" => order = NoOrder /\ at = "idle"
  /\ sent \in 0..MaxOrders
  /\ at \in {"idle", "stop", "wait", "backup", "steam", "clear", "extract",
             "start", "report"}
  /\ result \in {"none", "done", "failed"}
  /\ warned \in BOOLEAN /\ late \in BOOLEAN /\ launched \in BOOLEAN
  /\ chosen \in Worlds \cup {Nothing, Torn}
  /\ loaded \in Worlds \cup {Nothing}
  /\ wiped \in Worlds \cup {Nothing}
  /\ wipedAt \in 0..made
  /\ faults \in 0..MaxFaults

\* backup_keep holds, but for the zips that a dying agent left: Backup-GameSave
\* purges after it made the zip, so one cut short adds to the others.
ZipsBounded == Cardinality(DOMAIN zips) <= Keep + faults

\* When steamcmd runs, or a restore clears the saves, the newest zip holds
\* what the saves directory holds: the backup comes after the last word of
\* the game.  The two excuses are the code's: the detail of the order says
\* that the backup failed, or the game outlived the 120 s of Wait-Process.
BackupHoldsSaves ==
  (at \in {"steam", "clear"} /\ ~warned /\ ~late /\ save # Nothing) =>
    /\ made \in DOMAIN zips
    /\ zips[made] = save

\* The players' saves that a restore cleared can be restored in their turn
\* until backup_keep newer zips were made, whatever crashes, replays and
\* other orders come in between.
SafetyCopy ==
  (wiped # Nothing /\ made - wipedAt < Keep) =>
    /\ wipedAt \in DOMAIN zips
    /\ zips[wipedAt] = wiped

\* The verdict "done" is true: a stopped game is down, a restarted or updated
\* one is a new process, a restored one has read the zip the admin chose
\* (and not what a dying game wrote over it) -- if the stop saw the game end.
DoneMeansDone ==
  (at = "report" /\ result = "done" /\ ~late) =>
    /\ order.type = "stop" => proc = "down"
    /\ order.type \in {"restart", "update", "restore_save"} => launched
    /\ order.type = "restore_save" => loaded = chosen

\* A game that never ends, or that never comes up, does not hold the agent:
\* every order gets its verdict.
OrdersGetDone == (order # NoOrder) ~> (order = NoOrder)

\* Stop-GameServer's notes: "Dans tous les cas, on attend la fin reelle du
\* process via Wait-Process avant de rendre la main".
EndAwaited == at \in {"steam", "clear", "extract"} => proc = "down"

\* Restore-GameSave's notes: the backup to restore "doit exister dans le
\* dossier de backups du serveur" -- it does when the saves were cleared.
SourceKept == at = "extract" => order.file \in DOMAIN zips

=============================================================================
