------------------------------ MODULE BepInEx ------------------------------
(***************************************************************************)
(* BepInEx mods of one server: the versions that Thunderstore and GitHub   *)
(* publish (bepinex.py, bepinex_sources.py), what the backend believes is  *)
(* installed (storage_bepinex.py), the order that updates several mods at  *)
(* once (routes_bepinex.py, routes_agent.py), and its execution by the     *)
(* agent (Update-BepInExMods): backup, replacement, check, rollback.       *)
(*                                                                         *)
(* The files of a mod are known by where they lie: a file of the plugins   *)
(* folder or the core ("flat"), a folder of its own ("dir"), or a folder   *)
(* copied into a folder of the same name ("nested").  BepInEx loads all it *)
(* finds.  Remove-Item and Copy-Item raise no exception: where a file is   *)
(* locked, as by a game that outlived its stop, the agent goes on as if    *)
(* the operation had been done.                                            *)
(***************************************************************************)
EXTENDS Integers, Sequences, FiniteSets, SequencesExt

CONSTANTS
  ModList,      \* the mods, in the order of bepinex_mods
  Root,         \* those of target "root": the core, replaced by its copy
  Layout,       \* where the author of the mods puts each version
  Callers,      \* bound: checks of the versions in flight
  MaxOrders,    \* bound: orders ever made
  MaxFaults     \* bound: lost requests, crashes of the agent, expired orders,
                \* stops that give up, files that cannot be read, removed or
                \* written though no game locks them

MaxVersion == Len(Layout)
Mods == ToSet(ModList)
Places == {"flat", "dir", "nested"}

ASSUME BoundsAssumption ==
  /\ ModList \in Seq(Mods) /\ Root \subseteq Mods
  /\ Layout \in Seq({"flat", "dir"}) /\ Layout # <<>>
  /\ MaxOrders \in Nat /\ MaxFaults \in Nat

None == 0    \* no version: not known, or no file

VARIABLES
  latest,      \* bepinex_mods[m].latest_version (and its download_url)
  installed,   \* bepinex_mods[m].installed_version
  paths,       \* bepinex_mods[m].installed_paths
  order,       \* the live order, if any
  made,        \* orders ever made
  call,        \* checks in flight: mods still to ask, and the answer awaited
  public,      \* the version its author publishes
  disk,        \* the version of the files at each place
  agent,       \* [at, order, ok, live: the game outlived its stop]
  backup,      \* the zip of the BepInEx state, while it is of use
  \* history, read by no action
  faults,
  overlap,     \* two checks overlapped, and one of them is still under way
  silent,      \* mods with files the execution failed to remove or to copy
  unsure,      \* mods whose files may not be those of the books
  leftover     \* mods whose new files may remain beside the old ones

store == <<latest, installed, paths>>
history == <<faults, overlap, silent, unsure, leftover>>
vars == <<store, order, made, call, public, disk, agent, backup, history>>

Place(m, v) == IF m \in Root THEN "flat" ELSE Layout[v]
NoFiles == [l \in Places |-> None]
NoBackup == [m \in Mods |-> NoFiles]
NoOrder == [id |-> 0, mods |-> <<>>, status |-> "done"]
Idle == [at |-> "idle", order |-> NoOrder, ok |-> FALSE, live |-> FALSE]
NoCall == [todo |-> <<>>, got |-> None, asked |-> FALSE]

\* seed_if_empty: what the operator wrote down is what is on disk.
Init ==
  /\ latest = [m \in Mods |-> None]
  /\ installed = [m \in Mods |-> 1]
  /\ paths = [m \in Mods |-> {Place(m, 1)}]
  /\ order = NoOrder /\ made = 0
  /\ call = [c \in Callers |-> NoCall]
  /\ public = [m \in Mods |-> 1]
  /\ disk = [m \in Mods |-> [NoFiles EXCEPT ![Place(m, 1)] = 1]]
  /\ agent = Idle /\ backup = NoBackup
  /\ faults = 0 /\ overlap = FALSE /\ silent = {} /\ unsure = {} /\ leftover = {}

-----------------------------------------------------------------------------
(* The check of the versions                                               *)

\* refresh_bepinex_versions: by the poll if an hour has passed, by the button
\* (force_refresh_bepinex_versions) at any time; the two do alike.
StartCheck(c) ==
  /\ call[c] = NoCall
  /\ call' = [call EXCEPT ![c].todo = ModList]
  /\ overlap' = \E d \in Callers : call[d] # NoCall
  /\ UNCHANGED <<store, order, made, public, disk, agent, backup, faults, silent, unsure,
                 leftover>>

\* fetch_thunderstore_latest, fetch_github_release_latest: the source gives the
\* last version; or no answer, no such package, or a link that is not trusted.
Fetched(m) == {public[m], None}

\* The answer is on its way.
Ask(c) ==
  /\ call[c].todo # <<>> /\ ~ call[c].asked
  /\ \E got \in Fetched(Head(call[c].todo)) :
       call' = [call EXCEPT ![c].asked = TRUE, ![c].got = got]
  /\ UNCHANGED <<store, order, made, public, disk, agent, backup, history>>

\* An error that takes the version away.
LatestErased(m, got) == [latest EXCEPT ![m] = got]

\* set_latest: an error leaves the last known version.
LatestAfter(m, got) == [latest EXCEPT ![m] = IF got = None THEN @ ELSE got]

Answer(c) ==
  /\ call[c].asked
  /\ latest' = LatestAfter(Head(call[c].todo), call[c].got)
  /\ call' = [call EXCEPT ![c] = [NoCall EXCEPT !.todo = Tail(call[c].todo)]]
  /\ overlap' = (overlap /\ \E d \in Callers : call'[d] # NoCall)
  /\ UNCHANGED <<installed, paths, order, made, public, disk, agent, backup,
                 faults, silent, unsure, leftover>>

Publish(m) ==
  /\ public[m] < MaxVersion
  /\ public' = [public EXCEPT ![m] = @ + 1]
  /\ UNCHANGED <<store, order, made, call, disk, agent, backup, history>>

-----------------------------------------------------------------------------
(* The order                                                               *)

\* version_is_newer
Newer(m) == latest[m] > installed[m]

\* Only with a version the sources gave.
Known(ms) == \A m \in ms : latest[m] # None

\* The order freezes the versions, and the paths to remove.
Payload(ms) ==
  [m \in ms |-> [version |-> latest[m], previous_paths |-> paths[m]]]

\* enqueue_bepinex_update_order: the mods chosen, or those with an update.
Enqueue(ms) ==
  /\ ms # {} /\ Known(ms)
  /\ order.status = "done"    \* reject_if: no live order of this type
  /\ made < MaxOrders /\ made' = made + 1
  /\ order' = [id |-> made + 1, mods |-> Payload(ms), status |-> "pending"]
  /\ UNCHANGED <<store, call, public, disk, agent, backup, history>>

UpdateSome(ms) == Enqueue(ms)
UpdateAll == Enqueue({m \in Mods : Newer(m)})

\* The new files lie elsewhere than those the order removes.
Moved(o) ==
  {m \in DOMAIN o.mods : Place(m, o.mods[m].version) \notin o.mods[m].previous_paths}

\* An order that was begun leaves files no verdict tells of.
Withdraw ==
  LET begun == order.status = "running" \/ agent.order.id = order.id IN
  /\ order' = NoOrder
  /\ unsure' = IF begun THEN unsure \union DOMAIN order.mods ELSE unsure
  /\ leftover' = IF begun THEN leftover \union Moved(order) ELSE leftover
  /\ UNCHANGED <<store, made, call, public, disk, agent, backup, overlap, silent>>

CancelOrder == order.status = "pending" /\ Withdraw /\ UNCHANGED faults
Expire == order.status # "done" /\ faults < MaxFaults /\ faults' = faults + 1 /\ Withdraw

-----------------------------------------------------------------------------
(* The agent                                                               *)

\* "running" is posted; a failed download, a stop that throws or a backup that
\* throws ends there, and no file was touched.  A stop that gives up waiting
\* does not: the rest runs beside the live game (Start-GameServer then finds it
\* running).  The backup is the state before any change, but for the files that
\* could not be read.
Begin(told, ready, live, saved) ==
  LET fault == ~ told \/ (ready /\ (live \/ saved # Mods)) IN
  /\ agent.at = "idle" /\ order.status # "done"
  /\ fault => faults < MaxFaults
  /\ faults' = IF fault THEN faults + 1 ELSE faults
  /\ order' = IF told THEN [order EXCEPT !.status = "running"] ELSE order
  /\ agent' = [at |-> IF ready THEN "stopped" ELSE "verdict", order |-> order,
               ok |-> FALSE, live |-> ready /\ live]
  /\ backup' = IF ready THEN [m \in Mods |-> IF m \in saved THEN disk[m] ELSE NoFiles]
               ELSE backup
  /\ UNCHANGED <<store, made, call, public, disk, overlap, silent, unsure, leftover>>

\* Nothing is removed before the copy.
RemovedNot(m, previous) == disk[m]

\* Remove-BepInExPaths: a folder goes with what is nested in it; so does the
\* core, just before its copy.
Removed(m, previous) ==
  [l \in Places |->
     IF m \in Root \/ (IF l = "nested" THEN "dir" ELSE l) \in previous
     THEN None ELSE disk[m][l]]

\* Copy-BepInExPayload: a folder copied over a folder lands inside it.
Copied(files, m, v) ==
  LET l == Place(m, v)
      folder == m \in Root \/ l = "dir"
  IN  [files EXCEPT ![IF folder /\ files[l] # None THEN "nested" ELSE l] = v]

\* All that must go is removed, then the mods of done are copied; the files of
\* those of stuck stay, and those of lost are not copied.
Replaced(done, stuck, lost) ==
  LET o == agent.order.mods IN
  [m \in Mods |->
     IF m \notin DOMAIN o THEN disk[m]
     ELSE LET gone == m \notin stuck /\ (m \in Root => m \in done)
              kept == IF gone THEN Removed(m, o[m].previous_paths) ELSE disk[m]
          IN  IF m \in done \ lost THEN Copied(kept, m, o[m].version) ELSE kept]

\* The restore does nothing.
RestoredNot(files) == files

\* Restore-BepInExBackup: overwrites, and removes nothing.
Restored(files) ==
  [m \in Mods |-> [l \in Places |-> IF backup[m][l] # None THEN backup[m][l] ELSE files[m][l]]]

Unsaved == {m \in Mods : backup[m] = NoFiles}

\* The files after a failure: those of works are restored, the others left as
\* they are.
RollBack(files, works) ==
  LET mine == DOMAIN agent.order.mods IN
  /\ disk' = [m \in Mods |-> IF m \in works THEN Restored(files)[m] ELSE files[m]]
  /\ agent' = [agent EXCEPT !.at = "verdict"]
  /\ unsure' = unsure \union (mine \ works) \union (mine \intersect (Unsaved \union silent'))
  /\ leftover' = leftover \union Moved(agent.order)

\* Files that cannot be removed or written: a live game locks them, or it takes
\* a fault.
Locked(ms) ==
  LET fault == ms # {} /\ ~ agent.live IN
  /\ fault => faults < MaxFaults
  /\ faults' = IF fault THEN faults + 1 ELSE faults

\* Some of the mods are copied, in the order the request named them, before an
\* exception; or all, with or without the files.
Replace(done, stuck, lost, works) ==
  /\ agent.at = "stopped"
  /\ Locked(stuck \union lost)
  /\ silent' = stuck \union lost
  /\ IF done = DOMAIN agent.order.mods
     THEN /\ disk' = Replaced(done, stuck, lost)
          /\ agent' = [agent EXCEPT !.at = "started"]
          /\ leftover' = leftover \union (stuck \intersect Moved(agent.order))
          /\ UNCHANGED unsure
     ELSE RollBack(Replaced(done, stuck, lost), works)
  /\ UNCHANGED <<store, order, made, call, public, backup, overlap>>

\* The start and the log of the Chainloader are looked at: the names of the
\* plugins, and not their versions.
Verify(ok, works) ==
  /\ agent.at = "started"
  /\ UNCHANGED silent
  /\ IF ok THEN agent' = [agent EXCEPT !.at = "verdict", !.ok = TRUE]
                /\ UNCHANGED <<disk, unsure, leftover>>
     ELSE RollBack(disk, works)
  /\ UNCHANGED <<store, order, made, call, public, backup, faults, overlap>>

Mine == order.id = agent.order.id /\ order.status # "done"

\* report_order: set_installed for the mods of the order, with the paths the
\* agent says it wrote; an order that is not live any more is refused (409).  A
\* success says nothing of a mod whose files could not be removed or copied,
\* nor of one of which files were left over: its folder may have landed inside
\* the left one.
Verdict ==
  LET o == agent.order.mods
      accepted == IF Mine /\ agent.ok THEN DOMAIN o ELSE {}
  IN
  /\ agent.at = "verdict" /\ agent' = Idle /\ backup' = NoBackup /\ silent' = {}
  /\ order' = IF Mine THEN NoOrder ELSE order
  /\ installed' = [m \in Mods |-> IF m \in accepted THEN o[m].version ELSE installed[m]]
  /\ paths' = [m \in Mods |-> IF m \in accepted THEN {Place(m, o[m].version)} ELSE paths[m]]
  /\ unsure' = (unsure \ accepted) \union (accepted \intersect (leftover \union silent))
  /\ UNCHANGED <<latest, made, call, public, disk, faults, overlap, leftover>>

\* The verdict is lost, or the agent dies: the order will be executed again.
Interrupted(files) ==
  /\ faults < MaxFaults /\ faults' = faults + 1
  /\ disk' = files /\ agent' = Idle /\ backup' = NoBackup /\ silent' = {}
  /\ leftover' = leftover \union Moved(agent.order)
  /\ unsure' = unsure \union DOMAIN agent.order.mods
  /\ UNCHANGED <<store, order, made, call, public, overlap>>

\* Before all was removed, or in the middle of the copies.
CrashWhileReplacing(done, stuck, lost) ==
  agent.at = "stopped" /\ Interrupted(Replaced(done, stuck, lost))
CrashOrLostVerdict == agent.at \in {"stopped", "started", "verdict"} /\ Interrupted(disk)

Next ==
  \/ \E c \in Callers : StartCheck(c) \/ Ask(c) \/ Answer(c)
  \/ \E m \in Mods : Publish(m)
  \/ \E ms \in SUBSET Mods : UpdateSome(ms)
  \/ UpdateAll \/ CancelOrder \/ Expire
  \/ \E told, ready, live \in BOOLEAN, saved \in SUBSET Mods : Begin(told, ready, live, saved)
  \/ \E done, stuck, lost, works \in SUBSET DOMAIN agent.order.mods :
       Replace(done, stuck, lost, works)
  \/ \E ok \in BOOLEAN, works \in SUBSET DOMAIN agent.order.mods : Verify(ok, works)
  \/ Verdict
  \/ \E done, stuck, lost \in SUBSET DOMAIN agent.order.mods :
       CrashWhileReplacing(done, stuck, lost)
  \/ CrashOrLostVerdict

Spec == Init /\ [][Next]_vars

-----------------------------------------------------------------------------
(* Properties                                                              *)

\* The payload of an order names some of the mods.
Payloads == UNION {[ms -> [version : 1..MaxVersion, previous_paths : SUBSET Places]] :
                     ms \in SUBSET Mods}

Orders == [id : 0..MaxOrders, mods : Payloads, status : {"pending", "running", "done"}]

Calls == [todo : Seq(Mods), got : 0..MaxVersion, asked : BOOLEAN]

\* Every variable keeps its type; an order names versions that exist.
TypeOK ==
  /\ latest \in [Mods -> 0..MaxVersion] /\ installed \in [Mods -> 1..MaxVersion]
  /\ paths \in [Mods -> SUBSET Places] /\ public \in [Mods -> 1..MaxVersion]
  /\ made \in 0..MaxOrders
  /\ order \in Orders
  /\ call \in [Callers -> Calls]
  /\ disk \in [Mods -> [Places -> 0..MaxVersion]]
  /\ backup \in [Mods -> [Places -> 0..MaxVersion]]
  /\ agent \in [at : {"idle", "stopped", "started", "verdict"}, order : Orders,
                ok : BOOLEAN, live : BOOLEAN]
  /\ faults \in 0..MaxFaults /\ overlap \in BOOLEAN
  /\ silent \subseteq Mods /\ unsure \subseteq Mods /\ leftover \subseteq Mods

\* The agent is between two orders, the last ones of the mod have a verdict.
Settled(m) == agent.at = "idle" /\ m \notin unsure

\* All or nothing: once the agent has done with an order, the files at the
\* paths of the books have the version of the books, whichever of its mods
\* failed, and at which step.  Not so for a mod whose files could not be saved,
\* removed, copied or restored, which raises no exception and may end in a
\* success; nor when the execution was interrupted or its verdict lost; until
\* an execution of the order succeeds with its files; nor then for a mod with
\* new files left beside the old ones, for the folder of a later version lands
\* inside the folder left.
BooksMatchDisk ==
  \A m \in Mods : Settled(m) =>
    paths[m] # {} /\ \A l \in paths[m] : disk[m][l] = installed[m]

\* A mod is loaded once, also when its layout changes from one version to the
\* next.  Not so for the mods excepted above; nor after an order whose new files
\* lie elsewhere than the old ones, if it was rolled back, interrupted or
\* withdrawn once begun, or if the old ones could not be removed.
LoadedOnce ==
  \A m \in Mods \ leftover : Settled(m) =>
    Cardinality({l \in Places : disk[m][l] # None}) = 1

\* The version shown as the latest one never goes back or disappears, unless
\* two checks overlap (the button does not wait for the check under way).
LatestNeverBack ==
  [][\A m \in Mods : latest'[m] < latest[m] => overlap]_vars

\* "reste un fichier orphelin inoffensif, pas un plugin qui charge en double"
\* (Restore-BepInExBackup): what a rollback leaves is never loaded twice.
\* The code does not keep it: a plugin that was a file and becomes a folder, or
\* the reverse, is there twice after a rollback.
NoDoubleLoad ==
  \A m \in Mods : agent.at = "idle" /\ order.status = "done" =>
    Cardinality({l \in Places : disk[m][l] # None}) <= 1

\* "Retourne la liste des chemins relatifs ... reellement ecrits"
\* (Copy-BepInExPayload): the books of a mod move on only with its files.  The
\* code does not keep it: a path is listed whether its copy worked or not.
WrittenIsThere ==
  [][\A m \in Mods : installed'[m] # installed[m] =>
       disk[m][Place(m, installed'[m])] = installed'[m]]_vars
=============================================================================
