-------------------------------- MODULE Mods --------------------------------
(***************************************************************************)
(* Workshop mods of one server (app/mods.py, ModsRepository): what the     *)
(* backend believes is on disk and how old it is, the automatic and the    *)
(* manual updates, and the agent that executes their orders.               *)
(*                                                                         *)
(* A handler is suspended only while Steam answers; between two answers it *)
(* runs alone.  Times are numbers of publications: what happens between    *)
(* two of them bears the time of the first.                                *)
(***************************************************************************)
EXTENDS Integers, Sequences, FiniteSets, SequencesExt

CONSTANTS
  Wids,        \* Workshop identifiers
  Callers,     \* bound: requests in flight
  MaxTime,     \* bound: publications
  MaxOrders,   \* bound: orders ever made
  MaxFaults    \* bound: requests of the agent that are lost, orders that expire

ASSUME BoundsAssumption ==
  /\ IsFiniteSet(Wids) /\ IsFiniteSet(Callers)
  /\ MaxTime \in Nat \ {0} /\ MaxOrders \in Nat /\ MaxFaults \in Nat

None == 0        \* no date, no copy on disk
NoWid == "none"

VARIABLES
  \* state.json, and the two timers: cooldown and refresh
  installed,     \* mods_state.installed_mod_ids
  meta,          \* mods_metadata
  vacant, up,   \* servers[name].players is 0, servers[name].process_up
  queue,         \* live orders, oldest first
  made,          \* orders ever made
  cooling,       \* the marker of the last automatic update is less than 6 h old
  fresh,         \* the dates of Steam were asked for less than an hour ago
  call,          \* requests that wait for Steam
  \* the world
  published,     \* date of the version that Steam has
  disk, loaded,  \* date of the version on disk, and of the one the game runs
  now,
  agent,         \* [at, order, ok, tried]
  \* history, read by no action
  faults,
  unheard,           \* orders executed, whose verdict was not heard since
  unstamped,     \* written to disk, and installed_at not set since
  overtaken,     \* published again while unstamped, or whose date was forgotten
  owed           \* put in a batch that ends with a restart, and not excused

store == <<installed, meta, vacant, up>>
timers == <<cooling, fresh>>
world == <<published, disk, loaded, now>>
history == <<faults, unheard, unstamped, overtaken, owed>>
vars == <<store, queue, made, timers, call, world, agent, history>>

Absent == [listed |-> FALSE, titled |-> FALSE, installed_at |-> None, steam_at |-> None]
NoOrder == [id |-> 0, type |-> "restart", wid |-> NoWid, author |-> "admin", status |-> "pending"]
NoCall == [at |-> "idle", kind |-> "page", ids |-> {}]

Init ==
  /\ installed = {} /\ meta = [w \in Wids |-> Absent]
  /\ vacant = FALSE /\ up = FALSE
  /\ queue = <<>> /\ made = 0
  /\ cooling = FALSE /\ fresh = FALSE
  /\ call = [c \in Callers |-> NoCall]
  /\ published = [w \in Wids |-> 1] /\ now = 1
  /\ disk \in [Wids -> {None, 1}] /\ loaded = disk
  /\ agent = [at |-> "idle", order |-> NoOrder, ok |-> FALSE, tried |-> {}]
  /\ faults = 0 /\ unheard = {} /\ unstamped = {w \in Wids : disk[w] # None}
  /\ overtaken = {} /\ owed = {}

-----------------------------------------------------------------------------
(* ModsRepository                                                          *)

\* set_mod_metadata: installed_at is kept, and so is a date Steam did not give.
Described(entry, date) ==
  [listed |-> TRUE, titled |-> TRUE, installed_at |-> entry.installed_at,
   steam_at |-> IF date = None THEN entry.steam_at ELSE date]

\* remove_mod_metadata_if_never_installed
Forgotten(w) == IF w \in installed THEN meta ELSE [meta EXCEPT ![w] = Absent]

\* (the date of a copy not reported yet goes with the entry)
UndatedBy(entries) ==
  {w \in Wids : /\ disk[w] # None /\ meta[w].installed_at # None
                /\ entries[w].installed_at = None}

\* A report that dates every mod it names.
StateUpdatedAlways(ids) ==
  [w \in Wids |->
     IF w \in installed \ ids THEN Absent
     ELSE IF w \in ids THEN [meta[w] EXCEPT !.listed = TRUE, !.installed_at = now]
     ELSE meta[w]]

\* update_mods_state: an entry goes with its mod, a new mod is dated.
StateUpdated(ids) ==
  [w \in Wids |->
     IF w \in installed \ ids THEN Absent
     ELSE IF w \in ids \ installed /\ meta[w].installed_at = None
       THEN [meta[w] EXCEPT !.listed = TRUE, !.installed_at = now]
     ELSE meta[w]]

-----------------------------------------------------------------------------
(* app/mods.py                                                             *)

mod_update_available(entry) ==
  entry.installed_at # None /\ entry.steam_at > entry.installed_at

Live(type, w) == \E i \in DOMAIN queue : queue[i].type = type /\ queue[i].wid = w

\* The mods of the batch: behind Steam, or of unknown date for the button.
Behind(ids, m, unknown) ==
  {w \in ids : \/ mod_update_available(m[w])
               \/ unknown /\ m[w].installed_at = None}

\* No look at the orders already live.
TargetsBlind(ids, m, unknown) == Behind(ids, m, unknown)

\* The orders live at the second look, after the call to Steam.
Targets(ids, m, unknown) == {w \in Behind(ids, m, unknown) : ~ Live("install_mod", w)}

Installs(ws, author) ==
  LET seq == SetToSeq(ws)
  IN  [i \in DOMAIN seq |-> [id |-> made + i, type |-> "install_mod", wid |-> seq[i],
                             author |-> author, status |-> "pending"]]

Restart(id, author) ==
  [id |-> id, type |-> "restart", wid |-> NoWid, author |-> author, status |-> "pending"]

NeedsRestart == up /\ ~ Live("restart", NoWid)

\* The restart first.
BatchReversed(ws, author) ==
  (IF NeedsRestart THEN <<Restart(made + Cardinality(ws) + 1, author)>> ELSE <<>>) \o
    Installs(ws, author)

Batch(ws, author) ==
  Installs(ws, author) \o
    (IF NeedsRestart THEN <<Restart(made + Cardinality(ws) + 1, author)>> ELSE <<>>)

\* No second look at the players.
MayEnqueueUnchecked(author) == TRUE

\* The players reported since are looked at, by the automatic path only.
MayEnqueue(author) == author = "auto" => vacant

\* enqueue_mod_update_orders, once the dates are there; m is the metadata then.
Enqueue(ids, m, author) ==
  LET ws == IF MayEnqueue(author) THEN Targets(ids, m, author = "admin") ELSE {}
      orders == Batch(ws, author)
  IN  IF ws = {} THEN UNCHANGED <<queue, made, cooling, owed>>
      ELSE /\ made + Len(orders) <= MaxOrders
           /\ queue' = queue \o orders /\ made' = made + Len(orders)
           /\ cooling' = (cooling \/ author = "auto")
           /\ owed' = IF NeedsRestart THEN owed \union ws ELSE owed \ ws

\* build_mods_entry_fields: the installed mods that lack a title are asked for.
Untitled(ids, m) == {w \in ids : ~ m[w].titled}

Suspended(c, at, kind, ids) ==
  call' = [call EXCEPT ![c] = IF ids = {} THEN NoCall
                              ELSE [at |-> at, kind |-> kind, ids |-> ids]]

\* What follows the refresh of the dates, in one go.
AfterRefresh(c, kind, ids, m) ==
  IF kind = "page"
  THEN Suspended(c, "item", kind, Untitled(ids, m)) /\ UNCHANGED <<queue, made, cooling, owed>>
  ELSE call' = [call EXCEPT ![c] = NoCall] /\ Enqueue(ids, m, kind)

\* get_workshop_items_bulk: no entry for what Steam has withdrawn, none at all
\* when the request fails.
BulkAnswers(ids) == SUBSET ids

\* get_workshop_item: the item, WorkshopItemNotFound, WorkshopFetchError (after
\* which backfill_mod_metadata does not ask for some time: no answer either).
ItemAnswers == {"found", "gone", "error"}

\* auto_enqueue_mod_updates: empty, nothing pending, no recent batch.
AutoMayStart == vacant /\ queue = <<>> /\ ~ cooling

\* A request starts: GET /orders, the button, the dashboard.  The dates are
\* asked for once an hour; the timer is set before the answer.
StartCall(c, kind) ==
  /\ call[c] = NoCall
  /\ kind = "auto" => AutoMayStart
  /\ IF fresh \/ installed = {}
     THEN AfterRefresh(c, kind, installed, meta) /\ UNCHANGED fresh
     ELSE /\ fresh' = TRUE /\ Suspended(c, "bulk", kind, installed)
          /\ UNCHANGED <<queue, made, cooling, owed>>
  /\ UNCHANGED <<store, world, agent, faults, unheard, unstamped, overtaken>>

\* refresh_mods_steam_dates: Steam answers for the mods it still has, or fails.
BulkAnswer(c, answered) ==
  /\ call[c].at = "bulk"
  /\ meta' = [w \in Wids |-> IF w \in answered THEN Described(meta[w], published[w])
                             ELSE meta[w]]
  /\ AfterRefresh(c, call[c].kind, call[c].ids, meta')
  /\ UNCHANGED <<installed, vacant, up, fresh, world, agent, faults, unheard, unstamped, overtaken>>

\* backfill_mod_metadata: found, withdrawn from the Workshop, or no answer.
ItemAnswer(c, w, answer) ==
  /\ call[c].at = "item" /\ call[c].kind = "page" /\ w \in call[c].ids
  /\ meta' = CASE answer = "found" -> [meta EXCEPT ![w] = Described(@, published[w])]
               [] answer = "gone"  -> [meta EXCEPT ![w] = Described(@, None)]
               [] OTHER            -> meta
  /\ Suspended(c, "item", "page", call[c].ids \ {w})
  /\ UNCHANGED <<installed, vacant, up, queue, made, timers, world, agent, history>>

\* Six hours since the last batch, an hour since the last refresh.
TimersElapse ==
  /\ cooling' \in {cooling, FALSE} /\ fresh' \in {fresh, FALSE} /\ timers' # timers
  /\ UNCHANGED <<store, queue, made, call, world, agent, history>>

-----------------------------------------------------------------------------
(* The routes of the dashboard (routes_admin.py)                           *)

\* install_mod waits for Steam ...
InstallMod(c, w) ==
  /\ call[c] = NoCall
  /\ Suspended(c, "item", "install", {w})
  /\ UNCHANGED <<store, queue, made, timers, world, agent, history>>

\* ... describes the mod, and is refused if an install of it is live.
InstallAnswer(c, w) ==
  /\ call[c] = [at |-> "item", kind |-> "install", ids |-> {w}]
  /\ call' = [call EXCEPT ![c] = NoCall]
  /\ meta' = [meta EXCEPT ![w] = Described(@, published[w])]
  /\ IF Live("install_mod", w) THEN UNCHANGED <<queue, made, owed>>
     ELSE /\ made < MaxOrders
          /\ queue' = queue \o Installs({w}, "admin") /\ made' = made + 1
          /\ owed' = owed \ {w}
  /\ UNCHANGED <<installed, vacant, up, timers, world, agent, faults, unheard, unstamped,
                 overtaken>>

InstallFails(c) ==
  /\ call[c].kind = "install" /\ call' = [call EXCEPT ![c] = NoCall]
  /\ UNCHANGED <<store, queue, made, timers, world, agent, history>>

RemoveMod(w) ==
  /\ made < MaxOrders /\ meta' = Forgotten(w)
  /\ IF Live("remove_mod", w) THEN UNCHANGED <<queue, made>>
     ELSE /\ queue' = Append(queue, [id |-> made + 1, type |-> "remove_mod", wid |-> w,
                                     author |-> "admin", status |-> "pending"])
          /\ made' = made + 1
  /\ overtaken' = overtaken \union UndatedBy(meta')
  /\ UNCHANGED <<installed, vacant, up, timers, call, world, agent, faults, unheard,
                 unstamped, owed>>

\* An order leaves the list of the live ones; a restart may be missed then.
Dropped(i) ==
  /\ queue' = RemoveAt(queue, i)
  /\ owed' = IF queue[i].type = "restart" THEN {} ELSE owed

CancelOrder(i) ==
  /\ queue[i].status = "pending" /\ Dropped(i)
  /\ meta' = IF queue[i].type = "install_mod" THEN Forgotten(queue[i].wid) ELSE meta
  /\ overtaken' = overtaken \union UndatedBy(meta')
  /\ UNCHANGED <<installed, vacant, up, made, timers, call, world, agent, faults, unheard,
                 unstamped>>

\* 24 hours without a verdict.
Expire(i) ==
  /\ faults < MaxFaults /\ faults' = faults + 1 /\ Dropped(i)
  /\ UNCHANGED <<store, made, timers, call, world, agent, unheard, unstamped, overtaken>>

-----------------------------------------------------------------------------
(* The agent                                                               *)

\* The first order of the list not tried in this cycle.
IsNext(i) == {j \in DOMAIN queue : queue[j].id \in agent.tried} = 1..i-1

\* Install-WorkshopMod removes the old copy before the new one is there;
\* Remove-WorkshopMod.
DiskAfter(o, ok) ==
  CASE o.type = "install_mod" /\ ok   -> {[disk EXCEPT ![o.wid] = published[o.wid]]}
    [] o.type = "install_mod" /\ ~ ok -> {disk, [disk EXCEPT ![o.wid] = None]}
    [] o.type = "remove_mod" /\ ok    -> {[disk EXCEPT ![o.wid] = None]}
    [] OTHER                          -> {disk}

\* "running" is posted (told, or lost), then the order is executed.
Execute(i, told, ok) ==
  LET o == queue[i] IN
  /\ agent.at = "idle" /\ IsNext(i)
  /\ told \/ faults < MaxFaults
  /\ faults' = IF told THEN faults ELSE faults + 1
  /\ queue' = IF told THEN [queue EXCEPT ![i].status = "running"] ELSE queue
  /\ agent' = [at |-> "verdict", order |-> o, ok |-> ok,
               tried |-> {queue[j].id : j \in 1..i}]
  /\ disk' \in DiskAfter(o, ok)
  /\ loaded' = IF ok /\ o.type = "restart" THEN disk ELSE loaded
  /\ IF ok /\ o.type = "install_mod"
     THEN unstamped' = unstamped \union {o.wid} /\ overtaken' = overtaken \ {o.wid}
     ELSE UNCHANGED <<unstamped, overtaken>>
  /\ unheard' = unheard \union {o.id}
  /\ owed' = IF o.type = "install_mod" /\ o.id \in unheard /\ ~ Live("restart", NoWid)
             THEN owed \ {o.wid} ELSE owed
  /\ UNCHANGED <<store, made, timers, call, published, now>>

\* The orders are written without the one that is over; the identifiers differ.
Without(id) ==
  IF \E i \in DOMAIN queue : queue[i].id = id
  THEN RemoveAt(queue, CHOOSE i \in DOMAIN queue : queue[i].id = id) ELSE queue

\* set_order_status: done dates the mod, if it still has an entry.
Stamped(w) ==
  IF meta[w].listed THEN [meta EXCEPT ![w].installed_at = now] ELSE meta

Verdict(told) ==
  LET o == agent.order
      heard == told /\ \E i \in DOMAIN queue : queue[i].id = o.id
      installs == heard /\ agent.ok /\ o.type = "install_mod"
  IN
  /\ agent.at = "verdict"
  /\ told \/ faults < MaxFaults
  /\ faults' = IF told THEN faults ELSE faults + 1
  /\ queue' = IF told THEN Without(o.id) ELSE queue
  /\ agent' = [at |-> "report", order |-> NoOrder, ok |-> FALSE,
               tried |-> {id \in agent.tried : \E i \in DOMAIN queue' : queue'[i].id = id}]
  /\ unheard' = IF told THEN unheard \ {o.id} ELSE unheard
  /\ meta' = IF installs THEN Stamped(o.wid) ELSE meta
  /\ unstamped' = IF installs /\ meta[o.wid].listed THEN unstamped \ {o.wid} ELSE unstamped
  /\ owed' = IF heard /\ o.type = "restart" /\ ~ agent.ok THEN {} ELSE owed
  /\ UNCHANGED <<installed, vacant, up, made, timers, call, world, overtaken>>

OnDisk == {w \in Wids : disk[w] # None}

\* POST /state: at the start of a cycle, and after every order.  The players
\* are counted through RCON, which answers while the game runs.
Report(empty, running) ==
  /\ empty => running
  /\ agent.at \in {"idle", "report"}
  /\ agent' = [agent EXCEPT !.at = "idle", !.tried = IF agent.at = "idle" THEN {} ELSE @]
  /\ installed' = OnDisk /\ meta' = StateUpdated(OnDisk)
  /\ vacant' = empty /\ up' = running
  /\ unstamped' = {w \in unstamped : meta'[w].installed_at = meta[w].installed_at}
  /\ UNCHANGED <<queue, made, timers, call, world, faults, unheard, overtaken, owed>>

ReportLost ==
  /\ agent.at = "report" /\ faults < MaxFaults /\ faults' = faults + 1
  /\ agent' = [agent EXCEPT !.at = "idle"]
  /\ UNCHANGED <<store, queue, made, timers, call, world, unheard, unstamped, overtaken, owed>>

\* The order is executed again by the next cycle.
AgentCrash ==
  /\ agent.at # "idle" /\ faults < MaxFaults /\ faults' = faults + 1
  /\ agent' = [at |-> "idle", order |-> NoOrder, ok |-> FALSE, tried |-> {}]
  /\ UNCHANGED <<store, queue, made, timers, call, world, unheard, unstamped, overtaken, owed>>

-----------------------------------------------------------------------------
(* The world                                                               *)

Publish(w) ==
  /\ now < MaxTime /\ now' = now + 1
  /\ published' = [published EXCEPT ![w] = now + 1]
  /\ overtaken' = IF w \in unstamped THEN overtaken \union {w} ELSE overtaken
  /\ UNCHANGED <<store, queue, made, timers, call, disk, loaded, agent, faults, unheard, unstamped,
                 owed>>

Next ==
  \/ \E c \in Callers :
       \/ \E kind \in {"auto", "admin", "page"} : StartCall(c, kind)
       \/ \E answered \in BulkAnswers(call[c].ids) : BulkAnswer(c, answered)
       \/ \E w \in call[c].ids, answer \in ItemAnswers : ItemAnswer(c, w, answer)
       \/ \E w \in Wids : InstallMod(c, w) \/ InstallAnswer(c, w)
       \/ InstallFails(c)
  \/ TimersElapse
  \/ \E w \in Wids : RemoveMod(w) \/ Publish(w)
  \/ \E i \in DOMAIN queue : CancelOrder(i) \/ Expire(i)
  \/ \E i \in DOMAIN queue, told, ok \in BOOLEAN : Execute(i, told, ok)
  \/ \E told \in BOOLEAN : Verdict(told)
  \/ \E empty, running \in BOOLEAN : Report(empty, running)
  \/ ReportLost \/ AgentCrash

Spec == Init /\ [][Next]_vars

-----------------------------------------------------------------------------
(* Properties                                                              *)

Orders == [id : 0..MaxOrders, type : {"install_mod", "remove_mod", "restart"},
           wid : Wids \union {NoWid}, author : {"auto", "admin"},
           status : {"pending", "running"}]

\* Every variable keeps its type.
TypeOK ==
  /\ installed \subseteq Wids /\ vacant \in BOOLEAN /\ up \in BOOLEAN
  /\ meta \in [Wids -> [listed : BOOLEAN, titled : BOOLEAN,
                        installed_at : 0..MaxTime, steam_at : 0..MaxTime]]
  /\ queue \in Seq(Orders) /\ made \in 0..MaxOrders
  /\ cooling \in BOOLEAN /\ fresh \in BOOLEAN
  /\ call \in [Callers -> [at : {"idle", "bulk", "item"}, ids : SUBSET Wids,
                           kind : {"auto", "admin", "page", "install"}]]
  /\ published \in [Wids -> 1..MaxTime] /\ now \in 1..MaxTime
  /\ disk \in [Wids -> 0..MaxTime] /\ loaded \in [Wids -> 0..MaxTime]
  /\ agent \in [at : {"idle", "verdict", "report"}, order : Orders, ok : BOOLEAN,
                tried : SUBSET (1..MaxOrders)]
  /\ faults \in 0..MaxFaults /\ unheard \subseteq 1..MaxOrders
  /\ unstamped \subseteq Wids /\ overtaken \subseteq Wids /\ owed \subseteq Wids

\* Two requests that waited for Steam at the same time never queue the same
\* mod twice (the orders are read again after the answer), and neither does
\* the button when an install of that mod is already live.
OneInstallPerMod ==
  \A i, j \in DOMAIN queue :
    queue[i].type = "install_mod" /\ queue[j].type = "install_mod"
      /\ queue[i].wid = queue[j].wid => i = j

New == {i \in DOMAIN queue' : queue'[i].id > made}

\* The automatic update only touches a server whose last report shows no
\* player, and only a mod whose copy on disk is really behind Steam (or was
\* written by an execution whose verdict never arrived).
AutoInstallsProven ==
  [][\A i \in New : queue'[i].author = "auto" /\ queue'[i].type = "install_mod" =>
       /\ vacant
       /\ \/ disk[queue'[i].wid] < published[queue'[i].wid]
          \/ queue'[i].wid \in unstamped]_vars

\* A mod that is behind the version whose date the dashboard has is shown as
\* behind: its installed_at is the date of the copy on disk, unless that copy
\* was overtaken between its download and the verdict (or the first report)
\* that dates it, or lost its date with its entry.
NoMissedUpdate ==
  \A w \in installed :
    /\ None < disk[w] /\ disk[w] < meta[w].steam_at
    /\ meta[w].installed_at # None
    => mod_update_available(meta[w]) \/ w \in overtaken

\* The restart that ends a batch applies the mods of the batch: none stays on
\* disk unloaded once no order is left that would load it.  Not so when a
\* restart was already live (no other is added), when the restart is
\* cancelled, fails or expires, and when an install is executed again once no
\* restart is left.
BatchApplied ==
  \A w \in owed : disk[w] \notin {None, loaded[w]} => Live("restart", NoWid)

\* "ne jamais purger un ID absent simplement parce qu'il n'est pas encore sur
\* disque (ex. mod tout juste ajoute, ordre install_mod pas encore traite par
\* l'agent)": a report never takes the entry of a mod whose install waits,
\* without which the dashboard does not show it (update_mods_state).  The code does not
\* keep it: an admin who removes a mod and installs it again meanwhile has two
\* orders, and the report between them takes the new entry.
ReportKeepsPending ==
  [][installed' # installed =>
       \A i \in DOMAIN queue :
         /\ queue[i].type = "install_mod" /\ queue[i].status = "pending"
         /\ meta[queue[i].wid].listed
         => meta'[queue[i].wid].listed]_vars
=============================================================================
