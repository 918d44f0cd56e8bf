------------------------------ MODULE Registry ------------------------------
(***************************************************************************)
(* The registry of the servers (ServersRepository), from the wizard that   *)
(* deploys or adopts a game (routes_deploy.py) to the configuration that   *)
(* the agent applies (routes_agent.py, Update-HephServersFromBackend).     *)
(*                                                                         *)
(* A server stands for its game as well.  Of the fields of the agent, two  *)
(* are kept: the process, which the wizard derives from the executable,    *)
(* and the arguments, which stand for all those the admin edits.           *)
(***************************************************************************)
EXTENDS Integers, Sequences, FiniteSets, SequencesExt

CONSTANTS
  Names,       \* servers
  Seeded,      \* those of deploy/servers.json, which the agent had before
  Exes,        \* executables found in the folder of a game
  Args,        \* values of the arguments
  MaxOrders,   \* bound: orders ever made
  MaxEdits,    \* bound: edits of the registry by the admin
  MaxFaults    \* bound: lost requests, crashes of the agent, expired orders

None == "none"

ASSUME BoundsAssumption ==
  /\ Seeded \subseteq Names /\ IsFiniteSet(Names)
  /\ Exes # {} /\ None \notin Exes /\ None \notin Args
  /\ MaxOrders \in Nat /\ MaxEdits \in Nat /\ MaxFaults \in Nat

VARIABLES
  entry,       \* servers_registry
  queue,       \* live orders of the wizard, oldest first
  made,        \* orders ever made
  migrated,    \* config_snapshot_seen: the agent has reported, with its version
  discovered,  \* agent_meta.discovered_games
  \* the Windows machine
  onDisk,      \* games installed
  task,        \* the executable that the scheduled task of the server runs
  agentCfg,    \* the servers in config.json
  agent,       \* [at, order, ok, tried]
  \* history, read by no action
  edits, faults,
  word,        \* the arguments the admin wrote last
  cleared,     \* arguments erased before the agent's own were adopted
  forced,      \* made active by hand, or by adoption, before the wizard was done
  filed,       \* the executable of the last setup that became an order
  refused,     \* servers whose last setup was refused, one being live
  kept         \* servers whose task was there already, for another executable

backend == <<entry, queue, made, migrated, discovered>>
windows == <<onDisk, task, agentCfg>>
asked == <<filed, refused>>
history == <<edits, faults, word, cleared, forced, asked, kept>>
vars == <<backend, windows, agent, history>>

Statuses == {"installing", "awaiting_setup", "active", "disabled"}
NoEntry == [status |-> None, process |-> None, args |-> None, candidates |-> {}]
NoItem == [present |-> FALSE, process |-> None, args |-> None]
NoOrder == [id |-> 0, type |-> "scan_exe", name |-> None, exe |-> None, status |-> "pending"]
Idle == [at |-> "idle", order |-> NoOrder, ok |-> FALSE, tried |-> {}]

\* seed_if_empty; the agent has the seeded servers in its own file.
Init ==
  /\ entry \in [Names -> {NoEntry} \union
                 {[NoEntry EXCEPT !.status = s] : s \in {"active", "disabled"}}]
  /\ \A n \in Names : entry[n] # NoEntry <=> n \in Seeded
  /\ queue = <<>> /\ made = 0 /\ migrated = FALSE /\ discovered = {}
  /\ onDisk \in {Seeded, Names}
  /\ \E e \in Exes : task = [n \in Names |-> IF n \in Seeded THEN e ELSE None]
  /\ \E a \in Args :
       agentCfg = [n \in Names |-> IF n \in Seeded
                     THEN [present |-> TRUE, process |-> task[n], args |-> a] ELSE NoItem]
  /\ agent = Idle /\ edits = 0 /\ faults = 0
  /\ word = [n \in Names |-> "unset"] /\ cleared = {} /\ forced = {}
  /\ filed = [n \in Names |-> None] /\ refused = {} /\ kept = {}

Known == {n \in Names : entry[n].status # None}

-----------------------------------------------------------------------------
(* The wizard (routes_deploy.py); the agent must have told its version     *)

Live(type, n) == \E i \in DOMAIN queue : queue[i].type = type /\ queue[i].name = n

\* _require_capable_agent: the version comes with the first report.
CapableAgent == migrated

\* add_order, refused if the same is live.
Added(type, n, exe) ==
  IF Live(type, n) THEN UNCHANGED <<queue, made>>
  ELSE /\ made < MaxOrders /\ made' = made + 1
       /\ queue' = Append(queue, [id |-> made + 1, type |-> type, name |-> n,
                                  exe |-> exe, status |-> "pending"])

\* No look at how far it went.
MayDeployAgain(n) == TRUE

\* Only a deployment that has not gone further can be posted again.
MayDeploy(n) == entry[n] = NoEntry \/ entry[n].status = "installing"

\* deploy_server, create_entry
Deploy(n) ==
  /\ CapableAgent /\ MayDeploy(n)
  /\ entry' = IF entry[n] = NoEntry THEN [entry EXCEPT ![n].status = "installing"] ELSE entry
  /\ Added("install_game", n, None)
  /\ UNCHANGED <<migrated, discovered, windows, agent, history>>

\* adopt_discovered: no install, the scan at once.
Adopt(n) ==
  /\ CapableAgent /\ n \in discovered /\ entry[n] = NoEntry
  /\ entry' = [entry EXCEPT ![n].status = "awaiting_setup"]
  /\ Added("scan_exe", n, None)
  /\ UNCHANGED <<migrated, discovered, windows, agent, history>>

MaySetUp(n, exe) == entry[n].status = "awaiting_setup" /\ exe \in entry[n].candidates

\* setup_server: the registry is written, then the order is made or refused.
SetUp(n, exe, args) ==
  /\ CapableAgent /\ MaySetUp(n, exe)
  /\ entry' = [entry EXCEPT ![n].process = exe, ![n].args = args]
  /\ Added("setup_server", n, exe)
  /\ word' = [word EXCEPT ![n] = args]
  /\ IF Live("setup_server", n) THEN refused' = refused \union {n} /\ UNCHANGED filed
     ELSE refused' = refused \ {n} /\ filed' = [filed EXCEPT ![n] = exe]
  /\ UNCHANGED <<migrated, discovered, windows, agent, edits, faults, cleared, forced, kept>>

-----------------------------------------------------------------------------
(* The editor of the registry (put_registry_entry), and the orders         *)

EditArgs(n, args) ==
  /\ n \in Known /\ edits < MaxEdits /\ edits' = edits + 1
  /\ entry' = [entry EXCEPT ![n].args = args]
  /\ word' = [word EXCEPT ![n] = args]
  /\ cleared' = IF ~ migrated /\ args = None THEN cleared \union {n} ELSE cleared \ {n}
  /\ UNCHANGED <<queue, made, migrated, discovered, windows, agent, faults, forced, asked, kept>>

EditStatus(n, status) ==
  /\ n \in Known /\ edits < MaxEdits /\ edits' = edits + 1
  /\ entry' = [entry EXCEPT ![n].status = status]
  /\ forced' = IF \/ entry[n].status \in {"installing", "awaiting_setup"}
                  \/ \E i \in DOMAIN queue : queue[i].name = n
               THEN forced \union {n} ELSE forced
  /\ UNCHANGED <<queue, made, migrated, discovered, windows, agent, faults, word, cleared,
                 asked, kept>>

Dropped(i) ==
  /\ queue' = RemoveAt(queue, i)
  /\ UNCHANGED <<entry, made, migrated, discovered, windows, agent, edits, word, cleared,
                 forced, asked, kept>>

CancelOrder(i) == queue[i].status = "pending" /\ Dropped(i) /\ UNCHANGED faults

Expire(i) == faults < MaxFaults /\ faults' = faults + 1 /\ Dropped(i)

-----------------------------------------------------------------------------
(* The agent reports, and applies what it is given                         *)

\* adopt_agent_fields: what is unknown is filled in, the entry is active.
Adopted ==
  [n \in Names |->
     IF n \notin Known \/ ~ agentCfg[n].present THEN entry[n]
     ELSE [entry[n] EXCEPT !.status = "active",
             !.process = IF @ = None THEN agentCfg[n].process ELSE @,
             !.args = IF @ = None THEN agentCfg[n].args ELSE @]]

\* It is adopted with every report.
MigrationAlways == Adopted

\* report_state: the configuration of the agent is adopted once.
Migration == IF migrated THEN entry ELSE Adopted

Report ==
  /\ agent.at \in {"idle", "report"}
  /\ agent' = [agent EXCEPT !.at = "idle", !.tried = IF agent.at = "idle" THEN {} ELSE @]
  /\ entry' = Migration /\ migrated' = TRUE
  /\ discovered' = {n \in onDisk : ~ agentCfg[n].present}
  /\ forced' = forced \union {n \in Names : entry'[n].status # entry[n].status}
  /\ UNCHANGED <<queue, made, windows, edits, faults, word, cleared, asked, kept>>

\* agent_config: the active entries.
Pushed ==
  [n \in Names |->
     IF entry[n].status = "active"
     THEN [present |-> TRUE, process |-> entry[n].process, args |-> entry[n].args]
     ELSE NoItem]

\* Servers are only ever added.
AppliedMerged ==
  IF migrated THEN [n \in Names |-> IF Pushed[n].present THEN Pushed[n] ELSE agentCfg[n]]
  ELSE agentCfg

\* Update-HephServersFromBackend: another hash, another configuration.
Applied == IF migrated THEN Pushed ELSE agentCfg

\* GET /orders
Poll ==
  /\ agent.at = "idle" /\ agentCfg' = Applied
  /\ UNCHANGED <<backend, onDisk, task, agent, history>>

-----------------------------------------------------------------------------
(* The agent executes the orders of the wizard                             *)

\* The first order of the list not tried in this cycle.
IsNext(i) == {j \in DOMAIN queue : queue[j].id \in agent.tried} = 1..i-1

\* Invoke-InstallGame, Invoke-ScanExe, Invoke-SetupServer: the task is created
\* unless there is one; the start, if asked for, may fail after that.
Execute(i, told, ok) ==
  LET o == queue[i] IN
  /\ agent.at = "idle" /\ IsNext(i)
  /\ o.type # "install_game" /\ ok => o.name \in onDisk
  /\ told \/ faults < MaxFaults
  /\ faults' = IF told THEN faults ELSE faults + 1
  /\ queue' = IF told THEN [queue EXCEPT ![i].status = "running"] ELSE queue
  /\ agent' = [at |-> "verdict", order |-> o, ok |-> ok, tried |-> {queue[j].id : j \in 1..i}]
  /\ onDisk' = IF ok THEN onDisk \union {o.name} ELSE onDisk
  /\ \/ o.type = "setup_server"
        /\ task' = [task EXCEPT ![o.name] = IF @ = None THEN o.exe ELSE @]
     \/ (o.type = "setup_server" => ~ ok) /\ UNCHANGED task
  /\ kept' = IF o.type = "setup_server" /\ ok /\ task[o.name] \notin {None, o.exe}
             THEN kept \union {o.name} ELSE kept
  /\ UNCHANGED <<entry, made, migrated, discovered, agentCfg,
                 edits, word, cleared, forced, asked>>

\* report_order: the status follows what the agent confirms.
Confirmed(n, type) ==
  IF type = "setup_server" THEN [entry EXCEPT ![n].status = "active", ![n].candidates = {}]
  ELSE [entry EXCEPT ![n].status = "awaiting_setup", ![n].candidates = Exes]

InQueue(o) == \E i \in DOMAIN queue : queue[i].id = o.id

\* Whatever the verdict.
AcceptedAny(o) == InQueue(o)

\* An order that is not live any more is refused (409).
Accepted(o) == agent.ok /\ InQueue(o)

\* The order is over; the identifiers differ.
Without(id) ==
  IF \E i \in DOMAIN queue : queue[i].id = id
  THEN RemoveAt(queue, CHOOSE i \in DOMAIN queue : queue[i].id = id) ELSE queue

Verdict(told) ==
  LET o == agent.order IN
  /\ agent.at = "verdict"
  /\ agent' = [agent EXCEPT !.at = "report", !.order = NoOrder, !.ok = FALSE]
  /\ told \/ faults < MaxFaults
  /\ faults' = IF told THEN faults ELSE faults + 1
  /\ queue' = IF told THEN Without(o.id) ELSE queue
  /\ entry' = IF told /\ Accepted(o) THEN Confirmed(o.name, o.type) ELSE entry
  /\ UNCHANGED <<made, migrated, discovered, windows, edits, word, cleared, forced, asked, kept>>

AgentCrash ==
  /\ agent.at # "idle" /\ faults < MaxFaults /\ faults' = faults + 1
  /\ agent' = Idle
  /\ UNCHANGED <<backend, windows, edits, word, cleared, forced, asked, kept>>

Next ==
  \/ \E n \in Names :
       \/ Deploy(n) \/ Adopt(n)
       \/ \E exe \in Exes, args \in Args \union {None} : SetUp(n, exe, args)
       \/ \E args \in Args \union {None} : EditArgs(n, args)
       \/ \E status \in {"active", "disabled"} : EditStatus(n, status)
  \/ \E i \in DOMAIN queue : CancelOrder(i) \/ Expire(i)
  \/ Report \/ Poll
  \/ \E i \in DOMAIN queue, told, ok \in BOOLEAN : Execute(i, told, ok)
  \/ \E told \in BOOLEAN : Verdict(told)
  \/ AgentCrash

\* The scheduled task starts a cycle every two minutes: it reports, asks, and
\* posts the verdict of what it has done.
Fairness == WF_vars(Report) /\ WF_vars(Poll) /\ WF_vars(\E told \in BOOLEAN : Verdict(told))

Spec == Init /\ [][Next]_vars /\ Fairness

-----------------------------------------------------------------------------
(* Properties                                                              *)

Orders == [id : 0..MaxOrders, type : {"install_game", "scan_exe", "setup_server"},
           name : Names \union {None}, exe : Exes \union {None},
           status : {"pending", "running"}]

\* Every variable keeps its type.
TypeOK ==
  /\ entry \in [Names -> [status : Statuses \union {None}, process : Exes \union {None},
                          args : Args \union {None}, candidates : SUBSET Exes]]
  /\ queue \in Seq(Orders) /\ made \in 0..MaxOrders
  /\ migrated \in BOOLEAN /\ discovered \subseteq Names /\ onDisk \subseteq Names
  /\ task \in [Names -> Exes \union {None}]
  /\ agentCfg \in [Names -> [present : BOOLEAN, process : Exes \union {None},
                             args : Args \union {None}]]
  /\ agent \in [at : {"idle", "verdict", "report"}, order : Orders, ok : BOOLEAN,
                tried : SUBSET (1..MaxOrders)]
  /\ edits \in 0..MaxEdits /\ faults \in 0..MaxFaults
  /\ word \in [Names -> Args \union {None, "unset"}]
  /\ cleared \subseteq Names /\ forced \subseteq Names
  /\ filed \in [Names -> Exes \union {None}] /\ refused \subseteq Names /\ kept \subseteq Names

\* "l'admin via l'UI a toujours le dernier mot": what the admin wrote is not
\* overwritten by what the agent still has, however late the agent applies it.
\* Not so for a field erased before the first report: it is filled in again.
AdminHasLastWord ==
  \A n \in Names \ cleared : word[n] # "unset" => entry[n].args = word[n]

\* A server the agent manages is not taken back by a late confirmation of its
\* deployment, unless its status was changed by hand while an order was live.
ActiveStaysActive ==
  [][\A n \in Names \ forced :
       entry[n].status = "active" => entry'[n].status \in {"active", "disabled"}]_vars

\* A server made active by the wizard runs the executable of the last setup that
\* became an order; the registry names it too, unless a later setup was refused,
\* which the registry keeps all the same.  So however many setups are asked for,
\* refused, withdrawn or lost on the way: a refusal never changes what runs.  Not
\* so for a server whose task was left by a first setup, for another executable,
\* nor for one whose status was changed by hand.
ActiveRunsItsExe ==
  \A n \in Names \ (forced \union kept \union Seeded) : entry[n].status = "active" =>
    task[n] = filed[n] /\ (n \notin refused => entry[n].process = filed[n])

\* What runs is what the registry names, after a refused setup as well.  The code
\* does not keep it: setup_server writes the registry before add_order refuses.
RegistryNamesTask ==
  \A n \in Names \ (forced \union kept \union Seeded) :
    entry[n].status = "active" => task[n] = entry[n].process

\* Once the admin stops, the agent has the configuration of the registry, and
\* keeps it.
ConfigConverges == <>[](agentCfg = Pushed)

\* "tache planifiee ... prete (exe ...)": what Invoke-SetupServer says when it
\* succeeds is true of the task.  The code does not keep it: a task that
\* exists, left by a first setup whose start failed, is not replaced.
TaskReady ==
  agent.at = "verdict" /\ agent.ok /\ agent.order.type = "setup_server" =>
    task[agent.order.name] = agent.order.exe
=============================================================================
