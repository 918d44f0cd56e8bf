----------------------------- MODULE FileEditor -----------------------------
(***************************************************************************)
(* Editing the configuration files of a server: routes_files.py, the       *)
(* verdicts of read_file in routes_agent.py, Invoke-ReadFile and           *)
(* Invoke-WriteFile, the editor of the dashboard (app.js), and the purge   *)
(* of what was read (purge_stale_file_reads), which requests trigger.      *)
(*                                                                         *)
(* A content is a number, and is its own sha256.  The game may write its   *)
(* files at any time, and keep them from being read, copied or replaced.   *)
(* list_files moves names only and is left out.                            *)
(***************************************************************************)
EXTENDS Integers, Sequences, FiniteSets, SequencesExt

CONSTANTS
  Paths,        \* files
  Clients,      \* admins: the dashboard, or a client of the API
  Ttl,          \* FILE_READ_TTL_MINUTES, in ticks
  PurgeEvery,   \* _PURGE_EVERY_N_CALLS
  MaxContents,  \* bound: contents ever written
  MaxOrders,    \* bound: orders ever made
  MaxFaults,    \* bound: reports lost, agents or backends that die
  MaxTime       \* bound: the clock

None == "none"
Nothing == 0

ASSUME BoundsAssumption ==
  /\ None \notin Paths /\ IsFiniteSet(Paths)
  /\ Ttl \in Nat /\ PurgeEvery \in Nat \ {0} /\ MaxContents \in Nat \ {0}
  /\ MaxOrders \in Nat /\ MaxFaults \in Nat /\ MaxTime \in Nat

VARIABLES
  file_read,  \* of the registry: the last file read, in clear
  queue, made,
  calls,      \* _purge_call_counter
  editor,     \* what each client has before it
  disk, bak,  \* the files and their .hephaestos-bak
  agent,
  now,
  \* history, read by no action
  contents, faults,
  raced,      \* files the game wrote while the agent was reading or writing them
  late,       \* requests, since the backend started, that found file_read stale
  refused     \* "Relisez le fichier": what the editor showed then

backend == <<file_read, queue, made, calls>>
windows == <<disk, bak, agent>>
history == <<contents, faults, raced, late, refused>>
vars == <<backend, editor, windows, now, history>>

NoRead == [path |-> None, content |-> Nothing, sha |-> Nothing, at |-> 0]
Closed == [path |-> None, shown |-> Nothing, sha |-> Nothing]
NoOrder == [id |-> 0, type |-> "read_file", path |-> None,
            content |-> Nothing, sha |-> Nothing, shown |-> Nothing]
Idle == [at |-> "idle", order |-> NoOrder, ok |-> FALSE,
         content |-> Nothing, sha |-> Nothing, tried |-> {}]

Init ==
  /\ file_read = NoRead /\ queue = <<>> /\ made = 0 /\ calls = 0
  /\ editor = [c \in Clients |-> Closed]
  /\ disk = [p \in Paths |-> 1] /\ bak = [p \in Paths |-> Nothing] /\ agent = Idle
  /\ now = 0 /\ contents = 1 /\ faults = 0 /\ raced = {} /\ late = 0 /\ refused = {}

-----------------------------------------------------------------------------
(* Requests of the dashboard and of the API                                *)

Stale(read) == read # NoRead /\ read.at + Ttl < now

\* Only what has no date is removed.
PurgedUndated == file_read

\* purge_stale_file_reads
Purged == IF Stale(file_read) THEN NoRead ELSE file_read

\* require_admin: so many requests, then a purge.
Requested ==
  /\ calls' = (calls + 1) % PurgeEvery
  /\ file_read' = IF calls + 1 >= PurgeEvery THEN Purged ELSE file_read
  /\ late' = IF Stale(file_read') THEN late + 1 ELSE 0

Added(order) ==
  /\ made < MaxOrders /\ made' = made + 1
  /\ queue' = Append(queue, [order EXCEPT !.id = made + 1])

\* openFile, read_file
OpenFile(c, p) ==
  /\ Requested
  /\ editor' = [editor EXCEPT ![c] = [Closed EXCEPT !.path = p]]
  /\ Added([NoOrder EXCEPT !.path = p])
  /\ UNCHANGED <<windows, now, contents, faults, raced, refused>>

\* loadServerDetail, fileEditorHtml: shown if it is the file that is open.
LoadDetail(c) ==
  /\ Requested /\ editor[c].path # None
  /\ LET read == IF file_read'.path = editor[c].path THEN file_read' ELSE NoRead
     IN editor' = [editor EXCEPT ![c].shown = read.content, ![c].sha = read.sha]
  /\ UNCHANGED <<queue, made, windows, now, contents, faults, raced, refused>>

\* write_file: a new content, and the sha256 of the one it was made from.
Posted(c, sha) ==
  /\ contents < MaxContents /\ contents' = contents + 1
  /\ Added([NoOrder EXCEPT !.type = "write_file", !.path = editor[c].path,
              !.content = contents + 1, !.sha = sha, !.shown = editor[c].shown])

\* A client of the API sends the sha256 it was given.
PostWrite(c) ==
  /\ Requested /\ editor[c].shown # Nothing /\ Posted(c, editor[c].sha)
  /\ UNCHANGED <<editor, windows, now, faults, raced, refused>>

\* list_servers: the list has no file_read, which only the detail has.
LatestServers == NoRead

ExpectedSha256(c) ==
  IF LatestServers.path = editor[c].path THEN LatestServers.sha ELSE Nothing

\* saveFile: the dashboard looks for the sha256 in the list of the servers.
SaveFile(c) ==
  /\ editor[c].path # None
  /\ IF ExpectedSha256(c) = Nothing
     THEN /\ refused' = refused \union {editor[c].shown}
          /\ UNCHANGED <<backend, contents, late>>
     ELSE Requested /\ Posted(c, ExpectedSha256(c)) /\ UNCHANGED refused
  /\ UNCHANGED <<editor, windows, now, faults, raced>>

\* Any other request: the dashboard polls the list.
OtherRequest ==
  /\ Requested /\ UNCHANGED <<queue, made, editor, windows, now, contents, faults, raced, refused>>

\* An order is cancelled, or expires.
Withdraw(i) ==
  /\ queue' = RemoveAt(queue, i)
  /\ UNCHANGED <<file_read, made, calls, editor, windows, now, history>>

-----------------------------------------------------------------------------
(* The agent                                                               *)

World == <<file_read, made, calls, editor, now, contents, raced, late, refused>>

\* The first order of the list not tried in this cycle.
IsNext(i) == {j \in DOMAIN queue : queue[j].id \in agent.tried} = 1..i-1

Start(i) ==
  /\ agent.at = "idle" /\ IsNext(i)
  /\ agent' = [agent EXCEPT !.at = queue[i].type, !.order = queue[i],
                            !.tried = {queue[j].id : j \in 1..i}]
  /\ UNCHANGED <<World, queue, disk, bak, faults>>

\* Invoke-ReadFile: the bytes, then the hash of the file, unless it is refused.
ReadBytes ==
  /\ agent.at = "read_file"
  /\ \/ agent' = [agent EXCEPT !.at = "bytes", !.content = disk[agent.order.path]]
     \/ agent' = [agent EXCEPT !.at = "verdict"]
  /\ UNCHANGED <<World, queue, disk, bak, faults>>

ReadHash ==
  /\ agent.at = "bytes"
  /\ \/ agent' = [agent EXCEPT !.at = "verdict", !.ok = TRUE, !.sha = disk[agent.order.path]]
     \/ agent' = [agent EXCEPT !.at = "verdict"]
  /\ UNCHANGED <<World, queue, disk, bak, faults>>

\* No look at what is on the disk.
MayReplaceAny(order) == TRUE

MayReplace(order) == disk[order.path] = order.sha

\* Invoke-WriteFile: compare, copy, replace.
CheckHash ==
  /\ agent.at = "write_file"
  /\ agent' = [agent EXCEPT !.at = IF MayReplace(agent.order) THEN "checked" ELSE "verdict"]
  /\ UNCHANGED <<World, queue, disk, bak, faults>>

\* A Copy-Item that fails does not stop the script.
CopyAside ==
  /\ agent.at = "checked"
  /\ \/ /\ agent' = [agent EXCEPT !.at = "copied"]
        /\ bak' = [bak EXCEPT ![agent.order.path] = disk[agent.order.path]]
     \/ agent' = [agent EXCEPT !.at = "uncopied"] /\ UNCHANGED bak
  /\ UNCHANGED <<World, queue, disk, faults>>

\* Nor does a Move-Item; WriteAllBytes does.
Replace ==
  /\ agent.at \in {"copied", "uncopied"}
  /\ \/ /\ agent' = [agent EXCEPT !.at = "verdict", !.ok = TRUE]
        /\ disk' \in {disk, [disk EXCEPT ![agent.order.path] = agent.order.content]}
     \/ agent' = [agent EXCEPT !.at = "verdict"] /\ UNCHANGED disk
  /\ UNCHANGED <<World, queue, bak, faults>>

\* report_order: the order is over; the identifiers differ.
Without(id) ==
  IF \E i \in DOMAIN queue : queue[i].id = id
  THEN RemoveAt(queue, CHOOSE i \in DOMAIN queue : queue[i].id = id) ELSE queue

\* report_order: what was read is kept, with the time, unless the order is gone.
Verdict(told) ==
  LET o == agent.order
      kept == told /\ agent.ok /\ o.type = "read_file" /\ \E i \in DOMAIN queue : queue[i].id = o.id
  IN
  /\ agent.at = "verdict" /\ agent' = [Idle EXCEPT !.tried = agent.tried]
  /\ told \/ faults < MaxFaults
  /\ faults' = IF told THEN faults ELSE faults + 1
  /\ queue' = IF told THEN Without(o.id) ELSE queue
  /\ file_read' = IF kept THEN [path |-> o.path, content |-> agent.content,
                                sha |-> agent.sha, at |-> now] ELSE file_read
  /\ late' = IF kept THEN 0 ELSE late
  /\ UNCHANGED <<made, calls, editor, now, contents, raced, refused, disk, bak>>

\* The cycle ends when no order is left that it has not tried.
EndCycle ==
  /\ agent.at = "idle" /\ agent.tried # {}
  /\ \A i \in DOMAIN queue : queue[i].id \in agent.tried
  /\ agent' = Idle /\ UNCHANGED <<World, queue, disk, bak, faults>>

AgentCrash ==
  /\ agent.at # "idle" /\ faults < MaxFaults /\ faults' = faults + 1
  /\ agent' = Idle /\ UNCHANGED <<World, queue, disk, bak>>

\* The counter of the requests goes with the process.
BackendRestart ==
  /\ faults < MaxFaults /\ faults' = faults + 1 /\ calls' = 0 /\ late' = 0
  /\ UNCHANGED <<file_read, queue, made, editor, windows, now, contents, raced, refused>>

Busy(p) == agent.order.path = p /\ agent.at \in {"bytes", "checked", "copied", "uncopied"}

GameWrites(p) ==
  /\ contents < MaxContents /\ contents' = contents + 1
  /\ disk' = [disk EXCEPT ![p] = contents + 1]
  /\ raced' = IF Busy(p) THEN raced \union {p} ELSE raced
  /\ UNCHANGED <<backend, editor, bak, agent, now, faults, late, refused>>

Tick ==
  /\ now < MaxTime /\ now' = now + 1
  /\ UNCHANGED <<backend, editor, windows, history>>

Next ==
  \/ \E c \in Clients :
       \/ \E p \in Paths : OpenFile(c, p)
       \/ LoadDetail(c) \/ PostWrite(c) \/ SaveFile(c)
  \/ OtherRequest
  \/ \E i \in DOMAIN queue : Withdraw(i) \/ Start(i)
  \/ ReadBytes \/ ReadHash \/ CheckHash \/ CopyAside \/ Replace
  \/ \E told \in BOOLEAN : Verdict(told)
  \/ EndCycle \/ AgentCrash \/ BackendRestart \/ Tick
  \/ \E p \in Paths : GameWrites(p)

Spec == Init /\ [][Next]_vars

-----------------------------------------------------------------------------
(* Properties                                                              *)

Contents == 0..MaxContents

Orders == [id : 0..MaxOrders, type : {"read_file", "write_file"}, path : Paths \union {None},
           content : Contents, sha : Contents, shown : Contents]

\* Every variable keeps its type.
TypeOK ==
  /\ file_read \in [path : Paths \union {None}, content : Contents, sha : Contents, at : 0..MaxTime]
  /\ queue \in Seq(Orders) /\ made \in 0..MaxOrders /\ calls \in 0..PurgeEvery - 1
  /\ editor \in [Clients -> [path : Paths \union {None}, shown : Contents, sha : Contents]]
  /\ disk \in [Paths -> Contents] /\ bak \in [Paths -> Contents]
  /\ agent \in [at : {"idle", "read_file", "bytes", "write_file", "checked", "copied", "uncopied",
                      "verdict"},
                order : Orders, ok : BOOLEAN, content : Contents, sha : Contents,
                tried : SUBSET (1..MaxOrders)]
  /\ now \in 0..MaxTime /\ contents \in Contents /\ faults \in 0..MaxFaults
  /\ raced \subseteq Paths /\ late \in 0..PurgeEvery /\ refused \subseteq Contents

\* "anti-conflit et sauvegarde de secours": what a write replaces is what its
\* author was shown, and is in the backup file; nobody's change is lost unseen,
\* through replays, and reads that come between.  Not so when the game wrote the
\* file in the middle of the agent's work on it: nothing locks it.  The backup
\* is not there when its copy failed: nothing looks.
NoUnseenOverwrite ==
  [][Replace => LET o == agent.order IN
       \/ o.path \in raced
       \/ /\ o.shown = disk[o.path]
          /\ agent.at = "uncopied" \/ bak[o.path] = disk[o.path]]_vars

\* "il ne doit pas dormir dans state.json": what was read does not outlive its
\* time by a whole round of requests to one run of the backend.
StaleReadsGo == late < PurgeEvery

\* "Edition des fichiers de config du jeu depuis l'UI": the dashboard asks to
\* read the file again only when it does not show it.
SaveAfterRead == refused \subseteq {Nothing}

\* "refus sur conflit sha256 (...), sinon backup .hephaestos-bak (ecrase a chaque
\* fois) puis ecriture atomique": what is replaced is in the backup file.
BackedUp ==
  [][\A p \in Paths : Replace /\ disk'[p] # disk[p] =>
       bak[p] = disk[p] \/ p \in raced]_vars
=============================================================================
