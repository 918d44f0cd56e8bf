---------------------------- MODULE AutoUpdates ----------------------------
(***************************************************************************)
(* The automatic update of games (app/game_updates.py): each GET of the    *)
(* agent looks for empty servers whose build is behind the public one and  *)
(* queues an "update", at most one per server in each cooldown.            *)
(*                                                                         *)
(* The handler is suspended for every server whose public build is not in  *)
(* the cache of app/steam.py.  An agent whose GET timed out goes on, and   *)
(* its next cycle sends another GET: several handlers may be in flight,    *)
(* each with what it read at its start.  A handler is over (15 s for each  *)
(* server at most) long before the clock, which counts hours, moves.       *)
(***************************************************************************)
EXTENDS Integers, Sequences, FiniteSets, SequencesExt

CONSTANTS
  Registry,      \* the servers, in the order of servers_registry
  Handlers,      \* bound: the GETs in flight
  Cooldown,      \* GAME_AUTO_COOLDOWN_HOURS
  MaxBuild,      \* bound: public builds
  MaxQueue,      \* bound: live orders at which the admin stops adding
  MaxTime,       \* bound: last value of the clock
  MaxFaults      \* bound: crashes of the backend

Servers == ToSet(Registry)

ASSUME BoundsAssumption ==
  /\ Registry \in Seq(Servers) /\ Registry # <<>>
  /\ Cooldown \in Nat \ {0} /\ MaxBuild \in Nat \ {0}
  /\ MaxQueue \in Nat /\ MaxTime \in Nat /\ MaxFaults \in Nat

NoBuild  == 0    \* None: not reported, or Steam did not answer
NoMarker == 0 - Cooldown

VARIABLES
  \* state.json
  players,   \* servers[name].players: "none" (0), "some", or "unknown" (None)
  local,     \* servers[name].buildid
  queue,     \* the live orders, oldest first
  marker,    \* game_auto[name]
  \* the world
  public,    \* the build Steam publishes
  handler,   \* the GETs in flight
  now,
  \* history, read by no action
  last,      \* the hour of the last automatic update
  hasty,     \* servers updated twice within a cooldown
  faults

storeVars == <<players, local, queue, marker>>
vars == <<storeVars, public, handler, now, last, hasty, faults>>

NoHandler == [at |-> "idle", todo |-> <<>>, build |-> NoBuild,
              players |-> [s \in Servers |-> "unknown"],
              local |-> [s \in Servers |-> NoBuild],
              pending |-> {}, marker |-> [s \in Servers |-> NoMarker]]

Init ==
  /\ players = [s \in Servers |-> "unknown"]
  /\ local = [s \in Servers |-> NoBuild]
  /\ queue = <<>>
  /\ marker = [s \in Servers |-> NoMarker]
  /\ public = 1
  /\ handler = [h \in Handlers |-> NoHandler]
  /\ now = 0
  /\ last = [s \in Servers |-> NoMarker] /\ hasty = {}
  /\ faults = 0

\* A handler that is not suspended has the event loop for itself.
EventLoopFree == \A h \in Handlers : handler[h].at \in {"idle", "fetch"}

-----------------------------------------------------------------------------
(* auto_enqueue_game_updates                                               *)

\* snapshot, pending_orders and the registry, read once.  (The copy of the
\* markers stands for the snapshot; the code reads them again, later.)
StartPoll(h) ==
  /\ EventLoopFree /\ handler[h].at = "idle"
  /\ handler' = [handler EXCEPT ![h] =
       [at |-> "run", todo |-> Registry, build |-> NoBuild, players |-> players,
        local |-> local, pending |-> {queue[i].server : i \in DOMAIN queue},
        marker |-> marker]]
  /\ UNCHANGED <<storeVars, public, now, last, hasty, faults>>

\* A loop that does not stop at the last server.
AdvancedPast(h) ==
  [handler[h] EXCEPT !.at = "run", !.todo = Tail(@), !.build = NoBuild]

\* On to the next server; past the last one nothing is left of the handler.
Advanced(h) ==
  IF Len(handler[h].todo) = 1 THEN NoHandler
  ELSE [handler[h] EXCEPT !.at = "run", !.todo = Tail(@), !.build = NoBuild]

Advance(h) == handler' = [handler EXCEPT ![h] = Advanced(h)]

Looking(h, s, at) == handler[h].at = at /\ Head(handler[h].todo) = s

Eligible(h, s) ==
  /\ handler[h].local[s] # NoBuild
  /\ handler[h].players[s] = "none"
  /\ s \notin handler[h].pending

PassOver(h, s) ==
  /\ Looking(h, s, "run") /\ ~ Eligible(h, s)
  /\ Advance(h)
  /\ UNCHANGED <<storeVars, public, now, last, hasty, faults>>

\* public_buildid: from the cache at once ...
\* (an entry of at most 15 minutes: any build published up to now)
HitCache(h, s, b) ==
  /\ Looking(h, s, "run") /\ Eligible(h, s)
  /\ handler' = [handler EXCEPT ![h].at = "decide", ![h].build = b]
  /\ UNCHANGED <<storeVars, public, now, last, hasty, faults>>

\* ... or from Steam, ...
Fetch(h, s) ==
  /\ Looking(h, s, "run") /\ Eligible(h, s)
  /\ handler' = [handler EXCEPT ![h].at = "fetch"]
  /\ UNCHANGED <<storeVars, public, now, last, hasty, faults>>

\* ... which answers, or does not: then an old entry of the cache, or None.
Fetched(h, b) ==
  /\ EventLoopFree /\ handler[h].at = "fetch"
  /\ handler' = [handler EXCEPT ![h].at = "decide", ![h].build = b]
  /\ UNCHANGED <<storeVars, public, now, last, hasty, faults>>

Behind(h, s) == handler[h].build \notin {NoBuild, handler[h].local[s]}

\* The marker as it was before Steam was asked.
CoolingDownBefore(h, s) == now - handler[h].marker[s] < Cooldown

\* The marker as it is now.
CoolingDown(h, s) == now - marker[s] < Cooldown

\* The players as they were before Steam was asked.
EmptyBefore(h, s) == handler[h].players[s] = "none"

\* The check repeated after the call to Steam.
StillEmpty(h, s) == players[s] = "none"

Chosen(h, s) == Behind(h, s) /\ ~ CoolingDown(h, s) /\ StillEmpty(h, s)

LeaveAlone(h, s) ==
  /\ Looking(h, s, "decide") /\ ~ Chosen(h, s)
  /\ Advance(h)
  /\ UNCHANGED <<storeVars, public, now, last, hasty, faults>>

AutoUpdate(s) == [server |-> s, type |-> "update", author |-> "auto"]

\* No marker at all.
Unmarked(s) == marker

Marked(s) == [marker EXCEPT ![s] = now]

\* add_order and set_game_auto_marker.
Enqueue(h, s) ==
  /\ Looking(h, s, "decide") /\ Chosen(h, s)
  /\ queue' = Append(queue, AutoUpdate(s))
  /\ marker' = Marked(s)
  /\ last' = [last EXCEPT ![s] = now]
  /\ hasty' = IF now - last[s] < Cooldown THEN hasty \union {s} ELSE hasty
  /\ Advance(h)
  /\ UNCHANGED <<players, local, public, now, faults>>

\* The backend dies between the two, and all its handlers with it; the history
\* does not count an update whose marker is lost.
KilledBeforeMarker(h, s) ==
  /\ faults < MaxFaults
  /\ Looking(h, s, "decide") /\ Chosen(h, s)
  /\ queue' = Append(queue, AutoUpdate(s))
  /\ handler' = [g \in Handlers |-> NoHandler]
  /\ faults' = faults + 1
  /\ UNCHANGED <<players, local, marker, public, now, last, hasty>>

-----------------------------------------------------------------------------
(* The rest of the world                                                   *)

\* POST /api/agent/state: players come and go, and the build on disk is any of
\* those published so far, or cannot be read.
Report(s, p, b) ==
  /\ EventLoopFree
  /\ players' = [players EXCEPT ![s] = p]
  /\ local' = [local EXCEPT ![s] = b]
  /\ UNCHANGED <<queue, marker, public, handler, now, last, hasty, faults>>

\* The buttons.
AdminOrder(s, t) ==
  /\ EventLoopFree /\ Len(queue) < MaxQueue
  /\ \A i \in DOMAIN queue : ~ (queue[i].server = s /\ queue[i].type = t)
  /\ queue' = Append(queue, [server |-> s, type |-> t, author |-> "admin"])
  /\ UNCHANGED <<players, local, marker, public, handler, now, last, hasty, faults>>

\* An order is closed: executed, failed, cancelled or expired.
Close(i) ==
  /\ EventLoopFree /\ i \in DOMAIN queue
  /\ queue' = RemoveAt(queue, i)
  /\ UNCHANGED <<players, local, marker, public, handler, now, last, hasty, faults>>

Publish ==
  /\ EventLoopFree /\ public < MaxBuild
  /\ public' = public + 1
  /\ UNCHANGED <<storeVars, handler, now, last, hasty, faults>>

Tick ==
  /\ \A h \in Handlers : handler[h].at = "idle"
  /\ now < MaxTime
  /\ now' = now + 1
  /\ UNCHANGED <<storeVars, public, handler, last, hasty, faults>>

Handler(h) ==
  \/ StartPoll(h)
  \/ \E b \in NoBuild..public : Fetched(h, b)
  \/ \E s \in Servers :
       \/ PassOver(h, s) \/ Fetch(h, s) \/ LeaveAlone(h, s) \/ Enqueue(h, s)
       \/ KilledBeforeMarker(h, s)
       \/ \E b \in 1..public : HitCache(h, s, b)

World ==
  \/ Publish \/ Tick
  \/ \E i \in DOMAIN queue : Close(i)
  \/ \E s \in Servers :
       \/ \E t \in {"update", "stop"} : AdminOrder(s, t)
       \/ \E p \in {"unknown", "none", "some"}, b \in NoBuild..public : Report(s, p, b)

Next == World \/ \E h \in Handlers : Handler(h)

Spec == Init /\ [][Next]_vars

-----------------------------------------------------------------------------
(* Properties *)

\* The variables keep their types.
TypeOK ==
  /\ players \in [Servers -> {"unknown", "none", "some"}]
  /\ local \in [Servers -> NoBuild..public]
  /\ queue \in Seq([server : Servers, type : {"update", "stop"}, author : {"admin", "auto"}])
  /\ marker \in [Servers -> NoMarker..now]
  /\ public \in 1..MaxBuild
  /\ \A h \in Handlers :
       /\ handler[h].at \in {"idle", "run", "fetch", "decide"}
       /\ handler[h].at # "idle" => handler[h].todo # <<>>

\* An update that fails does not come back every two minutes: however many
\* handlers overlap, two automatic updates of a server are a cooldown apart,
\* unless the backend died before writing the marker of the first.
CooldownHeld == hasty = {}

\* Even then the queue holds at most one automatic update of a server.
OneAutoUpdate ==
  \A i, j \in DOMAIN queue :
    queue[i].author = "auto" /\ queue[j].author = "auto"
    /\ queue[i].server = queue[j].server => i = j

AutoQueued(s) == queue' = Append(queue, AutoUpdate(s))

\* An automatic update is created only if the last report says that nobody
\* plays, though that report may be younger than what the handler first read.
NeverWithPlayers == [][\A s \in Servers : AutoQueued(s) => players[s] = "none"]_vars

\* "aucun ordre deja en attente sur ce serveur": an automatic update joins no
\* live order of its server.
NeverOnTop ==
  [][\A s \in Servers :
       AutoQueued(s) => \A i \in DOMAIN queue : queue[i].server # s]_vars
=============================================================================
