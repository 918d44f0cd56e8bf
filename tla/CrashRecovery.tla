--------------------------- MODULE CrashRecovery ---------------------------
(***************************************************************************)
(* The automatic restart of crashed game servers (app/crash_recovery.py):  *)
(* each GET of the agent looks at the last state reports, queues a "start" *)
(* for a server that is down without having been stopped, and gives up     *)
(* when a crash loop exhausts MAX attempts within WINDOW.                  *)
(*                                                                         *)
(* The orders are reduced to the queue of the live ones, oldest first;     *)
(* OrderQueue has their whole life.  The webhook is configured: without    *)
(* one, sending an alert does not suspend the handler, which is the case   *)
(* of AlertSent coming first.  Handlers overlap: one whose agent died or   *)
(* gave its GET up goes on, beside that of the next cycle.                 *)
(***************************************************************************)
EXTENDS Integers, Sequences, FiniteSets, SequencesExt

CONSTANTS
  Registry,      \* the servers, in the order of servers_registry
  Window,        \* CRASH_RESTART_WINDOW_MINUTES
  MaxAttempts,   \* CRASH_RESTART_MAX_ATTEMPTS
  ConfirmPolls,  \* CRASH_RESTART_CONFIRM_POLLS
  Buttons,       \* the orders the admin sends
  Toggled,       \* bound: the servers whose auto_restart_on_crash is switched
  Tracked,       \* bound: the servers whose crash loops are counted (history)
  Handlers,      \* bound: GET handlers in flight at a time
  MaxQueue,      \* bound: live orders at which the admin stops adding
  MaxTime,       \* bound: last value of the clock
  MaxFaults      \* bound: partial reports, crashes of agent and backend

Servers == ToSet(Registry)

\* The keys of a dict: no server comes twice.
ASSUME RegistryAssumption ==
  /\ Registry \in Seq(Servers) /\ Registry # <<>>
  /\ \A i, j \in DOMAIN Registry : Registry[i] = Registry[j] => i = j

ASSUME SettingsAssumption ==
  /\ Window \in Nat
  /\ MaxAttempts \in Nat \ {0}
  /\ ConfirmPolls \in Nat \ {0}
  /\ Buttons \subseteq {"start", "stop"}
  /\ Toggled \subseteq Servers /\ Tracked \subseteq Servers
  /\ Handlers # {} /\ IsFiniteSet(Handlers)
  /\ MaxQueue \in Nat /\ MaxTime \in Nat /\ MaxFaults \in Nat

Order == [server : Servers, type : {"start", "stop"}, author : {"admin", "auto"},
          taken : BOOLEAN]

VARIABLES
  \* state.json
  watched,    \* servers active with auto_restart_on_crash
  queue,      \* the live orders
  reported,   \* servers[name].process_up: "unknown", "up" or "down"
  desired,    \* servers_desired_state
  attempts,   \* crash_recovery[name].attempts: [at, rank], rank told by the code's microseconds
  breaker,    \* servers with crash_recovery[name].breaker_tripped_at
  streak,     \* crash_recovery[name].up_streak
  \* the handlers of GET /api/agent/orders
  poll,
  \* the agent and the games
  pc, result, proc,
  awaited,    \* the handler whose answer the agent waits for, if any
  now,
  \* history, read by no action
  autos,      \* automatic starts of the episode, as in attempts
  alerts,     \* alerts of the episode (2: several)
  upReports,  \* consecutive reports of the process up
  loop,       \* automatic starts since two of those, or since the clock moved
  faults

recoveryVars == <<attempts, breaker, streak>>
storeVars    == <<watched, queue, reported, desired>>
agentVars    == <<pc, result, proc, awaited>>
historyVars  == <<autos, alerts, upReports, loop>>
vars == <<storeVars, recoveryVars, poll, agentVars, historyVars, now, faults>>

PCs == {"off",       \* between two cycles
        "report",    \* about to report at the start of the cycle
        "poll",      \* about to send the first GET of the cycle
        "waiting",   \* GET sent
        "exec",      \* executing the order at the head of the queue
        "verdict",   \* about to report its outcome
        "rereport",  \* about to report the state it left
        "again"}     \* at the head of the drain loop

\* No handler: nothing to look at, nothing remembered.
NoPoll == [at |-> "idle", todo |-> <<>>, watched |-> {}, pending |-> {},
           up |-> [s \in Servers |-> "unknown"],
           desired |-> [s \in Servers |-> "none"]]

Init ==
  /\ watched = Servers /\ queue = <<>>
  /\ reported = [s \in Servers |-> "unknown"]
  /\ desired = [s \in Servers |-> "none"]
  /\ attempts = [s \in Servers |-> {}]
  /\ breaker = {}
  /\ streak = [s \in Servers |-> 0]
  /\ poll = [h \in Handlers |-> NoPoll]
  /\ pc = "off" /\ result = "none" /\ awaited = {}
  /\ proc = [s \in Servers |-> TRUE]
  /\ now = 0
  /\ autos = [s \in Servers |-> {}]
  /\ alerts = [s \in Servers |-> 0]
  /\ upReports = [s \in Servers |-> 0]
  /\ loop = [s \in Servers |-> 0]
  /\ faults = 0

\* A handler that is not suspended has the event loop for itself, and its
\* steps are one to the rest of the world.
EventLoopFree == \A h \in Handlers : poll[h].at # "run"

-----------------------------------------------------------------------------
(* auto_enqueue_crash_restarts                                             *)

\* The GET arrives: reports, live orders and desired states are read once.
StartPoll(h) ==
  /\ EventLoopFree
  /\ pc \in {"poll", "again"} /\ poll[h].at = "idle"
  /\ pc' = "waiting" /\ awaited' = {h}
  /\ poll' = [poll EXCEPT ![h] =
               [at |-> "run", todo |-> Registry, watched |-> watched,
                pending |-> {queue[i].server : i \in DOMAIN queue},
                up |-> reported, desired |-> desired]]
  /\ UNCHANGED <<storeVars, recoveryVars, result, proc, historyVars, now, faults>>

Looking(h, s) == poll[h].at = "run" /\ Head(poll[h].todo) = s

\* On to the next server; past the last one only the answer is left.
Remaining(h, at) ==
  IF Len(poll[h].todo) = 1 THEN [NoPoll EXCEPT !.at = IF at = "run" THEN "answer" ELSE at]
  ELSE [poll[h] EXCEPT !.at = at, !.todo = Tail(@)]

Advance(h) == poll' = [poll EXCEPT ![h] = Remaining(h, "run")]

PassOver(h, s) ==
  /\ Looking(h, s)
  /\ s \notin poll[h].watched \/ poll[h].up[s] = "unknown"
  /\ Advance(h)
  /\ UNCHANGED <<storeVars, recoveryVars, agentVars, historyVars, now, faults>>

SeenUp(h, s)   == Looking(h, s) /\ s \in poll[h].watched /\ poll[h].up[s] = "up"
SeenDown(h, s) == Looking(h, s) /\ s \in poll[h].watched /\ poll[h].up[s] = "down"

Confirmed(s) == streak[s] + 1 >= ConfirmPolls

CountUp(h, s) ==
  /\ SeenUp(h, s) /\ ~ Confirmed(s)
  /\ streak' = [streak EXCEPT ![s] = @ + 1]
  /\ Advance(h)
  /\ UNCHANGED <<storeVars, attempts, breaker, agentVars, historyVars, now, faults>>

\* clear_crash_recovery: the episode is over.
ClearHistory(h, s) ==
  /\ SeenUp(h, s) /\ Confirmed(s)
  /\ attempts' = [attempts EXCEPT ![s] = {}]
  /\ breaker' = breaker \ {s}
  /\ streak' = [streak EXCEPT ![s] = 0]
  /\ autos' = [autos EXCEPT ![s] = {}]
  /\ alerts' = [alerts EXCEPT ![s] = 0]
  /\ Advance(h)
  /\ UNCHANGED <<storeVars, agentVars, upReports, loop, now, faults>>

\* The reasons to leave a server down, without the breaker.
HeldIgnoringBreaker(h, s) == poll[h].desired[s] = "stopped" \/ s \in poll[h].pending

\* The reasons, without the orders already in the queue.
HeldIgnoringQueue(h, s) == poll[h].desired[s] = "stopped" \/ s \in breaker

\* The reasons, without the wish of the admin.
HeldIgnoringWish(h, s) == s \in poll[h].pending \/ s \in breaker

\* The reasons, and one more that allows one attempt an episode.
HeldAfterOne(h, s) ==
  poll[h].desired[s] = "stopped" \/ s \in poll[h].pending \/ s \in breaker \/ attempts[s] # {}

\* Stopped on purpose, resolved by an order in the queue, or given up.
Held(h, s) == poll[h].desired[s] = "stopped" \/ s \in poll[h].pending \/ s \in breaker

HoldBack(h, s) ==
  /\ SeenDown(h, s) /\ Held(h, s)
  /\ streak' = [streak EXCEPT ![s] = 0]
  /\ Advance(h)
  /\ UNCHANGED <<storeVars, attempts, breaker, agentVars, historyVars, now, faults>>

Recent(s) == {a \in attempts[s] : a.at > now - Window}

\* A breaker that lets one attempt too many go.
ExhaustedLate(s) == Cardinality(Recent(s)) > MaxAttempts

Exhausted(s) == Cardinality(Recent(s)) >= MaxAttempts

\* The breaker is written before the alert is awaited.
TripBreaker(h, s) ==
  /\ SeenDown(h, s) /\ ~ Held(h, s) /\ Exhausted(s)
  /\ attempts' = [attempts EXCEPT ![s] = Recent(s)]
  /\ breaker' = breaker \union {s}
  /\ streak' = [streak EXCEPT ![s] = 0]
  /\ alerts' = [alerts EXCEPT ![s] = IF @ = 0 THEN 1 ELSE 2]
  /\ poll' = [poll EXCEPT ![h] = Remaining(h, "alert")]
  /\ UNCHANGED <<storeVars, agentVars, autos, upReports, loop, now, faults>>

\* Back from send_alert, which never raises.
AlertSent(h) ==
  /\ EventLoopFree
  /\ poll[h].at = "alert"
  /\ poll' = [poll EXCEPT ![h].at = IF poll[h].todo = <<>> THEN "answer" ELSE "run"]
  /\ UNCHANGED <<storeVars, recoveryVars, agentVars, historyVars, now, faults>>

Attempt(s) == [at |-> now, rank |-> Cardinality({a \in attempts[s] : a.at = now})]

\* The attempt is recorded, and then ...
RecordAttempt(h, s) ==
  /\ SeenDown(h, s) /\ ~ Held(h, s) /\ ~ Exhausted(s)
  /\ attempts' = [attempts EXCEPT ![s] = Recent(s) \union {Attempt(s)}]
  /\ streak' = [streak EXCEPT ![s] = 0]
  /\ UNCHANGED breaker

AutoStarts(s) == [server |-> s, type |-> "start", author |-> "auto", taken |-> FALSE]

\* ... the order is created (add_order without reject_if).
AutoStart(h, s) ==
  /\ RecordAttempt(h, s)
  /\ queue' = Append(queue, AutoStarts(s))
  /\ autos' = [autos EXCEPT ![s] = @ \union {Attempt(s)}]
  /\ loop' = [loop EXCEPT ![s] = IF s \notin Tracked \/ @ > MaxAttempts THEN @ ELSE @ + 1]
  /\ Advance(h)
  /\ UNCHANGED <<watched, reported, desired, agentVars, alerts, upReports, now, faults>>

\* The backend is gone, and with it its handlers; the agent's GET fails.
HandlersLost ==
  /\ poll' = [h \in Handlers |-> NoPoll]
  /\ pc' = IF pc = "waiting" THEN "off" ELSE pc
  /\ awaited' = {}

\* The backend is killed between the two writes.
KilledBeforeOrder(h, s) ==
  /\ faults < MaxFaults
  /\ RecordAttempt(h, s)
  /\ HandlersLost
  /\ faults' = faults + 1
  /\ UNCHANGED <<storeVars, result, proc, historyVars, now>>

-----------------------------------------------------------------------------
(* The agent: report, then GET, execute, report in turn                    *)

StartCycle ==
  /\ EventLoopFree
  /\ pc = "off"
  /\ pc' = "report"
  /\ UNCHANGED <<storeVars, recoveryVars, poll, awaited, result, proc, historyVars, now, faults>>

\* Send-HephStateReport and report_state.  A server whose state could not be
\* read is left out; a report that is lost leaves them all out.
Report(S) ==
  /\ EventLoopFree
  /\ pc \in {"report", "rereport"}
  /\ S # Servers => faults < MaxFaults
  /\ faults' = IF S = Servers THEN faults ELSE faults + 1
  /\ reported' = [s \in Servers |-> IF s \notin S THEN reported[s]
                                    ELSE IF proc[s] THEN "up" ELSE "down"]
  /\ upReports' = [s \in Servers |-> IF s \notin S \intersect Tracked THEN upReports[s]
                                     ELSE IF ~ proc[s] THEN 0
                                     ELSE IF upReports[s] < 2 THEN upReports[s] + 1
                                     ELSE 2]
  /\ loop' = [s \in Servers |-> IF upReports'[s] = 2 THEN 0 ELSE loop[s]]
  /\ pc' = IF pc = "report" THEN "poll" ELSE "again"
  /\ UNCHANGED <<watched, queue, desired, recoveryVars, poll, awaited, result, proc,
                 autos, alerts, now>>

\* The response: the agent, if it still waits for it, takes the first live order.
Answer(h) ==
  /\ EventLoopFree
  /\ poll[h].at = "answer"
  /\ poll' = [poll EXCEPT ![h] = NoPoll]
  /\ awaited' = awaited \ {h}
  /\ IF h \notin awaited THEN UNCHANGED <<pc, queue>>
     ELSE IF queue = <<>> THEN pc' = "again" /\ UNCHANGED queue
     ELSE pc' = "exec" /\ queue' = [queue EXCEPT ![1].taken = TRUE]
  /\ UNCHANGED <<watched, reported, desired, recoveryVars, result, proc,
                 historyVars, now, faults>>

\* The GET takes longer than the agent waits: it ends its cycle.
GetFails ==
  /\ EventLoopFree
  /\ pc = "waiting" /\ faults < MaxFaults
  /\ pc' = "off" /\ awaited' = {}
  /\ faults' = faults + 1
  /\ UNCHANGED <<storeVars, recoveryVars, poll, result, proc, historyVars, now>>

\* Start-GameServer waits for the process, Stop-GameServer for its end; one
\* that throws may have worked in part.
Execute(r) ==
  /\ EventLoopFree
  /\ pc = "exec"
  /\ pc' = "verdict" /\ result' = r
  /\ \E up \in BOOLEAN :
       /\ r = "done" => up = (Head(queue).type = "start")
       /\ proc' = [proc EXCEPT ![Head(queue).server] = up]
  /\ UNCHANGED <<storeVars, recoveryVars, poll, awaited, historyVars, now, faults>>

\* A verdict that stores the type of the order.
DesiredAsType(order, r) ==
  IF r = "done" THEN [desired EXCEPT ![order.server] = order.type] ELSE desired

\* set_order_status: a stop confirmed is a wish, and so is a start.
DesiredBy(order, r) ==
  IF r = "done"
  THEN [desired EXCEPT ![order.server] =
          IF order.type = "start" THEN "running" ELSE "stopped"]
  ELSE desired

Verdict ==
  /\ EventLoopFree
  /\ pc = "verdict"
  /\ desired' = DesiredBy(Head(queue), result)
  /\ queue' = Tail(queue)
  /\ pc' = "rereport" /\ result' = "none"
  /\ UNCHANGED <<watched, reported, recoveryVars, poll, awaited, proc, historyVars, now, faults>>

EndCycle ==
  /\ EventLoopFree
  /\ pc = "again"
  /\ pc' = "off"
  /\ UNCHANGED <<storeVars, recoveryVars, poll, awaited, result, proc, historyVars, now, faults>>

-----------------------------------------------------------------------------
(* The admin, the games, faults and time                                   *)

AdminOrder(s, t) ==
  /\ EventLoopFree
  /\ Len(queue) < MaxQueue
  /\ \A i \in DOMAIN queue : ~ (queue[i].server = s /\ queue[i].type = t)
  /\ queue' = Append(queue, [server |-> s, type |-> t, author |-> "admin",
                             taken |-> FALSE])
  /\ UNCHANGED <<watched, reported, desired, recoveryVars, poll, agentVars,
                 historyVars, now, faults>>

CancelOrder(i) ==
  /\ EventLoopFree
  /\ i \in DOMAIN queue /\ ~ queue[i].taken
  /\ queue' = RemoveAt(queue, i)
  /\ UNCHANGED <<watched, reported, desired, recoveryVars, poll, agentVars,
                 historyVars, now, faults>>

\* PUT .../registry with auto_restart_on_crash.
SetWatched(s) ==
  /\ EventLoopFree
  /\ watched' = IF s \in watched THEN watched \ {s} ELSE watched \union {s}
  /\ UNCHANGED <<queue, reported, desired, recoveryVars, poll, agentVars,
                 historyVars, now, faults>>

\* The process of a game ends by itself.
GameCrash(s) ==
  /\ EventLoopFree
  /\ proc[s]
  /\ proc' = [proc EXCEPT ![s] = FALSE]
  /\ UNCHANGED <<storeVars, recoveryVars, poll, awaited, pc, result, historyVars, now, faults>>

\* The agent dies; an order it had taken stays at the head, to be handed again.
AgentCrash ==
  /\ EventLoopFree
  /\ pc # "off" /\ faults < MaxFaults
  /\ pc' = "off" /\ result' = "none" /\ awaited' = {}
  /\ faults' = faults + 1
  /\ UNCHANGED <<storeVars, recoveryVars, poll, proc, historyVars, now>>

\* The backend dies while handlers are suspended.
BackendCrash ==
  /\ EventLoopFree
  /\ \E h \in Handlers : poll[h].at # "idle"
  /\ faults < MaxFaults
  /\ HandlersLost
  /\ faults' = faults + 1
  /\ UNCHANGED <<storeVars, recoveryVars, result, proc, historyVars, now>>

Tick ==
  /\ EventLoopFree
  /\ now < MaxTime
  /\ now' = now + 1
  /\ loop' = [s \in Servers |-> 0]
  /\ UNCHANGED <<storeVars, recoveryVars, poll, agentVars, autos, alerts, upReports, faults>>

\* A handler between two awaits: nothing else runs in the event loop.
Look(h, s) ==
  \/ PassOver(h, s) \/ CountUp(h, s) \/ ClearHistory(h, s) \/ HoldBack(h, s)
  \/ TripBreaker(h, s) \/ AutoStart(h, s) \/ KilledBeforeOrder(h, s)

Handler == \E h \in Handlers, s \in Servers : Look(h, s)

Agent ==
  \/ StartCycle \/ Verdict \/ EndCycle
  \/ \E h \in Handlers : StartPoll(h)
  \/ \E S \in SUBSET Servers : Report(S)
  \/ \E r \in {"done", "failed"} : Execute(r)

Others ==
  \/ \E h \in Handlers : AlertSent(h) \/ Answer(h)
  \/ GetFails \/ AgentCrash \/ BackendCrash \/ Tick
  \/ \E s \in Servers, t \in Buttons : AdminOrder(s, t)
  \/ \E i \in DOMAIN queue : CancelOrder(i)
  \/ \E s \in Toggled : SetWatched(s)
  \/ \E s \in Servers : GameCrash(s)

Next == Handler \/ Agent \/ Others

Spec == Init /\ [][Next]_vars

\* Handlers, alerts, HTTP calls and executions end, the event loop lets each
\* handler have its turn, the scheduled task starts a cycle every two minutes,
\* and a cycle begins with a report.
Fairness ==
  /\ WF_vars(Handler) /\ WF_vars(Agent) /\ SF_vars(EndCycle)
  /\ \A h \in Handlers : SF_vars(AlertSent(h)) /\ SF_vars(Answer(h))

FairSpec == Spec /\ Fairness

-----------------------------------------------------------------------------
(* Properties *)

TimedAttempts == [at : 0..MaxTime, rank : Nat]

Wishes == {"none", "running", "stopped"}

\* The variables keep their types; an order being executed is at the head of
\* the queue, marked taken.
TypeOK ==
  /\ watched \subseteq Servers
  /\ queue \in Seq(Order)
  /\ reported \in [Servers -> {"unknown", "up", "down"}]
  /\ desired \in [Servers -> Wishes]
  /\ attempts \in [Servers -> SUBSET TimedAttempts]
  /\ breaker \subseteq Servers
  /\ streak \in [Servers -> 0..ConfirmPolls - 1]
  /\ \A h \in Handlers : poll[h].at \in {"idle", "run", "alert", "answer"}
  /\ pc \in PCs /\ awaited \subseteq Handlers
  /\ pc \in {"exec", "verdict"} => queue # <<>> /\ Head(queue).taken
  /\ proc \in [Servers -> BOOLEAN]
  /\ now \in 0..MaxTime

\* Of the automatic starts of one episode (since the history was last cleared),
\* no window of time holds more than MaxAttempts, although handlers are
\* suspended and the backend may die between recording and starting.
AutoStartsBounded ==
  \A s \in Servers :
    Cardinality({a \in autos[s] : a.at > now - Window}) =< MaxAttempts

\* One alert an episode: the breaker is set before the alert is awaited, and
\* once it is set nothing but a confirmed uptime starts a new episode.
OneAlertPerEpisode ==
  \A s \in Servers : alerts[s] =< 1 /\ (alerts[s] = 1 => s \in breaker)

AutoStartsOf(s) == {i \in DOMAIN queue : queue[i].server = s /\ queue[i].author = "auto"}

\* A handler queues a start it did not see, one that another has queued while
\* it awaited an alert, but never on top of one it saw, and none for the first
\* server of the registry: the live automatic starts of a server are at most
\* as many as the handlers in flight at a time, those of the first at most one.
PileUpBounded ==
  \A s \in Servers :
    Cardinality(AutoStartsOf(s)) =< IF s = Registry[1] THEN 1 ELSE Cardinality(Handlers)

\* "Ne pas en empiler un second par-dessus": a server has at most one automatic
\* start among the live orders.
NoPileUp == \A s \in Servers : Cardinality(AutoStartsOf(s)) =< 1

AutoQueued(s) == queue' = Append(queue, AutoStarts(s))

StopWanted(s) ==
  \/ desired[s] = "stopped"
  \/ \E i \in DOMAIN queue : queue[i].server = s /\ queue[i].type = "stop"

\* The first server of the registry is looked at before any alert is awaited:
\* it is not restarted when a stop was confirmed or is still in the queue.
FirstStopRespected ==
  [][AutoQueued(Registry[1]) => ~ StopWanted(Registry[1])]_vars

\* "Ne doit JAMAIS annuler un arret volontaire": no automatic start joins the
\* queue of a server whose stop was confirmed or is in that queue.
StopRespected == [][\A s \in Servers : AutoQueued(s) => ~ StopWanted(s)]_vars

\* The breaker trips in a crash loop "vu up UNE fois": without two reports in a
\* row that show the process up, there are at most MaxAttempts automatic starts
\* in one window.
CrashLoopStops == \A s \in Servers : loop[s] =< MaxAttempts

AdminOrders(s) ==
  \E i \in DOMAIN queue : queue[i].server = s /\ queue[i].author = "admin"

\* A crash is dealt with: the process is up again, or the breaker has told the
\* admin, or it is in the hands of the admin (stopped, an order, not watched).
CrashesHandled ==
  \A s \in Servers :
    ~ proc[s] ~> \/ proc[s] \/ s \in breaker \/ s \notin watched
                \/ desired[s] = "stopped" \/ AdminOrders(s)
=============================================================================
