---------------------------- MODULE OrderQueue ----------------------------
(***************************************************************************)
(* The life of orders from the dashboard to the game machine: the backend  *)
(* (app/storage.py, app/routes_admin.py, app/routes_agent.py) keeps them   *)
(* in state.json; the agent (agent/hephaestos-agent.ps1) drains them, one  *)
(* at a time, in cycles started by a scheduled task.                       *)
(*                                                                         *)
(* Every Store method runs under one asyncio lock with no await inside, so *)
(* a handler is atomic up to its next network await.  The GET of the agent *)
(* is split at its awaits (one alert per expired order); the agent's POSTs *)
(* may be answered, be given up by the agent and still arrive, or be lost. *)
(***************************************************************************)
EXTENDS OrderStore, Sequences

CONSTANTS
  Ids409,      \* orders whose uuid happens to contain "409"
  Switched,    \* bound: servers whose status the admin changes
  MaxOrders,   \* bound: orders ever created
  MaxHour,     \* bound: last hour of the clock
  MaxFaults    \* bound: requests given up and crashes

ASSUME BoundsAssumption ==
  /\ MaxOrders \in Nat
  /\ MaxHour \in Nat
  /\ MaxFaults \in Nat
  /\ Switched \subseteq Servers

OrderIds == 1..MaxOrders

ASSUME Ids409Assumption == Ids409 \subseteq OrderIds

Nobody   == 0               \* no order in hand

VARIABLES
  \* state.json
  orders,      \* data["orders"]
  issued,      \* how many orders were ever created
  unnotified,  \* data["orders_expired_unnotified"]
  desired,     \* data["servers_desired_state"]
  active,      \* registry entries whose status is "active"
  \* the backend's handler of GET /api/agent/orders, and the wall clock
  listing,     \* the agent's copy of the orders, from GET to verdict
  alerting,    \* popped expiries whose alert is not sent yet
  alerted,     \* expiries whose alert was sent
  now,
  \* the agent
  pc,          \* where Invoke-HephAgentCycle is
  cur,         \* the order in hand
  attempted,   \* $attemptedOrderIds
  result,      \* the result of the order in hand
  late,        \* status reports given up by the agent and still under way
  \* history, read by no action
  ledger,      \* executions begun, in order: [id, server]
  started,     \* orders whose "running" report was accepted in time
  skipped,     \* orders ignored: server unknown to the agent
  effect,      \* what the last successful execution did to each server
  refused,     \* servers with a final report refused by the backend
  faults,      \* requests given up and crashes so far
  crashed      \* the backend crashed at least once

backendVars == <<orders, issued, unnotified, desired, active>>
handlerVars == <<listing, alerting, alerted, crashed>>
agentVars   == <<pc, cur, attempted, result, late>>
historyVars == <<ledger, started, skipped, effect, refused>>
vars == <<backendVars, handlerVars, agentVars, historyVars, now, faults>>

\* A GET that lists only what no agent has begun.
PendingOrders(q) == [o \in {p \in DOMAIN q : q[p].status = "pending"} |-> q[o]]

\* The list as pending_orders returns it: running orders are listed again, so
\* that an agent that died executing one is handed it again.
LiveOrders(q) == [o \in Live(q) |-> q[o]]

NoOrders == [o \in {} |-> NewOrder(CHOOSE s \in Servers : TRUE,
                                   CHOOSE t \in Types : TRUE, "auto", 0)]

PCs == {"off",      \* between two cycles
        "get",      \* about to send the first GET of the cycle
        "waiting",  \* GET sent
        "loop",     \* at the head of the drain loop
        "ack",      \* reporting "running"
        "exec",     \* executing the order in hand
        "verdict"}  \* reporting "done" or "failed"

\* Where the agent has an order in hand.
InHand == {"ack", "exec", "verdict"}

\* Deployment orders carry their whole context and skip the config lookup.
DeployTypes == {"install_game", "scan_exe", "setup_server"}

StatusReport == [id : OrderIds, status : {"running", "done", "failed"}]

Init ==
  /\ orders = NoOrders
  /\ issued = 0
  /\ unnotified = {}
  /\ desired = [s \in Servers |-> "none"]
  /\ active = Servers
  /\ listing = NoOrders /\ alerting = {} /\ alerted = {} /\ crashed = FALSE
  /\ now = 0
  /\ pc = "off" /\ cur = Nobody /\ attempted = {}
  /\ result = "none" /\ late = {}
  /\ ledger = <<>> /\ started = {} /\ skipped = {} /\ refused = {}
  /\ effect = [s \in Servers |-> "none"]
  /\ faults = 0

-----------------------------------------------------------------------------
(* The dashboard *)

\* A groom that leaves no trace of what it expired.
GroomUntraced ==
  /\ orders' = Groomed(orders, now)
  /\ UNCHANGED unnotified

\* A groom that is written back keeps a trace of what it expired.
Groom ==
  /\ orders' = Groomed(orders, now)
  /\ unnotified' = unnotified \union Expiring(orders, now)

\* The buttons: _create_order, backup_save, restore_save; and the callers of
\* add_order without reject_if.  A conflict is raised before anything is
\* written, the groom included: nothing changes and there is no step for it.
AddOrder(s, t, a) ==
  LET groomed == Groomed(orders, now)
      id      == issued + 1 IN
  /\ issued < MaxOrders
  /\ a = "admin" => ~ Conflicts(groomed, s, t)
  /\ orders' = Listed(groomed, id, NewOrder(s, t, a, now))
  /\ unnotified' = unnotified \union Expiring(orders, now)
  /\ issued' = id
  /\ UNCHANGED <<desired, active, handlerVars, agentVars, historyVars, now, faults>>

\* DELETE .../orders/{id}: the route reads pending_orders, which grooms, then
\* cancels.  On a running order it answers 409, and only the groom remains.
CancelOrder(o) ==
  LET groomed == Groomed(orders, now) IN
  /\ IsLive(groomed, o)
  /\ orders' = IF CanCancel(groomed, o) THEN Cancelled(groomed, o) ELSE groomed
  /\ unnotified' = unnotified \union Expiring(orders, now)
  /\ UNCHANGED <<issued, desired, active, handlerVars, agentVars, historyVars, now, faults>>

\* GET /api/servers: grooms, and shows what is left.
ListServers ==
  /\ Groom
  /\ UNCHANGED <<issued, desired, active, handlerVars, agentVars, historyVars, now, faults>>

\* PUT .../registry with a status: only active entries are pushed to the agent.
PutStatus(s) ==
  /\ active' = IF s \in active THEN active \ {s} ELSE active \union {s}
  /\ UNCHANGED <<orders, issued, unnotified, desired, handlerVars, agentVars,
                 historyVars, now, faults>>

-----------------------------------------------------------------------------
(* GET /api/agent/orders *)

\* The agent's scheduled task starts a cycle, with nothing attempted yet:
\* $attemptedOrderIds is local to the cycle, and emptied here where it ends.
StartCycle ==
  /\ pc = "off"
  /\ pc' = "get"
  /\ UNCHANGED <<backendVars, handlerVars, cur, attempted, result, late, historyVars, now, faults>>

\* A GET that leaves the expiries where they are.
PopNothing ==
  /\ unnotified' = unnotified \union Expiring(orders, now)
  /\ UNCHANGED alerting

\* pop_expired_unnotified, right after the groom of pending_orders.
PopExpired ==
  /\ alerting' = alerting \union unnotified \union Expiring(orders, now)
  /\ unnotified' = {}

\* The GET handler up to its first await on an alert.  What auto_enqueue_* adds
\* before this point comes as AddOrder(s, t, "auto").
GetOrders ==
  /\ pc \in {"get", "loop"}
  /\ orders' = Groomed(orders, now)
  /\ listing' = LiveOrders(orders')
  /\ PopExpired
  /\ pc' = "waiting"
  /\ UNCHANGED <<issued, desired, active, alerted, crashed, cur, attempted,
                 result, late, historyVars, now, faults>>

\* One alert of the handler's loop, awaited before the response leaves.
SendAlert(o) ==
  /\ o \in alerting
  /\ alerting' = alerting \ {o}
  /\ alerted' = alerted \union {o}
  /\ UNCHANGED <<backendVars, listing, crashed, agentVars, historyVars, now, faults>>

Unattempted == DOMAIN listing \ attempted

\* A drain that takes the newest order first.
IsNewest(o) == o \in Unattempted /\ \A p \in Unattempted : p =< o

\* The first order of the list not attempted yet in this cycle.
IsNext(o) == o \in Unattempted /\ \A p \in Unattempted : o =< p

\* The agent's config has only the active servers, as of this very response.
Known(order) == order.server \in active \/ order.type \in DeployTypes

\* Nothing (more) to do for now: the long poll ends empty-handed.
TakeNothing ==
  /\ pc = "waiting" /\ alerting = {}
  /\ Unattempted = {}
  /\ pc' = "loop" /\ listing' = NoOrders
  /\ UNCHANGED <<backendVars, alerting, alerted, crashed, cur, attempted, result, late,
                 historyVars, now, faults>>

\* The next order is taken in hand.
TakeOrder(o) ==
  /\ pc = "waiting" /\ alerting = {}
  /\ IsNext(o) /\ Known(listing[o])
  /\ attempted' = attempted \union {o}
  /\ cur' = o
  /\ pc' = "ack"
  /\ UNCHANGED <<backendVars, handlerVars, result, late, historyVars, now, faults>>

\* An order whose server the agent does not know is passed over: no report.
IgnoreOrder(o) ==
  /\ pc = "waiting" /\ alerting = {}
  /\ IsNext(o) /\ ~ Known(listing[o])
  /\ attempted' = attempted \union {o}
  /\ skipped' = skipped \union {o}
  /\ pc' = "loop" /\ listing' = NoOrders
  /\ UNCHANGED <<backendVars, alerting, alerted, crashed, cur, result, late,
                 ledger, started, effect, refused, now, faults>>

\* GET failed or timed out on the agent's side: the cycle ends there.
GetFails ==
  /\ pc = "waiting" /\ faults < MaxFaults
  /\ pc' = "off" /\ listing' = NoOrders /\ attempted' = {}
  /\ faults' = faults + 1
  /\ UNCHANGED <<backendVars, alerting, alerted, crashed, cur, result, late,
                 historyVars, now>>

-----------------------------------------------------------------------------
(* POST /api/agent/orders/{id} *)

\* A report that is recorded whatever the desired state of the server was.
RecordOrderOnly(o, st) ==
  /\ orders' = IF Accepts(orders, o) THEN Reported(orders, o, st) ELSE orders
  /\ UNCHANGED desired

\* Store.set_order_status: refused on an unknown or closed order, else recorded
\* together with the desired state a "done" implies.
Record(o, st) ==
  /\ orders' = IF Accepts(orders, o) THEN Reported(orders, o, st) ELSE orders
  /\ desired' = IF Accepts(orders, o) /\ st = "done"
                THEN DesiredAfter(desired, orders[o].server, orders[o].type)
                ELSE desired

\* Execution starts: from here on the game server may be touched.
Execute ==
  /\ pc' = "exec"
  /\ ledger' = Append(ledger, [id |-> cur, server |-> listing[cur].server])

DropOrder == pc' = "loop" /\ cur' = Nobody /\ result' = "none" /\ listing' = NoOrders

\* Set-HephOrderStatus "running", answered.  Only a 409 holds the agent back.
AnswerAck ==
  /\ pc = "ack"
  /\ Record(cur, "running")
  /\ IF Refuses409(orders, cur)
     THEN DropOrder /\ UNCHANGED <<ledger, started>>
     ELSE /\ Execute
          /\ started' = IF Accepts(orders, cur) THEN started \union {cur} ELSE started
          /\ UNCHANGED <<cur, result, listing>>
  /\ UNCHANGED <<issued, unnotified, active, alerting, alerted, crashed, attempted, late,
                 skipped, effect, refused, now, faults>>

\* Set-HephOrderStatus "running", no answer: the agent proceeds all the same,
\* and the request may still reach the backend later.
GiveUpAck ==
  /\ pc = "ack" /\ faults < MaxFaults
  /\ cur \notin Ids409
  /\ Execute
  /\ late' = late \union {[id |-> cur, status |-> "running"]}
  /\ faults' = faults + 1
  /\ UNCHANGED <<backendVars, handlerVars, cur, attempted, result, started, skipped,
                 effect, refused, now>>

\* The error text quotes the URL, hence the order's id, and a 409 is recognised
\* by finding "409" in that text: for these ids every error reads as a 409.
MisreadAck ==
  /\ pc = "ack" /\ faults < MaxFaults
  /\ cur \in Ids409
  /\ DropOrder
  /\ late' = late \union {[id |-> cur, status |-> "running"]}
  /\ faults' = faults + 1
  /\ UNCHANGED <<backendVars, alerting, alerted, crashed, attempted, historyVars, now>>

\* The switch on the order type: it succeeds, or it fails or throws.
FinishExecution(r) ==
  /\ pc = "exec"
  /\ pc' = "verdict" /\ result' = r
  /\ effect' = IF r = "done"
               THEN DesiredAfter(effect, listing[cur].server, listing[cur].type)
               ELSE effect
  /\ UNCHANGED <<backendVars, handlerVars, cur, attempted, late, ledger, started, skipped,
                 refused, now, faults>>

\* Set-HephOrderStatus with the verdict, answered; its answer is not read.
AnswerVerdict ==
  /\ pc = "verdict"
  /\ Record(cur, result)
  /\ refused' = IF Accepts(orders, cur) THEN refused
                ELSE refused \union {listing[cur].server}
  /\ DropOrder
  /\ UNCHANGED <<issued, unnotified, active, alerting, alerted, crashed, attempted, late,
                 ledger, started, skipped, effect, now, faults>>

\* Set-HephOrderStatus with the verdict, no answer.
GiveUpVerdict ==
  /\ pc = "verdict" /\ faults < MaxFaults
  /\ late' = late \union {[id |-> cur, status |-> result]}
  /\ DropOrder
  /\ faults' = faults + 1
  /\ UNCHANGED <<backendVars, alerting, alerted, crashed, attempted, historyVars, now>>

\* A report given up by the agent reaches the backend after all.  One that is
\* lost is one for which this step never comes.
LateReport(m) ==
  /\ m \in late
  /\ late' = late \ {m}
  /\ Record(m.id, m.status)
  /\ UNCHANGED <<issued, unnotified, active, handlerVars, pc, cur, attempted, result,
                 historyVars, now, faults>>

-----------------------------------------------------------------------------
(* Ends, crashes, time *)

\* The drain window is over.
EndCycle ==
  /\ pc = "loop"
  /\ pc' = "off" /\ attempted' = {}
  /\ UNCHANGED <<backendVars, handlerVars, cur, result, late, historyVars,
                 now, faults>>

\* The agent dies anywhere in a cycle; the report it was sending may be lost or
\* still arrive.
AgentCrash ==
  /\ pc # "off" /\ faults < MaxFaults
  /\ late' \in {late, late \union
                  (CASE pc = "ack"     -> {[id |-> cur, status |-> "running"]}
                     [] pc = "verdict" -> {[id |-> cur, status |-> result]}
                     [] OTHER          -> {})}
  /\ pc' = "off" /\ cur' = Nobody /\ result' = "none" /\ listing' = NoOrders
  /\ attempted' = {}
  /\ faults' = faults + 1
  /\ UNCHANGED <<backendVars, alerting, alerted, crashed, historyVars, now>>

\* The backend restarts: state.json is intact, the handlers in progress are
\* gone, and with them the alerts popped and not sent.
BackendCrash ==
  /\ faults < MaxFaults
  /\ alerting' = {} /\ crashed' = TRUE
  /\ IF pc = "waiting" THEN pc' = "off" /\ listing' = NoOrders /\ attempted' = {}
                       ELSE UNCHANGED <<pc, listing, attempted>>
  /\ faults' = faults + 1
  /\ UNCHANGED <<backendVars, alerted, cur, result, late, historyVars, now>>

Tick ==
  /\ now < MaxHour
  /\ now' = now + 1
  /\ UNCHANGED <<backendVars, handlerVars, agentVars, historyVars, faults>>

Dashboard ==
  \/ \E s \in Servers, t \in Types, a \in Authors : AddOrder(s, t, a)
  \/ \E o \in OrderIds : CancelOrder(o)
  \/ ListServers
  \/ \E s \in Switched : PutStatus(s)

Drain ==
  \/ StartCycle \/ GetOrders \/ TakeNothing \/ AnswerAck \/ AnswerVerdict \/ EndCycle
  \/ \E o \in OrderIds : SendAlert(o) \/ TakeOrder(o) \/ IgnoreOrder(o)
  \/ \E r \in TerminalStatuses : FinishExecution(r)

Faults ==
  \/ GetFails \/ GiveUpAck \/ MisreadAck \/ GiveUpVerdict \/ AgentCrash \/ BackendCrash
  \/ \E m \in StatusReport : LateReport(m)

Next == Dashboard \/ Drain \/ Faults \/ Tick

Spec == Init /\ [][Next]_vars

-----------------------------------------------------------------------------
(* Fairness: the scheduled task starts a cycle every two minutes, an HTTP   *)
(* call and an execution end, and the drain window is a wall-clock deadline *)
(* tested at each turn of the loop, so it cannot be put off for ever.  No   *)
(* fairness on the clock, on the admin, or on the fate of late requests.    *)

Fairness ==
  /\ WF_vars(StartCycle) /\ WF_vars(GetOrders)
  /\ WF_vars(TakeNothing \/ \E o \in OrderIds : TakeOrder(o) \/ IgnoreOrder(o))
  /\ WF_vars(\E o \in OrderIds : SendAlert(o))
  /\ WF_vars(AnswerAck) /\ WF_vars(AnswerVerdict)
  /\ WF_vars(\E r \in TerminalStatuses : FinishExecution(r))
  /\ SF_vars(EndCycle)

FairSpec == Spec /\ Fairness

-----------------------------------------------------------------------------
(* Properties *)

Ran == {ledger[i].id : i \in DOMAIN ledger}

Stage(o) == IF o > issued THEN "absent"
            ELSE IF o \in DOMAIN orders THEN orders[o].status
            ELSE "forgotten"

Lifecycle == INSTANCE OrderLifecycle
               WITH Orders <- OrderIds,
                    stage  <- [o \in OrderIds |-> Stage(o)],
                    ran    <- Ran

\* Each order moves forward only: closed once, forgotten only once closed,
\* concluded by the agent only after the agent ran it - whatever the order in
\* which late reports, grooms and cancellations reach the list.
ImplementsLifecycle == Lifecycle!LifeSpec

\* The variables keep their types: what is listed was created, and the agent
\* has an order in hand, with its copy, exactly from acknowledgement to verdict.
TypeOK ==
  /\ issued \in 0..MaxOrders
  /\ orders \in [DOMAIN orders -> Order] /\ DOMAIN orders \subseteq 1..issued
  /\ unnotified \subseteq OrderIds
  /\ desired \in [Servers -> Wishes]
  /\ active \subseteq Servers
  /\ listing \in [DOMAIN listing -> Order] /\ DOMAIN listing \subseteq 1..issued
  /\ alerting \subseteq OrderIds
  /\ alerted \subseteq OrderIds
  /\ crashed \in BOOLEAN
  /\ now \in Nat
  /\ pc \in PCs
  /\ IF pc \in InHand THEN cur \in DOMAIN listing ELSE cur = Nobody
  /\ attempted \subseteq OrderIds
  /\ result \in (IF pc = "verdict" THEN TerminalStatuses ELSE {"none"})
  /\ late \subseteq StatusReport
  /\ ledger \in Seq([id : OrderIds, server : Servers])
  /\ started \subseteq OrderIds
  /\ skipped \subseteq OrderIds
  /\ effect \in [Servers -> Wishes]
  /\ refused \subseteq Servers
  /\ faults \in Nat

\* An order whose "running" report the backend accepted while the agent was
\* waiting is out of the admin's reach: it is never pending again and never
\* cancelled, so "cancelled" on the dashboard means "not started" unless a
\* report was given up (cancel_order: only a pending order is cancelled).
StartedNeverCancelled ==
  \A o \in started \intersect DOMAIN orders :
    orders[o].status # "pending" /\ orders[o].detail # "cancelled"

Replays == Len(ledger) - Cardinality(Ran)

\* Executing an order twice takes a fault: each replay is paid by a request
\* given up or a crash.  Re-reading running orders at each GET and attempting
\* an id once per cycle never replay an order on their own.
ReplaysNeedFaults == Replays =< faults

\* Orders of one server are begun in the order in which they were created,
\* unless something went wrong or the agent once passed over the older one
\* because its server was disabled then.
InOrderPerServer ==
  faults = 0 =>
    \A i, j \in DOMAIN ledger :
      i < j /\ ledger[i].server = ledger[j].server /\ ledger[i].id > ledger[j].id
        => ledger[j].id \in skipped

\* Between two orders, and if no request was lost, the desired state used by
\* the crash recovery is what the last successful launch or stop did - except
\* for a server whose verdict came after its order had expired.
DesiredIsEffect ==
  faults = 0 /\ pc \notin {"exec", "verdict"} =>
    \A s \in Servers \ refused : desired[s] = effect[s]

\* An expiry is never silent: an expired order waits for its alert in
\* state.json, is in the hands of the GET handler, or was alerted - at one of
\* these places only - unless the backend crashed with alerts in hand.
Expired == {o \in DOMAIN orders : orders[o].detail = "expired"}

ExpiryNeverSilent ==
  /\ crashed \/ Expired \subseteq unnotified \union alerting \union alerted
  /\ unnotified \intersect (alerting \union alerted) = {}
  /\ alerting \intersect alerted = {}

\* A button never doubles a live order: of two live orders of one server and
\* type, the younger one was not created with reject_if.
AdminOrdersUnique ==
  \A o, p \in Live(orders) :
    o < p /\ orders[o].server = orders[p].server /\ orders[o].type = orders[p].type
      => orders[p].author = "auto"

\* Set-HephOrderStatus promises $false only for an order already closed, so
\* the agent may let go of the order in hand, before executing it, only then.
DroppedOnlyIfClosed ==
  [][pc = "ack" /\ pc' = "loop" => ~ IsLive(orders, cur)]_vars

\* What the code keeps of it: the agent lets go of an order that is still live
\* only if its id contains "409" and its acknowledgement got no answer; it dies
\* with an order in hand, or the order was closed, in all other cases.
DropsExplained ==
  [][pc = "ack" /\ pc' \notin {"ack", "exec"} =>
       \/ ~ IsLive(orders, cur)
       \/ faults' = faults + 1 /\ (pc' = "off" \/ cur \in Ids409)]_vars

\* The agent drains: an order of a server that stays active is closed in the
\* end, although requests get lost and the agent may crash on the way.
ActiveOrdersClose ==
  \A o \in OrderIds :
    IsLive(orders, o) ~> (~ IsLive(orders, o) \/ orders[o].server \notin active)

\* An expiry recorded in state.json leaves it for an alert in the end.
ExpiriesAlerted ==
  \A o \in OrderIds : o \in unnotified ~> (o \in alerted \/ crashed)
=============================================================================
