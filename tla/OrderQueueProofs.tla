------------------------- MODULE OrderQueueProofs -------------------------
(***************************************************************************)
(* Proofs about OrderQueue, for every set of servers and order types and   *)
(* for all bounds.                                                         *)
(***************************************************************************)
EXTENDS OrderQueue, FiniteSetTheorems, TLAPS

USE BoundsAssumption, HoursAssumption

IsList(q) == q \in [DOMAIN q -> Order]

-----------------------------------------------------------------------------
(* The operators of OrderStore keep lists lists. *)

\* An order of a list has typed fields, and changing its status and detail
\* within their types gives an order.
LEMMA OrderFields ==
  ASSUME NEW q, IsList(q), NEW o \in DOMAIN q
  PROVE  /\ q[o] \in Order
         /\ q[o].status \in LiveStatuses \union TerminalStatuses
         /\ q[o].server \in Servers
         /\ q[o].created \in Nat
         /\ \A st \in LiveStatuses \union TerminalStatuses, d \in Details :
              WithStatus(q[o], st, d) \in Order
BY DEF IsList, Order, WithStatus

\* A created order is an order.
LEMMA NewOrderType ==
  ASSUME NEW s \in Servers, NEW t \in Types, NEW a \in Authors, NEW n \in Nat
  PROVE  NewOrder(s, t, a, n) \in Order
BY DEF NewOrder, Order, LiveStatuses, Details

\* The empty list.
LEMMA NoOrdersType == IsList(NoOrders) /\ DOMAIN NoOrders = {}
BY DEF NoOrders, IsList

\* What a GET returns of a list is a list, with some of its orders.
LEMMA LiveOrdersType ==
  ASSUME NEW q, IsList(q)
  PROVE  IsList(LiveOrders(q)) /\ DOMAIN LiveOrders(q) \subseteq DOMAIN q
BY DEF LiveOrders, Live, IsList

\* Grooming keeps a list a list, and adds no order to it.
LEMMA GroomedType ==
  ASSUME NEW q, IsList(q), NEW n
  PROVE  IsList(Groomed(q, n)) /\ DOMAIN Groomed(q, n) \subseteq DOMAIN q
<1>1. ASSUME NEW o \in DOMAIN q
      PROVE  WithStatus(q[o], "failed", "expired") \in Order
  BY <1>1, OrderFields DEF TerminalStatuses, Details
<1>2. QED
  BY <1>1, OrderFields DEF Groomed, IsList

\* Inserting an order in a list.
LEMMA ListedType ==
  ASSUME NEW q, IsList(q), NEW id, NEW order \in Order
  PROVE  IsList(Listed(q, id, order)) /\ DOMAIN Listed(q, id, order) = DOMAIN q \union {id}
BY DEF Listed, IsList

\* Cancelling an order of a list.
LEMMA CancelledType ==
  ASSUME NEW q, IsList(q), NEW o \in DOMAIN q
  PROVE  IsList(Cancelled(q, o)) /\ DOMAIN Cancelled(q, o) = DOMAIN q
<1>1. WithStatus(q[o], "failed", "cancelled") \in Order
  BY OrderFields DEF TerminalStatuses, Details
<1>2. Cancelled(q, o) = [q EXCEPT ![o] = WithStatus(q[o], "failed", "cancelled")]
  BY DEF Cancelled, IsList
<1>3. QED
  BY <1>1, <1>2 DEF IsList

\* Recording a report on an order of a list.
LEMMA ReportedType ==
  ASSUME NEW q, IsList(q), NEW o \in DOMAIN q,
         NEW st \in LiveStatuses \union TerminalStatuses
  PROVE  IsList(Reported(q, o, st)) /\ DOMAIN Reported(q, o, st) = DOMAIN q
<1>1. WithStatus(q[o], st, "reported") \in Order
  BY OrderFields DEF Details
<1>2. Reported(q, o, st) = [q EXCEPT ![o] = WithStatus(q[o], st, "reported")]
  BY DEF Reported, IsList
<1>3. QED
  BY <1>1, <1>2 DEF IsList

\* The desired state of every server stays one of the three wishes.
LEMMA DesiredAfterType ==
  ASSUME NEW d \in [Servers -> Wishes], NEW s \in Servers, NEW t
  PROVE  DesiredAfter(d, s, t) \in [Servers -> Wishes]
BY DEF DesiredAfter, Wishes

-----------------------------------------------------------------------------
(* Type correctness *)

\* A recorded report keeps the list and the desired states typed, and lists no
\* order that was not listed.
LEMMA RecordType ==
  ASSUME TypeOK, NEW o, NEW st \in {"running", "done", "failed"}, Record(o, st)
  PROVE  /\ IsList(orders') /\ DOMAIN orders' = DOMAIN orders
         /\ desired' \in [Servers -> Wishes]
<1>1. CASE Accepts(orders, o)
  <2>1. o \in DOMAIN orders
    BY <1>1 DEF Accepts, IsLive
  <2>2. orders' = Reported(orders, o, st)
    BY <1>1 DEF Record
  <2>3. IsList(orders') /\ DOMAIN orders' = DOMAIN orders
    BY <2>1, <2>2, ReportedType DEF TypeOK, IsList, LiveStatuses, TerminalStatuses
  <2>4. desired' \in [Servers -> Wishes]
    BY <2>1, DesiredAfterType, OrderFields DEF Record, TypeOK, IsList
  <2>5. QED
    BY <2>3, <2>4
<1>2. CASE ~ Accepts(orders, o)
  BY <1>2 DEF Record, TypeOK, IsList
<1>3. QED
  BY <1>1, <1>2

\* The order in hand, while there is one.
LEMMA InHandType ==
  ASSUME TypeOK, pc \in {"ack", "exec", "verdict"}
  PROVE  cur \in DOMAIN listing /\ cur \in OrderIds /\ listing[cur].server \in Servers
<1>1. cur \in DOMAIN listing
  BY DEF TypeOK, InHand
<1>2. IsList(listing)
  BY DEF TypeOK, IsList
<1>3. cur \in OrderIds
  BY <1>1 DEF TypeOK, OrderIds
<1>4. QED
  BY <1>1, <1>2, <1>3, OrderFields

\* The ledger stays a sequence of entries.
LEMMA ExecuteType ==
  ASSUME TypeOK, Execute, cur \in OrderIds, listing[cur].server \in Servers
  PROVE  ledger' \in Seq([id : OrderIds, server : Servers])
<1>1. [id |-> cur, server |-> listing[cur].server] \in [id : OrderIds, server : Servers]
  OBVIOUS
<1> DEFINE entry == [id |-> cur, server |-> listing[cur].server]
           Entries == [id : OrderIds, server : Servers]
<1>2. entry \in Entries /\ ledger \in Seq(Entries) /\ ledger' = Append(ledger, entry)
  BY <1>1 DEF Execute, TypeOK
<1> HIDE DEF entry, Entries
<1>3. ledger' \in Seq(Entries)
  BY <1>2
<1>4. QED
  BY <1>3 DEF Entries

\* The initial state is well typed.
LEMMA TypeInit == Init => TypeOK
<1> SUFFICES ASSUME Init PROVE TypeOK
  OBVIOUS
<1>1. /\ IsList(orders) /\ DOMAIN orders \subseteq 1..issued
      /\ IsList(listing) /\ DOMAIN listing \subseteq 1..issued
  BY NoOrdersType DEF Init
<1>2. pc \in PCs /\ ~ (pc \in InHand) /\ cur = Nobody /\ result = "none" /\ pc # "verdict"
  BY DEF Init, PCs, InHand
<1>3. desired \in [Servers -> Wishes] /\ effect \in [Servers -> Wishes]
  BY DEF Init, Wishes
<1>4. ledger \in Seq([id : OrderIds, server : Servers])
  BY DEF Init
<1>5. issued \in 0..MaxOrders /\ now \in Nat /\ faults \in Nat
  BY DEF Init
<1>7. crashed \in BOOLEAN
  BY Zenon DEF Init
<1>6. /\ unnotified \subseteq OrderIds /\ alerting \subseteq OrderIds
      /\ alerted \subseteq OrderIds /\ attempted \subseteq OrderIds
      /\ started \subseteq OrderIds /\ skipped \subseteq OrderIds
      /\ late \subseteq StatusReport /\ active \subseteq Servers /\ refused \subseteq Servers
  BY DEF Init
<1>8. QED
  BY <1>1, <1>2, <1>3, <1>4, <1>5, <1>6, <1>7 DEF TypeOK, IsList

\* The steps of the dashboard keep the types.
LEMMA TypeDashboard == TypeOK /\ Dashboard => TypeOK'
<1> SUFFICES ASSUME TypeOK, Dashboard PROVE TypeOK'
  OBVIOUS
<1> USE DEF backendVars, handlerVars, agentVars, historyVars
<1>0. /\ IsList(orders)
      /\ Expiring(orders, now) \subseteq OrderIds
      /\ IsList(Groomed(orders, now))
      /\ DOMAIN Groomed(orders, now) \subseteq DOMAIN orders
  <2>1. IsList(orders)
    BY DEF TypeOK, IsList
  <2>2. Expiring(orders, now) \subseteq OrderIds
    BY DEF TypeOK, Expiring, Live, OrderIds
  <2>3. QED
    BY <2>1, <2>2, GroomedType
<1>1. ASSUME NEW s \in Servers, NEW t \in Types, NEW a \in Authors, AddOrder(s, t, a)
      PROVE  TypeOK'
  <2>1. NewOrder(s, t, a, now) \in Order
    BY NewOrderType DEF TypeOK
  <2>2. IsList(orders') /\ DOMAIN orders' \subseteq 1..issued'
    <3>1. IsList(orders') /\ DOMAIN orders' = DOMAIN Groomed(orders, now) \union {issued + 1}
      BY <1>0, <1>1, <2>1, ListedType DEF AddOrder
    <3>2. QED
      BY <1>0, <1>1, <3>1 DEF AddOrder, TypeOK
  <2>3. issued' \in 0..MaxOrders
    BY <1>1 DEF AddOrder, TypeOK
  <2>4. unnotified' \subseteq OrderIds
    BY <1>0, <1>1 DEF AddOrder, TypeOK
  <2>5. DOMAIN listing \subseteq 1..issued'
    BY <1>1 DEF AddOrder, TypeOK
  <2>6. QED
    BY <1>1, <2>2, <2>3, <2>4, <2>5 DEF AddOrder, TypeOK, IsList
<1>2. ASSUME NEW o \in OrderIds, CancelOrder(o)
      PROVE  TypeOK'
  <2>1. IsList(orders') /\ DOMAIN orders' \subseteq DOMAIN orders
    BY <1>0, <1>2, CancelledType DEF CancelOrder, IsLive
  <2>2. unnotified' \subseteq OrderIds
    BY <1>0, <1>2 DEF CancelOrder, TypeOK
  <2>3. QED
    BY <1>2, <2>1, <2>2 DEF CancelOrder, TypeOK, IsList
<1>3. CASE ListServers
  BY <1>0, <1>3 DEF ListServers, Groom, TypeOK, IsList
<1>4. ASSUME NEW s \in Switched, PutStatus(s)
      PROVE  TypeOK'
  BY <1>4 DEF PutStatus, TypeOK
<1>5. QED
  BY <1>1, <1>2, <1>3, <1>4 DEF Dashboard

\* The steps of the agent and of the handler of its GET keep the types.
LEMMA TypeDrain == TypeOK /\ Drain => TypeOK'
<1> SUFFICES ASSUME TypeOK, Drain PROVE TypeOK'
  OBVIOUS
<1> USE DEF backendVars, handlerVars, agentVars, historyVars, PCs, InHand, Nobody
<1>1. CASE StartCycle
  BY <1>1 DEF StartCycle, TypeOK
<1>2. CASE GetOrders
  <2>1. IsList(orders') /\ DOMAIN orders' \subseteq DOMAIN orders
    BY <1>2, GroomedType DEF GetOrders, TypeOK, IsList
  <2>2. IsList(listing') /\ DOMAIN listing' \subseteq DOMAIN orders
    BY <1>2, <2>1, LiveOrdersType DEF GetOrders
  <2>3. alerting' \subseteq OrderIds /\ unnotified' \subseteq OrderIds
    BY <1>2 DEF GetOrders, PopExpired, TypeOK, Expiring, Live, OrderIds
  <2>4. QED
    BY <1>2, <2>1, <2>2, <2>3 DEF GetOrders, TypeOK, IsList
<1>3. CASE TakeNothing
  BY <1>3, NoOrdersType DEF TakeNothing, TypeOK, IsList
<1>4. ASSUME NEW o \in OrderIds, TakeOrder(o)
      PROVE  TypeOK'
  <2>1. o \in DOMAIN listing
    BY <1>4 DEF TakeOrder, IsNext, Unattempted
  <2>2. QED
    BY <1>4, <2>1 DEF TakeOrder, TypeOK
<1>5. ASSUME NEW o \in OrderIds, IgnoreOrder(o)
      PROVE  TypeOK'
  BY <1>5, NoOrdersType DEF IgnoreOrder, TypeOK, IsList
<1>6. CASE AnswerAck
  <2>1. cur \in DOMAIN listing /\ cur \in OrderIds /\ listing[cur].server \in Servers
    BY <1>6, InHandType DEF AnswerAck
  <2>2. /\ IsList(orders') /\ DOMAIN orders' = DOMAIN orders
        /\ desired' \in [Servers -> Wishes]
    BY <1>6, RecordType DEF AnswerAck
  <2>3. CASE Refuses409(orders, cur)
    BY <1>6, <2>2, <2>3, NoOrdersType DEF AnswerAck, DropOrder, TypeOK, IsList
  <2>4. CASE ~ Refuses409(orders, cur)
    <3>1. ledger' \in Seq([id : OrderIds, server : Servers])
      BY <1>6, <2>1, <2>4, ExecuteType DEF AnswerAck
    <3>2. started' \subseteq OrderIds
      BY <1>6, <2>1, <2>4 DEF AnswerAck, TypeOK
    <3>3. QED
      BY <1>6, <2>1, <2>2, <2>4, <3>1, <3>2 DEF AnswerAck, Execute, TypeOK, IsList
  <2>5. QED
    BY <2>3, <2>4
<1>7. CASE AnswerVerdict
  <2>1. cur \in DOMAIN listing /\ listing[cur].server \in Servers
    BY <1>7, InHandType DEF AnswerVerdict
  <2>2. /\ IsList(orders') /\ DOMAIN orders' = DOMAIN orders
        /\ desired' \in [Servers -> Wishes]
    BY <1>7, RecordType DEF AnswerVerdict, TypeOK, TerminalStatuses
  <2>3. QED
    BY <1>7, <2>1, <2>2, NoOrdersType DEF AnswerVerdict, DropOrder, TypeOK, IsList
<1>8. CASE EndCycle
  BY <1>8 DEF EndCycle, TypeOK
<1>9. ASSUME NEW o \in OrderIds, SendAlert(o)
      PROVE  TypeOK'
  BY <1>9 DEF SendAlert, TypeOK
<1>10. ASSUME NEW r \in TerminalStatuses, FinishExecution(r)
       PROVE  TypeOK'
  <2>1. listing[cur].server \in Servers
    BY <1>10, OrderFields DEF FinishExecution, TypeOK, IsList
  <2>2. effect' \in [Servers -> Wishes]
    BY <1>10, <2>1, DesiredAfterType DEF FinishExecution, TypeOK
  <2>3. QED
    BY <1>10, <2>2 DEF FinishExecution, TypeOK
<1>11. QED
  BY <1>1, <1>2, <1>3, <1>4, <1>5, <1>6, <1>7, <1>8, <1>9, <1>10 DEF Drain

\* Lost and late requests, and crashes, keep the types.
LEMMA TypeFaults == TypeOK /\ Faults => TypeOK'
<1> SUFFICES ASSUME TypeOK, Faults PROVE TypeOK'
  OBVIOUS
<1> USE DEF backendVars, handlerVars, agentVars, historyVars, PCs, InHand, Nobody
<1>1. CASE GetFails
  BY <1>1, NoOrdersType DEF GetFails, TypeOK, IsList
<1>2. CASE GiveUpAck
  <2>1. cur \in DOMAIN listing /\ cur \in OrderIds /\ listing[cur].server \in Servers
    BY <1>2, InHandType DEF GiveUpAck
  <2>2. ledger' \in Seq([id : OrderIds, server : Servers])
    BY <1>2, <2>1, ExecuteType DEF GiveUpAck
  <2>3. late' \subseteq StatusReport
    BY <1>2, <2>1 DEF GiveUpAck, TypeOK, StatusReport
  <2>4. pc' \in PCs /\ pc' \in InHand /\ pc' # "verdict" /\ pc \in InHand /\ pc # "verdict"
    BY <1>2 DEF GiveUpAck, Execute
  <2>5. faults' \in Nat
    BY <1>2 DEF GiveUpAck, TypeOK
  <2>6. QED
    BY <1>2, <2>2, <2>3, <2>4, <2>5 DEF GiveUpAck, TypeOK
<1>3. CASE MisreadAck
  <2>1. late' \subseteq StatusReport
    BY <1>3 DEF MisreadAck, TypeOK, StatusReport, OrderIds
  <2>2. QED
    BY <1>3, <2>1, NoOrdersType DEF MisreadAck, DropOrder, TypeOK, IsList
<1>4. CASE GiveUpVerdict
  <2>1. late' \subseteq StatusReport
    BY <1>4 DEF GiveUpVerdict, TypeOK, StatusReport, TerminalStatuses, OrderIds
  <2>2. QED
    BY <1>4, <2>1, NoOrdersType DEF GiveUpVerdict, DropOrder, TypeOK, IsList
<1>5. CASE AgentCrash
  <2>1. late' \subseteq StatusReport
    BY <1>5 DEF AgentCrash, TypeOK, StatusReport, TerminalStatuses, OrderIds
  <2>2. QED
    BY <1>5, <2>1, NoOrdersType DEF AgentCrash, TypeOK, IsList
<1>6. CASE BackendCrash
  <2>1. CASE pc = "waiting"
    BY <1>6, <2>1, NoOrdersType DEF BackendCrash, TypeOK, IsList
  <2>2. CASE pc # "waiting"
    <3>1. UNCHANGED <<pc, cur, result, listing>> /\ pc # "waiting"
      BY <1>6, <2>2 DEF BackendCrash
    <3>2. alerting' \subseteq OrderIds /\ faults' \in Nat /\ crashed' \in BOOLEAN
      BY <1>6 DEF BackendCrash, TypeOK
    <3>3. QED
      BY <1>6, <3>1, <3>2 DEF BackendCrash, TypeOK
  <2>3. QED
    BY <2>1, <2>2
<1>7. ASSUME NEW m \in StatusReport, LateReport(m)
      PROVE  TypeOK'
  <2>1. m.status \in {"running", "done", "failed"}
    BY DEF StatusReport
  <2>2. /\ IsList(orders') /\ DOMAIN orders' = DOMAIN orders
        /\ desired' \in [Servers -> Wishes]
    BY <1>7, <2>1, RecordType DEF LateReport
  <2>3. QED
    BY <1>7, <2>2 DEF LateReport, TypeOK, IsList
<1>8. QED
  BY <1>1, <1>2, <1>3, <1>4, <1>5, <1>6, <1>7 DEF Faults

\* OrderQueue is type correct, whatever the constants.
THEOREM TypeCorrect == Spec => []TypeOK
<1>1. Init => TypeOK
  BY TypeInit
<1>2. TypeOK /\ [Next]_vars => TypeOK'
  <2> SUFFICES ASSUME TypeOK, [Next]_vars PROVE TypeOK'
    OBVIOUS
  <2>1. CASE Tick
    <3>1. now' \in Nat
      BY <2>1 DEF Tick, TypeOK
    <3>2. UNCHANGED <<backendVars, handlerVars, agentVars, historyVars, faults>>
      BY <2>1 DEF Tick
    <3>3. QED
      BY <3>1, <3>2 DEF TypeOK, backendVars, handlerVars, agentVars, historyVars
  <2>2. CASE UNCHANGED vars
    BY <2>2 DEF vars, TypeOK, backendVars, handlerVars, agentVars, historyVars
  <2>3. QED
    BY <2>1, <2>2, TypeDashboard, TypeDrain, TypeFaults DEF Next
<1>3. QED
  BY <1>1, <1>2, PTL DEF Spec

-----------------------------------------------------------------------------
(* What the operators of OrderStore do to one order *)

SameKey(x, y) == x.server = y.server /\ x.type = y.type /\ x.author = y.author

\* Changing status and detail changes nothing else.
LEMMA OrderUpdate ==
  ASSUME NEW x \in Order, NEW st, NEW d
  PROVE  /\ WithStatus(x, st, d).status = st
         /\ WithStatus(x, st, d).detail = d
         /\ SameKey(WithStatus(x, st, d), x)
BY DEF Order, SameKey, WithStatus

\* Grooming leaves an order alone or closes it as expired when it was live.
LEMMA GroomedValue ==
  ASSUME NEW q, IsList(q), NEW n, NEW o \in DOMAIN Groomed(q, n)
  PROVE  /\ o \in DOMAIN q
         /\ SameKey(Groomed(q, n)[o], q[o])
         /\ \/ Groomed(q, n)[o] = q[o]
            \/ /\ q[o].status \in LiveStatuses
               /\ Groomed(q, n)[o].status = "failed"
               /\ Groomed(q, n)[o].detail = "expired"
<1>1. o \in DOMAIN q /\ q[o] \in Order
  BY OrderFields DEF Groomed
<1>2. CASE o \in Expiring(q, n)
  <2>1. Groomed(q, n)[o] = WithStatus(q[o], "failed", "expired")
    BY <1>2 DEF Groomed
  <2>2. q[o].status \in LiveStatuses
    BY <1>2 DEF Expiring, Live
  <2>3. QED
    BY <1>1, <2>1, <2>2, OrderUpdate
<1>3. CASE o \notin Expiring(q, n)
  BY <1>1, <1>3 DEF Groomed, SameKey
<1>4. QED
  BY <1>2, <1>3

\* Cancelling closes one order and leaves the others alone.
LEMMA CancelledValue ==
  ASSUME NEW q, IsList(q), NEW c \in DOMAIN q, NEW o \in DOMAIN q
  PROVE  /\ SameKey(Cancelled(q, c)[o], q[o])
         /\ o # c => Cancelled(q, c)[o] = q[o]
         /\ Cancelled(q, c)[c].status = "failed"
         /\ Cancelled(q, c)[c].detail = "cancelled"
<1>1. Cancelled(q, c) = [q EXCEPT ![c] = WithStatus(q[c], "failed", "cancelled")]
  BY DEF Cancelled, IsList
<1>2. Cancelled(q, c)[c] = WithStatus(q[c], "failed", "cancelled")
  BY <1>1 DEF IsList
<1>3. o # c => Cancelled(q, c)[o] = q[o]
  BY <1>1 DEF IsList
<1>4. SameKey(q[o], q[o]) /\ q[c] \in Order
  BY OrderFields DEF SameKey
<1>5. QED
  BY <1>2, <1>3, <1>4, OrderUpdate

\* A report sets the status of one order and leaves the others alone.
LEMMA ReportedValue ==
  ASSUME NEW q, IsList(q), NEW r \in DOMAIN q, NEW st, NEW o \in DOMAIN q
  PROVE  /\ SameKey(Reported(q, r, st)[o], q[o])
         /\ o # r => Reported(q, r, st)[o] = q[o]
         /\ Reported(q, r, st)[r].status = st
         /\ Reported(q, r, st)[r].detail = "reported"
<1>1. Reported(q, r, st) = [q EXCEPT ![r] = WithStatus(q[r], st, "reported")]
  BY DEF Reported, IsList
<1>2. Reported(q, r, st)[r] = WithStatus(q[r], st, "reported")
  BY <1>1 DEF IsList
<1>3. o # r => Reported(q, r, st)[o] = q[o]
  BY <1>1 DEF IsList
<1>4. SameKey(q[o], q[o]) /\ q[r] \in Order
  BY OrderFields DEF SameKey
<1>5. QED
  BY <1>2, <1>3, <1>4, OrderUpdate

\* A recorded report touches at most one order, which was live.
LEMMA RecordValue ==
  ASSUME TypeOK, NEW r, NEW st \in {"running", "done", "failed"}, Record(r, st)
  PROVE  /\ DOMAIN orders' = DOMAIN orders
         /\ \A o \in DOMAIN orders :
              /\ SameKey(orders'[o], orders[o])
              /\ \/ orders'[o] = orders[o]
                 \/ /\ o = r
                    /\ orders[o].status \in LiveStatuses
                    /\ orders'[o].status = st
                    /\ orders'[o].detail = "reported"
<1>0. IsList(orders)
  BY DEF TypeOK, IsList
<1>1. CASE Accepts(orders, r)
  <2>1. r \in DOMAIN orders /\ orders[r].status \in LiveStatuses
    BY <1>1 DEF Accepts, IsLive
  <2>2. orders' = Reported(orders, r, st)
    BY <1>1 DEF Record
  <2>3. DOMAIN orders' = DOMAIN orders
    BY <1>0, <2>1, <2>2, ReportedType DEF LiveStatuses, TerminalStatuses
  <2>4. QED
    BY <1>0, <2>1, <2>2, <2>3, ReportedValue
<1>2. CASE ~ Accepts(orders, r)
  BY <1>2 DEF Record, SameKey
<1>3. QED
  BY <1>1, <1>2

-----------------------------------------------------------------------------
(* A started order is out of the admin's reach *)

\* The orders acknowledged in time were created: a new order is not one of them.
StartedInv ==
  /\ StartedNeverCancelled
  /\ started \subseteq 1..issued

\* Grooming keeps it: an order it closes is closed as expired.
LEMMA StartedGroomed ==
  ASSUME TypeOK, StartedInv, NEW n
  PROVE  \A o \in started \intersect DOMAIN Groomed(orders, n) :
           /\ Groomed(orders, n)[o].status # "pending"
           /\ Groomed(orders, n)[o].detail # "cancelled"
<1>1. IsList(orders)
  BY DEF TypeOK, IsList
<1>2. QED
  BY <1>1, GroomedValue DEF StartedInv, StartedNeverCancelled

\* Recording a report keeps it: it never cancels, nor makes an order pending.
LEMMA StartedRecord ==
  ASSUME TypeOK, StartedInv, NEW r, NEW st \in {"running", "done", "failed"}, Record(r, st)
  PROVE  \A o \in started \intersect DOMAIN orders' :
           orders'[o].status # "pending" /\ orders'[o].detail # "cancelled"
<1> SUFFICES ASSUME NEW o \in started \intersect DOMAIN orders'
             PROVE  orders'[o].status # "pending" /\ orders'[o].detail # "cancelled"
  OBVIOUS
<1>1. o \in DOMAIN orders
  BY RecordValue
<1>2. CASE orders'[o] = orders[o]
  BY <1>1, <1>2 DEF StartedInv, StartedNeverCancelled
<1>3. CASE orders'[o].status = st /\ orders'[o].detail = "reported"
  BY <1>3
<1>4. QED
  BY <1>1, <1>2, <1>3, RecordValue

\* Every step keeps it.
LEMMA StartedStep == TypeOK /\ StartedInv /\ [Next]_vars => StartedInv'
<1> SUFFICES ASSUME TypeOK, StartedInv, [Next]_vars PROVE StartedInv'
  OBVIOUS
<1> USE DEF backendVars, handlerVars, agentVars, historyVars
<1>0. IsList(orders) /\ IsList(Groomed(orders, now))
  BY GroomedType DEF TypeOK, IsList
<1>1. ASSUME NEW s \in Servers, NEW t \in Types, NEW a \in Authors, AddOrder(s, t, a)
      PROVE  StartedInv'
  <2>1. issued + 1 \notin started /\ started \subseteq 1..issued'
    BY <1>1 DEF AddOrder, StartedInv, TypeOK
  <2>2. ASSUME NEW o \in started \intersect DOMAIN orders'
        PROVE  o \in DOMAIN Groomed(orders, now) /\ orders'[o] = Groomed(orders, now)[o]
    BY <1>1, <2>1 DEF AddOrder, Listed
  <2>3. QED
    BY <1>1, <2>1, <2>2, StartedGroomed DEF AddOrder, StartedInv, StartedNeverCancelled
<1>2. ASSUME NEW c \in OrderIds, CancelOrder(c)
      PROVE  StartedInv'
  <2>1. CASE CanCancel(Groomed(orders, now), c)
    <3>1. c \notin started
      BY <2>1, StartedGroomed DEF CanCancel
    <3>2. orders' = Cancelled(Groomed(orders, now), c)
      BY <1>2, <2>1 DEF CancelOrder
    <3>3. ASSUME NEW o \in started \intersect DOMAIN orders'
          PROVE  o \in DOMAIN Groomed(orders, now) /\ orders'[o] = Groomed(orders, now)[o]
      BY <1>0, <2>1, <3>1, <3>2, CancelledType, CancelledValue DEF CanCancel
    <3>4. QED
      BY <1>2, <3>3, StartedGroomed DEF CancelOrder, StartedInv, StartedNeverCancelled
  <2>2. CASE ~ CanCancel(Groomed(orders, now), c)
    BY <1>2, <2>2, StartedGroomed DEF CancelOrder, StartedInv, StartedNeverCancelled
  <2>3. QED
    BY <2>1, <2>2
<1>3. CASE ListServers
  BY <1>3, StartedGroomed DEF ListServers, Groom, StartedInv, StartedNeverCancelled
<1>4. CASE GetOrders
  BY <1>4, StartedGroomed DEF GetOrders, StartedInv, StartedNeverCancelled
<1>5. CASE AnswerAck
  <2>1. \A o \in started \intersect DOMAIN orders' :
          orders'[o].status # "pending" /\ orders'[o].detail # "cancelled"
    BY <1>5, StartedRecord DEF AnswerAck
  <2>2. CASE Accepts(orders, cur)
    <3>1. cur \in DOMAIN orders /\ cur \in 1..issued
      BY <2>2 DEF Accepts, IsLive, TypeOK
    <3>2. orders'[cur].status = "running" /\ orders'[cur].detail = "reported"
      BY <1>0, <1>5, <2>2, <3>1, ReportedValue DEF AnswerAck, Record
    <3>3. started' \subseteq started \union {cur}
      BY <1>5 DEF AnswerAck
    <3>4. QED
      BY <1>5, <2>1, <3>1, <3>2, <3>3 DEF AnswerAck, StartedInv, StartedNeverCancelled
  <2>3. CASE ~ Accepts(orders, cur)
    BY <1>5, <2>1, <2>3 DEF AnswerAck, StartedInv, StartedNeverCancelled
  <2>4. QED
    BY <2>2, <2>3
<1>6. CASE AnswerVerdict
  BY <1>6, StartedRecord DEF AnswerVerdict, StartedInv, StartedNeverCancelled,
                             TypeOK, TerminalStatuses
<1>7. ASSUME NEW m \in StatusReport, LateReport(m)
      PROVE  StartedInv'
  BY <1>7, StartedRecord DEF LateReport, StartedInv, StartedNeverCancelled, StatusReport
<1>8. CASE UNCHANGED <<orders, issued, started>>
  BY <1>8 DEF StartedInv, StartedNeverCancelled
<1>9. QED
  BY <1>1, <1>2, <1>3, <1>4, <1>5, <1>6, <1>7, <1>8
     DEF Next, Dashboard, Drain, Faults, PutStatus, StartCycle, TakeNothing, TakeOrder,
         IgnoreOrder, EndCycle, SendAlert, FinishExecution, GetFails, GiveUpAck, MisreadAck,
         GiveUpVerdict, AgentCrash, BackendCrash, Tick, vars

\* An order acknowledged by the agent in time is never cancelled.
THEOREM StartedOrdersSafe == Spec => []StartedNeverCancelled
<1>1. Init => StartedInv
  BY DEF Init, StartedInv, StartedNeverCancelled
<1>2. StartedInv => StartedNeverCancelled
  BY DEF StartedInv
<1>3. QED
  BY <1>1, <1>2, StartedStep, TypeCorrect, PTL DEF Spec

-----------------------------------------------------------------------------
(* What one step does to an order that was already created *)

\* A groomed order was listed, is the same one, and is live only if it was.
LEMMA GroomedKept ==
  ASSUME NEW q, IsList(q), NEW n, NEW o \in DOMAIN Groomed(q, n)
  PROVE  /\ o \in DOMAIN q
         /\ SameKey(Groomed(q, n)[o], q[o])
         /\ Groomed(q, n)[o].status \in LiveStatuses => q[o].status \in LiveStatuses
<1>1. CASE Groomed(q, n)[o] = q[o]
  BY <1>1, GroomedValue
<1>2. CASE q[o].status \in LiveStatuses
  BY <1>2, GroomedValue
<1>3. QED
  BY <1>1, <1>2, GroomedValue

\* An order keeps its server, type and author while it is listed, and a closed
\* one is never live again, whatever the step.
LEMMA NoRevival ==
  ASSUME TypeOK, [Next]_vars, NEW o \in 1..issued, o \in DOMAIN orders'
  PROVE  /\ o \in DOMAIN orders
         /\ SameKey(orders'[o], orders[o])
         /\ orders'[o].status \in LiveStatuses => orders[o].status \in LiveStatuses
<1> DEFINE G == Groomed(orders, now)
           Kept(q) == o \in DOMAIN q =>
                        /\ o \in DOMAIN orders
                        /\ SameKey(q[o], orders[o])
                        /\ q[o].status \in LiveStatuses => orders[o].status \in LiveStatuses
<1> SUFFICES Kept(orders')
  OBVIOUS
<1> USE DEF backendVars, handlerVars, agentVars, historyVars
<1>0. IsList(orders) /\ IsList(G) /\ Kept(G)
  BY GroomedType, GroomedKept DEF TypeOK, IsList
<1>1. ASSUME NEW s \in Servers, NEW t \in Types, NEW a \in Authors, AddOrder(s, t, a)
      PROVE  Kept(orders')
  <2>1. o # issued + 1
    BY DEF TypeOK
  <2>2. orders' = Listed(G, issued + 1, NewOrder(s, t, a, now))
    BY <1>1 DEF AddOrder
  <2>3. o \in DOMAIN orders' => o \in DOMAIN G /\ orders'[o] = G[o]
    BY <2>1, <2>2 DEF Listed
  <2>4. QED
    BY <1>0, <2>3
<1>2. ASSUME NEW c \in OrderIds, CancelOrder(c)
      PROVE  Kept(orders')
  <2>1. CASE CanCancel(G, c)
    <3>1. orders' = Cancelled(G, c) /\ c \in DOMAIN G /\ DOMAIN orders' = DOMAIN G
      BY <1>0, <1>2, <2>1, CancelledType DEF CancelOrder, CanCancel
    <3>2. o \in DOMAIN G => SameKey(orders'[o], G[o])
      BY <1>0, <3>1, CancelledValue
    <3>3. o # c /\ o \in DOMAIN G => orders'[o] = G[o]
      BY <1>0, <3>1, CancelledValue
    <3>4. orders'[c].status \notin LiveStatuses
      BY <1>0, <3>1, CancelledValue DEF LiveStatuses
    <3>5. QED
      BY <1>0, <3>1, <3>2, <3>3, <3>4 DEF SameKey
  <2>2. CASE ~ CanCancel(G, c)
    BY <1>0, <1>2, <2>2 DEF CancelOrder
  <2>3. QED
    BY <2>1, <2>2
<1>3. CASE ListServers \/ GetOrders
  BY <1>0, <1>3 DEF ListServers, Groom, GetOrders
<1>4. CASE AnswerAck
  BY <1>4, RecordValue DEF AnswerAck
<1>5. CASE AnswerVerdict
  BY <1>5, RecordValue DEF AnswerVerdict, TypeOK, TerminalStatuses
<1>6. ASSUME NEW m \in StatusReport, LateReport(m)
      PROVE  Kept(orders')
  BY <1>6, RecordValue DEF LateReport, StatusReport
<1>7. CASE UNCHANGED orders
  BY <1>7 DEF SameKey
<1>8. QED
  BY <1>1, <1>2, <1>3, <1>4, <1>5, <1>6, <1>7
     DEF Next, Dashboard, Drain, Faults, PutStatus, StartCycle, TakeNothing, TakeOrder,
         IgnoreOrder, EndCycle, SendAlert, FinishExecution, GetFails, GiveUpAck, MisreadAck,
         GiveUpVerdict, AgentCrash, BackendCrash, Tick, vars

\* Orders are numbered in the order of their creation.
LEMMA IssuedGrows ==
  ASSUME TypeOK, [Next]_vars
  PROVE  issued \in Nat /\ issued' \in Nat /\ issued =< issued'
<1>1. issued' \in {issued, issued + 1}
  BY DEF backendVars, handlerVars, agentVars, historyVars, Next, Dashboard, Drain, Faults,
         AddOrder, CancelOrder, ListServers, Groom, PutStatus, StartCycle, GetOrders,
         TakeNothing, TakeOrder, IgnoreOrder, AnswerAck, AnswerVerdict, EndCycle, SendAlert,
         FinishExecution, GetFails, GiveUpAck, MisreadAck, GiveUpVerdict, AgentCrash,
         BackendCrash, LateReport, Tick, vars
<1>2. QED
  BY <1>1 DEF TypeOK

-----------------------------------------------------------------------------
(* An expiry is never silent *)

\* The orders of the three places were created and are closed: one that expires
\* now is at none of them, so it is not alerted twice.
ExpiryInv ==
  /\ ExpiryNeverSilent
  /\ \A o \in unnotified \union alerting \union alerted :
       o \in 1..issued /\ ~ IsLive(orders, o)

\* The expired orders of a groomed list had expired, or expire now.
LEMMA GroomedExpired ==
  ASSUME TypeOK, NEW o \in DOMAIN Groomed(orders, now),
         Groomed(orders, now)[o].detail = "expired"
  PROVE  o \in Expired \union Expiring(orders, now)
BY DEF Groomed, Expired

\* What expires is live, hence at none of the three places, and closed then.
LEMMA ExpiringFacts ==
  ASSUME TypeOK, ExpiryInv
  PROVE  /\ Expiring(orders, now) \subseteq 1..issued
         /\ Expiring(orders, now) \intersect (unnotified \union alerting \union alerted) = {}
         /\ \A o \in unnotified \union alerting \union alerted \union Expiring(orders, now) :
              o \in 1..issued /\ ~ IsLive(Groomed(orders, now), o)
<1>1. IsList(orders) /\ DOMAIN orders \subseteq 1..issued
  BY DEF TypeOK, IsList
<1>2. Expiring(orders, now) \subseteq DOMAIN orders
  BY DEF Expiring, Live
<1>3. \A o \in Expiring(orders, now) : IsLive(orders, o)
  BY DEF Expiring, Live, IsLive
<1>4. ASSUME NEW o \in Expiring(orders, now)
      PROVE  ~ IsLive(Groomed(orders, now), o)
  <2>1. orders[o] \in Order
    BY <1>1, <1>2, OrderFields
  <2>2. o \in DOMAIN Groomed(orders, now) => Groomed(orders, now)[o].status = "failed"
    BY <2>1, OrderUpdate DEF Groomed
  <2>3. QED
    BY <2>2 DEF IsLive, LiveStatuses
<1>5. ASSUME NEW o \in unnotified \union alerting \union alerted
      PROVE  ~ IsLive(Groomed(orders, now), o)
  BY <1>1, GroomedKept DEF IsLive, ExpiryInv
<1>6. QED
  BY <1>1, <1>2, <1>3, <1>4, <1>5 DEF ExpiryInv

\* A report closes no order as expired, and makes none live.
LEMMA ExpiryRecord ==
  ASSUME TypeOK, ExpiryInv, NEW r, NEW st \in {"running", "done", "failed"}, Record(r, st),
         UNCHANGED <<issued, unnotified, alerting, alerted, crashed>>
  PROVE  ExpiryInv'
<1>1. Expired' \subseteq Expired
  BY RecordValue DEF Expired
<1>2. ASSUME NEW o \in unnotified \union alerting \union alerted
      PROVE  o \in 1..issued /\ ~ IsLive(orders', o)
  BY RecordValue DEF ExpiryInv, IsLive
<1>3. QED
  BY <1>1, <1>2 DEF ExpiryInv, ExpiryNeverSilent

\* A groom that keeps its trace in state.json, whether it is followed by the
\* insertion of a new order, by a cancellation, or by nothing.
LEMMA ExpiryTraced ==
  ASSUME TypeOK, ExpiryInv,
         unnotified' = unnotified \union Expiring(orders, now),
         UNCHANGED <<alerting, alerted, crashed>>,
         issued \in Nat, issued' \in Nat, issued =< issued',
         \A o \in DOMAIN orders' :
           orders'[o].detail = "expired" =>
             o \in DOMAIN Groomed(orders, now) /\ Groomed(orders, now)[o].detail = "expired",
         \A o \in 1..issued : IsLive(orders', o) => IsLive(Groomed(orders, now), o)
  PROVE  ExpiryInv'
<1>1. Expired' \subseteq Expired \union Expiring(orders, now)
  BY GroomedExpired DEF Expired
<1>2. ASSUME NEW o \in unnotified' \union alerting' \union alerted'
      PROVE  o \in 1..issued' /\ ~ IsLive(orders', o)
  <2>1. o \in unnotified \union alerting \union alerted \union Expiring(orders, now)
    BY <1>2
  <2>2. o \in 1..issued /\ ~ IsLive(Groomed(orders, now), o)
    BY <2>1, ExpiringFacts
  <2>3. QED
    BY <2>2
<1>3. (crashed \/ Expired \subseteq unnotified \union alerting \union alerted)'
  BY <1>1 DEF ExpiryInv, ExpiryNeverSilent
<1>4. /\ (unnotified \intersect (alerting \union alerted) = {})'
      /\ (alerting \intersect alerted = {})'
  BY ExpiringFacts DEF ExpiryInv, ExpiryNeverSilent
<1>5. QED
  BY <1>2, <1>3, <1>4 DEF ExpiryInv, ExpiryNeverSilent

\* Every step keeps it.
LEMMA ExpiryStep == TypeOK /\ ExpiryInv /\ [Next]_vars => ExpiryInv'
<1> SUFFICES ASSUME TypeOK, ExpiryInv, [Next]_vars PROVE ExpiryInv'
  OBVIOUS
<1> USE DEF backendVars, handlerVars, agentVars, historyVars
<1> DEFINE G == Groomed(orders, now)
<1>0. IsList(G) /\ issued \in Nat /\ issued' \in Nat /\ issued =< issued'
  BY GroomedType, IssuedGrows DEF TypeOK, IsList
<1>1. ASSUME NEW s \in Servers, NEW t \in Types, NEW a \in Authors, AddOrder(s, t, a)
      PROVE  ExpiryInv'
  <2>1. orders' = Listed(G, issued + 1, NewOrder(s, t, a, now))
    BY <1>1 DEF AddOrder
  <2>2. \A o \in DOMAIN orders' :
          orders'[o].detail = "expired" => o \in DOMAIN G /\ G[o].detail = "expired"
    BY <2>1 DEF Listed, NewOrder
  <2>3. \A o \in 1..issued : IsLive(orders', o) => IsLive(G, o)
    BY <1>0, <2>1 DEF Listed, IsLive
  <2>4. QED
    BY <1>0, <1>1, <2>2, <2>3, ExpiryTraced DEF AddOrder
<1>2. ASSUME NEW c \in OrderIds, CancelOrder(c)
      PROVE  ExpiryInv'
  <2>1. CASE CanCancel(G, c)
    <3>1. orders' = Cancelled(G, c) /\ c \in DOMAIN G /\ DOMAIN orders' = DOMAIN G
      BY <1>0, <1>2, <2>1, CancelledType DEF CancelOrder, CanCancel
    <3>2. \A o \in DOMAIN G : o # c => orders'[o] = G[o]
      BY <1>0, <3>1, CancelledValue
    <3>3. orders'[c].status = "failed" /\ orders'[c].detail = "cancelled"
      BY <1>0, <3>1, CancelledValue
    <3>4. \A o \in DOMAIN orders' :
            orders'[o].detail = "expired" => o \in DOMAIN G /\ G[o].detail = "expired"
      BY <3>1, <3>2, <3>3
    <3>5. \A o \in 1..issued : IsLive(orders', o) => IsLive(G, o)
      BY <3>1, <3>2, <3>3 DEF IsLive, LiveStatuses
    <3>6. QED
      BY <1>0, <1>2, <3>4, <3>5, ExpiryTraced DEF CancelOrder
  <2>2. CASE ~ CanCancel(G, c)
    BY <1>0, <1>2, <2>2, ExpiryTraced DEF CancelOrder
  <2>3. QED
    BY <2>1, <2>2
<1>3. CASE ListServers
  BY <1>0, <1>3, ExpiryTraced DEF ListServers, Groom
<1>4. CASE GetOrders
  <2>1. Expired' \subseteq Expired \union Expiring(orders, now)
    BY <1>4, GroomedExpired DEF GetOrders, Expired
  <2>2. /\ unnotified' = {} /\ alerted' = alerted /\ crashed' = crashed
        /\ alerting' = alerting \union unnotified \union Expiring(orders, now)
        /\ orders' = G /\ issued' = issued
    BY <1>4 DEF GetOrders, PopExpired
  <2>3. (crashed \/ Expired \subseteq unnotified \union alerting \union alerted)'
    BY <2>1, <2>2 DEF ExpiryInv, ExpiryNeverSilent
  <2>4. /\ (unnotified \intersect (alerting \union alerted) = {})'
        /\ (alerting \intersect alerted = {})'
    BY <2>2, ExpiringFacts DEF ExpiryInv, ExpiryNeverSilent
  <2>5. (\A o \in unnotified \union alerting \union alerted :
           o \in 1..issued /\ ~ IsLive(orders, o))'
    BY <2>2, ExpiringFacts
  <2>6. QED
    BY <2>3, <2>4, <2>5 DEF ExpiryInv, ExpiryNeverSilent
<1>5. ASSUME NEW o \in OrderIds, SendAlert(o)
      PROVE  ExpiryInv'
  BY <1>5 DEF SendAlert, ExpiryInv, ExpiryNeverSilent, Expired
<1>6. CASE AnswerAck
  BY <1>6, ExpiryRecord DEF AnswerAck
<1>7. CASE AnswerVerdict
  BY <1>7, ExpiryRecord DEF AnswerVerdict, TypeOK, TerminalStatuses
<1>8. ASSUME NEW m \in StatusReport, LateReport(m)
      PROVE  ExpiryInv'
  BY <1>8, ExpiryRecord DEF LateReport, StatusReport
<1>9. CASE BackendCrash
  BY <1>9 DEF BackendCrash, ExpiryInv, ExpiryNeverSilent, Expired
<1>10. CASE UNCHANGED <<orders, issued, unnotified, alerting, alerted, crashed>>
  BY <1>10 DEF ExpiryInv, ExpiryNeverSilent, Expired
<1>11. QED
  BY <1>1, <1>2, <1>3, <1>4, <1>5, <1>6, <1>7, <1>8, <1>9, <1>10
     DEF Next, Dashboard, Drain, Faults, PutStatus, StartCycle, TakeNothing, TakeOrder,
         IgnoreOrder, EndCycle, FinishExecution, GetFails, GiveUpAck, MisreadAck,
         GiveUpVerdict, AgentCrash, Tick, vars

\* An expired order waits for its alert, or was alerted, once, unless the
\* backend crashed with alerts in hand.
THEOREM ExpiriesTraced == Spec => []ExpiryNeverSilent
<1>1. Init => ExpiryInv
  BY NoOrdersType DEF Init, ExpiryInv, ExpiryNeverSilent, Expired
<1>2. ExpiryInv => ExpiryNeverSilent
  BY DEF ExpiryInv
<1>3. QED
  BY <1>1, <1>2, ExpiryStep, TypeCorrect, PTL DEF Spec

-----------------------------------------------------------------------------
(* The life of one order: OrderQueue implements OrderLifecycle *)

\* Where an order is, from a list and the number of orders created.
StageIn(q, n, o) == IF o > n THEN "absent"
                    ELSE IF o \in DOMAIN q THEN q[o].status
                    ELSE "forgotten"

\* The stage of each order is the one of the state at hand, before or after.
LEMMA StageFacts ==
  ASSUME NEW o
  PROVE  Stage(o) = StageIn(orders, issued, o) /\ Stage(o)' = StageIn(orders', issued', o)
BY DEF Stage, StageIn

\* Only the agent concludes: what waits for its verdict was run, and so was
\* the order of every verdict under way.
RanInv ==
  /\ Ran \subseteq 1..issued
  /\ pc \in {"exec", "verdict"} => cur \in Ran
  /\ \A m \in late : m.status # "running" => m.id \in Ran

\* An execution adds one entry to the ledger.
LEMMA ExecuteLedger ==
  ASSUME TypeOK, Execute
  PROVE  /\ Len(ledger) \in Nat /\ DOMAIN ledger = 1..Len(ledger)
         /\ DOMAIN ledger' = 1..(Len(ledger) + 1)
         /\ \A i \in DOMAIN ledger : ledger'[i] = ledger[i]
         /\ ledger'[Len(ledger) + 1].id = cur
<1> DEFINE entry == [id |-> cur, server |-> listing[cur].server]
<1>1. entry.id = cur /\ ledger' = Append(ledger, entry)
  BY DEF Execute
<1> HIDE DEF entry
<1>2. QED
  BY <1>1 DEF TypeOK

\* Beginning an order adds it to those that were run, and no other.
LEMMA ExecuteRan ==
  ASSUME TypeOK, Execute
  PROVE  Ran' = Ran \union {cur}
BY ExecuteLedger DEF Ran

\* Every step keeps it.
LEMMA RanStep == TypeOK /\ RanInv /\ [Next]_vars => RanInv'
<1> SUFFICES ASSUME TypeOK, RanInv, [Next]_vars PROVE RanInv'
  OBVIOUS
<1> USE DEF backendVars, handlerVars, agentVars, historyVars
<1>0. issued \in Nat /\ issued' \in Nat /\ issued =< issued'
  BY IssuedGrows
<1>1. ASSUME pc = "ack" PROVE cur \in 1..issued
  BY <1>1, InHandType DEF TypeOK
<1>2. CASE AnswerAck
  <2>1. CASE Refuses409(orders, cur)
    BY <1>2, <2>1 DEF AnswerAck, DropOrder, RanInv, Ran
  <2>2. CASE ~ Refuses409(orders, cur)
    <3>1. Execute /\ pc' = "exec" /\ cur' = cur /\ late' = late /\ issued' = issued
      BY <1>2, <2>2 DEF AnswerAck, Execute
    <3>2. Ran' = Ran \union {cur}
      BY <3>1, ExecuteRan
    <3>3. QED
      BY <1>1, <1>2, <3>1, <3>2 DEF AnswerAck, RanInv
  <2>3. QED
    BY <2>1, <2>2
<1>3. CASE GiveUpAck
  <2>1. /\ Execute /\ pc' = "exec" /\ cur' = cur /\ issued' = issued
        /\ late' = late \union {[id |-> cur, status |-> "running"]}
    BY <1>3 DEF GiveUpAck, Execute
  <2>2. Ran' = Ran \union {cur}
    BY <2>1, ExecuteRan
  <2>3. \A m \in late' : m.status # "running" => m \in late
    BY <2>1
  <2>4. cur \in 1..issued
    BY <1>1, <1>3 DEF GiveUpAck
  <2>5. QED
    BY <2>1, <2>2, <2>3, <2>4 DEF RanInv
<1>4. CASE MisreadAck
  BY <1>4 DEF MisreadAck, DropOrder, RanInv, Ran
<1>5. CASE GiveUpVerdict
  BY <1>5 DEF GiveUpVerdict, DropOrder, RanInv, Ran
<1>6. CASE AgentCrash
  <2>1. \A m \in late' \ late :
          m.status # "running" => pc = "verdict" /\ m.id = cur
    BY <1>6 DEF AgentCrash
  <2>2. UNCHANGED <<ledger, issued>> /\ pc' = "off"
    BY <1>6 DEF AgentCrash
  <2>3. QED
    BY <2>1, <2>2 DEF RanInv, Ran
<1>7. CASE AnswerVerdict
  BY <1>7 DEF AnswerVerdict, DropOrder, RanInv, Ran
<1>8. ASSUME NEW r \in TerminalStatuses, FinishExecution(r)
      PROVE  RanInv'
  BY <1>8 DEF FinishExecution, RanInv, Ran
<1>9. CASE BackendCrash
  BY <1>9 DEF BackendCrash, RanInv, Ran
<1>10. CASE pc' \notin {"exec", "verdict"} /\ late' \subseteq late /\ UNCHANGED ledger
  BY <1>0, <1>10 DEF RanInv, Ran
<1>11. CASE UNCHANGED <<pc, cur, ledger>> /\ late' \subseteq late
  BY <1>0, <1>11 DEF RanInv, Ran
<1>12. QED
  BY <1>2, <1>3, <1>4, <1>5, <1>6, <1>7, <1>8, <1>9, <1>10, <1>11
     DEF Next, Dashboard, Drain, Faults, AddOrder, CancelOrder, ListServers, Groom, PutStatus,
         StartCycle, GetOrders, TakeNothing, TakeOrder, IgnoreOrder, EndCycle, SendAlert,
         GetFails, LateReport, Tick, vars

\* A list made of another one by closing live orders as failed and forgetting
\* closed ones.
TidyOf(q) ==
  /\ DOMAIN q \subseteq DOMAIN orders
  /\ \A o \in DOMAIN orders :
       IF o \in DOMAIN q
       THEN \/ q[o].status = orders[o].status
            \/ orders[o].status \in LiveStatuses /\ q[o].status = "failed"
       ELSE orders[o].status \in TerminalStatuses

\* Grooming tidies.
LEMMA GroomTidies == TypeOK => TidyOf(Groomed(orders, now))
<1> SUFFICES ASSUME TypeOK PROVE TidyOf(Groomed(orders, now))
  OBVIOUS
<1>1. IsList(orders)
  BY DEF TypeOK, IsList
<1>2. ASSUME NEW o \in DOMAIN orders, o \notin DOMAIN Groomed(orders, now)
      PROVE  orders[o].status \in TerminalStatuses
  BY <1>2 DEF Groomed, PastRetention
<1>3. QED
  BY <1>1, <1>2, GroomedType, GroomedValue DEF TidyOf

\* So does the cancellation of an order of the groomed list.
LEMMA CancelTidies ==
  ASSUME TypeOK, NEW c, CanCancel(Groomed(orders, now), c)
  PROVE  TidyOf(Cancelled(Groomed(orders, now), c))
<1> DEFINE G == Groomed(orders, now)
<1>1. IsList(G) /\ c \in DOMAIN G /\ G[c].status = "pending" /\ TidyOf(G)
  BY GroomedType, GroomTidies DEF TypeOK, IsList, CanCancel
<1>2. c \in DOMAIN orders /\ orders[c].status = "pending"
  BY <1>1 DEF TidyOf
<1>3. /\ DOMAIN Cancelled(G, c) = DOMAIN G
      /\ \A o \in DOMAIN G : o # c => Cancelled(G, c)[o] = G[o]
      /\ Cancelled(G, c)[c].status = "failed"
  BY <1>1, CancelledType, CancelledValue
<1> HIDE DEF G
<1>4. QED
  BY <1>1, <1>2, <1>3 DEF TidyOf, LiveStatuses, G

\* Every order is at one of the stages of the life cycle.
LEMMA StageType ==
  ASSUME NEW q, IsList(q), NEW n, NEW o
  PROVE  StageIn(q, n, o) \in Lifecycle!Stages
<1>1. o \in DOMAIN q => q[o].status \in LiveStatuses \union TerminalStatuses
  BY OrderFields
<1>2. QED
  BY <1>1 DEF StageIn, Lifecycle!Stages, Lifecycle!Open, Lifecycle!Closed,
              LiveStatuses, TerminalStatuses

\* Tidying the list moves no order but from open to failed, and from closed to
\* forgotten.
LEMMA TidyStage ==
  ASSUME TypeOK, NEW q, TidyOf(q), NEW o \in OrderIds
  PROVE  LET before == StageIn(orders, issued, o)
             after  == StageIn(q, issued, o)
         IN  \/ after = before
             \/ before \in Lifecycle!Open /\ after = "failed"
             \/ before \in Lifecycle!Closed /\ after = "forgotten"
BY DEF StageIn, TidyOf, Lifecycle!Open, Lifecycle!Closed, LiveStatuses, TerminalStatuses

\* A step that tidies the list, runs nothing and creates nothing.
LEMMA MapsToTidy ==
  ASSUME TypeOK, TypeOK', TidyOf(orders'), UNCHANGED <<issued, ledger>>
  PROVE  Lifecycle!Tidy
<1>1. \A o \in OrderIds : Stage(o)' \in Lifecycle!Stages
  BY StageType, StageFacts DEF TypeOK, IsList
<1>2. ASSUME NEW o \in OrderIds
      PROVE  \/ Stage(o)' = Stage(o)
             \/ Stage(o) \in Lifecycle!Open /\ Stage(o)' = "failed"
             \/ Stage(o) \in Lifecycle!Closed /\ Stage(o)' = "forgotten"
  BY TidyStage, StageFacts
<1>3. UNCHANGED Ran
  BY DEF Ran
<1>4. QED
  BY <1>1, <1>2, <1>3 DEF Lifecycle!Tidy, Lifecycle!Tidied

\* A step that inserts a new order in the groomed list.
LEMMA MapsToSubmit ==
  ASSUME TypeOK, TypeOK', NEW q, TidyOf(q), NEW order, order.status = "pending",
         NEW n \in OrderIds, n = issued + 1, issued' = n, orders' = Listed(q, n, order),
         UNCHANGED ledger
  PROVE  Lifecycle!Submit(n)
<1>1. issued \in Nat /\ IsList(orders')
  BY DEF TypeOK, IsList
<1>2. \A o \in OrderIds : Stage(o)' \in Lifecycle!Stages
  BY <1>1, StageType, StageFacts
<1>3. Stage(n) = "absent" /\ Stage(n)' = "pending"
  <2>1. n > issued /\ ~ (n > n)
    BY <1>1 DEF OrderIds
  <2>2. n \in DOMAIN orders' /\ orders'[n] = order
    BY DEF Listed
  <2>3. QED
    BY <2>1, <2>2, StageFacts DEF StageIn
<1>4. ASSUME NEW o \in OrderIds \ {n}
      PROVE  Stage(o)' = StageIn(q, issued, o)
  <2>1. o > n <=> o > issued
    BY <1>1, <1>4 DEF OrderIds
  <2>2. o \in DOMAIN orders' <=> o \in DOMAIN q
    BY <1>4 DEF Listed
  <2>3. o \in DOMAIN q => orders'[o] = q[o]
    BY <1>4 DEF Listed
  <2>4. QED
    BY <2>1, <2>2, <2>3, StageFacts DEF StageIn
<1>5. ASSUME NEW o \in OrderIds \ {n}
      PROVE  \/ Stage(o)' = Stage(o)
             \/ Stage(o) \in Lifecycle!Open /\ Stage(o)' = "failed"
             \/ Stage(o) \in Lifecycle!Closed /\ Stage(o)' = "forgotten"
  BY <1>4, TidyStage, StageFacts
<1>6. UNCHANGED Ran
  BY DEF Ran
<1>7. QED
  BY <1>2, <1>3, <1>5, <1>6 DEF Lifecycle!Submit, Lifecycle!Tidied

\* A report moves the order it names, if the order is open, and no other.
LEMMA RecordStage ==
  ASSUME TypeOK, NEW r, NEW st \in {"running", "done", "failed"}, Record(r, st),
         UNCHANGED issued
  PROVE  IF Accepts(orders, r)
         THEN /\ r \in OrderIds /\ Stage(r) \in Lifecycle!Open
              /\ \A o \in OrderIds : Stage(o)' = IF o = r THEN st ELSE Stage(o)
         ELSE \A o \in OrderIds : Stage(o)' = Stage(o)
<1>1. CASE Accepts(orders, r)
  <2>1. r \in DOMAIN orders /\ orders[r].status \in LiveStatuses /\ r \in 1..issued
    BY <1>1 DEF Accepts, IsLive, TypeOK
  <2>2. orders' = Reported(orders, r, st) /\ IsList(orders)
    BY <1>1 DEF Record, TypeOK, IsList
  <2>3. /\ DOMAIN orders' = DOMAIN orders
        /\ orders'[r].status = st
        /\ \A o \in DOMAIN orders : o # r => orders'[o] = orders[o]
    BY <2>1, <2>2, RecordValue, ReportedValue
  <2>4. r \in OrderIds /\ ~ (r > issued)
    BY <2>1 DEF OrderIds, TypeOK
  <2>5. Stage(r) \in Lifecycle!Open /\ Stage(r)' = st
    BY <2>1, <2>3, <2>4, StageFacts DEF StageIn, Lifecycle!Open, LiveStatuses
  <2>6. ASSUME NEW o \in OrderIds, o # r
        PROVE  Stage(o)' = Stage(o)
    BY <2>3, <2>6, StageFacts DEF StageIn
  <2>7. QED
    BY <1>1, <2>4, <2>5, <2>6
<1>2. CASE ~ Accepts(orders, r)
  BY <1>2, StageFacts DEF Record
<1>3. QED
  BY <1>1, <1>2

\* An acknowledgement that the backend records.
LEMMA MapsToAcknowledge ==
  ASSUME TypeOK, NEW r, Record(r, "running"), Accepts(orders, r), UNCHANGED issued,
         Ran' \in {Ran, Ran \union {r}}
  PROVE  r \in OrderIds /\ Lifecycle!Acknowledge(r)
BY RecordStage DEF Lifecycle!Acknowledge

\* A verdict that the backend records, on an order that was run.
LEMMA MapsToConclude ==
  ASSUME TypeOK, NEW r \in Ran, NEW st \in {"done", "failed"}, Record(r, st),
         Accepts(orders, r), UNCHANGED <<issued, ledger>>
  PROVE  r \in OrderIds /\ Lifecycle!Conclude(r)
<1>1. UNCHANGED Ran
  BY DEF Ran
<1>2. QED
  BY <1>1, RecordStage DEF Lifecycle!Conclude, Lifecycle!Closed

\* The agent begins an order without the backend recording it.
LEMMA MapsToBegin ==
  ASSUME TypeOK, pc = "ack", Execute, UNCHANGED <<orders, issued>>
  PROVE  cur \in OrderIds /\ Lifecycle!Begin(cur)
<1>1. cur \in OrderIds /\ cur \in 1..issued
  BY InHandType DEF TypeOK
<1>2. IsList(orders) /\ ~ (cur > issued)
  BY <1>1 DEF TypeOK, IsList
<1>3. cur \in DOMAIN orders => orders[cur].status \in LiveStatuses \union TerminalStatuses
  BY <1>2, OrderFields
<1>4. Stage(cur) # "absent"
  BY <1>2, <1>3 DEF Stage, LiveStatuses, TerminalStatuses
<1>5. \A o \in OrderIds : Stage(o)' = Stage(o)
  BY DEF Stage
<1>6. QED
  BY <1>1, <1>4, <1>5, ExecuteRan DEF Lifecycle!Begin

\* A step that leaves the list, the ledger and the numbering alone.
LEMMA MapsToStutter ==
  ASSUME UNCHANGED <<orders, issued, ledger>>
  PROVE  UNCHANGED Lifecycle!lifeVars
BY DEF Lifecycle!lifeVars, Stage, Ran

\* A report that the backend refuses.
LEMMA RefusedStutters ==
  ASSUME NEW r, NEW st, Record(r, st), ~ Accepts(orders, r), UNCHANGED <<issued, ledger>>
  PROVE  UNCHANGED Lifecycle!lifeVars
BY MapsToStutter DEF Record

\* Every step of the queue is a step of the life cycle, or changes nothing there.
LEMMA LifeStep ==
  TypeOK /\ TypeOK' /\ RanInv /\ [Next]_vars => [Lifecycle!LifeNext]_(Lifecycle!lifeVars)
<1> SUFFICES ASSUME TypeOK, TypeOK', RanInv, [Next]_vars
             PROVE  Lifecycle!LifeNext \/ UNCHANGED Lifecycle!lifeVars
  OBVIOUS
<1> USE DEF backendVars, handlerVars, agentVars, historyVars
<1> DEFINE G == Groomed(orders, now)
<1>0. TidyOf(G)
  BY GroomTidies
<1>1. ASSUME NEW s \in Servers, NEW t \in Types, NEW a \in Authors, AddOrder(s, t, a)
      PROVE  Lifecycle!LifeNext
  <2>1. PICK n : n = issued + 1
    OBVIOUS
  <2>2. n \in OrderIds /\ issued' = n /\ UNCHANGED ledger
    BY <1>1, <2>1 DEF AddOrder, TypeOK, OrderIds
  <2>3. PICK order : order = NewOrder(s, t, a, now)
    OBVIOUS
  <2>4. order.status = "pending" /\ orders' = Listed(G, n, order)
    BY <1>1, <2>1, <2>3 DEF AddOrder, NewOrder
  <2>5. Lifecycle!Submit(n)
    BY <1>0, <2>1, <2>2, <2>4, MapsToSubmit
  <2>6. QED
    BY <2>2, <2>5 DEF Lifecycle!LifeNext
<1>2. ASSUME NEW c \in OrderIds, CancelOrder(c)
      PROVE  Lifecycle!LifeNext
  <2>1. TidyOf(orders')
    BY <1>0, <1>2, CancelTidies DEF CancelOrder
  <2>2. QED
    BY <1>2, <2>1, MapsToTidy DEF CancelOrder, Lifecycle!LifeNext
<1>3. CASE ListServers \/ GetOrders
  BY <1>0, <1>3, MapsToTidy DEF ListServers, Groom, GetOrders, Lifecycle!LifeNext
<1>4. CASE AnswerAck
  <2>1. CASE Refuses409(orders, cur)
    <3>1. ~ Accepts(orders, cur)
      BY <2>1 DEF Refuses409, Accepts, IsLive, LiveStatuses, TerminalStatuses
    <3>2. QED
      BY <1>4, <2>1, <3>1, RefusedStutters DEF AnswerAck
  <2>2. CASE ~ Refuses409(orders, cur) /\ Accepts(orders, cur)
    <3>1. Ran' = Ran \union {cur}
      BY <1>4, <2>2, ExecuteRan DEF AnswerAck
    <3>2. cur \in OrderIds /\ Lifecycle!Acknowledge(cur)
      BY <1>4, <2>2, <3>1, MapsToAcknowledge DEF AnswerAck
    <3>3. QED
      BY <3>2 DEF Lifecycle!LifeNext
  <2>3. CASE ~ Refuses409(orders, cur) /\ ~ Accepts(orders, cur)
    BY <1>4, <2>3, MapsToBegin DEF AnswerAck, Record, Lifecycle!LifeNext
  <2>4. QED
    BY <2>1, <2>2, <2>3
<1>5. CASE GiveUpAck
  BY <1>5, MapsToBegin DEF GiveUpAck, Lifecycle!LifeNext
<1>6. CASE AnswerVerdict
  <2>1. Record(cur, result) /\ UNCHANGED <<issued, ledger>>
    BY <1>6 DEF AnswerVerdict
  <2>2. cur \in Ran /\ result \in {"done", "failed"}
    BY <1>6 DEF AnswerVerdict, RanInv, TypeOK, TerminalStatuses
  <2>3. CASE Accepts(orders, cur)
    BY <2>1, <2>2, <2>3, MapsToConclude DEF Lifecycle!LifeNext
  <2>4. CASE ~ Accepts(orders, cur)
    BY <2>1, <2>4, RefusedStutters
  <2>5. QED
    BY <2>3, <2>4
<1>7. ASSUME NEW m \in StatusReport, LateReport(m)
      PROVE  Lifecycle!LifeNext \/ UNCHANGED Lifecycle!lifeVars
  <2>1. Record(m.id, m.status) /\ UNCHANGED <<issued, ledger>> /\ m \in late
    BY <1>7 DEF LateReport
  <2>2. CASE ~ Accepts(orders, m.id)
    BY <2>1, <2>2, RefusedStutters
  <2>3. CASE Accepts(orders, m.id) /\ m.status = "running"
    <3>1. UNCHANGED Ran
      BY <2>1 DEF Ran
    <3>2. QED
      BY <2>1, <2>3, <3>1, MapsToAcknowledge DEF Lifecycle!LifeNext
  <2>4. CASE Accepts(orders, m.id) /\ m.status # "running"
    <3>1. m.id \in Ran /\ m.status \in {"done", "failed"}
      BY <2>1, <2>4 DEF RanInv, StatusReport
    <3>2. QED
      BY <2>1, <2>4, <3>1, MapsToConclude DEF Lifecycle!LifeNext
  <2>5. QED
    BY <2>2, <2>3, <2>4
<1>8. CASE UNCHANGED <<orders, issued, ledger>>
  BY <1>8, MapsToStutter
<1>9. QED
  BY <1>1, <1>2, <1>3, <1>4, <1>5, <1>6, <1>7, <1>8
     DEF Next, Dashboard, Drain, Faults, PutStatus, StartCycle, TakeNothing, TakeOrder,
         IgnoreOrder, EndCycle, SendAlert, FinishExecution, GetFails, MisreadAck,
         GiveUpVerdict, AgentCrash, BackendCrash, Tick, vars

\* Whatever the order in which late reports, grooms and cancellations reach the
\* list, each order moves forward only, is closed once, and is concluded by the
\* agent only after the agent ran it.
THEOREM LifecycleImplemented == Spec => ImplementsLifecycle
<1>1. Init => Lifecycle!LifeInit /\ RanInv
  <2> SUFFICES ASSUME Init PROVE Lifecycle!LifeInit /\ RanInv
    OBVIOUS
  <2>1. Ran = {} /\ late = {} /\ pc = "off"
    BY DEF Init, Ran
  <2>2. \A o \in OrderIds : Stage(o) = "absent"
    BY DEF Init, Stage, OrderIds
  <2>3. QED
    BY <2>1, <2>2 DEF Lifecycle!LifeInit, RanInv
<1>2. QED
  BY <1>1, RanStep, LifeStep, TypeCorrect, PTL DEF Spec, ImplementsLifecycle, Lifecycle!LifeSpec

-----------------------------------------------------------------------------
(* As long as nothing goes wrong: the desired state *)

\* The copy of an order in the agent's hands is that of the order listed.
CopyInv ==
  \A o \in DOMAIN listing \intersect DOMAIN orders : SameKey(listing[o], orders[o])

\* Every step keeps it.
LEMMA CopyStep == TypeOK /\ CopyInv /\ [Next]_vars => CopyInv'
<1> SUFFICES ASSUME TypeOK, CopyInv, [Next]_vars PROVE CopyInv'
  OBVIOUS
<1>1. CASE listing' = listing
  <2> SUFFICES ASSUME NEW o \in DOMAIN listing \intersect DOMAIN orders'
               PROVE  SameKey(listing[o], orders'[o])
    BY <1>1 DEF CopyInv
  <2>1. o \in 1..issued
    BY DEF TypeOK
  <2>2. o \in DOMAIN orders /\ SameKey(orders'[o], orders[o])
    BY <2>1, NoRevival
  <2>3. SameKey(listing[o], orders[o])
    BY <2>2 DEF CopyInv
  <2>4. QED
    BY <2>2, <2>3 DEF SameKey
<1>2. CASE listing' = LiveOrders(orders')
  BY <1>2 DEF LiveOrders, CopyInv, SameKey
<1>3. CASE listing' = NoOrders
  BY <1>3, NoOrdersType DEF CopyInv
<1>4. QED
  BY <1>1, <1>2, <1>3
     DEF backendVars, handlerVars, agentVars, historyVars, Next, Dashboard, Drain, Faults,
         AddOrder, CancelOrder, ListServers, Groom, PutStatus, StartCycle, GetOrders,
         TakeNothing, TakeOrder, IgnoreOrder, AnswerAck, AnswerVerdict, EndCycle, SendAlert,
         FinishExecution, GetFails, GiveUpAck, MisreadAck, GiveUpVerdict, AgentCrash,
         BackendCrash, LateReport, DropOrder, Tick, vars

\* A report is under way on its own only after a fault.
LateInv == faults = 0 => late = {}

\* A step that leaves the run without a fault is none of the faults.
LEMMA FaultFree ==
  ASSUME TypeOK, LateInv, [Next]_vars, faults' = 0
  PROVE  faults = 0 /\ (Dashboard \/ Drain \/ Tick \/ UNCHANGED vars)
<1>0. faults \in Nat
  BY DEF TypeOK
<1>1. CASE Dashboard
  BY <1>1 DEF Dashboard, AddOrder, CancelOrder, ListServers, PutStatus
<1>2. CASE Drain
  BY <1>2 DEF Drain, StartCycle, GetOrders, TakeNothing, TakeOrder, IgnoreOrder, AnswerAck,
              AnswerVerdict, EndCycle, SendAlert, FinishExecution
<1>3. CASE Tick \/ UNCHANGED vars
  BY <1>3 DEF Tick, vars
<1>4. CASE Faults
  <2>1. CASE \E m \in StatusReport : LateReport(m)
    BY <2>1 DEF LateReport, LateInv
  <2>2. CASE faults' = faults + 1
    BY <1>0, <2>2
  <2>3. QED
    BY <1>4, <2>1, <2>2 DEF Faults, GetFails, GiveUpAck, MisreadAck, GiveUpVerdict,
                            AgentCrash, BackendCrash
<1>5. QED
  BY <1>1, <1>2, <1>3, <1>4 DEF Next

\* Every step keeps LateInv.
LEMMA LateStep == TypeOK /\ LateInv /\ [Next]_vars => LateInv'
<1> SUFFICES ASSUME TypeOK, LateInv, [Next]_vars, faults' = 0 PROVE late' = {}
  BY DEF LateInv
<1>1. late = {}
  BY FaultFree DEF LateInv
<1>2. late' = late
  BY FaultFree DEF backendVars, handlerVars, agentVars, historyVars, Dashboard, Drain,
         AddOrder, CancelOrder, ListServers, Groom, PutStatus, StartCycle, GetOrders,
         TakeNothing, TakeOrder, IgnoreOrder, AnswerAck, AnswerVerdict, EndCycle, SendAlert,
         FinishExecution, Tick, vars
<1>3. QED
  BY <1>1, <1>2

\* The desired states once the verdict in hand, if any, is recorded.
Foreseen ==
  IF pc = "verdict" /\ result = "done"
  THEN DesiredAfter(desired, listing[cur].server, listing[cur].type)
  ELSE desired

\* Only the verdict in hand separates the desired state from the effect.
EffectInv ==
  /\ CopyInv
  /\ LateInv
  /\ faults = 0 => \A s \in Servers \ refused : effect[s] = Foreseen[s]

\* What an order done says of one server depends on what was wanted of it only.
LEMMA DesiredAfterValue ==
  ASSUME NEW d \in [Servers -> Wishes], NEW s0 \in Servers, NEW t, NEW s \in Servers
  PROVE  DesiredAfter(d, s0, t)[s] =
           IF s = s0 /\ t \in LaunchTypes THEN "running"
           ELSE IF s = s0 /\ t = "stop" THEN "stopped"
           ELSE d[s]
BY DEF DesiredAfter

\* The verdict brings the desired state up to the effect, or is refused.
LEMMA EffectVerdict ==
  ASSUME TypeOK, EffectInv, AnswerVerdict, faults = 0
  PROVE  \A s \in Servers \ refused' : effect'[s] = Foreseen'[s]
<1> SUFFICES ASSUME NEW s \in Servers \ refused' PROVE effect'[s] = Foreseen'[s]
  OBVIOUS
<1>1. cur \in DOMAIN listing /\ listing[cur].server \in Servers
  BY InHandType DEF AnswerVerdict
<1>2. desired \in [Servers -> Wishes] /\ pc = "verdict"
  BY DEF TypeOK, AnswerVerdict
<1>3. Foreseen' = desired' /\ effect' = effect
  BY DEF AnswerVerdict, DropOrder, Foreseen
<1>4. CASE Accepts(orders, cur)
  <2>1. cur \in DOMAIN orders
    BY <1>4 DEF Accepts, IsLive
  <2>2. listing[cur].server = orders[cur].server /\ listing[cur].type = orders[cur].type
    BY <1>1, <2>1 DEF EffectInv, CopyInv, SameKey
  <2>3. desired' = Foreseen
    BY <1>2, <1>4, <2>2 DEF AnswerVerdict, Record, Foreseen
  <2>4. s \notin refused
    BY <1>4 DEF AnswerVerdict
  <2>5. QED
    BY <1>3, <2>3, <2>4 DEF EffectInv
<1>5. CASE ~ Accepts(orders, cur)
  <2>1. s \notin refused /\ s # listing[cur].server /\ desired' = desired
    BY <1>5 DEF AnswerVerdict, Record
  <2>2. Foreseen[s] = desired[s]
    BY <1>1, <1>2, <2>1, DesiredAfterValue DEF Foreseen
  <2>3. QED
    BY <1>3, <2>1, <2>2 DEF EffectInv
<1>6. QED
  BY <1>4, <1>5

\* Every step keeps EffectInv.
LEMMA EffectStep == TypeOK /\ EffectInv /\ [Next]_vars => EffectInv'
<1> SUFFICES ASSUME TypeOK, EffectInv, [Next]_vars PROVE EffectInv'
  OBVIOUS
<1>1. CopyInv' /\ LateInv'
  BY CopyStep, LateStep DEF EffectInv
<1> SUFFICES ASSUME faults' = 0, NEW s \in Servers \ refused'
             PROVE  effect'[s] = Foreseen'[s]
  BY <1>1 DEF EffectInv
<1> USE DEF backendVars, handlerVars, agentVars, historyVars
<1>2. faults = 0 /\ (Dashboard \/ Drain \/ Tick \/ UNCHANGED vars)
  BY FaultFree DEF EffectInv
<1>3. \A z \in Servers \ refused : effect[z] = Foreseen[z]
  BY <1>2 DEF EffectInv
<1>4. CASE AnswerVerdict
  BY <1>2, <1>4, EffectVerdict
<1>5. ASSUME NEW r \in TerminalStatuses, FinishExecution(r)
      PROVE  effect'[s] = Foreseen'[s]
  <2>1. /\ pc = "exec" /\ pc' = "verdict" /\ result' = r
        /\ UNCHANGED <<desired, listing, cur, refused>>
    BY <1>5 DEF FinishExecution
  <2>2. effect[s] = desired[s]
    BY <1>3, <2>1 DEF Foreseen
  <2>3. listing[cur].server \in Servers
    BY <2>1, InHandType
  <2>4. /\ desired \in [Servers -> Wishes] /\ effect \in [Servers -> Wishes]
    BY DEF TypeOK
  <2>5. CASE r = "done"
    BY <1>5, <2>1, <2>2, <2>3, <2>4, <2>5, DesiredAfterValue DEF FinishExecution, Foreseen
  <2>6. CASE r # "done"
    BY <1>5, <2>1, <2>2, <2>6 DEF FinishExecution, Foreseen
  <2>7. QED
    BY <2>5, <2>6
<1>6. CASE AnswerAck
  <2>1. /\ desired' = desired /\ effect' = effect /\ refused' = refused
        /\ pc = "ack" /\ pc' # "verdict"
    BY <1>6 DEF AnswerAck, Record, DropOrder, Execute
  <2>2. QED
    BY <1>3, <2>1 DEF Foreseen
<1>7. CASE UNCHANGED <<desired, effect, refused>> /\ pc # "verdict" /\ pc' # "verdict"
  BY <1>3, <1>7 DEF Foreseen
<1>8. CASE UNCHANGED <<desired, effect, refused, pc, result, listing, cur>>
  BY <1>3, <1>8 DEF Foreseen
<1>9. QED
  BY <1>2, <1>4, <1>5, <1>6, <1>7, <1>8
     DEF Dashboard, Drain, AddOrder, CancelOrder, ListServers, Groom, PutStatus, StartCycle,
         GetOrders, TakeNothing, TakeOrder, IgnoreOrder, EndCycle, SendAlert, Tick, vars

\* Without a fault, and but for servers with a refused verdict, the desired
\* state is what the last successful launch or stop did.
THEOREM DesiredFollowsEffect == Spec => []DesiredIsEffect
<1>1. Init => EffectInv
  <2> SUFFICES ASSUME Init PROVE EffectInv
    OBVIOUS
  <2>1. CopyInv /\ LateInv
    BY NoOrdersType DEF Init, CopyInv, LateInv
  <2>2. QED
    BY <2>1 DEF Init, EffectInv, Foreseen
<1>2. EffectInv => DesiredIsEffect
  BY DEF EffectInv, DesiredIsEffect, Foreseen
<1>3. QED
  BY <1>1, <1>2, EffectStep, TypeCorrect, PTL DEF Spec

-----------------------------------------------------------------------------
(* As long as nothing goes wrong: the order and the number of executions *)

\* The agent will not begin this order again: it passed over it, or it is closed.
Passed(o) == o \in skipped \/ ~ IsLive(orders, o)

\* What was attempted in this cycle is passed, but for the order in hand.
AttemptsPassed ==
  /\ attempted \subseteq 1..issued
  /\ \A o \in attempted : Passed(o) \/ (pc \in InHand /\ o = cur)

\* All that is older than the order in hand is passed.
OlderPassed == pc \in InHand => \A o \in 1..issued : o < cur => Passed(o)

\* What the list of the last GET lacks is younger than all it has.
LackIsYounger ==
  pc = "waiting" => \A o \in Live(orders) \ DOMAIN listing : \A p \in DOMAIN listing : p < o

\* All that is older than an order already begun is passed.
BegunInOrder ==
  \A i \in DOMAIN ledger : \A o \in 1..issued : o < ledger[i].id => Passed(o)

\* What the list of the last GET has is no older than what was begun, unless
\* it was skipped.
ListedInOrder ==
  pc \in {"waiting", "ack"} =>
    \A o \in DOMAIN listing, i \in DOMAIN ledger : o < ledger[i].id => o \in skipped

\* An order begun is closed once its verdict is in, and is not in the list of a
\* later GET.
BegunOnce ==
  /\ \A o \in Ran : ~ IsLive(orders, o) \/ (pc \in {"exec", "verdict"} /\ o = cur)
  /\ pc \in {"waiting", "ack"} => DOMAIN listing \intersect Ran = {}

\* What holds of the drain until the first fault.
DrainInv ==
  /\ AttemptsPassed
  /\ OlderPassed
  /\ LackIsYounger
  /\ BegunInOrder
  /\ ListedInOrder
  /\ BegunOnce

\* Without a fault, an order is executed once.
RunOnce ==
  faults = 0 => \A i, j \in DOMAIN ledger : ledger[i].id = ledger[j].id => i = j

OrderInv ==
  /\ RanInv
  /\ LateInv
  /\ faults = 0 => DrainInv
  /\ InOrderPerServer
  /\ RunOnce

\* A passed order stays passed, if the step skips at most more orders.
LEMMA PassedStays ==
  ASSUME TypeOK, [Next]_vars, NEW o \in 1..issued, Passed(o), skipped \subseteq skipped'
  PROVE  Passed(o)'
<1>1. IsLive(orders', o) => IsLive(orders, o)
  BY NoRevival DEF IsLive
<1>2. QED
  BY <1>1 DEF Passed

\* The ids of the ledger are those of orders that were created.
LEMMA LedgerIds ==
  ASSUME TypeOK, RanInv, NEW i \in DOMAIN ledger
  PROVE  ledger[i].id \in Ran /\ ledger[i].id \in 1..issued
BY DEF RanInv, Ran

FaultFreeStep == [Next]_vars /\ (Dashboard \/ Drain \/ Tick \/ UNCHANGED vars)

\* An order stays in hand until it is closed.
LEMMA InHandStays ==
  ASSUME TypeOK, FaultFreeStep, pc \in InHand
  PROVE  \/ ~ IsLive(orders', cur)
         \/ /\ cur' = cur /\ pc' \in InHand
            /\ pc \in {"exec", "verdict"} => pc' \in {"exec", "verdict"}
<1> USE DEF backendVars, handlerVars, agentVars, historyVars, InHand
<1>1. CASE AnswerAck
  <2>1. CASE Refuses409(orders, cur)
    <3>1. ~ IsLive(orders, cur)
      BY <2>1 DEF Refuses409, IsLive, LiveStatuses, TerminalStatuses
    <3>2. orders' = orders
      BY <1>1, <3>1 DEF AnswerAck, Record, Accepts
    <3>3. QED
      BY <3>1, <3>2
  <2>2. CASE ~ Refuses409(orders, cur)
    BY <1>1, <2>2 DEF AnswerAck, Execute
  <2>3. QED
    BY <2>1, <2>2
<1>2. CASE AnswerVerdict
  <2>1. result \in TerminalStatuses /\ Record(cur, result)
    BY <1>2 DEF AnswerVerdict, TypeOK
  <2>2. CASE Accepts(orders, cur)
    <3>1. IsList(orders) /\ cur \in DOMAIN orders
      BY <2>2 DEF TypeOK, IsList, Accepts, IsLive
    <3>2. orders' = Reported(orders, cur, result)
      BY <2>1, <2>2 DEF Record
    <3>3. orders'[cur].status = result
      BY <3>1, <3>2, ReportedValue
    <3>4. QED
      BY <2>1, <3>3 DEF IsLive, LiveStatuses, TerminalStatuses
  <2>3. CASE ~ Accepts(orders, cur)
    BY <2>1, <2>3 DEF Record, Accepts
  <2>4. QED
    BY <2>2, <2>3
<1>3. ASSUME NEW r \in TerminalStatuses, FinishExecution(r)
      PROVE  pc' = "verdict" /\ cur' = cur
  BY <1>3 DEF FinishExecution
<1>4. CASE UNCHANGED <<pc, cur>>
  BY <1>4
<1>5. QED
  BY <1>1, <1>2, <1>3, <1>4
     DEF FaultFreeStep, Dashboard, Drain, AddOrder, CancelOrder, ListServers, PutStatus,
         StartCycle, GetOrders, TakeNothing, TakeOrder, IgnoreOrder, EndCycle, SendAlert,
         Tick, vars

\* What the agent takes from the list, or passes over, was not attempted, and
\* the older orders of the list were.
LEMMA NextFacts ==
  ASSUME TypeOK, NEW o, IsNext(o)
  PROVE  /\ o \in DOMAIN listing /\ o \in 1..issued
         /\ \A p \in DOMAIN listing : p < o => p \in attempted
<1>1. DOMAIN listing \subseteq 1..issued
  BY DEF TypeOK
<1>2. QED
  BY <1>1 DEF IsNext, Unattempted, TypeOK

\* Only IgnoreOrder skips.
LEMMA SkippedGrows == FaultFreeStep => skipped \subseteq skipped'
BY DEF FaultFreeStep, backendVars, handlerVars, agentVars, historyVars, Dashboard, Drain,
       AddOrder, CancelOrder, ListServers, PutStatus, StartCycle, GetOrders, TakeNothing,
       TakeOrder, IgnoreOrder, AnswerAck, AnswerVerdict, EndCycle, SendAlert,
       FinishExecution, Tick, vars

\* How the agent gets on with its cycle.
LEMMA AgentMoves ==
  ASSUME FaultFreeStep
  PROVE  \/ UNCHANGED <<pc, cur, attempted, listing, ledger>>
         \/ GetOrders
         \/ \E o \in OrderIds : TakeOrder(o) \/ IgnoreOrder(o)
         \/ /\ pc' \notin InHand \union {"waiting"} /\ pc \notin InHand
            /\ attempted' \subseteq attempted /\ UNCHANGED ledger
         \/ /\ pc \in InHand /\ pc' \notin {"waiting", "ack"}
            /\ UNCHANGED attempted /\ (pc' \in InHand => cur' = cur)
            /\ UNCHANGED ledger \/ (pc = "ack" /\ pc' = "exec" /\ cur' = cur /\ Execute)
BY DEF FaultFreeStep, backendVars, handlerVars, agentVars, historyVars, Dashboard, Drain,
       AddOrder, CancelOrder, ListServers, PutStatus, StartCycle, TakeNothing,
       AnswerAck, AnswerVerdict, EndCycle, SendAlert, InHand, DropOrder, Execute,
       FinishExecution, Tick, vars

\* What is attempted is passed, or in hand.
LEMMA AttemptsStep ==
  ASSUME TypeOK, FaultFreeStep, AttemptsPassed
  PROVE  AttemptsPassed'
<1>0. /\ issued \in Nat /\ issued' \in Nat /\ issued =< issued' /\ attempted \subseteq 1..issued
      /\ [Next]_vars /\ skipped \subseteq skipped'
  BY IssuedGrows, SkippedGrows DEF FaultFreeStep, AttemptsPassed
<1>1. ASSUME NEW o \in attempted
      PROVE  Passed(o)' \/ (pc' \in InHand /\ o = cur')
  <2>1. CASE Passed(o)
    BY <1>0, <2>1, PassedStays
  <2>2. CASE pc \in InHand /\ o = cur
    BY <2>2, InHandStays DEF Passed
  <2>3. QED
    BY <2>1, <2>2 DEF AttemptsPassed
<1>2. CASE attempted' \subseteq attempted
  BY <1>0, <1>1, <1>2 DEF AttemptsPassed
<1>3. ASSUME NEW o \in OrderIds, TakeOrder(o)
      PROVE  AttemptsPassed'
  <2>1. o \in 1..issued /\ attempted' = attempted \union {o} /\ pc' = "ack" /\ cur' = o
    BY <1>3, NextFacts DEF TakeOrder
  <2>2. QED
    BY <1>0, <1>1, <2>1 DEF AttemptsPassed, InHand
<1>4. ASSUME NEW o \in OrderIds, IgnoreOrder(o)
      PROVE  AttemptsPassed'
  <2>1. o \in 1..issued /\ attempted' = attempted \union {o} /\ o \in skipped'
    BY <1>4, NextFacts DEF IgnoreOrder
  <2>2. QED
    BY <1>0, <1>1, <2>1 DEF AttemptsPassed, Passed
<1>5. CASE GetOrders
  BY <1>2, <1>5 DEF GetOrders
<1>6. QED
  BY <1>2, <1>3, <1>4, <1>5, AgentMoves

\* What is older than the order in hand is passed.
LEMMA OlderStep ==
  ASSUME TypeOK, FaultFreeStep, AttemptsPassed, OlderPassed, LackIsYounger
  PROVE  OlderPassed'
<1> SUFFICES ASSUME pc' \in InHand, NEW o \in 1..issued', o < cur' PROVE Passed(o)'
  BY DEF OlderPassed
<1>0. [Next]_vars /\ skipped \subseteq skipped'
  BY SkippedGrows DEF FaultFreeStep
<1>1. CASE pc \in InHand
  <2>1. cur' = cur
    BY <1>1, AgentMoves DEF GetOrders, TakeOrder, IgnoreOrder, InHand
  <2>2. cur \in 1..issued
    BY <1>1, InHandType DEF TypeOK, InHand
  <2>3. o \in 1..issued
    BY <1>0, <2>1, <2>2, IssuedGrows
  <2>4. Passed(o)
    BY <1>1, <2>1, <2>3 DEF OlderPassed
  <2>5. QED
    BY <1>0, <2>3, <2>4, PassedStays
<1>2. CASE pc \notin InHand
  <2>1. PICK c \in OrderIds : TakeOrder(c)
    BY <1>2, AgentMoves DEF GetOrders, IgnoreOrder, InHand
  <2>2. /\ c \in DOMAIN listing /\ c \in 1..issued /\ pc = "waiting" /\ cur' = c
        /\ UNCHANGED <<orders, skipped, issued>>
        /\ \A p \in DOMAIN listing : p < c => p \in attempted
    BY <2>1, NextFacts DEF TakeOrder, backendVars, historyVars
  <2>3. CASE o \in attempted
    BY <1>2, <2>2, <2>3 DEF AttemptsPassed, Passed
  <2>4. CASE o \notin attempted
    <3>1. o \notin DOMAIN listing
      BY <2>2, <2>4
    <3>2. ~ IsLive(orders, o)
      BY <2>2, <3>1 DEF LackIsYounger, IsLive, Live
    <3>3. QED
      BY <2>2, <3>2 DEF Passed
  <2>5. QED
    BY <2>3, <2>4
<1>3. QED
  BY <1>1, <1>2

\* What the list of the last GET lacks is younger than what it has.
LEMMA LackStep ==
  ASSUME TypeOK, TypeOK', FaultFreeStep, LackIsYounger
  PROVE  LackIsYounger'
<1> SUFFICES ASSUME pc' = "waiting",
                    NEW o \in Live(orders') \ DOMAIN listing', NEW p \in DOMAIN listing'
             PROVE  p < o
  BY DEF LackIsYounger
<1>0. [Next]_vars
  BY DEF FaultFreeStep
<1>1. CASE GetOrders
  BY <1>1 DEF GetOrders, LiveOrders
<1>2. CASE UNCHANGED <<pc, listing>>
  <2>1. p \in 1..issued /\ issued \in Nat
    BY <1>2 DEF TypeOK
  <2>2. o \in 1..issued' /\ issued' \in Nat
    BY DEF TypeOK, Live
  <2>3. CASE o \in 1..issued
    <3>1. o \in Live(orders)
      BY <1>0, <2>3, NoRevival DEF Live
    <3>2. QED
      BY <1>2, <3>1 DEF LackIsYounger
  <2>4. CASE o \notin 1..issued
    BY <2>1, <2>2, <2>4
  <2>5. QED
    BY <2>3, <2>4
<1>3. QED
  BY <1>1, <1>2, AgentMoves DEF TakeOrder, IgnoreOrder, InHand

\* An execution begins an order of the last list, which the agent has not begun.
LEMMA ExecutionFacts ==
  ASSUME TypeOK, RanInv, DrainInv, pc = "ack", Execute
  PROVE  /\ cur \in DOMAIN listing /\ cur \in 1..issued
         /\ \A o \in 1..issued : o < cur => Passed(o)
         /\ \A i \in DOMAIN ledger : cur < ledger[i].id => cur \in skipped
         /\ \A i \in DOMAIN ledger : ledger[i].id # cur
<1>1. cur \in DOMAIN listing /\ cur \in 1..issued
  BY InHandType DEF TypeOK
<1>2. cur \notin Ran
  BY <1>1 DEF DrainInv, BegunOnce
<1>3. QED
  BY <1>1, <1>2 DEF DrainInv, OlderPassed, ListedInOrder, InHand, Ran

\* What is older than an order begun is passed.
LEMMA BegunOrderStep ==
  ASSUME TypeOK, FaultFreeStep, RanInv, DrainInv
  PROVE  BegunInOrder'
<1> SUFFICES ASSUME NEW i \in DOMAIN ledger', NEW o \in 1..issued', o < ledger'[i].id
             PROVE  Passed(o)'
  BY DEF BegunInOrder
<1>0. [Next]_vars /\ skipped \subseteq skipped'
  BY SkippedGrows DEF FaultFreeStep
<1>1. CASE i \in DOMAIN ledger /\ ledger'[i] = ledger[i]
  <2>1. o \in 1..issued
    BY <1>0, <1>1, LedgerIds, IssuedGrows
  <2>2. QED
    BY <1>0, <1>1, <2>1, PassedStays DEF DrainInv, BegunInOrder
<1>2. CASE pc = "ack" /\ Execute /\ ledger'[i].id = cur
  <2>1. cur \in 1..issued
    BY <1>2, ExecutionFacts
  <2>2. o \in 1..issued
    BY <1>0, <1>2, <2>1, IssuedGrows
  <2>3. QED
    BY <1>0, <1>2, <2>2, ExecutionFacts, PassedStays
<1>3. CASE pc = "ack" /\ Execute
  BY <1>1, <1>2, <1>3, ExecuteLedger
<1>4. QED
  BY <1>1, <1>3, AgentMoves DEF GetOrders, TakeOrder, IgnoreOrder, historyVars

\* The list of a GET has nothing older than what was begun, but what was skipped.
LEMMA ListedOrderStep ==
  ASSUME TypeOK, FaultFreeStep, RanInv, DrainInv
  PROVE  ListedInOrder'
<1> SUFFICES ASSUME pc' \in {"waiting", "ack"},
                    NEW o \in DOMAIN listing', NEW i \in DOMAIN ledger', o < ledger'[i].id
             PROVE  o \in skipped'
  BY DEF ListedInOrder
<1>0. [Next]_vars /\ skipped \subseteq skipped'
  BY SkippedGrows DEF FaultFreeStep
<1>1. CASE GetOrders
  <2>1. o \in Live(orders') /\ ledger' = ledger /\ issued' = issued
    BY <1>1 DEF GetOrders, LiveOrders, historyVars
  <2>2. o \in 1..issued
    <3>1. IsList(orders) /\ DOMAIN orders \subseteq 1..issued
      BY DEF TypeOK, IsList
    <3>2. DOMAIN orders' \subseteq DOMAIN orders
      BY <1>1, <3>1, GroomedType DEF GetOrders
    <3>3. QED
      BY <2>1, <3>1, <3>2 DEF Live
  <2>3. Passed(o)'
    BY <1>0, <2>1, <2>2, PassedStays DEF DrainInv, BegunInOrder
  <2>4. QED
    BY <2>1, <2>3 DEF Passed, IsLive, Live
<1>2. CASE /\ pc \in {"waiting", "ack"} /\ listing' = listing /\ ledger' = ledger
  BY <1>0, <1>2 DEF DrainInv, ListedInOrder
<1>3. QED
  BY <1>1, <1>2, AgentMoves DEF TakeOrder, IgnoreOrder, handlerVars, historyVars, InHand

\* What was begun is closed, or in hand, and is not listed again.
LEMMA BegunOnceStep ==
  ASSUME TypeOK, TypeOK', FaultFreeStep, RanInv, DrainInv
  PROVE  BegunOnce'
<1>0. [Next]_vars
  BY DEF FaultFreeStep
<1>1. ASSUME NEW o \in Ran
      PROVE  ~ IsLive(orders', o) \/ (pc' \in {"exec", "verdict"} /\ o = cur')
  <2>1. o \in 1..issued
    BY DEF RanInv
  <2>2. CASE ~ IsLive(orders, o)
    BY <1>0, <2>1, <2>2, NoRevival DEF IsLive
  <2>3. CASE pc \in {"exec", "verdict"} /\ o = cur
    BY <2>3, InHandStays DEF InHand
  <2>4. QED
    BY <2>2, <2>3 DEF DrainInv, BegunOnce
<1>2. CASE UNCHANGED ledger
  <2>1. Ran' = Ran
    BY <1>2 DEF Ran
  <2>2. ASSUME pc' \in {"waiting", "ack"} PROVE DOMAIN listing' \intersect Ran = {}
    <3>1. CASE GetOrders
      <4>1. DOMAIN listing' = Live(orders') /\ pc' = "waiting"
        BY <3>1 DEF GetOrders, LiveOrders
      <4>2. QED
        BY <1>1, <4>1 DEF IsLive, Live
    <3>2. CASE pc \in {"waiting", "ack"} /\ listing' = listing
      BY <3>2 DEF DrainInv, BegunOnce
    <3>3. QED
      BY <2>2, <3>1, <3>2, AgentMoves DEF TakeOrder, IgnoreOrder, handlerVars, InHand
  <2>3. QED
    BY <1>1, <2>1, <2>2 DEF BegunOnce
<1>3. CASE pc = "ack" /\ pc' = "exec" /\ cur' = cur /\ Execute
  BY <1>1, <1>3, ExecuteRan DEF BegunOnce
<1>4. QED
  BY <1>2, <1>3, AgentMoves DEF GetOrders, TakeOrder, IgnoreOrder, historyVars

\* The two promises on the ledger.
LEMMA LedgerStep ==
  ASSUME TypeOK, OrderInv, FaultFreeStep, faults = 0
  PROVE  InOrderPerServer' /\ RunOnce'
<1>0. skipped \subseteq skipped' /\ RanInv /\ DrainInv
  BY SkippedGrows DEF OrderInv
<1>1. /\ \A i, j \in DOMAIN ledger :
           i < j /\ ledger[i].server = ledger[j].server /\ ledger[i].id > ledger[j].id
             => ledger[j].id \in skipped
      /\ \A i, j \in DOMAIN ledger : ledger[i].id = ledger[j].id => i = j
  BY DEF OrderInv, InOrderPerServer, RunOnce
<1>2. CASE UNCHANGED ledger
  BY <1>0, <1>1, <1>2 DEF InOrderPerServer, RunOnce
<1>3. CASE pc = "ack" /\ Execute
  <2>1. /\ \A i \in DOMAIN ledger : cur < ledger[i].id => cur \in skipped
        /\ \A i \in DOMAIN ledger : ledger[i].id # cur
    BY <1>0, <1>3, ExecutionFacts
  <2>2. /\ Len(ledger) \in Nat /\ DOMAIN ledger = 1..Len(ledger)
        /\ DOMAIN ledger' = 1..(Len(ledger) + 1)
        /\ \A i \in DOMAIN ledger : ledger'[i] = ledger[i]
        /\ ledger'[Len(ledger) + 1].id = cur
    BY <1>3, ExecuteLedger
  <2>3. ASSUME NEW i \in DOMAIN ledger', NEW j \in DOMAIN ledger', i < j,
               ledger'[i].server = ledger'[j].server, ledger'[i].id > ledger'[j].id
        PROVE  ledger'[j].id \in skipped'
    <3>1. i \in DOMAIN ledger
      BY <2>2, <2>3
    <3>2. CASE j \in DOMAIN ledger
      BY <1>0, <1>1, <2>2, <2>3, <3>1, <3>2
    <3>3. CASE j = Len(ledger) + 1
      <4>1. ledger'[j].id = cur /\ ledger'[i] = ledger[i] /\ cur < ledger[i].id
        BY <2>2, <2>3, <3>1, <3>3
      <4>2. QED
        BY <1>0, <2>1, <3>1, <4>1
    <3>4. QED
      BY <2>2, <3>2, <3>3
  <2>4. ASSUME NEW i \in DOMAIN ledger', NEW j \in DOMAIN ledger',
               ledger'[i].id = ledger'[j].id
        PROVE  i = j
    BY <1>1, <2>1, <2>2, <2>4
  <2>5. QED
    BY <2>3, <2>4 DEF InOrderPerServer, RunOnce
<1>4. QED
  BY <1>2, <1>3, AgentMoves DEF GetOrders, TakeOrder, IgnoreOrder, historyVars

\* Every step keeps OrderInv.
LEMMA OrderStep == TypeOK /\ TypeOK' /\ OrderInv /\ [Next]_vars => OrderInv'
<1> SUFFICES ASSUME TypeOK, TypeOK', OrderInv, [Next]_vars PROVE OrderInv'
  OBVIOUS
<1>1. RanInv' /\ LateInv'
  BY RanStep, LateStep DEF OrderInv
<1>2. CASE faults' # 0
  BY <1>1, <1>2 DEF OrderInv, InOrderPerServer, RunOnce
<1>3. CASE faults' = 0
  <2>1. faults = 0 /\ FaultFreeStep /\ RanInv /\ DrainInv
    BY <1>3, FaultFree DEF OrderInv, FaultFreeStep
  <2>2. AttemptsPassed' /\ OlderPassed' /\ LackIsYounger'
    BY <2>1, AttemptsStep, OlderStep, LackStep DEF DrainInv
  <2>3. BegunInOrder' /\ ListedInOrder' /\ BegunOnce'
    BY <2>1, BegunOrderStep, ListedOrderStep, BegunOnceStep
  <2>4. QED
    BY <1>1, <2>1, <2>2, <2>3, LedgerStep DEF OrderInv, DrainInv
<1>4. QED
  BY <1>2, <1>3

\* The initial state.
LEMMA OrderInit == Init => OrderInv
<1> SUFFICES ASSUME Init PROVE OrderInv
  OBVIOUS
<1>1. /\ orders = NoOrders /\ listing = NoOrders /\ ledger = <<>> /\ late = {}
      /\ attempted = {} /\ pc = "off"
  BY DEF Init
<1>2. Ran = {} /\ DOMAIN ledger = {} /\ pc \notin InHand
  BY <1>1 DEF Ran, InHand
<1>3. RanInv /\ LateInv /\ DrainInv
  BY <1>1, <1>2 DEF RanInv, LateInv, DrainInv, AttemptsPassed, OlderPassed, LackIsYounger,
                    BegunInOrder, ListedInOrder, BegunOnce
<1>4. QED
  BY <1>2, <1>3 DEF OrderInv, InOrderPerServer, RunOnce

\* Without a fault, orders of one server are begun in the order of their
\* creation, but for those that were passed over while it was disabled.
THEOREM BegunInCreationOrder == Spec => []InOrderPerServer
<1>1. OrderInv => InOrderPerServer
  BY DEF OrderInv
<1>2. QED
  BY <1>1, OrderInit, OrderStep, TypeCorrect, PTL DEF Spec

\* Without a fault, no order is executed twice, although every GET lists the
\* running orders again.
THEOREM ExecutedOnce == Spec => []RunOnce
<1>1. OrderInv => RunOnce
  BY DEF OrderInv
<1>2. QED
  BY <1>1, OrderInit, OrderStep, TypeCorrect, PTL DEF Spec

-----------------------------------------------------------------------------
(* What the buttons and the 409 promise *)

\* Every step keeps the orders of the buttons apart.
LEMMA UniqueStep == TypeOK /\ TypeOK' /\ AdminOrdersUnique /\ [Next]_vars => AdminOrdersUnique'
<1> SUFFICES ASSUME TypeOK, TypeOK', AdminOrdersUnique, [Next]_vars,
                    NEW o \in Live(orders'), NEW p \in Live(orders'), o < p,
                    orders'[o].server = orders'[p].server, orders'[o].type = orders'[p].type
             PROVE  orders'[p].author = "auto"
  BY DEF AdminOrdersUnique
<1>1. o \in 1..issued' /\ p \in 1..issued' /\ issued \in Nat /\ issued' \in Nat
  BY DEF TypeOK, Live
<1>2. CASE p \in 1..issued
  <2>1. o \in 1..issued
    BY <1>1, <1>2
  <2>2. /\ o \in Live(orders) /\ SameKey(orders'[o], orders[o])
        /\ p \in Live(orders) /\ SameKey(orders'[p], orders[p])
    BY <1>2, <2>1, NoRevival DEF Live
  <2>3. QED
    BY <2>2 DEF AdminOrdersUnique, SameKey
<1>3. CASE p \notin 1..issued
  <2>1. issued' # issued
    BY <1>1, <1>3
  <2>2. PICK s \in Servers, t \in Types, a \in Authors : AddOrder(s, t, a)
    BY <2>1 DEF backendVars, handlerVars, agentVars, historyVars, Next, Dashboard, Drain,
         Faults, CancelOrder, ListServers, PutStatus, StartCycle, GetOrders, TakeNothing,
         TakeOrder, IgnoreOrder, AnswerAck, AnswerVerdict, EndCycle, SendAlert,
         FinishExecution, GetFails, GiveUpAck, MisreadAck, GiveUpVerdict, AgentCrash,
         BackendCrash, LateReport, Tick, vars
  <2>3. p = issued + 1 /\ o # issued + 1
    BY <1>1, <1>3, <2>2 DEF AddOrder
  <2> DEFINE G == Groomed(orders, now)
  <2>4. orders' = Listed(G, issued + 1, NewOrder(s, t, a, now))
    BY <2>2 DEF AddOrder
  <2>5. o \in Live(G) /\ orders'[o] = G[o]
    BY <2>3, <2>4 DEF Live, Listed
  <2>6. orders'[p].server = s /\ orders'[p].type = t /\ orders'[p].author = a
    BY <2>3, <2>4 DEF Live, Listed, NewOrder
  <2>7. Conflicts(G, s, t)
    BY <2>5, <2>6 DEF Conflicts
  <2>8. QED
    BY <2>2, <2>6, <2>7 DEF AddOrder, Authors
<1>4. QED
  BY <1>2, <1>3

\* A button never doubles a live order: reject_if looks at the groomed list.
THEOREM ButtonsNeverDouble == Spec => []AdminOrdersUnique
<1>1. Init => AdminOrdersUnique
  BY NoOrdersType DEF Init, AdminOrdersUnique, Live
<1>2. QED
  BY <1>1, UniqueStep, TypeCorrect, PTL DEF Spec

\* The steps that take an order out of the agent's hand before it is executed.
LEMMA HandEmptied ==
  ASSUME [Next]_vars, pc = "ack", pc' # "ack", pc' # "exec"
  PROVE  AnswerAck \/ MisreadAck \/ AgentCrash
<1>1. pc' # pc
  OBVIOUS
<1>2. ~ Dashboard
  BY <1>1 DEF Dashboard, AddOrder, CancelOrder, ListServers, PutStatus, handlerVars, agentVars
<1>3. ~ Tick /\ ~ UNCHANGED vars
  BY <1>1 DEF Tick, vars, agentVars
<1>4. Drain => AnswerAck
  BY <1>1 DEF Drain, StartCycle, GetOrders, TakeNothing, TakeOrder, IgnoreOrder, AnswerVerdict,
              EndCycle, SendAlert, FinishExecution, agentVars
<1>5. Faults => MisreadAck \/ AgentCrash
  BY <1>1 DEF Faults, GetFails, GiveUpAck, GiveUpVerdict, BackendCrash, LateReport, Execute
<1>6. QED
  BY <1>2, <1>3, <1>4, <1>5 DEF Next

\* The agent lets go of a live order before executing it only if it dies, or if
\* the id of the order contains "409" and its acknowledgement got no answer
\* (Set-HephOrderStatus, for all ids and all faults): the exception is exactly
\* the disagreement with its promise.
THEOREM DropsAreRefusals == Spec => DropsExplained
<1>1. TypeOK /\ [Next]_vars
        => [pc = "ack" /\ pc' \notin {"ack", "exec"} =>
              \/ ~ IsLive(orders, cur)
              \/ faults' = faults + 1 /\ (pc' = "off" \/ cur \in Ids409)]_vars
  <2> SUFFICES ASSUME TypeOK, [Next]_vars, pc = "ack", pc' # "ack", pc' # "exec"
               PROVE  \/ ~ IsLive(orders, cur)
                      \/ faults' = faults + 1 /\ (pc' = "off" \/ cur \in Ids409)
    OBVIOUS
  <2>1. CASE AnswerAck
    <3>1. Refuses409(orders, cur)
      BY <2>1 DEF AnswerAck, Execute
    <3>2. QED
      BY <3>1 DEF Refuses409, IsLive, LiveStatuses, TerminalStatuses
  <2>2. CASE MisreadAck
    BY <2>2 DEF MisreadAck
  <2>3. CASE AgentCrash
    BY <2>3 DEF AgentCrash
  <2>4. QED
    BY <2>1, <2>2, <2>3, HandEmptied
<1>2. QED
  BY <1>1, TypeCorrect, PTL DEF Spec, DropsExplained

-----------------------------------------------------------------------------
(* A replay is paid by a fault *)

\* The agent is done with the backend's copy of this order: it executes its own.
Held(o) == pc \in {"exec", "verdict"} /\ o = cur

\* The list of the last GET still leads the agent to this order in this cycle.
Handed(o) ==
  /\ pc \in {"waiting", "ack"}
  /\ o \in DOMAIN listing
  /\ o \notin attempted \/ (pc = "ack" /\ o = cur)

\* The orders run already that the agent may run again.
Replayable == {o \in Ran : (IsLive(orders, o) \/ Handed(o)) /\ ~ Held(o)}

\* Each fault pays for a replay that took place, or for one that still may.
PaidInv == Len(ledger) + Cardinality(Replayable) =< Cardinality(Ran) + faults

\* What is counted is finite.
LEMMA PaidFinite ==
  ASSUME TypeOK, RanInv
  PROVE  /\ IsFiniteSet(Ran) /\ Cardinality(Ran) \in Nat
         /\ Replayable \subseteq Ran
         /\ IsFiniteSet(Replayable) /\ Cardinality(Replayable) \in Nat
         /\ Len(ledger) \in Nat /\ faults \in Nat
<1>1. issued \in Int
  BY DEF TypeOK
<1>2. IsFiniteSet(Ran)
  <2>1. IsFiniteSet(1..issued)
    BY <1>1, FS_Interval
  <2>2. Ran \in SUBSET (1..issued)
    BY DEF RanInv
  <2>3. QED
    BY <2>1, <2>2, FS_Subset
<1>3. Replayable \in SUBSET Ran
  BY DEF Replayable
<1>4. IsFiniteSet(Replayable)
  BY <1>2, <1>3, FS_Subset
<1>5. Len(ledger) \in Nat /\ faults \in Nat
  BY DEF TypeOK
<1>6. QED
  BY <1>2, <1>3, <1>4, <1>5, FS_CardinalityType

\* A step that begins nothing puts at most the order in hand within reach again,
\* and only when it is a fault.
LEMMA ReachStep ==
  ASSUME TypeOK, RanInv, [Next]_vars, UNCHANGED ledger
  PROVE  /\ Ran' = Ran /\ faults' \in {faults, faults + 1}
         /\ Replayable' \subseteq Replayable \union {cur}
         /\ faults' = faults => Replayable' \subseteq Replayable
<1> USE DEF backendVars, handlerVars, agentVars, historyVars
<1>1. Ran' = Ran
  BY DEF Ran
<1>2. faults' \in {faults, faults + 1}
  BY DEF Next, Dashboard, Drain, Faults, AddOrder, CancelOrder, ListServers, Groom,
         PutStatus, StartCycle, GetOrders, TakeNothing, TakeOrder, IgnoreOrder, AnswerAck,
         AnswerVerdict, EndCycle, SendAlert, FinishExecution, GetFails, GiveUpAck,
         MisreadAck, GiveUpVerdict, AgentCrash, BackendCrash, LateReport, Tick, vars
<1>3. \A o \in Ran : IsLive(orders', o) => IsLive(orders, o)
  BY NoRevival DEF RanInv, IsLive
<1> DEFINE Near(o) == (IsLive(orders, o) \/ Handed(o)) /\ ~ Held(o)
<1> SUFFICES ASSUME NEW o \in Ran, Near(o)'
             PROVE  Near(o) \/ (o = cur /\ faults' = faults + 1)
  <2>1. faults \in Nat
    BY DEF TypeOK
  <2>2. QED
    BY <1>1, <1>2, <2>1 DEF Replayable
<1>4. CASE UNCHANGED <<pc, cur, attempted, listing>>
  BY <1>3, <1>4 DEF Handed, Held
<1>5. CASE pc' \notin {"waiting", "ack"} /\ pc \notin {"exec", "verdict"}
  BY <1>3, <1>5 DEF Handed, Held
<1>6. CASE GetOrders
  <2>1. Handed(o)' => IsLive(orders', o)
    BY <1>6 DEF GetOrders, Handed, LiveOrders, Live, IsLive
  <2>2. ~ Held(o)
    BY <1>6 DEF GetOrders, Held
  <2>3. QED
    BY <1>3, <2>1, <2>2
<1>7. ASSUME NEW p \in OrderIds, TakeOrder(p)
      PROVE  Near(o)
  <2>1. p \notin attempted /\ pc = "waiting" /\ ~ Held(o)
    BY <1>7 DEF TakeOrder, IsNext, Unattempted, Held
  <2>2. Handed(o)' => Handed(o)
    BY <1>7, <2>1 DEF TakeOrder, Handed
  <2>3. QED
    BY <1>3, <2>1, <2>2
<1>8. ASSUME NEW r \in TerminalStatuses, FinishExecution(r)
      PROVE  Near(o)
  BY <1>3, <1>8 DEF FinishExecution, Handed, Held
<1>9. CASE AnswerVerdict
  <2>1. pc \in InHand /\ pc' = "loop" /\ FaultFreeStep
    BY <1>9 DEF AnswerVerdict, DropOrder, InHand, FaultFreeStep, Drain
  <2>2. ~ IsLive(orders', cur)
    BY <2>1, InHandStays DEF InHand
  <2>3. QED
    BY <1>3, <2>1, <2>2 DEF Handed, Held
<1>10. CASE GiveUpVerdict \/ AgentCrash
  <2>1. pc' \notin {"waiting", "ack"} /\ faults' = faults + 1
    BY <1>10 DEF GiveUpVerdict, DropOrder, AgentCrash
  <2>2. QED
    BY <1>3, <2>1 DEF Handed, Held
<1>11. QED
  <2>1. ~ (pc' = "exec" /\ Execute)
    BY ExecuteLedger
  <2>2. ~ GiveUpAck /\ (AnswerAck => Refuses409(orders, cur))
    BY <2>1 DEF GiveUpAck, AnswerAck, Execute
  <2>3. QED
    BY <1>4, <1>5, <1>6, <1>7, <1>8, <1>9, <1>10, <2>2
       DEF Next, Dashboard, Drain, Faults, AddOrder, CancelOrder, ListServers, PutStatus,
           StartCycle, TakeNothing, IgnoreOrder, AnswerAck, EndCycle, SendAlert, DropOrder,
           GetFails, MisreadAck, BackendCrash, LateReport, Tick, vars

\* A step that begins the order in hand takes it out of reach, and adds no other.
LEMMA BeginStep ==
  ASSUME TypeOK, RanInv, [Next]_vars, ~ UNCHANGED ledger
  PROVE  /\ Execute /\ pc = "ack" /\ faults' \in {faults, faults + 1}
         /\ Ran' = Ran \union {cur}
         /\ Replayable' \subseteq Replayable \ {cur}
         /\ cur \in Ran => cur \in Replayable
<1> USE DEF backendVars, handlerVars, agentVars, historyVars
<1>1. /\ Execute /\ pc = "ack" /\ pc' = "exec" /\ cur' = cur
      /\ faults' \in {faults, faults + 1}
  BY DEF Next, Dashboard, Drain, Faults, AddOrder, CancelOrder, ListServers, Groom,
         PutStatus, StartCycle, GetOrders, TakeNothing, TakeOrder, IgnoreOrder, AnswerAck,
         AnswerVerdict, EndCycle, SendAlert, FinishExecution, GetFails, GiveUpAck,
         MisreadAck, GiveUpVerdict, AgentCrash, BackendCrash, LateReport, Tick, vars, Execute
<1>2. Ran' = Ran \union {cur}
  BY <1>1, ExecuteRan
<1>3. \A o \in Ran : IsLive(orders', o) => IsLive(orders, o)
  BY NoRevival DEF RanInv, IsLive
<1>4. Replayable' \subseteq Replayable \ {cur}
  BY <1>1, <1>2, <1>3 DEF Replayable, Handed, Held
<1>5. cur \in DOMAIN listing
  BY <1>1, InHandType
<1>6. cur \in Ran => cur \in Replayable
  BY <1>1, <1>5 DEF Replayable, Handed, Held
<1>7. QED
  BY <1>1, <1>2, <1>4, <1>6

\* Every step keeps the books of the replays.
LEMMA PaidStep ==
  TypeOK /\ TypeOK' /\ RanInv /\ PaidInv /\ [Next]_vars => PaidInv'
<1> SUFFICES ASSUME TypeOK, TypeOK', RanInv, PaidInv, [Next]_vars
             PROVE  PaidInv'
  OBVIOUS
<1> DEFINE R == Replayable
           S == Replayable'
<1>1. /\ IsFiniteSet(Ran) /\ Cardinality(Ran) \in Nat
      /\ IsFiniteSet(R) /\ Cardinality(R) \in Nat
      /\ Len(ledger) \in Nat /\ faults \in Nat
  BY PaidFinite
<1>2. ASSUME NEW B, IsFiniteSet(B), S \subseteq B
      PROVE  Cardinality(S) \in Nat /\ Cardinality(S) =< Cardinality(B)
  BY <1>2, FS_Subset, FS_CardinalityType
<1>3. CASE UNCHANGED ledger
  <2>1. /\ Ran' = Ran /\ faults' \in {faults, faults + 1}
        /\ S \subseteq R \union {cur} /\ (faults' = faults => S \subseteq R)
    BY <1>3, ReachStep
  <2>2. CASE faults' = faults
    <3>1. Cardinality(S) \in Nat /\ Cardinality(S) =< Cardinality(R)
      BY <1>1, <1>2, <2>1, <2>2
    <3>2. QED
      BY <1>1, <1>3, <2>1, <2>2, <3>1 DEF PaidInv
  <2>3. CASE faults' = faults + 1
    <3>1. /\ IsFiniteSet(R \union {cur})
          /\ Cardinality(R \union {cur}) =
               IF cur \in R THEN Cardinality(R) ELSE Cardinality(R) + 1
      <4> HIDE DEF R
      <4> QED
        BY <1>1, FS_AddElement
    <3>2. Cardinality(S) \in Nat /\ Cardinality(S) =< Cardinality(R \union {cur})
      BY <1>2, <2>1, <3>1
    <3>3. QED
      BY <1>1, <1>3, <2>1, <2>3, <3>1, <3>2 DEF PaidInv
  <2>4. QED
    BY <2>1, <2>2, <2>3
<1>4. CASE ~ UNCHANGED ledger
  <2>1. /\ Execute /\ faults' \in {faults, faults + 1}
        /\ Ran' = Ran \union {cur} /\ S \subseteq R \ {cur} /\ (cur \in Ran => cur \in R)
    BY <1>4, BeginStep
  <2>2. Len(ledger') = Len(ledger) + 1
    BY <2>1 DEF Execute, TypeOK
  <2>3. /\ IsFiniteSet(R \ {cur})
        /\ Cardinality(R \ {cur}) = IF cur \in R THEN Cardinality(R) - 1 ELSE Cardinality(R)
    BY <1>1, FS_RemoveElement
  <2>4. Cardinality(S) \in Nat /\ Cardinality(S) =< Cardinality(R \ {cur})
    BY <1>2, <2>1, <2>3
  <2>5. Cardinality(Ran') = IF cur \in Ran THEN Cardinality(Ran) ELSE Cardinality(Ran) + 1
    BY <1>1, <2>1, FS_AddElement
  <2>6. R \subseteq Ran
    BY PaidFinite
  <2>7. QED
    BY <1>1, <2>1, <2>2, <2>3, <2>4, <2>5, <2>6 DEF PaidInv
<1>5. QED
  BY <1>3, <1>4

\* Each execution of an order beyond its first (Invoke-HephAgentCycle handed the
\* same order again) is paid by a request given up or a crash: re-reading the
\* running orders at each GET replays nothing on its own.
THEOREM ReplaysPaid == Spec => []ReplaysNeedFaults
<1>1. Init => TypeOK /\ RanInv /\ PaidInv
  <2> SUFFICES ASSUME Init PROVE TypeOK /\ RanInv /\ PaidInv
    OBVIOUS
  <2>1. TypeOK
    BY TypeInit
  <2>2. Ran = {} /\ Len(ledger) = 0 /\ faults = 0
    BY DEF Init, Ran
  <2>3. RanInv
    BY <2>2 DEF RanInv, Init
  <2>4. Replayable = {}
    BY <2>2 DEF Replayable
  <2>5. QED
    BY <2>1, <2>2, <2>3, <2>4, FS_EmptySet DEF PaidInv
<1>2. TypeOK /\ RanInv /\ PaidInv => ReplaysNeedFaults
  BY PaidFinite DEF PaidInv, ReplaysNeedFaults, Replays
<1>3. QED
  BY <1>1, <1>2, TypeCorrect, RanStep, PaidStep, PTL DEF Spec
=============================================================================
