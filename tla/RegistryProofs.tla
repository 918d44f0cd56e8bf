--------------------------- MODULE RegistryProofs ---------------------------
(***************************************************************************)
(* Proofs about Registry, for any servers, executables, arguments and      *)
(* bounds.                                                                 *)
(***************************************************************************)
EXTENDS Registry, SequenceTheorems, TLAPS

-----------------------------------------------------------------------------
(* Queues *)

\* Adding one element at the end keeps the others in their places.
LEMMA AppendFacts ==
  ASSUME NEW S, NEW q \in Seq(S), NEW e \in S
  PROVE  /\ Append(q, e) \in Seq(S)
         /\ Len(q) \in Nat /\ DOMAIN q = 1..Len(q)
         /\ DOMAIN Append(q, e) = 1..(Len(q) + 1)
         /\ \A j \in DOMAIN q : Append(q, e)[j] = q[j]
         /\ Append(q, e)[Len(q) + 1] = e
OBVIOUS

\* Removing one element keeps the others, in their order.
LEMMA RemoveAtFacts ==
  ASSUME NEW S, NEW q \in Seq(S), NEW i \in DOMAIN q
  PROVE  /\ RemoveAt(q, i) \in Seq(S)
         /\ DOMAIN RemoveAt(q, i) = 1..(Len(q) - 1)
         /\ \A j \in DOMAIN RemoveAt(q, i) :
              RemoveAt(q, i)[j] = IF j < i THEN q[j] ELSE q[j + 1]
<1> DEFINE front == SubSeq(q, 1, i - 1)
           back  == SubSeq(q, i + 1, Len(q))
<1>1. front \in Seq(S) /\ Len(front) = i - 1 /\ \A j \in 1..(i - 1) : front[j] = q[j]
  OBVIOUS
<1>2. /\ back \in Seq(S) /\ Len(back) = Len(q) - i
      /\ \A j \in 1..(Len(q) - i) : back[j] = q[i + j]
  OBVIOUS
<1> DEFINE rest == front \o back
<1>3. RemoveAt(q, i) = rest
  BY DEF RemoveAt
<1> HIDE DEF front, back
<1>4. /\ rest \in Seq(S) /\ Len(rest) = Len(q) - 1
      /\ \A j \in 1..(Len(q) - 1) :
           rest[j] = IF j < i THEN front[j] ELSE back[j - (i - 1)]
  <2>1. Len(front) + Len(back) = Len(q) - 1 /\ Len(q) \in Nat /\ i \in Nat
    BY <1>1, <1>2
  <2>2. /\ rest \in Seq(S) /\ Len(rest) = Len(front) + Len(back)
        /\ \A j \in 1..(Len(front) + Len(back)) :
             rest[j] = IF j <= Len(front) THEN front[j] ELSE back[j - Len(front)]
    BY <1>1, <1>2, ConcatProperties
  <2> HIDE DEF rest
  <2>3. QED
    BY <1>1, <2>1, <2>2
<1> HIDE DEF rest
<1>5. ASSUME NEW j \in 1..(Len(q) - 1)
      PROVE  rest[j] = IF j < i THEN q[j] ELSE q[j + 1]
  <2>1. CASE j < i
    BY <2>1, <1>1, <1>4
  <2>2. CASE ~ (j < i)
    <3>1. j - (i - 1) \in 1..(Len(q) - i) /\ i + (j - (i - 1)) = j + 1
      BY <2>2
    <3>2. rest[j] = back[j - (i - 1)]
      BY <2>2, <1>4
    <3>3. QED
      BY <2>2, <3>1, <3>2, <1>2
  <2>3. QED
    BY <2>1, <2>2
<1>6. DOMAIN rest = 1..(Len(q) - 1)
  BY <1>4
<1>7. QED
  BY <1>3, <1>4, <1>5, <1>6

-----------------------------------------------------------------------------

\* The types that the proofs need.
Entries == [Names -> [status : Statuses \union {None}, process : Exes \union {None},
                      args : Args \union {None}, candidates : SUBSET Exes]]
Items == [Names -> [present : BOOLEAN, process : Exes \union {None}, args : Args \union {None}]]
Words == [Names -> Args \union {None, "unset"}]

Typed == entry \in Entries /\ agentCfg \in Items /\ word \in Words /\ migrated \in BOOLEAN

\* What the admin wrote is in the registry, and is something, so that the
\* agent's own fields do not fill it in: they do so only once.
WordHeld ==
  \A n \in Names \ cleared : word[n] # "unset" =>
    entry[n].args = word[n] /\ (migrated \/ word[n] # None)

\* The identifiers and the subjects of the live orders differ, and the agent
\* reports on the order it was given.
Agents == [at : {"idle", "verdict", "report"}, order : Orders, ok : BOOLEAN, tried : SUBSET Int]

Filed ==
  /\ queue \in Seq(Orders) /\ made \in 0..MaxOrders /\ agent \in Agents
  /\ agent.order.id \in 0..made
  /\ \A i \in DOMAIN queue : queue[i].id \in 1..made
  /\ \A i, j \in DOMAIN queue : queue[i].id = queue[j].id => i = j
  /\ \A i, j \in DOMAIN queue :
       queue[i].type = queue[j].type /\ queue[i].name = queue[j].name => i = j
  /\ \A i \in DOMAIN queue : agent.at = "verdict" /\ queue[i].id = agent.order.id =>
       queue[i].type = agent.order.type /\ queue[i].name = agent.order.name

\* An order of the wizard is live only at its own stage.
Fits(type, e) ==
  /\ type = "install_game" => e.status = "installing"
  /\ type = "scan_exe" => e.status = "awaiting_setup" /\ e.candidates = {}
  /\ type = "setup_server" =>
       \/ e.status \in {"active", "disabled"}
       \/ e.status = "awaiting_setup" /\ e.candidates # {}

Staged ==
  \A i \in DOMAIN queue : queue[i].name \in Names \ forced =>
    Fits(queue[i].type, entry[queue[i].name])

-----------------------------------------------------------------------------
(* Types                                                                   *)

LEMMA AdoptedFacts ==
  ASSUME Typed
  PROVE  /\ Adopted \in Entries
         /\ \A n \in Names : entry[n].args # None => Adopted[n].args = entry[n].args
<1>1. SUFFICES ASSUME NEW n \in Names
               PROVE  /\ Adopted[n] \in [status : Statuses \union {None},
                            process : Exes \union {None}, args : Args \union {None},
                            candidates : SUBSET Exes]
                      /\ entry[n].args # None => Adopted[n].args = entry[n].args
  BY DEF Adopted, Entries
<1>2. /\ entry[n] \in [status : Statuses \union {None}, process : Exes \union {None},
                       args : Args \union {None}, candidates : SUBSET Exes]
      /\ agentCfg[n].process \in Exes \union {None} /\ agentCfg[n].args \in Args \union {None}
  BY DEF Typed, Entries, Items
<1>3. CASE n \notin Known \/ ~ agentCfg[n].present
  <2>1. Adopted[n] = entry[n]
    BY <1>3 DEF Adopted
  <2>2. QED
    BY <2>1, <1>2
<1>4. CASE ~ (n \notin Known \/ ~ agentCfg[n].present)
  <2>1. Adopted[n] = [entry[n] EXCEPT !.status = "active",
                        !.process = IF @ = None THEN agentCfg[n].process ELSE @,
                        !.args = IF @ = None THEN agentCfg[n].args ELSE @]
    BY <1>4 DEF Adopted
  <2>2. "active" \in Statuses
    BY DEF Statuses
  <2>3. QED
    BY <2>1, <2>2, <1>2
<1>5. QED
  BY <1>3, <1>4

LEMMA PushedType ==
  ASSUME Typed
  PROVE  Applied \in Items
BY DEF Typed, Applied, Pushed, Entries, Items, NoItem

\* Two fields of an entry change.
Moved(m, st, cs) == [entry EXCEPT ![m].status = st, ![m].candidates = cs]

LEMMA MovedValue ==
  ASSUME entry \in Entries, NEW m, NEW st \in Statuses, NEW cs \in SUBSET Exes
  PROVE  /\ Moved(m, st, cs) \in Entries
         /\ \A n \in Names : n # m => Moved(m, st, cs)[n] = entry[n]
         /\ \A n \in Names : Moved(m, st, cs)[n].process = entry[n].process
         /\ m \in Names =>
              Moved(m, st, cs)[m].status = st /\ Moved(m, st, cs)[m].candidates = cs
<1> DEFINE half == [entry EXCEPT ![m].status = st]
           Fields == [status : Statuses \union {None}, process : Exes \union {None},
                      args : Args \union {None}, candidates : SUBSET Exes]
<1>1. entry \in [Names -> Fields]
  BY DEF Entries
<1>2. half \in [Names -> Fields]
  BY <1>1
<1>3. /\ \A n \in Names : n # m => half[n] = entry[n]
      /\ \A n \in Names : half[n].process = entry[n].process
      /\ m \in Names => half[m].status = st
  BY <1>1
<1>4. Moved(m, st, cs) = [half EXCEPT ![m].candidates = cs]
  BY DEF Moved
<1> HIDE DEF half
<1>5. Moved(m, st, cs) \in [Names -> Fields]
  BY <1>2, <1>4
<1>6. /\ \A n \in Names : n # m => Moved(m, st, cs)[n] = half[n]
      /\ \A n \in Names : Moved(m, st, cs)[n].process = half[n].process
      /\ m \in Names =>
           Moved(m, st, cs)[m].status = half[m].status /\ Moved(m, st, cs)[m].candidates = cs
  BY <1>2, <1>4
<1>7. QED
  BY <1>3, <1>5, <1>6 DEF Entries

\* A confirmation changes the status and the candidates of one entry.
LEMMA ConfirmedValue ==
  ASSUME entry \in Entries, NEW m, NEW type
  PROVE  /\ Confirmed(m, type) \in Entries
         /\ \A n \in Names : n # m => Confirmed(m, type)[n] = entry[n]
         /\ \A n \in Names : Confirmed(m, type)[n].process = entry[n].process
         /\ type = "setup_server" /\ m \in Names =>
              /\ Confirmed(m, type)[m].status = "active"
              /\ Confirmed(m, type)[m].candidates = {}
         /\ type # "setup_server" /\ m \in Names =>
              /\ Confirmed(m, type)[m].status = "awaiting_setup"
              /\ Confirmed(m, type)[m].candidates = Exes
<1>1. /\ "active" \in Statuses /\ "awaiting_setup" \in Statuses
      /\ {} \in SUBSET Exes /\ Exes \in SUBSET Exes
  BY DEF Statuses
<1>2. CASE type = "setup_server"
  <2> DEFINE none == {}
  <2>1. none = {} /\ none \in SUBSET Exes
    OBVIOUS
  <2> HIDE DEF none
  <2>2. Confirmed(m, type) = Moved(m, "active", none)
    BY <2>1, <1>2 DEF Confirmed, Moved
  <2>3. QED
    BY <2>1, <2>2, <1>1, <1>2, MovedValue
<1>3. CASE type # "setup_server"
  <2>1. Confirmed(m, type) = Moved(m, "awaiting_setup", Exes)
    BY <1>3 DEF Confirmed, Moved
  <2>2. QED
    BY <2>1, <1>1, <1>3, MovedValue
<1>4. QED
  BY <1>2, <1>3

\* A step leaves the registry, adopts, or changes an entry.
LEMMA TypedStep ==
  ASSUME Typed, [Next]_vars
  PROVE  Typed'
<1>1. /\ entry \in Entries /\ agentCfg \in Items /\ word \in Words /\ migrated \in BOOLEAN
      /\ {"active", "disabled", "installing", "awaiting_setup"} \subseteq Statuses
  BY DEF Typed, Statuses
<1>2. ASSUME NEW n \in Names, Deploy(n) \/ Adopt(n)
      PROVE  Typed'
  BY <1>1, <1>2 DEF Deploy, Adopt, Typed, Entries, windows, history
<1>3. ASSUME NEW n \in Names, NEW exe \in Exes, NEW args \in Args \union {None},
             SetUp(n, exe, args)
      PROVE  Typed'
  <2>1. entry' \in Entries
    <3> DEFINE half == [entry EXCEPT ![n].process = exe]
    <3>1. half \in Entries
      BY <1>1 DEF Entries
    <3>2. entry' = [half EXCEPT ![n].args = args]
      BY <1>3 DEF SetUp
    <3> HIDE DEF half
    <3>3. QED
      BY <3>1, <3>2 DEF Entries
  <2>2. word' \in Words
    BY <1>1, <1>3 DEF SetUp, Words
  <2>3. QED
    BY <2>1, <2>2, <1>1, <1>3 DEF SetUp, Typed, windows
<1>4. ASSUME NEW n \in Names, NEW args \in Args \union {None}, EditArgs(n, args)
      PROVE  Typed'
  BY <1>1, <1>4 DEF EditArgs, Typed, Entries, Words, windows
<1>5. ASSUME NEW n \in Names, NEW status \in {"active", "disabled"}, EditStatus(n, status)
      PROVE  Typed'
  BY <1>1, <1>5 DEF EditStatus, Typed, Entries, windows
<1>6. ASSUME NEW i \in DOMAIN queue, CancelOrder(i) \/ Expire(i)
      PROVE  Typed'
  BY <1>1, <1>6 DEF CancelOrder, Expire, Dropped, Typed, windows
<1>7. CASE Report
  <2>1. entry' \in Entries
    BY <1>1, <1>7, AdoptedFacts DEF Report, Migration
  <2>2. QED
    BY <2>1, <1>1, <1>7 DEF Report, Typed, windows
<1>8. CASE Poll
  BY <1>1, <1>8, PushedType DEF Poll, Typed, backend, history
<1>9. ASSUME NEW i \in DOMAIN queue, NEW told \in BOOLEAN, NEW ok \in BOOLEAN,
             Execute(i, told, ok)
      PROVE  Typed'
  BY <1>1, <1>9 DEF Execute, Typed
<1>10. ASSUME NEW told \in BOOLEAN, Verdict(told)
       PROVE  Typed'
  <2>1. \A n, type : Confirmed(n, type) \in Entries
    BY <1>1, ConfirmedValue
  <2>2. entry' \in Entries
    BY <2>1, <1>1, <1>10 DEF Verdict
  <2>3. QED
    BY <2>2, <1>1, <1>10 DEF Verdict, Typed, windows
<1>11. CASE AgentCrash \/ UNCHANGED vars
  BY <1>1, <1>11 DEF AgentCrash, vars, backend, windows, history, Typed
<1>12. QED
  BY <1>2, <1>3, <1>4, <1>5, <1>6, <1>7, <1>8, <1>9, <1>10, <1>11 DEF Next

LEMMA TypedInit == Init => Typed
<1>1. SUFFICES ASSUME Init PROVE Typed
  OBVIOUS
<1>2. NoEntry.process = None /\ NoEntry.args = None /\ NoEntry.candidates = {}
  BY DEF NoEntry
<1>3. {NoEntry} \union {[NoEntry EXCEPT !.status = s] : s \in {"active", "disabled"}}
        \subseteq [status : Statuses \union {None}, process : Exes \union {None},
                   args : Args \union {None}, candidates : SUBSET Exes]
  BY DEF NoEntry, Statuses
<1>4. entry \in Entries
  BY <1>1, <1>3 DEF Init, Entries
<1>5. agentCfg \in Items
  BY <1>1 DEF Init, Items, NoItem
<1>6. QED
  BY <1>1, <1>4, <1>5 DEF Init, Typed, Words

-----------------------------------------------------------------------------
(* The admin has the last word                                             *)

LEMMA WordStep ==
  ASSUME Typed, WordHeld, [Next]_vars
  PROVE  WordHeld'
<1>1. entry \in Entries /\ word \in Words /\ migrated \in BOOLEAN
  BY DEF Typed
<1>2. ASSUME word' = word, cleared' = cleared, migrated' = migrated,
             \A n \in Names : entry'[n].args = entry[n].args
      PROVE  WordHeld'
  BY <1>2 DEF WordHeld
<1>3. ASSUME NEW n \in Names, Deploy(n) \/ Adopt(n)
      PROVE  WordHeld'
  BY <1>1, <1>2, <1>3 DEF Deploy, Adopt, Entries, history
<1>4. ASSUME NEW n \in Names, NEW exe \in Exes, NEW args \in Args \union {None},
             SetUp(n, exe, args)
      PROVE  WordHeld'
  BY <1>1, <1>4 DEF SetUp, CapableAgent, WordHeld, Entries, Words
<1>5. ASSUME NEW n \in Names, NEW args \in Args \union {None}, EditArgs(n, args)
      PROVE  WordHeld'
  BY <1>1, <1>5 DEF EditArgs, WordHeld, Entries, Words
<1>6. ASSUME NEW n \in Names, NEW status \in {"active", "disabled"}, EditStatus(n, status)
      PROVE  WordHeld'
  BY <1>1, <1>2, <1>6 DEF EditStatus, Entries
<1>7. CASE Report
  <2>1. /\ word' = word /\ cleared' = cleared /\ migrated' = TRUE
        /\ entry' = IF migrated THEN entry ELSE Adopted
    BY <1>7 DEF Report, Migration
  <2>2. QED
    BY <2>1, AdoptedFacts DEF WordHeld
<1>8. ASSUME NEW told \in BOOLEAN, Verdict(told)
      PROVE  WordHeld'
  <2>1. \A m, type : \A n \in Names : Confirmed(m, type)[n].args = entry[n].args
    BY <1>1 DEF Confirmed, Entries
  <2>2. /\ \A n \in Names : entry'[n].args = entry[n].args
        /\ word' = word /\ cleared' = cleared /\ migrated' = migrated
    BY <2>1, <1>8 DEF Verdict
  <2>3. QED
    BY <2>2, <1>2
<1>9. QED
  BY <1>2, <1>3, <1>4, <1>5, <1>6, <1>7, <1>8
  DEF Next, CancelOrder, Expire, Dropped, Poll, Execute, AgentCrash, vars, backend, history

\* "l'admin via l'UI a toujours le dernier mot": the arguments of a server are
\* those the admin wrote last, for any servers and any number of reports,
\* unless the admin erased them before the first report.
THEOREM LastWordKept == Spec => []AdminHasLastWord
<1>1. Init => WordHeld
  BY DEF Init, WordHeld
<1>2. WordHeld => AdminHasLastWord
  BY DEF WordHeld, AdminHasLastWord
<1>3. QED
  BY <1>1, <1>2, TypedInit, TypedStep, WordStep, PTL DEF Spec

-----------------------------------------------------------------------------
(* The live orders                                                         *)

\* An order is added with a new identifier, if there is none like it.
LEMMA AddedFiled ==
  ASSUME Filed, NEW n \in Names, NEW type \in {"install_game", "scan_exe", "setup_server"},
         NEW exe \in Exes \union {None}, Added(type, n, exe), agent' = agent
  PROVE  /\ Filed'
         /\ \A j \in DOMAIN queue' :
              \/ j \in DOMAIN queue /\ queue'[j] = queue[j]
              \/ queue'[j].type = type /\ queue'[j].name = n
<1>1. CASE UNCHANGED <<queue, made>>
  BY <1>1 DEF Filed
<1>2. CASE ~ UNCHANGED <<queue, made>>
  <2> DEFINE new == [id |-> made + 1, type |-> type, name |-> n, exe |-> exe,
                     status |-> "pending"]
  <2>1. /\ made' = made + 1 /\ made + 1 \in 0..MaxOrders /\ queue' = Append(queue, new)
        /\ ~ Live(type, n)
    BY <1>2, BoundsAssumption DEF Added, Filed
  <2>2. new \in Orders
    BY <2>1 DEF Orders
  <2>3. queue \in Seq(Orders) /\ made \in Nat
    BY BoundsAssumption DEF Filed
  <2>4. new.id = made + 1 /\ new.type = type /\ new.name = n
    OBVIOUS
  <2> HIDE DEF new
  <2>5. /\ queue' \in Seq(Orders) /\ Len(queue) \in Nat /\ DOMAIN queue' = 1..(Len(queue) + 1)
        /\ DOMAIN queue = 1..Len(queue) /\ queue'[Len(queue) + 1] = new
        /\ \A i \in DOMAIN queue : queue'[i] = queue[i]
    BY <2>1, <2>2, <2>3, AppendFacts
  <2>6. /\ \A i \in DOMAIN queue : queue[i].id \in 1..made
        /\ \A i \in DOMAIN queue : ~ (queue[i].type = type /\ queue[i].name = n)
    BY <2>1 DEF Filed, Live
  <2>7. \A i \in DOMAIN queue' : i \in DOMAIN queue \/ queue'[i] = new
    BY <2>5
  <2>8. \A i \in DOMAIN queue' : queue'[i].id \in 1..made'
    BY <2>1, <2>3, <2>4, <2>5, <2>6, <2>7
  <2>9. \A i, j \in DOMAIN queue' : queue'[i].id = queue'[j].id => i = j
    <3>1. \A i \in DOMAIN queue : queue'[i].id # made + 1
      BY <2>3, <2>5, <2>6
    <3>2. \A i, j \in DOMAIN queue : queue'[i].id = queue'[j].id => i = j
      BY <2>5 DEF Filed
    <3>3. \A i \in DOMAIN queue' \ DOMAIN queue : i = Len(queue) + 1 /\ queue'[i].id = made + 1
      BY <2>4, <2>5
    <3>4. QED
      BY <3>1, <3>2, <3>3
  <2>10. \A i, j \in DOMAIN queue' :
           queue'[i].type = queue'[j].type /\ queue'[i].name = queue'[j].name => i = j
    <3>1. \A i, j \in DOMAIN queue :
            queue'[i].type = queue'[j].type /\ queue'[i].name = queue'[j].name => i = j
      BY <2>5 DEF Filed
    <3>2. \A i \in DOMAIN queue' \ DOMAIN queue :
            i = Len(queue) + 1 /\ queue'[i].type = type /\ queue'[i].name = n
      BY <2>4, <2>5
    <3>3. \A i \in DOMAIN queue : ~ (queue'[i].type = type /\ queue'[i].name = n)
      BY <2>5, <2>6
    <3>4. QED
      BY <3>1, <3>2, <3>3
  <2>11. \A i \in DOMAIN queue' : agent.at = "verdict" /\ queue'[i].id = agent.order.id =>
           queue'[i].type = agent.order.type /\ queue'[i].name = agent.order.name
    <3>1. agent.order.id # made + 1
      BY <2>3 DEF Filed
    <3>2. QED
      BY <3>1, <2>4, <2>5, <2>7 DEF Filed
  <2>12. agent.order.id \in 0..made' /\ agent \in Agents
    BY <2>1, <2>3 DEF Filed
  <2>13. QED
    BY <2>1, <2>4, <2>5, <2>7, <2>8, <2>9, <2>10, <2>11, <2>12 DEF Filed
<1>3. QED
  BY <1>1, <1>2

LEMMA OrderTypes ==
  ASSUME Filed, NEW i \in DOMAIN queue
  PROVE  queue[i].type \in {"install_game", "scan_exe", "setup_server"}
<1>1. queue \in Seq(Orders)
  BY DEF Filed
<1>2. queue[i] \in Orders
  BY <1>1
<1>3. QED
  BY <1>2 DEF Orders

\* What is left was there.
LEMMA RemovedOrders ==
  ASSUME NEW q \in Seq(Orders), NEW k \in DOMAIN q, NEW j \in DOMAIN RemoveAt(q, k)
  PROVE  \E i \in DOMAIN q \ {k} : RemoveAt(q, k)[j] = q[i]
<1>1. Len(q) \in Nat /\ DOMAIN q = 1..Len(q)
  OBVIOUS
<1>2. /\ j \in 1..(Len(q) - 1)
      /\ RemoveAt(q, k)[j] = IF j < k THEN q[j] ELSE q[j + 1]
  BY RemoveAtFacts
<1>3. j < k => j \in DOMAIN q \ {k}
  BY <1>1, <1>2
<1>4. ~ (j < k) => j + 1 \in DOMAIN q \ {k}
  BY <1>1, <1>2
<1>5. QED
  BY <1>2, <1>3, <1>4

\* Taking one away keeps the others as they were.
LEMMA RemovedFiled ==
  ASSUME Filed, NEW k \in DOMAIN queue, queue' = RemoveAt(queue, k), made' = made,
         agent' \in Agents, agent'.order.id \in 0..made, agent'.at = "verdict" => agent' = agent
  PROVE  /\ Filed'
         /\ \A j \in DOMAIN queue' : \E i \in DOMAIN queue \ {k} : queue'[j] = queue[i]
<1> DEFINE f(j) == IF j < k THEN j ELSE j + 1
<1>1. queue \in Seq(Orders) /\ Len(queue) \in Nat /\ DOMAIN queue = 1..Len(queue)
  BY DEF Filed
<1>2. /\ queue' \in Seq(Orders) /\ DOMAIN queue' = 1..(Len(queue) - 1)
      /\ \A j \in DOMAIN queue' : queue'[j] = IF j < k THEN queue[j] ELSE queue[j + 1]
  BY <1>1, RemoveAtFacts
<1>3. /\ \A j \in DOMAIN queue' : f(j) \in DOMAIN queue \ {k} /\ queue'[j] = queue[f(j)]
      /\ \A i, j \in DOMAIN queue' : f(i) = f(j) => i = j
  BY <1>1, <1>2
<1> HIDE DEF f
<1>4. /\ \A i \in DOMAIN queue' : queue'[i].id \in 1..made
      /\ \A i, j \in DOMAIN queue' : queue'[i].id = queue'[j].id => i = j
  BY <1>3 DEF Filed
<1>5. \A i, j \in DOMAIN queue' :
        queue'[i].type = queue'[j].type /\ queue'[i].name = queue'[j].name => i = j
  BY <1>3 DEF Filed
<1>6. \A i \in DOMAIN queue' : agent'.at = "verdict" /\ queue'[i].id = agent'.order.id =>
        queue'[i].type = agent'.order.type /\ queue'[i].name = agent'.order.name
  BY <1>3 DEF Filed
<1>7. QED
  BY <1>2, <1>3, <1>4, <1>5, <1>6 DEF Filed

\* An order that is executed stays, maybe running.
LEMMA ExecutedFiled ==
  ASSUME Filed, NEW k \in DOMAIN queue, NEW told \in BOOLEAN, NEW ok \in BOOLEAN,
         Execute(k, told, ok)
  PROVE  /\ Filed' /\ DOMAIN queue' = DOMAIN queue
         /\ \A j \in DOMAIN queue : queue'[j].type = queue[j].type
                                    /\ queue'[j].name = queue[j].name
<1>1. queue \in Seq(Orders) /\ Len(queue) \in Nat /\ DOMAIN queue = 1..Len(queue)
  BY DEF Filed
<1>2. queue' \in {queue, [queue EXCEPT ![k].status = "running"]} /\ made' = made
  BY DEF Execute
<1>3. \A j \in DOMAIN queue : queue[j] \in Orders
  BY <1>1
<1>4. /\ queue' \in Seq(Orders) /\ DOMAIN queue' = DOMAIN queue
      /\ \A j \in DOMAIN queue : /\ queue'[j].type = queue[j].type
                                 /\ queue'[j].name = queue[j].name
                                 /\ queue'[j].id = queue[j].id
  <2>1. CASE queue' = queue
    BY <2>1, <1>1
  <2>2. CASE queue' = [queue EXCEPT ![k].status = "running"]
    <3>1. [queue[k] EXCEPT !.status = "running"] \in Orders
      BY <1>3 DEF Orders
    <3>2. queue' = [queue EXCEPT ![k] = [queue[k] EXCEPT !.status = "running"]]
      BY <2>2
    <3>3. queue' \in Seq(Orders) /\ DOMAIN queue' = DOMAIN queue
      BY <3>1, <3>2, <1>1
    <3>4. QED
      BY <3>2, <3>3, <1>3 DEF Orders
  <2>3. QED
    BY <2>1, <2>2, <1>2
<1>5. /\ agent'.order = queue[k] /\ agent' \in Agents
  <2>1. agent' = [at |-> "verdict", order |-> queue[k], ok |-> ok,
                  tried |-> {queue[j].id : j \in 1..k}]
    BY DEF Execute
  <2>2. {queue[j].id : j \in 1..k} \in SUBSET Int
    BY <1>1, <1>3 DEF Orders
  <2>3. QED
    BY <2>1, <2>2, <1>3 DEF Agents
<1>6. queue[k].id \in 0..made
  BY BoundsAssumption DEF Filed
<1>7. \A i \in DOMAIN queue : queue[i].id = queue[k].id => i = k
  BY DEF Filed
<1>8. QED
  BY <1>2, <1>4, <1>5, <1>6, <1>7 DEF Filed

LEMMA FiledStep ==
  ASSUME Filed, [Next]_vars
  PROVE  Filed'
<1>1. ASSUME NEW n \in Names, Deploy(n) \/ Adopt(n)
      PROVE  Filed'
  BY <1>1, AddedFiled DEF Deploy, Adopt
<1>2. ASSUME NEW n \in Names, NEW exe \in Exes, NEW args \in Args \union {None},
             SetUp(n, exe, args)
      PROVE  Filed'
  BY <1>2, AddedFiled DEF SetUp
<1>3. ASSUME NEW i \in DOMAIN queue, CancelOrder(i) \/ Expire(i)
      PROVE  Filed'
  <2>1. queue' = RemoveAt(queue, i) /\ made' = made /\ agent' = agent
    BY <1>3 DEF CancelOrder, Expire, Dropped
  <2>2. QED
    BY <2>1, RemovedFiled DEF Filed
<1>4. ASSUME NEW i \in DOMAIN queue, NEW told \in BOOLEAN, NEW ok \in BOOLEAN,
             Execute(i, told, ok)
      PROVE  Filed'
  BY <1>4, ExecutedFiled
<1>5. NoOrder \in Orders /\ Idle \in Agents /\ NoOrder.id = 0
  BY BoundsAssumption DEF NoOrder, Orders, Idle, Agents
<1>6. ASSUME UNCHANGED <<queue, made>>, agent' \in Agents, agent'.at # "verdict",
             agent'.order \in {agent.order, NoOrder}
      PROVE  Filed'
  BY <1>5, <1>6, BoundsAssumption DEF Filed
<1>7. CASE Report
  <2>1. /\ agent' = [agent EXCEPT !.at = "idle", !.tried = IF agent.at = "idle" THEN {} ELSE @]
        /\ UNCHANGED <<queue, made>> /\ agent \in Agents
    BY <1>7 DEF Report, Filed
  <2>2. QED
    BY <2>1, <1>6 DEF Agents
<1>8. ASSUME NEW told \in BOOLEAN, Verdict(told)
      PROVE  Filed'
  <2>1. /\ agent' = [agent EXCEPT !.at = "report", !.order = NoOrder, !.ok = FALSE]
        /\ made' = made /\ agent \in Agents /\ queue' \in {queue, Without(agent.order.id)}
    BY <1>8 DEF Verdict, Filed
  <2>2. agent' \in Agents /\ agent'.at # "verdict" /\ agent'.order = NoOrder
    BY <2>1, <1>5 DEF Agents
  <2>3. CASE queue' = queue
    BY <2>1, <2>2, <2>3, <1>6
  <2>4. CASE queue' # queue
    <3>1. \E k \in DOMAIN queue : queue' = RemoveAt(queue, k)
      BY <2>1, <2>4 DEF Without
    <3>2. agent'.order.id \in 0..made
      BY <2>2, <1>5, BoundsAssumption DEF Filed
    <3>3. QED
      BY <3>1, <3>2, <2>1, <2>2, RemovedFiled
  <2>5. QED
    BY <2>3, <2>4
<1>9. CASE AgentCrash
  <2>1. agent' = Idle /\ UNCHANGED <<queue, made>>
    BY <1>9 DEF AgentCrash, backend
  <2>2. Idle.at # "verdict" /\ Idle.order = NoOrder
    BY DEF Idle
  <2>3. QED
    BY <2>1, <2>2, <1>5, <1>6
<1>10. UNCHANGED <<queue, made, agent>> => Filed'
  BY DEF Filed
<1>11. QED
  BY <1>1, <1>2, <1>3, <1>4, <1>7, <1>8, <1>9, <1>10
  DEF Next, EditArgs, EditStatus, Poll, vars, backend

-----------------------------------------------------------------------------
(* No deployment takes back an active server                               *)

\* The hand of the admin, once there, stays marked.
LEMMA ForcedGrows == [Next]_vars => forced \subseteq forced'
<1>1. ASSUME NEW i \in DOMAIN queue, NEW told \in BOOLEAN, NEW ok \in BOOLEAN, Execute(i, told, ok)
      PROVE  forced' = forced
  BY <1>1 DEF Execute
<1>2. ASSUME NEW told \in BOOLEAN, Verdict(told)
      PROVE  forced' = forced
  BY <1>2 DEF Verdict
<1>3. ASSUME NEW n \in Names, NEW exe \in Exes, NEW args \in Args \union {None}, SetUp(n, exe, args)
      PROVE  forced' = forced
  BY <1>3 DEF SetUp
<1>4. QED
  BY <1>1, <1>2, <1>3 DEF Next, Deploy, Adopt, EditArgs, EditStatus, CancelOrder, Expire, Dropped,
    Report, Poll, AgentCrash, vars, backend, windows, history

\* The live orders are the same or fewer, and no stage changes but by hand.
LEMMA StagedKept ==
  ASSUME Staged, forced \subseteq forced',
         \A j \in DOMAIN queue' : \E i \in DOMAIN queue :
            queue'[j].type = queue[i].type /\ queue'[j].name = queue[i].name,
         \A n \in Names \ forced' : entry'[n].status = entry[n].status
                                    /\ entry'[n].candidates = entry[n].candidates
  PROVE  Staged'
<1>1. SUFFICES ASSUME NEW j \in DOMAIN queue', queue'[j].name \in Names \ forced'
               PROVE  Fits(queue'[j].type, entry'[queue'[j].name])
  BY DEF Staged
<1>2. PICK i \in DOMAIN queue :
        queue'[j].type = queue[i].type /\ queue'[j].name = queue[i].name
  BY <1>1
<1>3. Fits(queue[i].type, entry[queue[i].name])
  BY <1>1, <1>2 DEF Staged
<1>4. QED
  BY <1>1, <1>2, <1>3 DEF Fits

\* An order of a stage is added to an entry that is at that stage.
LEMMA StagedAdded ==
  ASSUME Filed, Staged, NEW n \in Names, forced' = forced, agent' = agent,
         NEW type \in {"install_game", "scan_exe", "setup_server"},
         NEW exe \in Exes \union {None}, Added(type, n, exe),
         Fits(type, entry'[n]),
         \A m \in Names \ {n} : entry'[m] = entry[m],
         \A t \in {"install_game", "scan_exe", "setup_server"} :
            Fits(t, entry[n]) => Fits(t, entry'[n])
  PROVE  Staged'
<1>1. SUFFICES ASSUME NEW j \in DOMAIN queue', queue'[j].name \in Names \ forced
               PROVE  Fits(queue'[j].type, entry'[queue'[j].name])
  BY DEF Staged
<1>2. CASE queue'[j].type = type /\ queue'[j].name = n
  BY <1>2
<1>3. CASE j \in DOMAIN queue /\ queue'[j] = queue[j]
  <2>1. Fits(queue[j].type, entry[queue[j].name])
    BY <1>1, <1>3 DEF Staged
  <2>2. queue[j].type \in {"install_game", "scan_exe", "setup_server"}
    BY <1>3, OrderTypes
  <2>3. QED
    BY <2>1, <2>2, <1>1, <1>3
<1>4. QED
  BY <1>2, <1>3, AddedFiled

\* A confirmed order was the only one of the wizard that its stage allows.
LEMMA StagedVerdict ==
  ASSUME Typed, Filed, Staged, NEW told \in BOOLEAN, Verdict(told)
  PROVE  /\ Staged'
         /\ \A n \in Names \ forced : entry[n].status = "active" =>
              entry'[n].status = "active"
<1> DEFINE o == agent.order
<1>1. /\ entry \in Entries /\ forced' = forced /\ agent.at = "verdict"
      /\ queue' \in {queue, Without(o.id)} /\ agent \in Agents /\ o.type \in
            {"install_game", "scan_exe", "setup_server"}
  BY DEF Typed, Filed, Verdict, Agents, Orders
<1>2. CASE entry' = entry
  <2>1. \A j \in DOMAIN queue' : \E i \in DOMAIN queue : queue'[j] = queue[i]
    <3>1. CASE queue' = queue
      BY <3>1
    <3>2. CASE queue' # queue
      <4>1. PICK k \in DOMAIN queue : queue' = RemoveAt(queue, k)
        BY <1>1, <3>2 DEF Without
      <4>2. queue \in Seq(Orders)
        BY DEF Filed
      <4>3. QED
        BY <4>1, <4>2, RemovedOrders
    <3>3. QED
      BY <3>1, <3>2
  <2>2. QED
    BY <2>1, <1>1, <1>2, StagedKept
<1>3. CASE entry' # entry
  <2>1. entry' = Confirmed(o.name, o.type) /\ InQueue(o) /\ queue' = Without(o.id)
    BY <1>3 DEF Verdict, Accepted
  <2>2. PICK k \in DOMAIN queue : queue[k].id = o.id /\ queue' = RemoveAt(queue, k)
    BY <2>1 DEF InQueue, Without
  <2>3. queue[k].type = o.type /\ queue[k].name = o.name
    BY <1>1, <2>2 DEF Filed
  <2>4. ASSUME NEW j \in DOMAIN queue'
        PROVE  \E i \in DOMAIN queue \ {k} : queue'[j] = queue[i]
    <3>1. queue \in Seq(Orders)
      BY DEF Filed
    <3>2. QED
      BY <3>1, <2>2, <2>4, RemovedOrders
  <2>5. o.name \in Names \ forced => Fits(o.type, entry[o.name])
    BY <2>3 DEF Staged
  <2>6. \A n \in Names : n # o.name => entry'[n] = entry[n]
    BY <2>1, <1>1, ConfirmedValue
  <2>7. o.name \in Names =>
          /\ o.type = "setup_server" =>
               entry'[o.name].status = "active" /\ entry'[o.name].candidates = {}
          /\ o.type # "setup_server" =>
               entry'[o.name].status = "awaiting_setup" /\ entry'[o.name].candidates = Exes
    BY <2>1, <1>1, ConfirmedValue
  <2>8. \A n \in Names \ forced : entry[n].status = "active" => entry'[n].status = "active"
    BY <2>5, <2>6, <2>7, <1>1 DEF Fits
  <2>9. ASSUME NEW j \in DOMAIN queue', queue'[j].name \in Names \ forced
        PROVE  Fits(queue'[j].type, entry'[queue'[j].name])
    <3>1. PICK i \in DOMAIN queue \ {k} : queue'[j] = queue[i]
      BY <2>4
    <3>2. Fits(queue[i].type, entry[queue[i].name])
      BY <3>1, <2>9 DEF Staged
    <3>3. CASE queue[i].name # o.name
      BY <3>1, <3>2, <3>3, <2>6, <2>9
    <3>4. CASE queue[i].name = o.name
      <4>1. queue[i].type # o.type
        BY <3>4, <2>3 DEF Filed
      <4>2. queue[i].type \in {"install_game", "scan_exe", "setup_server"}
        BY OrderTypes
      <4>3. Fits(o.type, entry[o.name]) /\ Fits(queue[i].type, entry[o.name])
        BY <3>1, <3>2, <3>4, <2>5, <2>9
      <4>4. FALSE
        BY <4>1, <4>2, <4>3, <1>1 DEF Fits
      <4>5. QED
        BY <4>4
    <3>5. QED
      BY <3>3, <3>4
  <2>10. QED
    BY <2>8, <2>9, <1>1 DEF Staged
<1>4. QED
  BY <1>2, <1>3

LEMMA StagedStep ==
  ASSUME Typed, Filed, Staged, [Next]_vars
  PROVE  /\ Staged'
         /\ \A n \in Names \ forced : entry[n].status = "active" =>
              entry'[n].status \in {"active", "disabled"}
<1> DEFINE P == /\ Staged'
                /\ \A n \in Names \ forced : entry[n].status = "active" =>
                     entry'[n].status \in {"active", "disabled"}
<1>1. entry \in Entries /\ queue \in Seq(Orders) /\ forced \subseteq forced'
  BY ForcedGrows DEF Typed, Filed
<1>2. ASSUME NEW n \in Names, Deploy(n)
      PROVE  P
  <2>1. /\ \A m \in Names \ {n} : entry'[m] = entry[m]
        /\ entry'[n].status = "installing" /\ entry[n].status \in {None, "installing"}
    BY <1>1, <1>2 DEF Deploy, MayDeploy, Entries, NoEntry
  <2>2. /\ Fits("install_game", entry'[n])
        /\ \A t \in {"install_game", "scan_exe", "setup_server"} :
             Fits(t, entry[n]) => Fits(t, entry'[n])
    BY <2>1 DEF Fits, None
  <2>3. Staged'
    BY <2>1, <2>2, <1>2, StagedAdded DEF Deploy, history
  <2>4. entry[n].status # "active"
    BY <2>1 DEF None
  <2>5. QED
    BY <2>1, <2>3, <2>4
<1>3. ASSUME NEW n \in Names, Adopt(n)
      PROVE  P
  <2>1. /\ \A m \in Names \ {n} : entry'[m] = entry[m]
        /\ entry'[n].status = "awaiting_setup" /\ entry'[n].candidates = {}
        /\ entry[n].status = None
    BY <1>1, <1>3 DEF Adopt, Entries, NoEntry
  <2>2. /\ Fits("scan_exe", entry'[n])
        /\ \A t \in {"install_game", "scan_exe", "setup_server"} :
             Fits(t, entry[n]) => Fits(t, entry'[n])
    BY <2>1 DEF Fits, None
  <2>3. Staged'
    BY <2>1, <2>2, <1>3, StagedAdded DEF Adopt, history
  <2>4. entry[n].status # "active"
    BY <2>1 DEF None
  <2>5. QED
    BY <2>1, <2>3, <2>4
<1>4. ASSUME NEW n \in Names, NEW exe \in Exes, NEW args \in Args \union {None},
             SetUp(n, exe, args)
      PROVE  P
  <2>1. /\ \A m \in Names \ {n} : entry'[m] = entry[m]
        /\ entry'[n].status = "awaiting_setup" /\ entry[n].status = "awaiting_setup"
        /\ entry'[n].candidates = entry[n].candidates /\ entry[n].candidates # {}
    BY <1>1, <1>4 DEF SetUp, MaySetUp, Entries
  <2>2. /\ Fits("setup_server", entry'[n])
        /\ \A t \in {"install_game", "scan_exe", "setup_server"} :
             Fits(t, entry[n]) => Fits(t, entry'[n])
    BY <2>1 DEF Fits
  <2>3. Staged'
    BY <2>1, <2>2, <1>4, StagedAdded DEF SetUp
  <2>4. QED
    BY <2>1, <2>3
<1>5. ASSUME NEW n \in Names, NEW args \in Args \union {None}, EditArgs(n, args)
      PROVE  P
  <2>1. \A m \in Names : entry'[m].status = entry[m].status
                         /\ entry'[m].candidates = entry[m].candidates
    BY <1>1, <1>5 DEF EditArgs, Entries
  <2>2. queue' = queue
    BY <1>5 DEF EditArgs
  <2>3. QED
    BY <2>1, <2>2, <1>1, StagedKept
<1>6. ASSUME NEW n \in Names, NEW status \in {"active", "disabled"}, EditStatus(n, status)
      PROVE  P
  <2>1. /\ \A m \in Names \ {n} : entry'[m] = entry[m]
        /\ entry'[n].status \in {"active", "disabled"} /\ queue' = queue
        /\ (\E i \in DOMAIN queue : queue[i].name = n) => n \in forced'
    BY <1>1, <1>6 DEF EditStatus, Entries
  <2>2. ASSUME NEW i \in DOMAIN queue, queue[i].name \in Names \ forced'
        PROVE  Fits(queue[i].type, entry'[queue[i].name])
    BY <2>1, <2>2, <1>1 DEF Staged
  <2>3. QED
    BY <2>1, <2>2 DEF Staged
<1>7. ASSUME NEW i \in DOMAIN queue, CancelOrder(i) \/ Expire(i)
      PROVE  P
  <2>1. queue' = RemoveAt(queue, i) /\ entry' = entry
    BY <1>7 DEF CancelOrder, Expire, Dropped
  <2>2. \A j \in DOMAIN queue' : \E k \in DOMAIN queue : queue'[j] = queue[k]
    BY <2>1, <1>1, RemovedOrders
  <2>3. Staged'
    BY <2>1, <2>2, <1>1, StagedKept
  <2>4. QED
    BY <2>1, <2>3
<1>8. CASE Report
  <2>1. queue' = queue /\ entry' = Migration
        /\ forced' = forced \union {n \in Names : entry'[n].status # entry[n].status}
    BY <1>8 DEF Report
  <2>2. ASSUME NEW n \in Names
        PROVE  /\ entry'[n].candidates = entry[n].candidates
               /\ entry[n].status = "active" => entry'[n].status = "active"
    <3>1. CASE entry' = entry
      BY <3>1
    <3>2. CASE entry' = Adopted
      <4>1. CASE n \notin Known \/ ~ agentCfg[n].present
        BY <3>2, <4>1 DEF Adopted
      <4>2. CASE ~ (n \notin Known \/ ~ agentCfg[n].present)
        BY <3>2, <4>2, <1>1 DEF Adopted, Entries
      <4>3. QED
        BY <4>1, <4>2
    <3>3. QED
      BY <2>1, <3>1, <3>2 DEF Migration
  <2>3. Staged'
    BY <2>1, <2>2, <1>1, StagedKept
  <2>4. QED
    BY <2>2, <2>3
<1>9. ASSUME NEW i \in DOMAIN queue, NEW told \in BOOLEAN, NEW ok \in BOOLEAN,
             Execute(i, told, ok)
      PROVE  P
  <2>1. entry' = entry
    BY <1>9 DEF Execute
  <2>2. Staged'
    BY <2>1, <1>1, <1>9, ExecutedFiled, StagedKept
  <2>3. QED
    BY <2>1, <2>2
<1>10. ASSUME NEW told \in BOOLEAN, Verdict(told)
       PROVE  P
  BY <1>10, StagedVerdict
<1>11. CASE UNCHANGED <<entry, queue>>
  BY <1>1, <1>11, StagedKept
<1>12. QED
  BY <1>2, <1>3, <1>4, <1>5, <1>6, <1>7, <1>8, <1>9, <1>10, <1>11
  DEF Next, Poll, AgentCrash, vars, backend

LEMMA FiledInit == Init => Filed
<1>1. NoOrder.id = 0 /\ Idle \in Agents /\ Idle.order = NoOrder
  BY BoundsAssumption DEF NoOrder, Orders, Idle, Agents
<1>2. QED
  BY <1>1, BoundsAssumption DEF Init, Filed

\* A server the agent manages is not taken back by a late confirmation of its
\* deployment, for any servers, crashes and lost verdicts, unless its status
\* was changed by hand while an order was live.
THEOREM ActiveIsKept == Spec => ActiveStaysActive
<1>1. Init => Filed /\ Staged
  <2>1. SUFFICES ASSUME Init PROVE Staged
    BY FiledInit
  <2>2. queue = <<>>
    BY <2>1 DEF Init
  <2>3. QED
    BY <2>2 DEF Staged
<1>2. Typed /\ Filed /\ Staged /\ [Next]_vars =>
        /\ Typed' /\ Filed' /\ Staged'
        /\ [\A n \in Names \ forced : entry[n].status = "active" =>
              entry'[n].status \in {"active", "disabled"}]_vars
  BY TypedStep, FiledStep, StagedStep
<1>3. QED
  BY <1>1, <1>2, TypedInit, PTL DEF Spec, ActiveStaysActive

-----------------------------------------------------------------------------
(* A server made active runs its executable                                *)

\* Those the wizard alone has dealt with, and whose task is not an older one.
Honest == Names \ (forced \union kept \union Seeded)

\* A server the agent manages has the task of the last setup filed, which the
\* registry names unless a later one was refused.
Runs(n) ==
  /\ entry[n].status \in {"active", "disabled"} => task[n] = filed[n]
  /\ n \notin refused => entry[n].process = filed[n]
  /\ ~ migrated => ~ agentCfg[n].present

\* A live order to set up n is about the executable filed.
About(n, o) == o.type = "setup_server" /\ o.name = n => o.exe = filed[n] /\ o.exe # None

Asks(n) == \A i \in DOMAIN queue : About(n, queue[i])

\* So is the order under execution, as long as it is live.
Started(n) ==
  agent.at = "verdict" /\ agent.ok /\ agent.order.type = "setup_server"
    /\ agent.order.name = n /\ InQueue(agent.order) => task[n] = filed[n]

OneExe ==
  /\ task \in [Names -> Exes \union {None}] /\ filed \in [Names -> Exes \union {None}]
  /\ \A n \in Honest : Runs(n) /\ Asks(n) /\ Started(n)

\* Nobody becomes honest again.
LEMMA HonestShrinks == [Next]_vars => Honest' \subseteq Honest
<1>1. SUFFICES ASSUME [Next]_vars PROVE kept \subseteq kept'
  BY ForcedGrows DEF Honest
<1>2. ASSUME NEW i \in DOMAIN queue, NEW told \in BOOLEAN, NEW ok \in BOOLEAN, Execute(i, told, ok)
      PROVE  kept \subseteq kept'
  BY <1>2 DEF Execute
<1>3. ASSUME NEW told \in BOOLEAN, Verdict(told)
      PROVE  kept' = kept
  BY <1>3 DEF Verdict
<1>4. ASSUME NEW n \in Names, NEW exe \in Exes, NEW args \in Args \union {None}, SetUp(n, exe, args)
      PROVE  kept' = kept
  BY <1>4 DEF SetUp
<1>5. QED
  BY <1>1, <1>2, <1>3, <1>4 DEF Next, Deploy, Adopt, EditArgs, EditStatus, CancelOrder, Expire,
    Dropped, Report, Poll, AgentCrash, vars, backend, windows, history

\* A setup that becomes an order is about its executable, and no live order is
\* about another; a setup refused changes only the registry.
LEMMA SetUpOneExe ==
  ASSUME Typed, Filed, OneExe, NEW m \in Names, NEW exe \in Exes,
         NEW args \in Args \union {None}, SetUp(m, exe, args)
  PROVE  OneExe'
<1>1. /\ entry \in Entries /\ task' = task /\ agent' = agent /\ agentCfg' = agentCfg
      /\ migrated' = migrated /\ forced' = forced /\ kept' = kept /\ exe # None
      /\ entry[m].status = "awaiting_setup" /\ Added("setup_server", m, exe)
  BY BoundsAssumption DEF SetUp, MaySetUp, windows, Typed
<1>2. /\ \A n \in Names \ {m} : entry'[n] = entry[n]
      /\ entry'[m].process = exe /\ entry'[m].status = "awaiting_setup"
  BY <1>1 DEF SetUp, Entries
<1>3. /\ Live("setup_server", m) => queue' = queue /\ filed' = filed /\ m \in refused'
      /\ ~ Live("setup_server", m) => filed' = [filed EXCEPT ![m] = exe]
      /\ \A n \in Names \ {m} : n \in refused' <=> n \in refused
  BY <1>1 DEF SetUp, Added
<1>4. filed \in [Names -> Exes \union {None}] /\ filed' \in [Names -> Exes \union {None}]
  BY <1>3 DEF OneExe
<1>5. /\ \A n \in Names \ {m} : filed'[n] = filed[n]
      /\ ~ Live("setup_server", m) => filed'[m] = exe
  BY <1>3, <1>4
<1>6. /\ Filed'
      /\ \A j \in DOMAIN queue' : \/ j \in DOMAIN queue /\ queue'[j] = queue[j]
                                  \/ queue'[j].type = "setup_server" /\ queue'[j].name = m
  BY <1>1, AddedFiled
<1>7. \A i \in DOMAIN queue' :
        \/ i \in DOMAIN queue /\ queue'[i] = queue[i]
        \/ ~ Live("setup_server", m) /\ queue'[i].exe = exe /\ queue'[i].id = made + 1
           /\ queue'[i].name = m
  <2> DEFINE new == [id |-> made + 1, type |-> "setup_server", name |-> m, exe |-> exe,
                     status |-> "pending"]
  <2>1. queue' = queue \/ (~ Live("setup_server", m) /\ queue' = Append(queue, new))
    BY <1>1 DEF Added
  <2>2. new.exe = exe /\ new.id = made + 1 /\ new.name = m
    OBVIOUS
  <2>3. queue \in Seq(Orders)
    BY DEF Filed
  <2> HIDE DEF new
  <2>4. QED
    BY <2>1, <2>2, <2>3
<1>8. ASSUME NEW n \in Honest'
      PROVE  Runs(n)' /\ Asks(n)' /\ Started(n)'
  <2>1. n \in Names /\ Runs(n) /\ Asks(n) /\ Started(n)
    BY <1>1, <1>8 DEF Honest, OneExe
  <2>2. Runs(n)'
    <3>1. CASE n = m
      BY <2>1, <3>1, <1>1, <1>2, <1>3, <1>5 DEF Runs
    <3>2. CASE n # m
      BY <2>1, <3>2, <1>1, <1>2, <1>3, <1>5 DEF Runs
    <3>3. QED
      BY <3>1, <3>2
  <2>3. Asks(n)'
    <3>1. SUFFICES ASSUME NEW i \in DOMAIN queue',
                          queue'[i].type = "setup_server", queue'[i].name = n
                   PROVE  queue'[i].exe = filed'[n] /\ queue'[i].exe # None
      BY DEF Asks, About
    <3>2. CASE i \in DOMAIN queue /\ queue'[i] = queue[i]
      <4>1. About(n, queue[i])
        BY <2>1, <3>2 DEF Asks
      <4>2. n = m /\ queue[i].type = "setup_server" /\ queue[i].name = n
              => Live("setup_server", m)
        BY <3>2 DEF Live
      <4>3. filed'[n] = filed[n] \/ ~ (queue[i].type = "setup_server" /\ queue[i].name = n)
        BY <2>1, <4>2, <1>3, <1>5
      <4>4. QED
        BY <3>1, <3>2, <4>1, <4>3 DEF About
    <3>3. CASE ~ (i \in DOMAIN queue /\ queue'[i] = queue[i])
      <4>1. ~ Live("setup_server", m) /\ queue'[i].exe = exe /\ queue'[i].name = m
        BY <3>3, <1>7
      <4>2. QED
        BY <3>1, <4>1, <1>1, <1>5
    <3>4. QED
      BY <3>2, <3>3
  <2>4. Started(n)'
    <3>1. SUFFICES ASSUME agent.at = "verdict", agent.ok, agent.order.type = "setup_server",
                          agent.order.name = n, InQueue(agent.order)'
                   PROVE  task[n] = filed'[n]
      BY <1>1 DEF Started
    <3>2. PICK j \in DOMAIN queue' : queue'[j].id = agent.order.id
      BY <1>1, <3>1 DEF InQueue
    <3>3. agent.order.id \in 0..made /\ made \in Nat
      BY BoundsAssumption DEF Filed
    <3>4. j \in DOMAIN queue /\ queue'[j] = queue[j]
      BY <3>2, <3>3, <1>7
    <3>5. InQueue(agent.order) /\ queue[j].type = "setup_server" /\ queue[j].name = n
      BY <3>1, <3>2, <3>4 DEF InQueue, Filed
    <3>6. task[n] = filed[n]
      BY <2>1, <3>1, <3>5 DEF Started
    <3>7. n = m => Live("setup_server", m)
      BY <3>4, <3>5 DEF Live
    <3>8. QED
      BY <2>1, <3>6, <3>7, <1>3, <1>5
  <2>5. QED
    BY <2>2, <2>3, <2>4
<1>9. QED
  BY <1>1, <1>4, <1>8 DEF OneExe

\* The executables stay, the live orders are the same or fewer, and an entry
\* that becomes active has the task filed.
LEMMA OneExeKept ==
  ASSUME OneExe, Honest' \subseteq Honest, UNCHANGED <<task, asked>>,
         \A n \in Honest' : entry'[n].process = entry[n].process,
         \A n \in Honest' : entry'[n].status \in {"active", "disabled"} =>
            entry[n].status \in {"active", "disabled"} \/ task[n] = filed[n],
         \A n \in Honest' : ~ migrated' => ~ agentCfg'[n].present,
         \A j \in DOMAIN queue' : \E i \in DOMAIN queue : queue'[j] = queue[i],
         agent'.at = "verdict" => agent' = agent
  PROVE  OneExe'
<1> USE DEF asked
<1>1. ASSUME NEW n \in Honest'
      PROVE  Runs(n)' /\ Asks(n)' /\ Started(n)'
  <2>1. Runs(n) /\ Asks(n) /\ Started(n) /\ entry'[n].process = entry[n].process
    BY <1>1 DEF OneExe
  <2>2. Runs(n)'
    BY <2>1, <1>1 DEF Runs
  <2>3. Asks(n)'
    BY <2>1 DEF Asks, About
  <2>4. agent'.at = "verdict" /\ InQueue(agent.order)' => InQueue(agent.order)
    BY DEF InQueue
  <2>5. Started(n)'
    BY <2>1, <2>4 DEF Started
  <2>6. QED
    BY <2>2, <2>3, <2>5
<1>2. QED
  BY <1>1 DEF OneExe

\* The task is created for the executable of the order, if there is none.
LEMMA ExecuteOneExe ==
  ASSUME Filed, OneExe, NEW k \in DOMAIN queue, NEW told \in BOOLEAN, NEW ok \in BOOLEAN,
         Execute(k, told, ok)
  PROVE  OneExe'
<1> DEFINE o == queue[k]
<1>1. /\ UNCHANGED <<entry, migrated, agentCfg, forced, filed, refused>>
      /\ agent'.order = o /\ agent'.ok = ok
      /\ queue' \in {queue, [queue EXCEPT ![k].status = "running"]}
      /\ \/ o.type = "setup_server"
            /\ task' = [task EXCEPT ![o.name] = IF @ = None THEN o.exe ELSE @]
         \/ (o.type = "setup_server" => ~ ok) /\ UNCHANGED task
      /\ kept' = IF o.type = "setup_server" /\ ok /\ task[o.name] \notin {None, o.exe}
                 THEN kept \union {o.name} ELSE kept
  BY DEF Execute, asked
<1>2. queue \in Seq(Orders) /\ o \in Orders
  BY DEF Filed
<1>3. o.exe \in Exes \union {None} /\ task \in [Names -> Exes \union {None}]
  BY <1>2 DEF Orders, OneExe
<1>4. task' \in [Names -> Exes \union {None}]
  BY <1>1, <1>3
<1>5. ASSUME NEW n \in Honest'
      PROVE  Runs(n)' /\ Asks(n)' /\ Started(n)'
  <2>1. n \in Names /\ n \in Honest /\ n \notin kept'
    BY <1>1, <1>5 DEF Honest
  <2>2. Runs(n) /\ Asks(n) /\ About(n, o)
    BY <2>1 DEF OneExe, Asks
  <2>3. \/ task'[n] = task[n]
           /\ (ok /\ o.type = "setup_server" /\ o.name = n => task[n] # None)
        \/ /\ o.type = "setup_server" /\ o.name = n /\ task[n] = None
           /\ task'[n] = filed[n]
    BY <2>1, <2>2, <1>1, <1>3 DEF About
  <2>4. Runs(n)'
    BY <2>2, <2>3, <1>1 DEF Runs, About
  <2>5. ok /\ o.type = "setup_server" /\ o.name = n => task'[n] = filed[n]
    BY <2>1, <2>2, <2>3, <1>1 DEF About
  <2>6. Started(n)'
    BY <2>5, <1>1 DEF Started
  <2>7. DOMAIN queue' = DOMAIN queue
        /\ \A i \in DOMAIN queue : queue'[i].type = queue[i].type
             /\ queue'[i].name = queue[i].name /\ queue'[i].exe = queue[i].exe
    <3>1. \A i \in DOMAIN queue : queue[i] \in Orders
      BY <1>2
    <3>2. CASE queue' = queue
      BY <3>2
    <3>3. CASE queue' = [queue EXCEPT ![k].status = "running"]
      <4>1. DOMAIN queue' = DOMAIN queue /\ \A i \in DOMAIN queue : i # k => queue'[i] = queue[i]
        BY <3>3
      <4>2. queue'[k] = [queue[k] EXCEPT !.status = "running"]
        BY <3>3
      <4>3. /\ queue'[k].type = queue[k].type /\ queue'[k].name = queue[k].name
            /\ queue'[k].exe = queue[k].exe
        BY <3>1, <4>2 DEF Orders
      <4>4. QED
        BY <4>1, <4>3
    <3>4. QED
      BY <3>2, <3>3, <1>1
  <2>8. Asks(n)'
    BY <2>2, <2>7, <1>1 DEF Asks, About
  <2>9. QED
    BY <2>4, <2>6, <2>8
<1>6. filed' \in [Names -> Exes \union {None}]
  BY <1>1 DEF OneExe
<1>7. QED
  BY <1>4, <1>5, <1>6 DEF OneExe

LEMMA OneExeStep ==
  ASSUME Typed, Filed, OneExe, [Next]_vars
  PROVE  OneExe'
<1>1. /\ entry \in Entries /\ queue \in Seq(Orders) /\ Honest' \subseteq Honest
      /\ Honest \subseteq Names /\ \A n \in Honest : Runs(n) /\ Started(n)
  BY HonestShrinks DEF Typed, Filed, OneExe, Honest
<1>2. \A n \in Honest : migrated \/ ~ agentCfg[n].present
  BY <1>1 DEF Runs
<1>3. ASSUME NEW n \in Names, Deploy(n) \/ Adopt(n)
      PROVE  OneExe'
  <2>1. /\ \A m \in Names : entry'[m].process = entry[m].process
        /\ \A m \in Names : entry'[m].status \in {"active", "disabled"} =>
             entry[m].status \in {"active", "disabled"}
    BY <1>1, <1>3 DEF Deploy, Adopt, Entries, NoEntry
  <2>2. /\ task' = task /\ agent' = agent /\ agentCfg' = agentCfg /\ migrated' = migrated
        /\ filed' = filed /\ refused' = refused
    BY <1>3 DEF Deploy, Adopt, windows, history, asked
  <2>3. \A j \in DOMAIN queue' : \/ j \in DOMAIN queue /\ queue'[j] = queue[j]
                                 \/ queue'[j].type # "setup_server"
    BY <1>3, AddedFiled DEF Deploy, Adopt
  <2>4. ASSUME NEW m \in Honest'
        PROVE  Runs(m)' /\ Asks(m)' /\ Started(m)'
    <3>1. m \in Names /\ Runs(m) /\ Asks(m) /\ Started(m)
      BY <2>4, <1>1 DEF OneExe
    <3>2. Runs(m)'
      BY <3>1, <2>1, <2>2 DEF Runs
    <3>3. Asks(m)'
      BY <3>1, <2>1, <2>2, <2>3 DEF Asks, About
    <3>4. agent.at = "verdict" /\ agent.order.type = "setup_server" /\ InQueue(agent.order)'
            => InQueue(agent.order)
      <4>1. Filed'
        BY <1>3, AddedFiled DEF Deploy, Adopt
      <4>2. SUFFICES ASSUME agent.at = "verdict", agent.order.type = "setup_server",
                            NEW j \in DOMAIN queue', queue'[j].id = agent.order.id
                     PROVE  InQueue(agent.order)
        BY <2>2 DEF InQueue
      <4>3. queue'[j].type = "setup_server"
        BY <4>1, <4>2, <2>2 DEF Filed
      <4>4. QED
        BY <4>2, <4>3, <2>3 DEF InQueue
    <3>5. Started(m)'
      BY <3>1, <3>4, <2>2 DEF Started
    <3>6. QED
      BY <3>2, <3>3, <3>5
  <2>5. QED
    BY <2>2, <2>4 DEF OneExe
<1>4. ASSUME NEW n \in Names, NEW exe \in Exes, NEW args \in Args \union {None},
             SetUp(n, exe, args)
      PROVE  OneExe'
  BY <1>4, SetUpOneExe
<1>5. ASSUME NEW n \in Names, NEW args \in Args \union {None}, EditArgs(n, args)
      PROVE  OneExe'
  <2>1. \A m \in Names : entry'[m].status = entry[m].status
                         /\ entry'[m].process = entry[m].process
    BY <1>1, <1>5 DEF EditArgs, Entries
  <2>2. /\ UNCHANGED <<task, asked, queue, agent>>
        /\ agentCfg' = agentCfg /\ migrated' = migrated
    BY <1>5 DEF EditArgs, windows
  <2>3. QED
    BY <2>1, <2>2, <1>1, <1>2, OneExeKept
<1>6. ASSUME NEW n \in Names, NEW status \in {"active", "disabled"}, EditStatus(n, status)
      PROVE  OneExe'
  <2>1. /\ \A m \in Names : entry'[m].process = entry[m].process
        /\ \A m \in Names \ {n} : entry'[m].status = entry[m].status
        /\ entry[n].status \in Statuses
        /\ entry[n].status \in {"installing", "awaiting_setup"} => n \in forced'
    BY <1>1, <1>6 DEF EditStatus, Entries, Known, Statuses
  <2>2. /\ UNCHANGED <<task, asked, queue, agent>>
        /\ agentCfg' = agentCfg /\ migrated' = migrated
    BY <1>6 DEF EditStatus, windows
  <2>3. \A m \in Honest' : entry'[m].status \in {"active", "disabled"} =>
          entry[m].status \in {"active", "disabled"}
    BY <2>1, <1>1 DEF Honest, Statuses
  <2>4. QED
    BY <2>1, <2>2, <2>3, <1>1, <1>2, OneExeKept
<1>7. ASSUME NEW i \in DOMAIN queue, CancelOrder(i) \/ Expire(i)
      PROVE  OneExe'
  <2>1. /\ queue' = RemoveAt(queue, i) /\ task' = task /\ agent' = agent /\ entry' = entry
        /\ agentCfg' = agentCfg /\ migrated' = migrated /\ UNCHANGED asked
    BY <1>7 DEF CancelOrder, Expire, Dropped, windows
  <2>2. \A j \in DOMAIN queue' : \E k \in DOMAIN queue : queue'[j] = queue[k]
    BY <2>1, <1>1, RemovedOrders
  <2>3. QED
    BY <2>1, <2>2, <1>1, <1>2, OneExeKept
<1>8. CASE Report
  <2>1. /\ queue' = queue /\ entry' = Migration /\ task' = task /\ agent'.at # "verdict"
        /\ migrated' = TRUE /\ UNCHANGED asked
        /\ forced' = forced \union {n \in Names : entry'[n].status # entry[n].status}
    BY <1>8 DEF Report, windows, Filed, Agents
  <2>2. \A n \in Honest : entry'[n].process = entry[n].process
    BY <2>1, <1>1, <1>2 DEF Migration, Adopted, Entries
  <2>3. \A n \in Honest' : entry'[n].status = entry[n].status
    BY <2>1 DEF Honest
  <2>4. QED
    BY <2>1, <2>2, <2>3, <1>1, OneExeKept
<1>9. CASE Poll
  <2>1. /\ UNCHANGED <<queue, entry, task, agent, migrated, asked>> /\ agentCfg' = Applied
    BY <1>9 DEF Poll, backend, history
  <2>2. ~ migrated => agentCfg' = agentCfg
    BY <2>1 DEF Applied
  <2>3. QED
    BY <2>1, <2>2, <1>1, <1>2, OneExeKept
<1>10. ASSUME NEW i \in DOMAIN queue, NEW told \in BOOLEAN, NEW ok \in BOOLEAN,
              Execute(i, told, ok)
       PROVE  OneExe'
  BY <1>10, ExecuteOneExe
<1>11. ASSUME NEW told \in BOOLEAN, Verdict(told)
       PROVE  OneExe'
  <2> DEFINE o == agent.order
  <2> DEFINE next == [agent EXCEPT !.at = "report", !.order = NoOrder, !.ok = FALSE]
  <2>0. next.at = "report"
    BY DEF Filed, Agents
  <2>1. /\ agent.at = "verdict" /\ agent'.at # "verdict" /\ task' = task
        /\ agentCfg' = agentCfg /\ migrated' = migrated /\ UNCHANGED asked
        /\ queue' \in {queue, Without(o.id)}
        /\ entry' \in {entry, Confirmed(o.name, o.type)}
        /\ entry' # entry => agent.ok /\ InQueue(o)
    <3>1. agent' = next
      BY <1>11 DEF Verdict
    <3> HIDE DEF next
    <3>2. QED
      BY <1>11, <2>0, <3>1 DEF Verdict, Accepted, windows
  <2>2. \A j \in DOMAIN queue' : \E i \in DOMAIN queue : queue'[j] = queue[i]
    <3>1. CASE queue' = queue
      BY <3>1
    <3>2. CASE queue' # queue
      <4>1. PICK k \in DOMAIN queue : queue' = RemoveAt(queue, k)
        BY <2>1, <3>2 DEF Without
      <4>2. QED
        BY <4>1, <1>1, RemovedOrders
    <3>3. QED
      BY <3>1, <3>2
  <2>3. \A n \in Names : entry'[n].process = entry[n].process
    BY <2>1, <1>1, ConfirmedValue
  <2>4. ASSUME NEW n \in Honest', entry'[n].status \in {"active", "disabled"}
        PROVE  entry[n].status \in {"active", "disabled"} \/ task[n] = filed[n]
    <3>1. n \in Names /\ Started(n)
      BY <1>1
    <3>2. CASE agent.ok /\ InQueue(o) /\ o.type = "setup_server" /\ o.name = n
      BY <3>1, <3>2, <2>1 DEF Started
    <3>3. CASE ~ (agent.ok /\ InQueue(o) /\ o.type = "setup_server" /\ o.name = n)
      BY <3>1, <3>3, <2>1, <2>4, <1>1 DEF Confirmed, Entries
    <3>4. QED
      BY <3>2, <3>3
  <2>5. QED
    BY <2>1, <2>2, <2>3, <2>4, <1>1, <1>2, OneExeKept
<1>12. CASE AgentCrash
  <2>1. /\ UNCHANGED <<queue, entry, task, agentCfg, migrated, asked>> /\ agent'.at # "verdict"
    BY <1>12 DEF AgentCrash, backend, windows, Idle
  <2>2. QED
    BY <2>1, <1>1, <1>2, OneExeKept
<1>13. CASE UNCHANGED vars
  BY <1>1, <1>2, <1>13, OneExeKept DEF vars, backend, windows, history
<1>14. QED
  BY <1>3, <1>4, <1>5, <1>6, <1>7, <1>8, <1>9, <1>10, <1>11, <1>12, <1>13 DEF Next

LEMMA OneExeInit == Init => OneExe
<1>1. SUFFICES ASSUME Init PROVE OneExe
  OBVIOUS
<1>2. task \in [Names -> Exes \union {None}] /\ filed \in [Names -> Exes \union {None}]
  BY <1>1 DEF Init
<1>3. ASSUME NEW n \in Honest
      PROVE  entry[n] = NoEntry /\ filed[n] = None /\ agentCfg[n] = NoItem
  BY <1>1, <1>3 DEF Init, Honest
<1>4. queue = <<>> /\ agent.at = "idle"
  BY <1>1 DEF Init, Idle
<1>5. QED
  BY <1>2, <1>3, <1>4 DEF OneExe, Runs, Asks, Started, NoEntry, NoItem, None

\* A server made active by the wizard runs the executable of the last setup that
\* became an order (setup_server, Invoke-SetupServer), for any servers and
\* executables, however many setups were refused, withdrawn or lost; the registry
\* names it unless a later setup was refused.  Excepted are a task left by a first
\* setup, for another executable, and a status changed by hand.
THEOREM ExeIsRight == Spec => []ActiveRunsItsExe
<1>1. OneExe => ActiveRunsItsExe
  BY DEF OneExe, Runs, Honest, ActiveRunsItsExe
<1>2. Typed /\ Filed /\ OneExe /\ [Next]_vars => Typed' /\ Filed' /\ OneExe'
  BY TypedStep, FiledStep, OneExeStep
<1>3. QED
  BY <1>1, <1>2, TypedInit, FiledInit, OneExeInit, PTL DEF Spec
=============================================================================
