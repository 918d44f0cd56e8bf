------------------------- MODULE AutoUpdatesProofs -------------------------
(***************************************************************************)
(* Proofs about AutoUpdates, for every registry, number of handlers in     *)
(* flight, cooldown and bound.                                             *)
(***************************************************************************)
EXTENDS AutoUpdates, SequenceTheorems, TLAPS

-----------------------------------------------------------------------------
(* Queues *)

\* Removing one element keeps the others, in their order.
LEMMA RemoveAtFacts ==
  ASSUME NEW S, NEW q \in Seq(S), NEW i \in DOMAIN q
  PROVE  /\ RemoveAt(q, i) \in Seq(S)
         /\ DOMAIN RemoveAt(q, i) = 1..(Len(q) - 1)
         /\ \A j \in DOMAIN RemoveAt(q, i) :
              RemoveAt(q, i)[j] = IF j < i THEN q[j] ELSE q[j + 1]
<1> DEFINE front == SubSeq(q, 1, i - 1)
           back  == SubSeq(q, i + 1, Len(q))
<1>1. front \in Seq(S) /\ Len(front) = i - 1 /\ \A j \in 1..(i - 1) : front[j] = q[j]
  OBVIOUS
<1>2. /\ back \in Seq(S) /\ Len(back) = Len(q) - i
      /\ \A j \in 1..(Len(q) - i) : back[j] = q[i + j]
  OBVIOUS
<1> DEFINE rest == front \o back
<1>3. RemoveAt(q, i) = rest
  BY DEF RemoveAt
<1> HIDE DEF front, back
<1>4. /\ rest \in Seq(S) /\ Len(rest) = Len(q) - 1
      /\ \A j \in 1..(Len(q) - 1) :
           rest[j] = IF j < i THEN front[j] ELSE back[j - (i - 1)]
  <2>1. Len(front) + Len(back) = Len(q) - 1 /\ Len(q) \in Nat /\ i \in Nat
    BY <1>1, <1>2
  <2>2. /\ rest \in Seq(S) /\ Len(rest) = Len(front) + Len(back)
        /\ \A j \in 1..(Len(front) + Len(back)) :
             rest[j] = IF j <= Len(front) THEN front[j] ELSE back[j - Len(front)]
    BY <1>1, <1>2, ConcatProperties
  <2> HIDE DEF rest
  <2>3. QED
    BY <1>1, <2>1, <2>2
<1> HIDE DEF rest
<1>5. ASSUME NEW j \in 1..(Len(q) - 1)
      PROVE  rest[j] = IF j < i THEN q[j] ELSE q[j + 1]
  <2>1. CASE j < i
    BY <2>1, <1>1, <1>4
  <2>2. CASE ~ (j < i)
    <3>1. j - (i - 1) \in 1..(Len(q) - i) /\ i + (j - (i - 1)) = j + 1
      BY <2>2
    <3>2. rest[j] = back[j - (i - 1)]
      BY <2>2, <1>4
    <3>3. QED
      BY <2>2, <3>1, <3>2, <1>2
  <2>3. QED
    BY <2>1, <2>2
<1>6. DOMAIN rest = 1..(Len(q) - 1)
  BY <1>4
<1>7. QED
  BY <1>3, <1>4, <1>5, <1>6

-----------------------------------------------------------------------------

Counts     == {"unknown", "none", "some"}
QueueOrder == [server : Servers, type : {"update", "stop"}, author : {"admin", "auto"}]

HandlerState ==
  [at : {"idle", "run", "fetch", "decide"}, todo : Seq(Servers), build : Nat,
   players : [Servers -> Counts], local : [Servers -> Nat],
   pending : SUBSET Servers, marker : [Servers -> Int]]

Waiting(x) == x.at # "idle" => x.todo # <<>>

\* The type invariant, with what a handler remembers.
Typed ==
  /\ TypeOK
  /\ handler \in [Handlers -> HandlerState]
  /\ now \in Nat

-----------------------------------------------------------------------------
(* Type correctness *)

\* A handler that is not started remembers nothing.
LEMMA NoHandlerType == NoHandler \in HandlerState /\ Waiting(NoHandler)
<1>1. NoMarker \in Int /\ NoBuild \in Nat
  BY BoundsAssumption DEF NoMarker, NoBuild
<1>2. <<>> \in Seq(Servers)
  OBVIOUS
<1>3. /\ [s \in Servers |-> "unknown"] \in [Servers -> Counts]
      /\ [s \in Servers |-> NoBuild] \in [Servers -> Nat]
      /\ [s \in Servers |-> NoMarker] \in [Servers -> Int]
  BY <1>1 DEF Counts
<1>4. NoHandler \in HandlerState
  BY <1>1, <1>2, <1>3 DEF NoHandler, HandlerState
<1>5. QED
  BY <1>4 DEF NoHandler, Waiting

\* A handler that goes on.
LEMMA UpdatedType ==
  ASSUME NEW x \in HandlerState, NEW at \in {"run", "fetch", "decide"},
         NEW todo \in Seq(Servers), NEW b \in Nat
  PROVE  /\ [x EXCEPT !.at = at, !.todo = todo, !.build = b] \in HandlerState
         /\ [x EXCEPT !.at = at, !.build = b] \in HandlerState
         /\ [x EXCEPT !.at = at] \in HandlerState
BY DEF HandlerState

\* Going on to the next server keeps what the handler remembers, or ends it.
LEMMA AdvancedType ==
  ASSUME Typed, NEW h \in Handlers, handler[h].at # "idle"
  PROVE  /\ Advanced(h) \in HandlerState /\ Waiting(Advanced(h))
         /\ Advanced(h).at \in {"idle", "run"}
         /\ Advanced(h).at # "idle" => Advanced(h).pending = handler[h].pending
<1>1. handler[h] \in HandlerState /\ handler[h].todo \in Seq(Servers) /\ handler[h].todo # <<>>
  BY DEF Typed, TypeOK, HandlerState
<1>2. CASE Len(handler[h].todo) = 1
  <2>1. Advanced(h) = NoHandler
    BY <1>2 DEF Advanced
  <2>2. NoHandler.at = "idle"
    BY DEF NoHandler
  <2>3. QED
    BY <2>1, <2>2, NoHandlerType
<1>3. CASE Len(handler[h].todo) # 1
  <2> DEFINE todo == handler[h].todo
  <2>1. Tail(todo) \in Seq(Servers) /\ Tail(todo) # <<>>
    <3>1. todo \in Seq(Servers) /\ todo # <<>> /\ Len(todo) # 1
      BY <1>1, <1>3
    <3> HIDE DEF todo
    <3>2. Tail(todo) \in Seq(Servers) /\ Len(Tail(todo)) = Len(todo) - 1
      BY <3>1
    <3>3. QED
      BY <3>1, <3>2
  <2>2. Advanced(h) = [handler[h] EXCEPT !.at = "run", !.todo = Tail(@), !.build = NoBuild]
    BY <1>3 DEF Advanced
  <2>3. /\ Advanced(h).at = "run" /\ Advanced(h).todo = Tail(handler[h].todo)
        /\ Advanced(h).pending = handler[h].pending
    BY <1>1, <2>2 DEF HandlerState
  <2>4. Advanced(h) \in HandlerState
    <3> DEFINE rest == Tail(todo)
    <3>1. rest \in Seq(Servers)
      BY <2>1
    <3>2. Advanced(h) = [handler[h] EXCEPT !.at = "run", !.todo = rest, !.build = 0]
      BY <2>2 DEF NoBuild
    <3> HIDE DEF rest, todo
    <3>3. [handler[h] EXCEPT !.at = "run", !.todo = rest, !.build = 0] \in HandlerState
      BY <1>1, <3>1, UpdatedType
    <3>4. QED
      BY <3>2, <3>3
  <2>5. QED
    BY <2>1, <2>3, <2>4 DEF Waiting
<1>4. QED
  BY <1>2, <1>3

\* A step that only moves one handler.
LEMMA HandlerStepTyped ==
  ASSUME Typed, NEW h \in Handlers, NEW x \in HandlerState, Waiting(x),
         handler' = [handler EXCEPT ![h] = x], UNCHANGED <<storeVars, public, now>>
  PROVE  Typed'
<1>1. handler' \in [Handlers -> HandlerState]
  BY DEF Typed
<1>2. \A g \in Handlers : handler'[g].at \in {"idle", "run", "fetch", "decide"}
  BY <1>1 DEF HandlerState
<1>3. \A g \in Handlers : handler'[g].at # "idle" => handler'[g].todo # <<>>
  BY DEF Typed, TypeOK, Waiting
<1>4. QED
  BY <1>1, <1>2, <1>3 DEF Typed, TypeOK, storeVars

\* What a handler reads at its start.
LEMMA StartType ==
  ASSUME Typed
  PROVE  /\ players \in [Servers -> Counts] /\ local \in [Servers -> Nat]
         /\ marker \in [Servers -> Int]
         /\ {queue[i].server : i \in DOMAIN queue} \in SUBSET Servers
<1>1. \A i \in DOMAIN queue : queue[i].server \in Servers
  <2>1. queue \in Seq(QueueOrder)
    BY DEF Typed, TypeOK, QueueOrder
  <2>2. \A i \in DOMAIN queue : queue[i] \in QueueOrder
    BY <2>1
  <2>3. QED
    BY <2>2 DEF QueueOrder
<1>2. NoBuild..public \subseteq Nat /\ NoMarker..now \subseteq Int
  BY DEF NoBuild, NoMarker, Typed, TypeOK
<1>3. QED
  BY <1>1, <1>2 DEF Typed, TypeOK, Counts

\* Every step of a handler that leaves the store alone, but for its outcome.
HandlerMoves(h, x) ==
  /\ handler' = [handler EXCEPT ![h] = x]
  /\ UNCHANGED <<storeVars, public, now>>

\* What a handler that only reads becomes: typed, at a place of the loop, with
\* the servers it found in the queue at its start.
LEMMA ReadingStep ==
  ASSUME Typed, NEW h \in Handlers, NEW s \in Servers,
         NEW b \in NoBuild..public, NEW c \in 1..public,
         \/ PassOver(h, s) \/ Fetch(h, s) \/ LeaveAlone(h, s)
         \/ HitCache(h, s, c) \/ Fetched(h, b)
  PROVE  \E x \in HandlerState :
           /\ Waiting(x) /\ HandlerMoves(h, x)
           /\ handler[h].at # "idle"
           /\ x.at # "idle" => x.pending = handler[h].pending
           /\ x.at \in {"fetch", "decide"} =>
                \/ Head(x.todo) \notin x.pending
                \/ handler[h].at = "fetch" /\ x.todo = handler[h].todo
           /\ UNCHANGED <<last, hasty>>
<1>0. handler[h] \in HandlerState
  BY DEF Typed
<1>1. b \in Nat /\ c \in Nat
  BY DEF Typed, TypeOK, NoBuild
<1>2. ASSUME PassOver(h, s) \/ LeaveAlone(h, s)
      PROVE  /\ HandlerMoves(h, Advanced(h)) /\ UNCHANGED <<last, hasty>>
             /\ handler[h].at # "idle"
  BY <1>2 DEF PassOver, LeaveAlone, Looking, Advance, HandlerMoves
<1>3. CASE PassOver(h, s) \/ LeaveAlone(h, s)
  <2>1. /\ Advanced(h) \in HandlerState /\ Waiting(Advanced(h))
        /\ Advanced(h).at \in {"idle", "run"}
        /\ Advanced(h).at # "idle" => Advanced(h).pending = handler[h].pending
    BY <1>2, <1>3, AdvancedType
  <2>2. QED
    BY <1>2, <1>3, <2>1
<1>4. CASE Fetch(h, s)
  <2> DEFINE x == [handler[h] EXCEPT !.at = "fetch"]
  <2>1. x \in HandlerState
    BY <1>0, UpdatedType DEF HandlerState
  <2>2. /\ x.at = "fetch" /\ x.todo = handler[h].todo /\ x.pending = handler[h].pending
    BY <1>0 DEF HandlerState
  <2>3. /\ handler[h].at = "run" /\ Head(handler[h].todo) \notin handler[h].pending
        /\ handler[h].todo # <<>>
    BY <1>4 DEF Fetch, Looking, Eligible, Typed, TypeOK
  <2>4. HandlerMoves(h, x) /\ UNCHANGED <<last, hasty>>
    BY <1>0, <1>4 DEF Fetch, HandlerMoves, Typed
  <2> HIDE DEF x
  <2>5. QED
    BY <2>1, <2>2, <2>3, <2>4 DEF Waiting
<1>5. CASE HitCache(h, s, c)
  <2> DEFINE x == [handler[h] EXCEPT !.at = "decide", !.build = c]
  <2>1. x \in HandlerState
    BY <1>0, <1>1, UpdatedType DEF HandlerState
  <2>2. /\ x.at = "decide" /\ x.todo = handler[h].todo /\ x.pending = handler[h].pending
    BY <1>0 DEF HandlerState
  <2>3. /\ handler[h].at = "run" /\ Head(handler[h].todo) \notin handler[h].pending
        /\ handler[h].todo # <<>>
    BY <1>5 DEF HitCache, Looking, Eligible, Typed, TypeOK
  <2>4. HandlerMoves(h, x) /\ UNCHANGED <<last, hasty>>
    BY <1>0, <1>5 DEF HitCache, HandlerMoves, Typed
  <2> HIDE DEF x
  <2>5. QED
    BY <2>1, <2>2, <2>3, <2>4 DEF Waiting
<1>6. CASE Fetched(h, b)
  <2> DEFINE x == [handler[h] EXCEPT !.at = "decide", !.build = b]
  <2>1. x \in HandlerState
    BY <1>0, <1>1, UpdatedType DEF HandlerState
  <2>2. /\ x.at = "decide" /\ x.todo = handler[h].todo /\ x.pending = handler[h].pending
    BY <1>0 DEF HandlerState
  <2>3. handler[h].at = "fetch" /\ handler[h].todo # <<>>
    BY <1>6 DEF Fetched, Typed, TypeOK
  <2>4. HandlerMoves(h, x) /\ UNCHANGED <<last, hasty>>
    BY <1>0, <1>6 DEF Fetched, HandlerMoves, Typed
  <2> HIDE DEF x
  <2>5. QED
    BY <2>1, <2>2, <2>3, <2>4 DEF Waiting
<1>7. QED
  BY <1>3, <1>4, <1>5, <1>6

\* What a starting handler becomes.
Started ==
  [at |-> "run", todo |-> Registry, build |-> NoBuild, players |-> players,
   local |-> local, pending |-> {queue[i].server : i \in DOMAIN queue},
   marker |-> marker]

\* It has read the store, and nothing else moves.
LEMMA StartPollStep ==
  ASSUME Typed, NEW h \in Handlers, StartPoll(h)
  PROVE  /\ Started \in HandlerState /\ Waiting(Started) /\ HandlerMoves(h, Started)
         /\ UNCHANGED <<last, hasty>>
<1>1. NoBuild \in Nat /\ Registry \in Seq(Servers) /\ Registry # <<>>
  BY BoundsAssumption DEF NoBuild
<1>2. Started \in HandlerState
  BY <1>1, StartType DEF Started, HandlerState
<1>3. HandlerMoves(h, Started) /\ UNCHANGED <<last, hasty>>
  BY DEF StartPoll, HandlerMoves, Started
<1>4. QED
  BY <1>1, <1>2, <1>3 DEF Waiting, Started

\* Appending an order, and removing one, keep the queue typed.
LEMMA QueueType ==
  ASSUME Typed
  PROVE  /\ \A order \in QueueOrder : Append(queue, order) \in Seq(QueueOrder)
         /\ \A i \in DOMAIN queue : RemoveAt(queue, i) \in Seq(QueueOrder)
         /\ \A s \in Servers : AutoUpdate(s) \in QueueOrder
<1>1. queue \in Seq(QueueOrder)
  BY DEF Typed, TypeOK, QueueOrder
<1>2. \A s \in Servers : AutoUpdate(s) \in QueueOrder
  BY DEF AutoUpdate, QueueOrder
<1> HIDE DEF QueueOrder
<1>3. \A i \in DOMAIN queue : RemoveAt(queue, i) \in Seq(QueueOrder)
  BY <1>1, RemoveAtFacts
<1>4. QED
  BY <1>1, <1>2, <1>3

\* An automatic update and a kill before its marker.
LEMMA EnqueueTyped ==
  ASSUME Typed, NEW h \in Handlers, NEW s \in Servers,
         Enqueue(h, s) \/ KilledBeforeMarker(h, s)
  PROVE  Typed'
<1>1. queue' = Append(queue, AutoUpdate(s)) /\ handler[h].at # "idle"
  BY DEF Enqueue, KilledBeforeMarker, Looking
<1>2. queue' \in Seq(QueueOrder)
  BY <1>1, QueueType
<1>3. UNCHANGED <<players, local, public, now>>
  BY DEF Enqueue, KilledBeforeMarker
<1>4. marker' \in [Servers -> NoMarker..now]
  <2>1. now \in NoMarker..now
    BY BoundsAssumption DEF NoMarker, Typed
  <2>2. QED
    BY <2>1 DEF Enqueue, KilledBeforeMarker, Marked, Typed, TypeOK
<1>5. handler' \in [Handlers -> HandlerState] /\ \A g \in Handlers : Waiting(handler'[g])
  <2>1. CASE Enqueue(h, s)
    <3>1. Advanced(h) \in HandlerState /\ Waiting(Advanced(h))
      BY <1>1, AdvancedType
    <3>2. handler' = [handler EXCEPT ![h] = Advanced(h)]
      BY <2>1 DEF Enqueue, Advance
    <3>3. QED
      BY <3>1, <3>2 DEF Typed, TypeOK, Waiting
  <2>2. CASE KilledBeforeMarker(h, s)
    BY <2>2, NoHandlerType DEF KilledBeforeMarker
  <2>3. QED
    BY <2>1, <2>2
<1>6. \A g \in Handlers : handler'[g].at \in {"idle", "run", "fetch", "decide"}
  BY <1>5 DEF HandlerState
<1>7. QED
  BY <1>2, <1>3, <1>4, <1>5, <1>6 DEF Typed, TypeOK, Waiting, QueueOrder

\* The rest of the world.
LEMMA WorldTyped == ASSUME Typed, World PROVE Typed'
<1>0. MaxBuild \in Nat /\ public \in Nat /\ local \in [Servers -> 0..public]
  BY BoundsAssumption DEF Typed, TypeOK, NoBuild
<1>1. CASE Publish
  <2>1. public' \in 1..MaxBuild /\ local' \in [Servers -> 0..public']
    BY <1>0, <1>1 DEF Publish, storeVars, Typed, TypeOK
  <2>2. QED
    BY <1>1, <2>1 DEF Publish, storeVars, Typed, TypeOK, NoBuild
<1>2. CASE Tick
  <2>1. now' \in Nat /\ marker' \in [Servers -> NoMarker..now']
    BY <1>2, BoundsAssumption DEF Tick, storeVars, Typed, TypeOK, NoMarker
  <2>2. QED
    BY <1>2, <2>1 DEF Tick, storeVars, Typed, TypeOK
<1>3. ASSUME NEW i \in DOMAIN queue, Close(i) PROVE Typed'
  <2>1. queue' \in Seq(QueueOrder)
    BY <1>3, QueueType DEF Close
  <2>2. QED
    BY <1>3, <2>1 DEF Close, Typed, TypeOK, QueueOrder
<1>4. ASSUME NEW s \in Servers, NEW t \in {"update", "stop"}, AdminOrder(s, t) PROVE Typed'
  <2> DEFINE order == [server |-> s, type |-> t, author |-> "admin"]
  <2>1. order \in QueueOrder /\ queue' = Append(queue, order)
    BY <1>4 DEF AdminOrder, QueueOrder
  <2>2. queue' \in Seq(QueueOrder)
    BY <2>1, QueueType
  <2>3. QED
    BY <1>4, <2>2 DEF AdminOrder, Typed, TypeOK, QueueOrder
<1>5. ASSUME NEW s \in Servers, NEW p \in {"unknown", "none", "some"},
             NEW b \in NoBuild..public, Report(s, p, b)
      PROVE  Typed'
  BY <1>5 DEF Report, Typed, TypeOK
<1>6. QED
  BY <1>1, <1>2, <1>3, <1>4, <1>5 DEF World

\* The builds a step of a handler chooses from exist.
LEMMA BuildsExist == Typed => 0 \in NoBuild..public /\ 1 \in 1..public
BY DEF Typed, TypeOK, NoBuild

\* A handler's step is a start, a reading step or a decision.
LEMMA HandlerSteps ==
  ASSUME Typed, NEW h \in Handlers, Handler(h)
  PROVE  \/ StartPoll(h)
         \/ \E s \in Servers : Enqueue(h, s) \/ KilledBeforeMarker(h, s)
         \/ \E s \in Servers, b \in NoBuild..public, c \in 1..public :
              \/ PassOver(h, s) \/ Fetch(h, s) \/ LeaveAlone(h, s)
              \/ HitCache(h, s, c) \/ Fetched(h, b)
<1>1. \E s \in Servers : TRUE
  BY BoundsAssumption
<1>2. QED
  BY <1>1, BuildsExist DEF Handler

\* The type invariant is inductive.
LEMMA TypedStep == ASSUME Typed, [Next]_vars PROVE Typed'
<1>1. CASE World
  BY <1>1, WorldTyped
<1>2. ASSUME NEW h \in Handlers, Handler(h) PROVE Typed'
  <2>1. CASE StartPoll(h)
    BY <2>1, StartPollStep, HandlerStepTyped DEF HandlerMoves
  <2>2. ASSUME NEW s \in Servers, Enqueue(h, s) \/ KilledBeforeMarker(h, s) PROVE Typed'
    BY <2>2, EnqueueTyped
  <2>3. ASSUME NEW s \in Servers, NEW b \in NoBuild..public, NEW c \in 1..public,
               \/ PassOver(h, s) \/ Fetch(h, s) \/ LeaveAlone(h, s)
               \/ HitCache(h, s, c) \/ Fetched(h, b)
        PROVE  Typed'
    <3>1. PICK x \in HandlerState : Waiting(x) /\ HandlerMoves(h, x)
      BY <2>3, ReadingStep
    <3>2. QED
      BY <3>1, HandlerStepTyped DEF HandlerMoves
  <2>4. QED
    BY <1>2, <2>1, <2>2, <2>3, HandlerSteps
<1>3. CASE UNCHANGED vars
  BY <1>3 DEF vars, storeVars, Typed, TypeOK
<1>4. QED
  BY <1>1, <1>2, <1>3 DEF Next

\* It holds at the start: no handler in flight, nothing in the queue.
LEMMA TypedInit == Init => Typed
<1> SUFFICES ASSUME Init PROVE Typed
  OBVIOUS
<1>1. NoMarker \in NoMarker..0 /\ NoBuild \in NoBuild..1 /\ 1 \in 1..MaxBuild
  BY BoundsAssumption DEF NoMarker, NoBuild
<1>2. handler \in [Handlers -> HandlerState] /\ \A h \in Handlers : handler[h].at = "idle"
  BY NoHandlerType DEF Init, NoHandler
<1>3. QED
  BY <1>1, <1>2 DEF Init, Typed, TypeOK

\* The variables keep their types, whatever the registry and the bounds.
THEOREM TypeCorrect == Spec => []TypeOK
<1>1. Spec => []Typed
  BY TypedInit, TypedStep, PTL DEF Spec
<1>2. Typed => TypeOK
  BY DEF Typed
<1>3. QED
  BY <1>1, <1>2, PTL

-----------------------------------------------------------------------------
(* The cooldown and the uniqueness of automatic updates *)

AutoAt(i, s) == queue[i].server = s /\ queue[i].author = "auto"

AutoListed(s) == \E i \in DOMAIN queue : AutoAt(i, s)

\* An automatic update in the queue while a handler is in flight was there when
\* the handler read the queue, or has left its marker since: no hour has passed.
Covered ==
  \A h \in Handlers, s \in Servers :
    handler[h].at # "idle" /\ AutoListed(s) => s \in handler[h].pending \/ marker[s] = now

\* A handler asks Steam only about a server it saw no order of.
Asked ==
  \A h \in Handlers :
    handler[h].at \in {"fetch", "decide"} => Head(handler[h].todo) \notin handler[h].pending

\* The marker is the hour of the last update it was written for.
Dated == last = marker

UpdateInv == Typed /\ Covered /\ Asked /\ Dated /\ CooldownHeld /\ OneAutoUpdate

\* A server is chosen only a cooldown after its marker, hence when none of its
\* automatic updates is in the queue.
LEMMA ChosenFresh ==
  ASSUME UpdateInv, NEW h \in Handlers, NEW s \in Servers,
         Looking(h, s, "decide"), Chosen(h, s)
  PROVE  ~ (now - marker[s] < Cooldown) /\ ~ AutoListed(s)
<1>1. ~ (now - marker[s] < Cooldown)
  BY DEF Chosen, CoolingDown
<1>2. marker[s] # now
  BY <1>1, BoundsAssumption DEF UpdateInv, Typed
<1>3. handler[h].at = "decide" /\ s \notin handler[h].pending
  BY DEF Looking, UpdateInv, Asked
<1>4. QED
  BY <1>1, <1>2, <1>3 DEF UpdateInv, Covered

\* The automatic updates after an order is added at the end of the queue.
LEMMA AppendAutos ==
  ASSUME Typed, NEW order \in QueueOrder, queue' = Append(queue, order)
  PROVE  /\ DOMAIN queue' = 1..(Len(queue) + 1) /\ DOMAIN queue = 1..Len(queue)
         /\ \A i \in DOMAIN queue : queue'[i] = queue[i]
         /\ queue'[Len(queue) + 1] = order
         /\ Len(queue) \in Nat
<1>1. queue \in Seq(QueueOrder)
  BY DEF Typed, TypeOK, QueueOrder
<1> HIDE DEF QueueOrder
<1>2. QED
  BY <1>1

\* An automatic update of a server without one.
LEMMA EnqueueUnique ==
  ASSUME UpdateInv, NEW s \in Servers, ~ AutoListed(s),
         queue' = Append(queue, AutoUpdate(s))
  PROVE  /\ OneAutoUpdate'
         /\ \A r \in Servers : AutoListed(r)' => r = s \/ AutoListed(r)
<1>1. AutoUpdate(s) \in QueueOrder /\ AutoUpdate(s).server = s
  BY QueueType DEF UpdateInv, AutoUpdate
<1>2. /\ DOMAIN queue' = 1..(Len(queue) + 1) /\ DOMAIN queue = 1..Len(queue)
      /\ \A i \in DOMAIN queue : queue'[i] = queue[i]
      /\ queue'[Len(queue) + 1] = AutoUpdate(s)
      /\ Len(queue) \in Nat
  BY <1>1, AppendAutos DEF UpdateInv
<1>3. \A i \in DOMAIN queue' : i = Len(queue) + 1 \/ i \in DOMAIN queue
  BY <1>2
<1>4. \A i \in DOMAIN queue : ~ (queue[i].server = s /\ queue[i].author = "auto")
  BY DEF AutoListed, AutoAt
<1>5. OneAutoUpdate'
  BY <1>1, <1>2, <1>3, <1>4 DEF OneAutoUpdate, UpdateInv
<1>6. QED
  BY <1>1, <1>2, <1>3, <1>5 DEF AutoListed, AutoAt

\* An order of the admin.
LEMMA AdminUnique ==
  ASSUME UpdateInv, NEW order \in QueueOrder, order.author = "admin",
         queue' = Append(queue, order)
  PROVE  OneAutoUpdate' /\ \A r \in Servers : AutoListed(r)' => AutoListed(r)
<1>1. /\ DOMAIN queue' = 1..(Len(queue) + 1) /\ DOMAIN queue = 1..Len(queue)
      /\ \A i \in DOMAIN queue : queue'[i] = queue[i]
      /\ queue'[Len(queue) + 1] = order
      /\ Len(queue) \in Nat
  BY AppendAutos DEF UpdateInv
<1>2. \A i \in DOMAIN queue' : i = Len(queue) + 1 \/ i \in DOMAIN queue
  BY <1>1
<1>3. OneAutoUpdate'
  BY <1>1, <1>2 DEF OneAutoUpdate, UpdateInv
<1>4. QED
  BY <1>1, <1>2, <1>3 DEF AutoListed, AutoAt

\* An order that is closed.
LEMMA CloseUnique ==
  ASSUME UpdateInv, NEW i \in DOMAIN queue, queue' = RemoveAt(queue, i)
  PROVE  OneAutoUpdate' /\ \A r \in Servers : AutoListed(r)' => AutoListed(r)
<1>1. queue \in Seq(QueueOrder)
  BY DEF UpdateInv, Typed, TypeOK, QueueOrder
<1> DEFINE old(j) == IF j < i THEN j ELSE j + 1
<1>2. /\ DOMAIN queue' = 1..(Len(queue) - 1)
      /\ \A j \in DOMAIN queue' : queue'[j] = IF j < i THEN queue[j] ELSE queue[j + 1]
  BY <1>1, RemoveAtFacts
<1>3. DOMAIN queue = 1..Len(queue) /\ Len(queue) \in Nat /\ i \in 1..Len(queue)
  BY <1>1
<1>4. \A j \in DOMAIN queue' : old(j) \in DOMAIN queue /\ queue'[j] = queue[old(j)]
  BY <1>2, <1>3
<1>5. \A j, k \in DOMAIN queue' : old(j) = old(k) => j = k
  BY <1>2, <1>3
<1> HIDE DEF old
<1>6. OneAutoUpdate'
  BY <1>4, <1>5 DEF OneAutoUpdate, UpdateInv
<1>7. QED
  BY <1>4, <1>6 DEF AutoListed, AutoAt

\* A step that moves one handler, from what it knew to x, and nothing else.
LEMMA MovePreserves ==
  ASSUME UpdateInv, NEW h \in Handlers, NEW x \in HandlerState, Waiting(x),
         HandlerMoves(h, x), UNCHANGED <<last, hasty>>,
         \A s \in Servers : x.at # "idle" /\ AutoListed(s) => s \in x.pending \/ marker[s] = now,
         x.at \in {"fetch", "decide"} => Head(x.todo) \notin x.pending
  PROVE  UpdateInv'
<1>1. Typed'
  BY HandlerStepTyped DEF UpdateInv, HandlerMoves
<1>2. \A g \in Handlers : handler'[g] = IF g = h THEN x ELSE handler[g]
  BY DEF HandlerMoves, UpdateInv, Typed
<1>3. UNCHANGED <<queue, marker, now, last, hasty>>
  BY DEF HandlerMoves, storeVars
<1>4. Covered'
  BY <1>2, <1>3 DEF Covered, AutoListed, AutoAt, UpdateInv
<1>5. Asked'
  BY <1>2 DEF Asked, UpdateInv
<1>6. QED
  BY <1>1, <1>3, <1>4, <1>5 DEF UpdateInv, Dated, CooldownHeld, OneAutoUpdate

\* A handler that starts knows every server of the queue.
LEMMA StartPreserves ==
  ASSUME UpdateInv, NEW h \in Handlers, StartPoll(h)
  PROVE  UpdateInv'
<1>1. /\ Started \in HandlerState /\ Waiting(Started) /\ HandlerMoves(h, Started)
      /\ UNCHANGED <<last, hasty>>
  BY StartPollStep DEF UpdateInv
<1>2. \A s \in Servers : AutoListed(s) => s \in Started.pending
  BY DEF AutoListed, AutoAt, Started
<1>3. Started.at = "run"
  BY DEF Started
<1>4. QED
  BY <1>1, <1>2, <1>3, MovePreserves

\* A handler that reads on keeps what it knows.
LEMMA ReadPreserves ==
  ASSUME UpdateInv, NEW h \in Handlers, NEW s \in Servers,
         NEW b \in NoBuild..public, NEW c \in 1..public,
         \/ PassOver(h, s) \/ Fetch(h, s) \/ LeaveAlone(h, s)
         \/ HitCache(h, s, c) \/ Fetched(h, b)
  PROVE  UpdateInv'
<1>1. PICK x \in HandlerState :
        /\ Waiting(x) /\ HandlerMoves(h, x)
        /\ handler[h].at # "idle"
        /\ x.at # "idle" => x.pending = handler[h].pending
        /\ x.at \in {"fetch", "decide"} =>
             \/ Head(x.todo) \notin x.pending
             \/ handler[h].at = "fetch" /\ x.todo = handler[h].todo
        /\ UNCHANGED <<last, hasty>>
  BY ReadingStep DEF UpdateInv
<1>2. \A r \in Servers : x.at # "idle" /\ AutoListed(r) => r \in x.pending \/ marker[r] = now
  BY <1>1 DEF UpdateInv, Covered
<1>3. x.at \in {"fetch", "decide"} => Head(x.todo) \notin x.pending
  BY <1>1 DEF UpdateInv, Asked
<1>4. QED
  BY <1>1, <1>2, <1>3, MovePreserves

\* A decision leaves its marker; a kill leaves no handler.
LEMMA DecisionPreserves ==
  ASSUME UpdateInv, NEW h \in Handlers, NEW s \in Servers,
         Enqueue(h, s) \/ KilledBeforeMarker(h, s)
  PROVE  UpdateInv'
<1>1. /\ Looking(h, s, "decide") /\ Chosen(h, s)
      /\ queue' = Append(queue, AutoUpdate(s)) /\ UNCHANGED now
  BY DEF Enqueue, KilledBeforeMarker
<1>2. Typed'
  BY EnqueueTyped DEF UpdateInv
<1>3. ~ (now - marker[s] < Cooldown) /\ ~ AutoListed(s)
  BY <1>1, ChosenFresh
<1>4. OneAutoUpdate' /\ \A r \in Servers : AutoListed(r)' => r = s \/ AutoListed(r)
  BY <1>1, <1>3, EnqueueUnique
<1>5. CASE Enqueue(h, s)
  <2>1. /\ marker' = [marker EXCEPT ![s] = now] /\ last' = [last EXCEPT ![s] = now]
        /\ handler' = [handler EXCEPT ![h] = Advanced(h)]
    BY <1>5 DEF Enqueue, Marked, Advance
  <2>2. Dated'
    BY <2>1 DEF UpdateInv, Dated
  <2>3. CooldownHeld'
    BY <1>3, <1>5 DEF Enqueue, UpdateInv, Dated, CooldownHeld
  <2>4. /\ Advanced(h).at \in {"idle", "run"}
        /\ Advanced(h).at # "idle" => Advanced(h).pending = handler[h].pending
        /\ handler[h].at = "decide"
    BY <1>1, AdvancedType DEF UpdateInv, Looking
  <2>5. \A g \in Handlers : handler'[g] = IF g = h THEN Advanced(h) ELSE handler[g]
    BY <2>1 DEF UpdateInv, Typed
  <2>6. \A r \in Servers : marker'[r] = IF r = s THEN now ELSE marker[r]
    BY <2>1 DEF UpdateInv, Typed, TypeOK
  <2>7. Covered'
    BY <1>1, <1>4, <2>4, <2>5, <2>6 DEF Covered, UpdateInv
  <2>8. Asked'
    BY <2>4, <2>5 DEF Asked, UpdateInv
  <2>9. QED
    BY <1>2, <1>4, <2>2, <2>3, <2>7, <2>8 DEF UpdateInv
<1>6. CASE KilledBeforeMarker(h, s)
  <2>1. \A g \in Handlers : handler'[g].at = "idle"
    BY <1>6 DEF KilledBeforeMarker, NoHandler
  <2>2. Covered' /\ Asked'
    BY <2>1 DEF Covered, Asked
  <2>3. UNCHANGED <<marker, last, hasty>>
    BY <1>6 DEF KilledBeforeMarker
  <2>4. QED
    BY <1>2, <1>4, <2>2, <2>3 DEF UpdateInv, Dated, CooldownHeld
<1>7. QED
  BY <1>5, <1>6

\* A step that moves no handler and no clock, and brings no automatic update.
LEMMA QuietPreserves ==
  ASSUME UpdateInv, Typed', OneAutoUpdate',
         \A r \in Servers : AutoListed(r)' => AutoListed(r),
         UNCHANGED <<handler, marker, now, last, hasty>>
  PROVE  UpdateInv'
<1>1. Covered'
  BY DEF Covered, UpdateInv
<1>2. Asked'
  BY DEF Asked, UpdateInv
<1>3. QED
  BY <1>1, <1>2 DEF UpdateInv, Dated, CooldownHeld

\* The rest of the world.
LEMMA WorldPreserves == ASSUME UpdateInv, World PROVE UpdateInv'
<1>0. Typed'
  BY WorldTyped DEF UpdateInv
<1>1. ASSUME UNCHANGED queue
      PROVE  OneAutoUpdate' /\ \A r \in Servers : AutoListed(r)' => AutoListed(r)
  BY <1>1 DEF UpdateInv, OneAutoUpdate, AutoListed, AutoAt
<1>2. CASE Publish
  BY <1>0, <1>1, <1>2, QuietPreserves DEF Publish, storeVars
<1>3. CASE Tick
  <2>1. \A h \in Handlers : handler'[h].at = "idle"
    BY <1>3 DEF Tick
  <2>2. Covered' /\ Asked'
    BY <2>1 DEF Covered, Asked
  <2>3. UNCHANGED <<queue, marker, last, hasty>>
    BY <1>3 DEF Tick, storeVars
  <2>4. QED
    BY <1>0, <1>1, <2>2, <2>3 DEF UpdateInv, Dated, CooldownHeld
<1>4. ASSUME NEW i \in DOMAIN queue, Close(i) PROVE UpdateInv'
  BY <1>0, <1>4, CloseUnique, QuietPreserves DEF Close
<1>5. ASSUME NEW s \in Servers, NEW t \in {"update", "stop"}, AdminOrder(s, t)
      PROVE  UpdateInv'
  <2> DEFINE order == [server |-> s, type |-> t, author |-> "admin"]
  <2>1. order \in QueueOrder /\ order.author = "admin" /\ queue' = Append(queue, order)
    BY <1>5 DEF AdminOrder, QueueOrder
  <2>2. OneAutoUpdate' /\ \A r \in Servers : AutoListed(r)' => AutoListed(r)
    BY <2>1, AdminUnique
  <2>3. QED
    BY <1>0, <1>5, <2>2, QuietPreserves DEF AdminOrder
<1>6. ASSUME NEW s \in Servers, NEW p \in {"unknown", "none", "some"},
             NEW b \in NoBuild..public, Report(s, p, b)
      PROVE  UpdateInv'
  BY <1>0, <1>1, <1>6, QuietPreserves DEF Report
<1>7. QED
  BY <1>2, <1>3, <1>4, <1>5, <1>6 DEF World

\* The invariant holds at the start: no order, no handler.
LEMMA UpdateInit == Init => UpdateInv
<1> SUFFICES ASSUME Init PROVE UpdateInv
  OBVIOUS
<1>1. \A h \in Handlers : handler[h].at = "idle"
  BY DEF Init, NoHandler
<1>2. DOMAIN queue = {}
  BY DEF Init
<1>3. QED
  BY <1>1, <1>2, TypedInit
     DEF Init, UpdateInv, Covered, Asked, Dated, CooldownHeld, OneAutoUpdate

\* The invariant is inductive.
LEMMA UpdateStep == ASSUME UpdateInv, [Next]_vars PROVE UpdateInv'
<1>1. CASE World
  BY <1>1, WorldPreserves
<1>2. ASSUME NEW h \in Handlers, Handler(h) PROVE UpdateInv'
  BY <1>2, HandlerSteps, StartPreserves, DecisionPreserves, ReadPreserves DEF UpdateInv
<1>3. CASE UNCHANGED vars
  <2>1. Typed'
    BY <1>3, TypedStep DEF UpdateInv
  <2>2. UNCHANGED <<queue, handler, marker, now, last, hasty>>
    BY <1>3 DEF vars, storeVars
  <2>3. OneAutoUpdate' /\ \A r \in Servers : AutoListed(r)' => AutoListed(r)
    BY <2>2 DEF UpdateInv, OneAutoUpdate, AutoListed, AutoAt
  <2>4. QED
    BY <2>1, <2>2, <2>3, QuietPreserves
<1>4. QED
  BY <1>1, <1>2, <1>3 DEF Next

\* Two automatic updates of a server are a cooldown apart, however many
\* handlers of GET /api/agent/orders overlap and whatever Steam answers.
THEOREM CooldownAlwaysHeld == Spec => []CooldownHeld
<1>1. Spec => []UpdateInv
  BY UpdateInit, UpdateStep, PTL DEF Spec
<1>2. UpdateInv => CooldownHeld
  BY DEF UpdateInv
<1>3. QED
  BY <1>1, <1>2, PTL

\* The queue never holds two automatic updates of a server, even if the backend
\* dies between an order and its cooldown marker.
THEOREM UpdatesUnique == Spec => []OneAutoUpdate
<1>1. Spec => []UpdateInv
  BY UpdateInit, UpdateStep, PTL DEF Spec
<1>2. UpdateInv => OneAutoUpdate
  BY DEF UpdateInv
<1>3. QED
  BY <1>1, <1>2, PTL

\* Only a decision of a handler adds an automatic update to the queue.
LEMMA OnlyDecisionsQueue ==
  ASSUME Typed, [Next]_vars, NEW s \in Servers, AutoQueued(s)
  PROVE  \E h \in Handlers, r \in Servers : 
           (Enqueue(h, r) \/ KilledBeforeMarker(h, r)) /\ queue' = Append(queue, AutoUpdate(r))
<1>1. AutoUpdate(s) \in QueueOrder /\ AutoUpdate(s).author = "auto"
  BY QueueType DEF AutoUpdate
<1>2. /\ DOMAIN queue' = 1..(Len(queue) + 1) /\ DOMAIN queue = 1..Len(queue)
      /\ queue'[Len(queue) + 1] = AutoUpdate(s)
      /\ Len(queue) \in Nat
  BY <1>1, AppendAutos DEF AutoQueued
<1>3. queue' # queue
  BY <1>2
<1>4. ASSUME NEW i \in DOMAIN queue, Close(i) PROVE FALSE
  <2>1. DOMAIN queue' = 1..(Len(queue) - 1)
    BY <1>4, RemoveAtFacts DEF Close, Typed, TypeOK
  <2>2. QED
    BY <1>2, <2>1
<1>5. ASSUME NEW r \in Servers, NEW t \in {"update", "stop"}, AdminOrder(r, t) PROVE FALSE
  <2> DEFINE order == [server |-> r, type |-> t, author |-> "admin"]
  <2>1. order \in QueueOrder /\ order.author = "admin" /\ queue' = Append(queue, order)
    BY <1>5 DEF AdminOrder, QueueOrder
  <2>2. queue'[Len(queue) + 1] = order
    BY <2>1, AppendAutos
  <2>3. QED
    BY <1>1, <1>2, <2>1, <2>2
<1>6. ~ World
  BY <1>3, <1>4, <1>5 DEF World, Publish, Tick, Report, storeVars
<1>7. ASSUME NEW h \in Handlers, Handler(h)
      PROVE  \E r \in Servers : Enqueue(h, r) \/ KilledBeforeMarker(h, r)
  BY <1>3, <1>7
     DEF Handler, StartPoll, Fetched, PassOver, Fetch, LeaveAlone, HitCache, storeVars
<1>8. \E h \in Handlers : Handler(h)
  BY <1>3, <1>6 DEF Next, vars, storeVars
<1>9. QED
  BY <1>7, <1>8 DEF Enqueue, KilledBeforeMarker

\* An automatic update is created only while the last report says that nobody
\* plays, whatever is reported while the handler waits for Steam.
THEOREM PlayersRespected == Spec => NeverWithPlayers
<1>1. ASSUME Typed, [Next]_vars, NEW s \in Servers, AutoQueued(s)
      PROVE  players[s] = "none"
  <2>1. PICK h \in Handlers, r \in Servers :
          (Enqueue(h, r) \/ KilledBeforeMarker(h, r)) /\ queue' = Append(queue, AutoUpdate(r))
    BY <1>1, OnlyDecisionsQueue
  <2>2. players[r] = "none"
    BY <2>1 DEF Enqueue, KilledBeforeMarker, Chosen, StillEmpty
  <2>3. AutoUpdate(r) \in QueueOrder /\ AutoUpdate(s) \in QueueOrder
    BY <1>1, QueueType
  <2>4. AutoUpdate(r) = AutoUpdate(s)
    BY <1>1, <2>1, <2>3, AppendAutos DEF AutoQueued
  <2>5. r = s
    BY <2>4 DEF AutoUpdate
  <2>6. QED
    BY <2>2, <2>5
<1>2. Typed /\ [Next]_vars => [\A s \in Servers : AutoQueued(s) => players[s] = "none"]_vars
  BY <1>1
<1>3. QED
  BY <1>2, TypedInit, TypedStep, PTL DEF Spec, NeverWithPlayers
=============================================================================
