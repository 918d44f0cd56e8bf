------------------------ MODULE CrashRecoveryProofs ------------------------
(***************************************************************************)
(* Proofs about CrashRecovery, for every registry without duplicates and   *)
(* every window, number of attempts and number of confirming polls, and    *)
(* however many GET handlers are in flight at a time.                      *)
(***************************************************************************)
EXTENDS CrashRecovery, FiniteSetTheorems, SequenceTheorems, TLAPS

-----------------------------------------------------------------------------
(* Queues *)

\* Removing one element keeps the others, in their order.
LEMMA RemoveAtFacts ==
  ASSUME NEW S, NEW q \in Seq(S), NEW i \in DOMAIN q
  PROVE  /\ RemoveAt(q, i) \in Seq(S)
         /\ DOMAIN RemoveAt(q, i) = 1..(Len(q) - 1)
         /\ \A j \in DOMAIN RemoveAt(q, i) :
              RemoveAt(q, i)[j] = IF j < i THEN q[j] ELSE q[j + 1]
<1> DEFINE front == SubSeq(q, 1, i - 1)
           back  == SubSeq(q, i + 1, Len(q))
<1>1. front \in Seq(S) /\ Len(front) = i - 1 /\ \A j \in 1..(i - 1) : front[j] = q[j]
  OBVIOUS
<1>2. /\ back \in Seq(S) /\ Len(back) = Len(q) - i
      /\ \A j \in 1..(Len(q) - i) : back[j] = q[i + j]
  OBVIOUS
<1> DEFINE rest == front \o back
<1>3. RemoveAt(q, i) = rest
  BY DEF RemoveAt
<1> HIDE DEF front, back
<1>4. /\ rest \in Seq(S) /\ Len(rest) = Len(q) - 1
      /\ \A j \in 1..(Len(q) - 1) :
           rest[j] = IF j < i THEN front[j] ELSE back[j - (i - 1)]
  <2>1. Len(front) + Len(back) = Len(q) - 1 /\ Len(q) \in Nat /\ i \in Nat
    BY <1>1, <1>2
  <2>2. /\ rest \in Seq(S) /\ Len(rest) = Len(front) + Len(back)
        /\ \A j \in 1..(Len(front) + Len(back)) :
             rest[j] = IF j <= Len(front) THEN front[j] ELSE back[j - Len(front)]
    BY <1>1, <1>2, ConcatProperties
  <2> HIDE DEF rest
  <2>3. QED
    BY <1>1, <2>1, <2>2
<1> HIDE DEF rest
<1>5. ASSUME NEW j \in 1..(Len(q) - 1)
      PROVE  rest[j] = IF j < i THEN q[j] ELSE q[j + 1]
  <2>1. CASE j < i
    BY <2>1, <1>1, <1>4
  <2>2. CASE ~ (j < i)
    <3>1. j - (i - 1) \in 1..(Len(q) - i) /\ i + (j - (i - 1)) = j + 1
      BY <2>2
    <3>2. rest[j] = back[j - (i - 1)]
      BY <2>2, <1>4
    <3>3. QED
      BY <2>2, <3>1, <3>2, <1>2
  <2>3. QED
    BY <2>1, <2>2
<1>6. DOMAIN rest = 1..(Len(q) - 1)
  BY <1>4
<1>7. QED
  BY <1>3, <1>4, <1>5, <1>6

\* Adding one element at the end keeps the others in their places.
LEMMA AppendFacts ==
  ASSUME NEW S, NEW q \in Seq(S), NEW e \in S
  PROVE  /\ Append(q, e) \in Seq(S)
         /\ Len(q) \in Nat /\ DOMAIN q = 1..Len(q)
         /\ DOMAIN Append(q, e) = 1..(Len(q) + 1)
         /\ \A j \in DOMAIN q : Append(q, e)[j] = q[j]
         /\ Append(q, e)[Len(q) + 1] = e
OBVIOUS

\* The first element of a sequence, and what is left when it is taken.
LEMMA HeadTailFacts ==
  ASSUME NEW S, NEW q \in Seq(S), q # <<>>
  PROVE  /\ Head(q) = q[1] /\ 1 \in DOMAIN q /\ Head(q) \in S
         /\ Tail(q) \in Seq(S)
         /\ Len(q) \in Nat \ {0} /\ DOMAIN q = 1..Len(q)
         /\ DOMAIN Tail(q) = 1..(Len(q) - 1)
         /\ \A j \in DOMAIN Tail(q) : Tail(q)[j] = q[j + 1]
<1>1. Len(q) \in Nat \ {0} /\ DOMAIN q = 1..Len(q)
  OBVIOUS
<1>2. Head(q) = q[1] /\ 1 \in DOMAIN q
  BY <1>1
<1>3. Tail(q) \in Seq(S) /\ Len(Tail(q)) = Len(q) - 1
  OBVIOUS
<1>4. DOMAIN Tail(q) = 1..(Len(q) - 1)
  BY <1>3
<1>5. \A j \in 1..(Len(q) - 1) : Tail(q)[j] = q[j + 1]
  OBVIOUS
<1>6. QED
  BY <1>1, <1>2, <1>3, <1>4, <1>5

-----------------------------------------------------------------------------

Reports == {"unknown", "up", "down"}

PollState ==
  [at : {"idle", "run", "alert", "answer"}, todo : Seq(Servers),
   watched : SUBSET Servers, pending : SUBSET Servers,
   up : [Servers -> Reports], desired : [Servers -> Wishes]]

\* The servers left to look at are the end of the registry.
AtPlace(todo, k) ==
  /\ Len(todo) = Len(Registry) - k + 1
  /\ \A i \in 1..Len(todo) : todo[i] = Registry[k + i - 1]

\* What a handler remembers; an alert is awaited only past the first server.
PollTyped(x) ==
  /\ x \in PollState
  /\ x.at = "run" => \E k \in 1..Len(Registry) : AtPlace(x.todo, k)
  /\ x.at = "alert" => \E k \in 2..(Len(Registry) + 1) : AtPlace(x.todo, k)

PollsTyped ==
  /\ poll \in [Handlers -> PollState]
  /\ \A h \in Handlers : PollTyped(poll[h])

\* The history of the episodes.
EpisodesTyped ==
  /\ \A s \in Servers : IsFiniteSet(attempts[s])
  /\ autos \in [Servers -> SUBSET TimedAttempts]
  /\ alerts \in [Servers -> 0..2]

\* The type invariant with these two.
Typed == TypeOK /\ PollsTyped /\ EpisodesTyped

-----------------------------------------------------------------------------
(* The registry and the places of the handlers in it *)

\* The registry is a non-empty sequence of servers.
LEMMA RegistryFacts ==
  /\ Registry \in Seq(Servers) /\ Len(Registry) \in Nat /\ Len(Registry) >= 1
  /\ DOMAIN Registry = 1..Len(Registry)
  /\ \A i \in 1..Len(Registry) : Registry[i] \in Servers
BY RegistryAssumption

\* A place before the last has one after it.
LEMMA NextPlace ==
  ASSUME NEW n \in Nat, NEW k \in 1..n, k # n
  PROVE  k + 1 \in 1..n /\ k + 1 =< n
OBVIOUS

\* At place k there is Registry[k] to look at, and then place k + 1.
LEMMA PlaceFacts ==
  ASSUME NEW k \in 1..Len(Registry), NEW todo \in Seq(Servers), AtPlace(todo, k)
  PROVE  /\ todo # <<>> /\ Head(todo) = Registry[k]
         /\ (Len(todo) = 1) <=> (k = Len(Registry))
         /\ Tail(todo) \in Seq(Servers) /\ AtPlace(Tail(todo), k + 1)
<1> DEFINE n == Len(Registry)
           rest == Tail(todo)
<1>1. n \in Nat /\ k \in 1..n
  BY RegistryFacts
<1>2. Len(todo) = n - k + 1 /\ \A i \in 1..Len(todo) : todo[i] = Registry[k + i - 1]
  BY DEF AtPlace
<1>3. 1 \in 1..Len(todo) /\ k + 1 - 1 = k
  BY <1>1, <1>2
<1>4. todo # <<>> /\ Head(todo) = todo[1]
  BY <1>3
<1>5. todo[1] = Registry[k]
  BY <1>2, <1>3
<1>6. rest \in Seq(Servers) /\ Len(rest) = n - (k + 1) + 1
  BY <1>1, <1>2, <1>4
<1>7. \A i \in 1..Len(rest) : rest[i] = todo[i + 1]
  BY <1>4
<1> HIDE DEF rest
<1>8. ASSUME NEW i \in 1..Len(rest) PROVE rest[i] = Registry[k + 1 + i - 1]
  <2>1. i + 1 \in 1..Len(todo) /\ k + (i + 1) - 1 = k + 1 + i - 1
    BY <1>1, <1>2, <1>6
  <2>2. QED
    BY <1>2, <1>7, <2>1
<1>9. AtPlace(rest, k + 1)
  BY <1>6, <1>8 DEF AtPlace
<1>10. (Len(todo) = 1) <=> (k = Len(Registry))
  BY <1>1, <1>2
<1>11. QED
  BY <1>4, <1>5, <1>6, <1>9, <1>10 DEF rest

\* No server comes twice: past place k, Registry[k] is not met again.
LEMMA PlaceOnce ==
  ASSUME NEW k \in 1..Len(Registry), NEW todo \in Seq(Servers), AtPlace(todo, k)
  PROVE  \A i \in DOMAIN Tail(todo) :
           /\ Tail(todo)[i] # Head(todo)
           /\ \E j \in DOMAIN todo : todo[j] = Tail(todo)[i]
<1>0. todo # <<>> /\ Head(todo) = Registry[k] /\ Tail(todo) \in Seq(Servers)
      /\ AtPlace(Tail(todo), k + 1)
  BY PlaceFacts
<1> DEFINE n == Len(Registry)
           rest == Tail(todo)
<1> SUFFICES ASSUME NEW i \in DOMAIN rest
             PROVE  rest[i] # Head(todo) /\ \E j \in DOMAIN todo : todo[j] = rest[i]
  OBVIOUS
<1>1. n \in Nat /\ DOMAIN Registry = 1..n
  BY RegistryFacts
<1>2. /\ DOMAIN todo = 1..Len(todo) /\ Len(todo) \in Nat
      /\ DOMAIN rest = 1..(Len(todo) - 1) /\ rest[i] = todo[i + 1]
  BY <1>0, HeadTailFacts
<1>3. Len(todo) = n - k + 1 /\ \A j \in 1..Len(todo) : todo[j] = Registry[k + j - 1]
  BY DEF AtPlace
<1> HIDE DEF rest
<1>4. i + 1 \in 1..Len(todo) /\ k + (i + 1) - 1 = k + i
  BY <1>1, <1>2, <1>3
<1>5. rest[i] = Registry[k + i]
  BY <1>2, <1>3, <1>4
<1>6. k \in DOMAIN Registry /\ k + i \in DOMAIN Registry /\ k + i # k
  BY <1>1, <1>2, <1>3, <1>4
<1>7. Registry[k + i] # Registry[k]
  BY <1>6, RegistryAssumption
<1>8. QED
  BY <1>0, <1>2, <1>4, <1>5, <1>7

-----------------------------------------------------------------------------
(* What a handler remembers *)

\* Nothing, and nothing but the alert or the answer.
LEMMA NoPollTyped ==
  /\ NoPoll \in PollState /\ PollTyped(NoPoll) /\ NoPoll.at = "idle"
  /\ \A at \in {"alert", "answer"} :
       LET x == [NoPoll EXCEPT !.at = at] IN
       x \in PollState /\ PollTyped(x) /\ x.at = at /\ x.todo = <<>>
<1>1. <<>> \in Seq(Servers) /\ Len(<<>>) = 0
  OBVIOUS
<1>2. /\ [s \in Servers |-> "unknown"] \in [Servers -> Reports]
      /\ [s \in Servers |-> "none"] \in [Servers -> Wishes]
  BY DEF Reports, Wishes
<1>3. NoPoll \in PollState /\ NoPoll.at = "idle" /\ NoPoll.todo = <<>>
  BY <1>1, <1>2 DEF NoPoll, PollState
<1>4. Len(Registry) + 1 \in 2..(Len(Registry) + 1) /\ AtPlace(<<>>, Len(Registry) + 1)
  BY <1>1, RegistryFacts DEF AtPlace
<1>5. ASSUME NEW at \in {"alert", "answer"}
      PROVE  LET x == [NoPoll EXCEPT !.at = at] IN
             x \in PollState /\ PollTyped(x) /\ x.at = at /\ x.todo = <<>>
  <2> DEFINE x == [NoPoll EXCEPT !.at = at]
  <2>1. x \in PollState /\ x.at = at /\ x.todo = <<>>
    BY <1>3 DEF PollState
  <2> HIDE DEF x
  <2>2. PollTyped(x)
    BY <1>4, <2>1 DEF PollTyped
  <2>3. QED
    BY <2>1, <2>2 DEF x
<1>6. QED
  BY <1>3, <1>5 DEF PollTyped

\* A change of place.
LEMMA MovedType ==
  ASSUME NEW x, x \in PollState, NEW at, at \in {"run", "alert"},
         NEW todo, todo \in Seq(Servers)
  PROVE  /\ [x EXCEPT !.at = at, !.todo = todo] \in PollState
         /\ [x EXCEPT !.at = at, !.todo = todo].at = at
         /\ [x EXCEPT !.at = at, !.todo = todo].todo = todo
         /\ [x EXCEPT !.at = at, !.todo = todo].pending = x.pending
BY DEF PollState

\* A change of place past the first server.
LEMMA MovedTyped ==
  ASSUME NEW x, x \in PollState, NEW at, at \in {"run", "alert"},
         NEW todo, todo \in Seq(Servers),
         NEW k \in 2..(Len(Registry) + 1), AtPlace(todo, k), at = "run" => k =< Len(Registry)
  PROVE  PollTyped([x EXCEPT !.at = at, !.todo = todo])
<1> DEFINE y == [x EXCEPT !.at = at, !.todo = todo]
<1>a. [x EXCEPT !.at = at, !.todo = todo] \in PollState
  BY MovedType
<1>b. y.at = at
  BY DEF PollState
<1>c. y.todo = todo
  BY DEF PollState
<1> HIDE DEF y
<1>1. y \in PollState /\ y.at = at /\ y.todo = todo
  BY <1>a, <1>b, <1>c DEF y
<1>2. at = "run" => k \in 1..Len(Registry)
  BY RegistryFacts
<1>3. PollTyped(y)
  BY <1>1, <1>2 DEF PollTyped
<1>4. QED
  BY <1>3 DEF y

\* Going on, to the next server, to the alert or to the answer.
LEMMA RemainingFacts ==
  ASSUME NEW h \in Handlers, poll[h] \in PollState, PollTyped(poll[h]), poll[h].at = "run",
         NEW at, at \in {"run", "alert"}
  PROVE  /\ Remaining(h, at) \in PollState /\ PollTyped(Remaining(h, at))
         /\ Remaining(h, at).at \in {at, "answer"}
         /\ Remaining(h, at).at # "answer" =>
              /\ \/ Remaining(h, at).todo = <<>>
                 \/ /\ Remaining(h, at).todo = Tail(poll[h].todo)
                    /\ Remaining(h, at).pending = poll[h].pending
              /\ \E k \in 2..(Len(Registry) + 1) : AtPlace(Remaining(h, at).todo, k)
<1>0. poll[h].todo \in Seq(Servers)
  BY DEF PollState
<1>1. PICK k \in 1..Len(Registry) : AtPlace(poll[h].todo, k)
  BY DEF PollTyped
<1>2. /\ Tail(poll[h].todo) \in Seq(Servers) /\ AtPlace(Tail(poll[h].todo), k + 1)
      /\ (Len(poll[h].todo) = 1) <=> (k = Len(Registry))
  BY <1>0, <1>1, PlaceFacts
<1>3. CASE Len(poll[h].todo) = 1
  <2> DEFINE next == IF at = "run" THEN "answer" ELSE at
             x == [NoPoll EXCEPT !.at = next]
  <2>1. Remaining(h, at) = x /\ next \in {"alert", "answer"} /\ next \in {at, "answer"}
    BY <1>3 DEF Remaining
  <2> HIDE DEF next
  <2>2. x \in PollState /\ PollTyped(x) /\ x.at = next /\ x.todo = <<>>
    BY <2>1, NoPollTyped
  <2>3. Len(Registry) + 1 \in 2..(Len(Registry) + 1) /\ AtPlace(<<>>, Len(Registry) + 1)
    BY RegistryFacts DEF AtPlace
  <2> HIDE DEF x
  <2>4. QED
    BY <2>1, <2>2, <2>3
<1>4. CASE ~ (Len(poll[h].todo) = 1)
  <2> DEFINE rest == Tail(poll[h].todo)
  <2>1. Remaining(h, at) = [poll[h] EXCEPT !.at = at, !.todo = rest]
    BY <1>4 DEF Remaining
  <2>2. rest \in Seq(Servers) /\ AtPlace(rest, k + 1)
    BY <1>2
  <2>3. k + 1 \in 2..(Len(Registry) + 1)
    BY RegistryFacts
  <2>4. at = "run" => k + 1 =< Len(Registry)
    <3>1. k # Len(Registry) => k + 1 =< Len(Registry)
      BY RegistryFacts, NextPlace
    <3>2. QED
      BY <1>2, <1>4, <3>1
  <2> DEFINE old == poll[h]
             place == k + 1
             next == [old EXCEPT !.at = at, !.todo = rest]
  <2> HIDE DEF rest
  <2>a. /\ old \in PollState /\ place \in 2..(Len(Registry) + 1) /\ AtPlace(rest, place)
        /\ (at = "run" => place =< Len(Registry)) /\ Remaining(h, at) = next
        /\ old.pending = poll[h].pending
    BY <2>1, <2>2, <2>3, <2>4
  <2> HIDE DEF old, place
  <2>b. next \in PollState
    BY <2>2, <2>a DEF PollState
  <2>c. next.at = at
    BY <2>a DEF PollState
  <2>d. next.todo = rest
    BY <2>a DEF PollState
  <2>e. next.pending = old.pending
    BY <2>a DEF PollState
  <2>5. next \in PollState /\ next.at = at /\ next.todo = rest /\ next.pending = old.pending
    BY <2>b, <2>c, <2>d, <2>e
  <2>6. PollTyped(next)
    BY <2>2, <2>a, MovedTyped
  <2> HIDE DEF next
  <2>7. QED
    BY <2>a, <2>5, <2>6 DEF rest
<1>5. QED
  BY <1>3, <1>4

\* Back from the alert.
LEMMA AlertSentFacts ==
  ASSUME PollsTyped, NEW h \in Handlers, AlertSent(h)
  PROVE  \E x \in PollState :
           /\ poll' = [poll EXCEPT ![h] = x] /\ poll[h].at = "alert"
           /\ PollTyped(x) /\ x.at \in {"run", "answer"}
           /\ x.todo = poll[h].todo /\ x.pending = poll[h].pending
           /\ \E k \in 2..(Len(Registry) + 1) : AtPlace(x.todo, k)
<1> DEFINE old == poll[h]
           next == IF old.todo = <<>> THEN "answer" ELSE "run"
           x == [old EXCEPT !.at = next]
<1>0. old \in PollState /\ old.todo \in Seq(Servers) /\ PollTyped(old)
  BY DEF PollsTyped, PollState
<1>1. old.at = "alert"
  BY DEF AlertSent
<1> HIDE DEF old
<1>2. PICK k \in 2..(Len(Registry) + 1) : AtPlace(old.todo, k)
  BY <1>0, <1>1 DEF PollTyped
<1>3. next \in {"run", "answer"}
  OBVIOUS
<1>4. ASSUME next = "run" PROVE k \in 1..Len(Registry)
  <2>1. Len(old.todo) \in Nat \ {0}
    BY <1>0, <1>4
  <2>2. QED
    BY <1>2, <2>1, RegistryFacts DEF AtPlace
<1> HIDE DEF next
<1>5. x \in PollState /\ x.at = next /\ x.todo = old.todo /\ x.pending = old.pending
  BY <1>0, <1>3 DEF PollState
<1>6. poll' = [poll EXCEPT ![h] = x]
  BY DEF AlertSent, PollsTyped, old, next
<1> HIDE DEF x
<1>7. PollTyped(x)
  BY <1>2, <1>3, <1>4, <1>5 DEF PollTyped
<1>8. QED
  BY <1>1, <1>2, <1>3, <1>5, <1>6, <1>7 DEF old

\* A step of one handler leaves the others where they are.
LEMMA OneHandlerMoves ==
  ASSUME PollsTyped, NEW h \in Handlers, NEW x \in PollState, PollTyped(x),
         poll' = [poll EXCEPT ![h] = x]
  PROVE  /\ PollsTyped' /\ poll'[h] = x
         /\ \A g \in Handlers : g # h => poll'[g] = poll[g]
         /\ \A g \in Handlers : poll'[g].at \in {"idle", "run", "alert", "answer"}
<1>1. /\ poll' \in [Handlers -> PollState] /\ poll'[h] = x
      /\ \A g \in Handlers : g # h => poll'[g] = poll[g]
  BY DEF PollsTyped
<1>2. \A g \in Handlers : PollTyped(poll'[g])
  BY <1>1 DEF PollsTyped
<1>3. \A g \in Handlers : poll'[g] \in PollState
  BY <1>1
<1>4. QED
  BY <1>1, <1>2, <1>3 DEF PollsTyped, PollState

\* With the backend its handlers are gone.
LEMMA LostTyped ==
  ASSUME HandlersLost
  PROVE  PollsTyped' /\ \A h \in Handlers : poll'[h].at = "idle"
BY NoPollTyped DEF HandlersLost, PollsTyped

-----------------------------------------------------------------------------
(* Type correctness *)

\* The queue is a list of orders, whatever is added, taken or removed; the one
\* at its head stays there unless it is removed itself.
LEMMA QueueFacts ==
  ASSUME Typed
  PROVE  /\ queue \in Seq(Order)
         /\ \A e \in Order :
              /\ Append(queue, e) \in Seq(Order) /\ Append(queue, e) # <<>>
              /\ queue # <<>> => Head(Append(queue, e)) = Head(queue)
         /\ \A i \in DOMAIN queue :
              /\ RemoveAt(queue, i) \in Seq(Order)
              /\ i # 1 => RemoveAt(queue, i) # <<>> /\ Head(RemoveAt(queue, i)) = Head(queue)
         /\ queue # <<>> =>
              /\ Head(queue) \in Order /\ Tail(queue) \in Seq(Order)
<1>1. queue \in Seq(Order)
  BY DEF Typed, TypeOK
<1>2. ASSUME NEW e \in Order
      PROVE  /\ Append(queue, e) \in Seq(Order) /\ Append(queue, e) # <<>>
             /\ queue # <<>> => Head(Append(queue, e)) = Head(queue)
  <2> DEFINE q == Append(queue, e)
  <2>1. /\ q \in Seq(Order) /\ Len(queue) \in Nat /\ DOMAIN queue = 1..Len(queue)
        /\ DOMAIN q = 1..(Len(queue) + 1)
        /\ \A j \in DOMAIN queue : q[j] = queue[j]
    BY <1>1, AppendFacts
  <2> HIDE DEF q
  <2>2. q # <<>>
    BY <2>1
  <2>3. Head(q) = q[1]
    BY <2>1, <2>2, HeadTailFacts
  <2>4. ASSUME queue # <<>> PROVE Head(q) = Head(queue)
    <3>1. Head(queue) = queue[1] /\ 1 \in DOMAIN queue
      BY <1>1, <2>4, HeadTailFacts
    <3>2. QED
      BY <2>1, <2>3, <3>1
  <2>5. QED
    BY <2>1, <2>2, <2>4 DEF q
<1>3. ASSUME NEW i \in DOMAIN queue
      PROVE  /\ RemoveAt(queue, i) \in Seq(Order)
             /\ i # 1 => RemoveAt(queue, i) # <<>> /\ Head(RemoveAt(queue, i)) = Head(queue)
  <2> DEFINE q == RemoveAt(queue, i)
  <2>1. /\ q \in Seq(Order) /\ DOMAIN q = 1..(Len(queue) - 1)
        /\ \A j \in DOMAIN q : q[j] = IF j < i THEN queue[j] ELSE queue[j + 1]
    BY <1>1, RemoveAtFacts
  <2> HIDE DEF q
  <2>2. ASSUME i # 1 PROVE q # <<>> /\ Head(q) = Head(queue)
    <3>1. queue # <<>>
      BY <1>3
    <3>2. Head(queue) = queue[1] /\ Len(queue) \in Nat /\ DOMAIN queue = 1..Len(queue)
      BY <1>1, <3>1, HeadTailFacts
    <3>3. 1 < i /\ 1 \in DOMAIN q
      BY <1>3, <2>1, <2>2, <3>2
    <3>4. q # <<>>
      BY <3>3
    <3>5. Head(q) = q[1]
      BY <2>1, <3>4, HeadTailFacts
    <3>6. q[1] = queue[1]
      BY <2>1, <3>3
    <3>7. QED
      BY <3>2, <3>4, <3>5, <3>6
  <2>3. QED
    BY <2>1, <2>2 DEF q
<1>4. QED
  BY <1>1, <1>2, <1>3, HeadTailFacts

\* The attempts in the window, with or without the one being made.
LEMMA AttemptFacts ==
  ASSUME Typed, NEW s \in Servers
  PROVE  /\ Attempt(s) \in TimedAttempts
         /\ Recent(s) \subseteq attempts[s]
         /\ IsFiniteSet(Recent(s)) /\ Recent(s) \in SUBSET TimedAttempts
         /\ IsFiniteSet(Recent(s) \union {Attempt(s)})
         /\ Recent(s) \union {Attempt(s)} \in SUBSET TimedAttempts
<1>1. IsFiniteSet(attempts[s]) /\ attempts[s] \in SUBSET TimedAttempts
  BY DEF Typed, EpisodesTyped, TypeOK
<1>2. Recent(s) \subseteq attempts[s]
  BY DEF Recent
<1>3. IsFiniteSet(Recent(s))
  BY <1>1, <1>2, FS_Subset
<1> DEFINE same == {a \in attempts[s] : a.at = now}
<1>4. same \subseteq attempts[s]
  OBVIOUS
<1>5. Cardinality(same) \in Nat
  BY <1>1, <1>4, FS_Subset, FS_CardinalityType
<1> HIDE DEF same
<1>6. Attempt(s) \in TimedAttempts
  BY <1>5 DEF Attempt, same, TimedAttempts, Typed, TypeOK
<1>7. IsFiniteSet(Recent(s) \union {Attempt(s)})
  BY <1>3, FS_AddElement
<1>8. QED
  BY <1>1, <1>2, <1>3, <1>6, <1>7

\* Going on keeps the handlers' types.
LEMMA MoveTyped ==
  ASSUME PollsTyped, NEW h \in Handlers, poll[h].at = "run", NEW at \in {"run", "alert"},
         poll' = [poll EXCEPT ![h] = Remaining(h, at)]
  PROVE  /\ PollsTyped' /\ poll'[h] = Remaining(h, at)
         /\ \A g \in Handlers : g # h => poll'[g] = poll[g]
         /\ \A g \in Handlers : poll'[g].at \in {"idle", "run", "alert", "answer"}
<1>1. poll[h] \in PollState /\ PollTyped(poll[h])
  BY DEF PollsTyped
<1>2. Remaining(h, at) \in PollState /\ PollTyped(Remaining(h, at))
  BY <1>1, RemainingFacts
<1>3. QED
  BY <1>2, OneHandlerMoves

\* A handler's look at one server.
LEMMA LookTyped ==
  ASSUME Typed, NEW h \in Handlers, NEW s \in Servers,
         \/ PassOver(h, s) \/ CountUp(h, s) \/ ClearHistory(h, s) \/ HoldBack(h, s)
         \/ TripBreaker(h, s)
  PROVE  Typed'
<1>1. \E at \in {"run", "alert"} :
        poll[h].at = "run" /\ poll' = [poll EXCEPT ![h] = Remaining(h, at)]
  BY DEF PassOver, CountUp, ClearHistory, HoldBack, TripBreaker, SeenUp, SeenDown, Looking,
         Advance
<1>2. PollsTyped' /\ \A g \in Handlers : poll'[g].at \in {"idle", "run", "alert", "answer"}
  BY <1>1, MoveTyped DEF Typed
<1>3. UNCHANGED <<storeVars, agentVars, now>>
  BY DEF PassOver, CountUp, ClearHistory, HoldBack, TripBreaker
<1>4. streak' \in [Servers -> 0..ConfirmPolls - 1]
  <2>1. \A i \in 0..ConfirmPolls - 1 : i + 1 < ConfirmPolls => i + 1 \in 0..ConfirmPolls - 1
    BY SettingsAssumption
  <2>2. 0 \in 0..ConfirmPolls - 1
    BY SettingsAssumption
  <2>3. CASE CountUp(h, s)
    <3>1. streak[s] \in 0..ConfirmPolls - 1
      BY DEF Typed, TypeOK
    <3>2. streak[s] + 1 < ConfirmPolls
      BY <2>3, <3>1, SettingsAssumption DEF CountUp, Confirmed
    <3>3. streak[s] + 1 \in 0..ConfirmPolls - 1
      BY <2>1, <3>1, <3>2
    <3>4. QED
      BY <2>3, <3>3 DEF CountUp, Typed, TypeOK
  <2>4. CASE ~ CountUp(h, s)
    BY <2>2, <2>4 DEF PassOver, ClearHistory, HoldBack, TripBreaker, recoveryVars, Typed, TypeOK
  <2>5. QED
    BY <2>3, <2>4
<1>5. breaker' \subseteq Servers
  BY DEF PassOver, CountUp, ClearHistory, HoldBack, TripBreaker, recoveryVars, Typed, TypeOK
<1>6. /\ attempts' \in [Servers -> SUBSET TimedAttempts]
      /\ \A r \in Servers : IsFiniteSet(attempts'[r])
  <2>1. \/ UNCHANGED attempts \/ attempts' = [attempts EXCEPT ![s] = {}]
        \/ attempts' = [attempts EXCEPT ![s] = Recent(s)]
    BY DEF PassOver, CountUp, ClearHistory, HoldBack, TripBreaker, recoveryVars
  <2>2. IsFiniteSet({}) /\ IsFiniteSet(Recent(s)) /\ Recent(s) \in SUBSET TimedAttempts
    BY AttemptFacts, FS_EmptySet
  <2>3. attempts \in [Servers -> SUBSET TimedAttempts] /\ \A r \in Servers : IsFiniteSet(attempts[r])
    BY DEF Typed, TypeOK, EpisodesTyped
  <2>4. ASSUME NEW kept \in SUBSET TimedAttempts, IsFiniteSet(kept),
               attempts' = [attempts EXCEPT ![s] = kept]
        PROVE  /\ attempts' \in [Servers -> SUBSET TimedAttempts]
               /\ \A r \in Servers : IsFiniteSet(attempts'[r])
    <3>1. attempts' \in [Servers -> SUBSET TimedAttempts]
      BY <2>3, <2>4
    <3>2. ASSUME NEW r \in Servers PROVE IsFiniteSet(attempts'[r])
      BY <2>3, <2>4
    <3>3. QED
      BY <3>1, <3>2
  <2>5. QED
    BY <2>1, <2>2, <2>3, <2>4
<1>7. autos' \in [Servers -> SUBSET TimedAttempts] /\ alerts' \in [Servers -> 0..2]
  BY DEF PassOver, CountUp, ClearHistory, HoldBack, TripBreaker, historyVars, Typed, EpisodesTyped
<1>8. EpisodesTyped'
  BY <1>6, <1>7 DEF EpisodesTyped
<1>9. TypeOK'
  BY <1>2, <1>3, <1>4, <1>5, <1>6 DEF Typed, TypeOK, storeVars, agentVars
<1>10. QED
  BY <1>2, <1>8, <1>9 DEF Typed

\* An automatic start, and a kill between the attempt and its order.
LEMMA StartTyped ==
  ASSUME Typed, NEW h \in Handlers, NEW s \in Servers,
         AutoStart(h, s) \/ KilledBeforeOrder(h, s)
  PROVE  Typed'
<1>1. /\ poll[h].at = "run" /\ RecordAttempt(h, s)
      /\ UNCHANGED <<watched, reported, desired, proc, now, alerts>>
  BY DEF AutoStart, KilledBeforeOrder, RecordAttempt, SeenDown, Looking, storeVars,
         agentVars, historyVars
<1>2. PollsTyped' /\ \A g \in Handlers : poll'[g].at \in {"idle", "run", "alert", "answer"}
  <2>1. CASE AutoStart(h, s)
    BY <1>1, <2>1, MoveTyped DEF AutoStart, Advance, Typed
  <2>2. CASE KilledBeforeOrder(h, s)
    BY <2>2, LostTyped DEF KilledBeforeOrder
  <2>3. QED
    BY <2>1, <2>2
<1>3. streak' \in [Servers -> 0..ConfirmPolls - 1] /\ breaker' \subseteq Servers
  BY <1>1, SettingsAssumption DEF RecordAttempt, Typed, TypeOK
<1>4. /\ attempts' \in [Servers -> SUBSET TimedAttempts]
      /\ \A r \in Servers : IsFiniteSet(attempts'[r])
  <2>1. attempts' = [attempts EXCEPT ![s] = Recent(s) \union {Attempt(s)}]
    BY <1>1 DEF RecordAttempt
  <2>2. /\ IsFiniteSet(Recent(s) \union {Attempt(s)})
        /\ Recent(s) \union {Attempt(s)} \in SUBSET TimedAttempts
    BY AttemptFacts
  <2>3. QED
    BY <2>1, <2>2 DEF Typed, TypeOK, EpisodesTyped
<1>5. autos' \in [Servers -> SUBSET TimedAttempts]
  <2>1. Attempt(s) \in TimedAttempts
    BY AttemptFacts
  <2>2. autos[s] \union {Attempt(s)} \in SUBSET TimedAttempts
    BY <2>1 DEF Typed, EpisodesTyped
  <2>3. QED
    BY <2>2 DEF AutoStart, KilledBeforeOrder, historyVars, Typed, EpisodesTyped
<1>6. /\ queue' \in Seq(Order) /\ pc' \in PCs /\ awaited' \subseteq Handlers
      /\ pc' \in {"exec", "verdict"} => queue' # <<>> /\ Head(queue').taken
  <2>1. CASE AutoStart(h, s)
    <3>1. AutoStarts(s) \in Order
      BY DEF AutoStarts, Order
    <3>2. UNCHANGED <<pc, awaited>> /\ queue' = Append(queue, AutoStarts(s))
      BY <2>1 DEF AutoStart, agentVars
    <3>3. QED
      BY <3>1, <3>2, QueueFacts DEF Typed, TypeOK
  <2>2. CASE KilledBeforeOrder(h, s)
    BY <2>2 DEF KilledBeforeOrder, HandlersLost, storeVars, PCs, Typed, TypeOK
  <2>3. QED
    BY <2>1, <2>2
<1>7. EpisodesTyped'
  BY <1>1, <1>4, <1>5 DEF Typed, EpisodesTyped
<1>8. TypeOK'
  BY <1>1, <1>2, <1>3, <1>4, <1>6 DEF Typed, TypeOK
<1>9. QED
  BY <1>2, <1>7, <1>8 DEF Typed

\* A poll that starts looks at the whole registry.
LEMMA StartPollFacts ==
  ASSUME Typed, NEW h \in Handlers, StartPoll(h)
  PROVE  \E x \in PollState :
           /\ poll' = [poll EXCEPT ![h] = x] /\ PollTyped(x)
           /\ x.at = "run" /\ x.todo = Registry /\ x.desired = desired
           /\ x.pending = {queue[i].server : i \in DOMAIN queue}
<1> DEFINE waiting == {queue[i].server : i \in DOMAIN queue}
           x == [at |-> "run", todo |-> Registry, watched |-> watched, pending |-> waiting,
                 up |-> reported, desired |-> desired]
<1>1. waiting \in SUBSET Servers
  <2>1. \A i \in DOMAIN queue : queue[i] \in Order
    BY DEF Typed, TypeOK
  <2>2. QED
    BY <2>1 DEF Order
<1>2. poll' = [poll EXCEPT ![h] = x]
  BY DEF StartPoll
<1> HIDE DEF waiting
<1>3. /\ watched \subseteq Servers /\ desired \in [Servers -> Wishes]
      /\ reported \in [Servers -> Reports]
  BY DEF Typed, TypeOK, Reports
<1>4. /\ x \in PollState /\ x.at = "run" /\ x.todo = Registry /\ x.desired = desired
      /\ x.pending = waiting
  BY <1>1, <1>3, RegistryFacts DEF PollState
<1>5. AtPlace(Registry, 1) /\ 1 \in 1..Len(Registry)
  BY RegistryFacts DEF AtPlace
<1> HIDE DEF x
<1>6. PollTyped(x)
  BY <1>4, <1>5 DEF PollTyped
<1>7. QED
  BY <1>2, <1>4, <1>6 DEF waiting

\* A step that touches neither the handlers nor the history of an episode.
LEMMA PlainTyped ==
  ASSUME Typed, UNCHANGED <<recoveryVars, poll, autos, alerts>>,
         watched' \subseteq Servers, queue' \in Seq(Order),
         reported' \in [Servers -> Reports], desired' \in [Servers -> Wishes],
         pc' \in PCs, pc' \in {"exec", "verdict"} => queue' # <<>> /\ Head(queue').taken,
         awaited' \subseteq Handlers, proc' \in [Servers -> BOOLEAN], now' \in 0..MaxTime
  PROVE  Typed'
BY DEF Typed, TypeOK, PollsTyped, EpisodesTyped, recoveryVars, Reports

\* The response handed to the agent.
LEMMA AnswerTyped ==
  ASSUME Typed, NEW h \in Handlers, Answer(h)
  PROVE  /\ queue' \in Seq(Order) /\ pc' \in PCs
         /\ pc' \in {"exec", "verdict"} => queue' # <<>> /\ Head(queue').taken
         /\ DOMAIN queue' = DOMAIN queue
         /\ \A i \in DOMAIN queue : queue'[i].server = queue[i].server
                                    /\ queue'[i].author = queue[i].author
<1>1. CASE UNCHANGED queue /\ (pc' = "again" \/ UNCHANGED pc)
  BY <1>1 DEF Typed, TypeOK, PCs
<1>2. CASE queue # <<>> /\ pc' = "exec" /\ queue' = [queue EXCEPT ![1].taken = TRUE]
  <2>1. /\ Head(queue) = queue[1] /\ 1 \in DOMAIN queue /\ queue[1] \in Order
        /\ DOMAIN queue = 1..Len(queue) /\ Len(queue) \in Nat
    BY <1>2, HeadTailFacts, QueueFacts
  <2> DEFINE first == [queue[1] EXCEPT !.taken = TRUE]
  <2>2. /\ first \in Order /\ first.taken
        /\ first.server = queue[1].server /\ first.author = queue[1].author
    BY <2>1 DEF Order
  <2>3. queue' = [queue EXCEPT ![1] = first]
    BY <1>2
  <2> HIDE DEF first
  <2>4. queue' \in Seq(Order) /\ queue' # <<>> /\ DOMAIN queue' = DOMAIN queue
    BY <2>1, <2>2, <2>3, QueueFacts
  <2>5. \A i \in DOMAIN queue : queue'[i] = IF i = 1 THEN first ELSE queue[i]
    BY <2>1, <2>3, QueueFacts
  <2>6. Head(queue') = first
    BY <2>1, <2>4, <2>5, HeadTailFacts
  <2>7. QED
    BY <1>2, <2>2, <2>4, <2>5, <2>6 DEF PCs
<1>3. QED
  BY <1>1, <1>2 DEF Answer

\* The agent.
LEMMA AgentTyped == ASSUME Typed, Agent PROVE Typed'
<1>1. CASE StartCycle \/ EndCycle
  BY <1>1, PlainTyped DEF StartCycle, EndCycle, PCs, storeVars, historyVars, Typed, TypeOK, Reports
<1>2. ASSUME NEW h \in Handlers, StartPoll(h) PROVE Typed'
  <2>1. PICK x \in PollState : poll' = [poll EXCEPT ![h] = x] /\ PollTyped(x)
    BY <1>2, StartPollFacts
  <2>2. PollsTyped' /\ \A g \in Handlers : poll'[g].at \in {"idle", "run", "alert", "answer"}
    BY <2>1, OneHandlerMoves DEF Typed
  <2>3. /\ UNCHANGED <<storeVars, recoveryVars, result, proc, historyVars, now>>
        /\ pc' = "waiting" /\ awaited' = {h}
    BY <1>2 DEF StartPoll
  <2>4. QED
    BY <2>2, <2>3
       DEF Typed, TypeOK, EpisodesTyped, storeVars, recoveryVars, historyVars, PCs
<1>3. ASSUME NEW S \in SUBSET Servers, Report(S) PROVE Typed'
  <2>1. reported' \in [Servers -> Reports]
    BY <1>3 DEF Report, Reports, Typed, TypeOK
  <2>2. /\ UNCHANGED <<watched, queue, desired, recoveryVars, poll, awaited, proc, autos,
                       alerts, now>>
        /\ pc' \in {"poll", "again"}
    BY <1>3 DEF Report
  <2>3. QED
    BY <2>1, <2>2, PlainTyped DEF Typed, TypeOK, PCs
<1>4. ASSUME NEW r \in {"done", "failed"}, Execute(r) PROVE Typed'
  <2>1. PICK up \in BOOLEAN : proc' = [proc EXCEPT ![Head(queue).server] = up]
    BY <1>4 DEF Execute
  <2>2. proc' \in [Servers -> BOOLEAN]
    BY <2>1 DEF Typed, TypeOK
  <2>3. /\ UNCHANGED <<storeVars, recoveryVars, poll, awaited, historyVars, now>>
        /\ pc = "exec" /\ pc' = "verdict"
    BY <1>4 DEF Execute
  <2>4. QED
    BY <2>2, <2>3, PlainTyped DEF storeVars, historyVars, Typed, TypeOK, PCs, Reports
<1>5. CASE Verdict
  <2>1. queue # <<>> /\ queue' = Tail(queue) /\ pc' = "rereport"
    BY <1>5 DEF Verdict, Typed, TypeOK
  <2>2. queue' \in Seq(Order)
    BY <2>1, QueueFacts
  <2>3. desired' \in [Servers -> Wishes]
    BY <1>5 DEF Verdict, DesiredBy, Wishes, Typed, TypeOK
  <2>4. UNCHANGED <<watched, reported, recoveryVars, poll, awaited, proc, historyVars, now>>
    BY <1>5 DEF Verdict
  <2>5. QED
    BY <2>1, <2>2, <2>3, <2>4, PlainTyped DEF historyVars, Typed, TypeOK, PCs, Reports
<1>6. QED
  BY <1>1, <1>2, <1>3, <1>4, <1>5 DEF Agent

\* The handlers that go on, and those that are lost.
LEMMA HandlersTyped ==
  ASSUME Typed,
         \/ \E h \in Handlers : AlertSent(h) \/ Answer(h)
         \/ GetFails \/ BackendCrash
  PROVE  Typed'
<1>1. ASSUME NEW h \in Handlers, AlertSent(h) PROVE Typed'
  <2>1. PICK x \in PollState : poll' = [poll EXCEPT ![h] = x] /\ PollTyped(x)
    BY <1>1, AlertSentFacts DEF Typed
  <2>2. PollsTyped' /\ \A g \in Handlers : poll'[g].at \in {"idle", "run", "alert", "answer"}
    BY <2>1, OneHandlerMoves DEF Typed
  <2>3. UNCHANGED <<storeVars, recoveryVars, agentVars, historyVars, now>>
    BY <1>1 DEF AlertSent
  <2>4. QED
    BY <2>2, <2>3
       DEF Typed, TypeOK, EpisodesTyped, storeVars, recoveryVars, agentVars, historyVars
<1>2. ASSUME NEW h \in Handlers, Answer(h) PROVE Typed'
  <2>1. /\ queue' \in Seq(Order) /\ pc' \in PCs
        /\ pc' \in {"exec", "verdict"} => queue' # <<>> /\ Head(queue').taken
    BY <1>2, AnswerTyped
  <2>2. /\ UNCHANGED <<watched, reported, desired, recoveryVars, proc, autos, alerts, now>>
        /\ poll' = [poll EXCEPT ![h] = NoPoll] /\ awaited' = awaited \ {h}
    BY <1>2 DEF Answer, historyVars
  <2>3. PollsTyped' /\ \A g \in Handlers : poll'[g].at \in {"idle", "run", "alert", "answer"}
    BY <2>2, NoPollTyped, OneHandlerMoves DEF Typed
  <2>4. QED
    BY <2>1, <2>2, <2>3 DEF Typed, TypeOK, EpisodesTyped, recoveryVars
<1>3. CASE GetFails
  <2>1. /\ UNCHANGED <<storeVars, recoveryVars, poll, proc, historyVars, now>>
        /\ pc' = "off" /\ awaited' = {}
    BY <1>3 DEF GetFails
  <2>2. QED
    BY <2>1, PlainTyped DEF storeVars, historyVars, PCs, Typed, TypeOK, Reports
<1>4. CASE BackendCrash
  <2>1. /\ UNCHANGED <<storeVars, recoveryVars, proc, historyVars, now>>
        /\ pc' \in {pc, "off"} /\ awaited' = {} /\ HandlersLost
    BY <1>4 DEF BackendCrash, HandlersLost
  <2>2. PollsTyped' /\ \A g \in Handlers : poll'[g].at \in {"idle", "run", "alert", "answer"}
    BY <2>1, LostTyped
  <2>3. QED
    BY <2>1, <2>2 DEF Typed, TypeOK, EpisodesTyped, storeVars, recoveryVars, historyVars, PCs
<1>5. QED
  BY <1>1, <1>2, <1>3, <1>4

\* The admin, the games, faults and time.
LEMMA OthersTyped == ASSUME Typed, Others PROVE Typed'
<1>1. CASE AgentCrash
  <2>1. /\ UNCHANGED <<storeVars, recoveryVars, poll, proc, historyVars, now>>
        /\ pc' = "off" /\ awaited' = {}
    BY <1>1 DEF AgentCrash
  <2>2. QED
    BY <2>1, PlainTyped DEF storeVars, historyVars, PCs, Typed, TypeOK, Reports
<1>2. CASE Tick
  <2>1. /\ UNCHANGED <<storeVars, recoveryVars, poll, agentVars, autos, alerts>>
        /\ now < MaxTime /\ now' = now + 1
    BY <1>2 DEF Tick
  <2>2. now' \in 0..MaxTime
    BY <2>1, SettingsAssumption DEF Typed, TypeOK
  <2>3. QED
    BY <2>1, <2>2, PlainTyped DEF storeVars, agentVars, Typed, TypeOK, Reports
<1>3. ASSUME NEW s \in Servers, NEW t \in Buttons, AdminOrder(s, t) PROVE Typed'
  <2> DEFINE order == [server |-> s, type |-> t, author |-> "admin", taken |-> FALSE]
  <2>1. order \in Order
    BY SettingsAssumption DEF Order
  <2>2. /\ UNCHANGED <<watched, reported, desired, recoveryVars, poll, agentVars, historyVars, now>>
        /\ queue' = Append(queue, order)
    BY <1>3 DEF AdminOrder
  <2>3. queue' \in Seq(Order) /\ queue' # <<>> /\ (queue # <<>> => Head(queue') = Head(queue))
    BY <2>1, <2>2, QueueFacts
  <2>4. QED
    BY <2>2, <2>3, PlainTyped DEF agentVars, historyVars, Typed, TypeOK, Reports
<1>4. ASSUME NEW i \in DOMAIN queue, CancelOrder(i) PROVE Typed'
  <2>1. /\ UNCHANGED <<watched, reported, desired, recoveryVars, poll, agentVars, historyVars, now>>
        /\ queue' = RemoveAt(queue, i) /\ ~ queue[i].taken
    BY <1>4 DEF CancelOrder
  <2>2. /\ queue' \in Seq(Order)
        /\ i # 1 => queue' # <<>> /\ Head(queue') = Head(queue)
    BY <2>1, QueueFacts
  <2>3. pc \in {"exec", "verdict"} => i # 1
    <3>1. queue # <<>> => Head(queue) = queue[1]
      BY QueueFacts, HeadTailFacts
    <3>2. QED
      BY <2>1, <3>1 DEF Typed, TypeOK
  <2>4. QED
    BY <2>1, <2>2, <2>3, PlainTyped DEF agentVars, historyVars, Typed, TypeOK, Reports
<1>5. ASSUME NEW s \in Toggled, SetWatched(s) PROVE Typed'
  <2>1. watched' \subseteq Servers
    BY <1>5, SettingsAssumption DEF SetWatched, Typed, TypeOK
  <2>2. QED
    BY <1>5, <2>1, PlainTyped
       DEF SetWatched, agentVars, historyVars, Typed, TypeOK, Reports
<1>6. ASSUME NEW s \in Servers, GameCrash(s) PROVE Typed'
  <2>1. proc' \in [Servers -> BOOLEAN]
    BY <1>6 DEF GameCrash, Typed, TypeOK
  <2>2. QED
    BY <1>6, <2>1, PlainTyped
       DEF GameCrash, storeVars, historyVars, Typed, TypeOK, Reports
<1>7. QED
  BY <1>1, <1>2, <1>3, <1>4, <1>5, <1>6, HandlersTyped DEF Others

\* The type invariant holds at the start ...
LEMMA TypedInit == Init => Typed
<1> SUFFICES ASSUME Init PROVE Typed
  OBVIOUS
<1>1. PollsTyped /\ \A h \in Handlers : poll[h].at = "idle"
  BY NoPollTyped DEF Init, PollsTyped
<1>2. EpisodesTyped
  BY FS_EmptySet DEF Init, EpisodesTyped
<1>3. 0 \in 0..ConfirmPolls - 1 /\ 0 \in 0..MaxTime /\ <<>> \in Seq(Order)
  BY SettingsAssumption
<1>4. TypeOK
  BY <1>1, <1>3 DEF Init, TypeOK, PCs, Wishes
<1>5. QED
  BY <1>1, <1>2, <1>4 DEF Typed

\* ... and every step keeps it.
LEMMA TypedStep == ASSUME Typed, [Next]_vars PROVE Typed'
<1>1. CASE Handler
  BY <1>1, LookTyped, StartTyped DEF Handler, Look
<1>2. CASE UNCHANGED vars
  BY <1>2
     DEF vars, storeVars, recoveryVars, agentVars, historyVars, Typed, TypeOK, EpisodesTyped,
         PollsTyped
<1>3. QED
  BY <1>1, <1>2, AgentTyped, OthersTyped DEF Next

\* The variables keep their types, and an order being executed stays at the
\* head of the queue, whatever the registry and the settings.
THEOREM TypeCorrect == Spec => []TypeOK
<1>1. Spec => []Typed
  BY TypedInit, TypedStep, PTL DEF Spec
<1>2. Typed => TypeOK
  BY DEF Typed
<1>3. QED
  BY <1>1, <1>2, PTL

-----------------------------------------------------------------------------
(* The bound on automatic starts and the single alert *)

InWindow(s) == {a \in autos[s] : a.at > now - Window}

\* The recorded attempts are at most MaxAttempts, and every automatic start of
\* the window is among them: it was recorded before it was queued.
BoundInv ==
  \A s \in Servers :
    Cardinality(attempts[s]) =< MaxAttempts /\ InWindow(s) \subseteq attempts[s]

\* Times are numbers.
LEMMA TimeFacts ==
  ASSUME Typed, NEW s \in Servers
  PROVE  /\ now \in Nat /\ Window \in Nat
         /\ \A a \in autos[s] \union attempts[s] : a.at \in Nat
BY SettingsAssumption DEF Typed, TypeOK, EpisodesTyped, TimedAttempts

\* What a step of the handler does to the attempts keeps the bound.
LEMMA HandlerBound ==
  ASSUME Typed, BoundInv, NEW h \in Handlers, NEW s \in Servers, Look(h, s)
  PROVE  BoundInv'
<1>1. ASSUME UNCHANGED <<attempts, autos, now>> PROVE BoundInv'
  BY <1>1 DEF BoundInv, InWindow
<1>2. CASE PassOver(h, s) \/ CountUp(h, s) \/ HoldBack(h, s)
  BY <1>1, <1>2 DEF PassOver, CountUp, HoldBack, recoveryVars, historyVars
<1>3. CASE ClearHistory(h, s)
  <2>1. /\ attempts' = [attempts EXCEPT ![s] = {}] /\ autos' = [autos EXCEPT ![s] = {}]
        /\ UNCHANGED now
    BY <1>3 DEF ClearHistory
  <2>2. Cardinality({}) =< MaxAttempts
    BY FS_EmptySet, SettingsAssumption
  <2>3. QED
    BY <2>1, <2>2 DEF BoundInv, InWindow, Typed, TypeOK, EpisodesTyped
<1>4. InWindow(s) \subseteq Recent(s)
  BY DEF BoundInv, InWindow, Recent
<1>5. CASE TripBreaker(h, s)
  <2>1. attempts' = [attempts EXCEPT ![s] = Recent(s)] /\ UNCHANGED <<autos, now>>
    BY <1>5 DEF TripBreaker
  <2>2. Cardinality(Recent(s)) =< MaxAttempts
    <3>1. /\ Recent(s) \subseteq attempts[s] /\ IsFiniteSet(attempts[s])
          /\ Cardinality(attempts[s]) =< MaxAttempts
      BY AttemptFacts DEF Typed, EpisodesTyped, BoundInv
    <3>2. Cardinality(Recent(s)) =< Cardinality(attempts[s])
      BY <3>1, FS_Subset
    <3>3. Cardinality(Recent(s)) \in Nat /\ Cardinality(attempts[s]) \in Nat
      BY <3>1, FS_Subset, FS_CardinalityType
    <3>4. QED
      BY <3>1, <3>2, <3>3, SettingsAssumption
  <2>3. QED
    BY <1>4, <2>1, <2>2 DEF BoundInv, InWindow, Typed, TypeOK
<1>6. CASE AutoStart(h, s) \/ KilledBeforeOrder(h, s)
  <2> DEFINE made == Recent(s) \union {Attempt(s)}
  <2>1. /\ attempts' = [attempts EXCEPT ![s] = made] /\ ~ Exhausted(s)
        /\ UNCHANGED now
        /\ autos' \in {autos, [autos EXCEPT ![s] = @ \union {Attempt(s)}]}
    BY <1>6 DEF AutoStart, KilledBeforeOrder, RecordAttempt, historyVars
  <2>2. Cardinality(made) =< MaxAttempts
    <3>1. IsFiniteSet(Recent(s)) /\ Cardinality(Recent(s)) \in Nat
      BY AttemptFacts, FS_CardinalityType
    <3>2. Cardinality(Recent(s)) < MaxAttempts
      BY <2>1, <3>1, SettingsAssumption DEF Exhausted
    <3>a. Cardinality(made) = IF Attempt(s) \in Recent(s) THEN Cardinality(Recent(s))
                              ELSE Cardinality(Recent(s)) + 1
      BY <3>1, FS_AddElement
    <3>3. Cardinality(made) =< Cardinality(Recent(s)) + 1
      BY <3>1, <3>a
    <3>4. Cardinality(made) \in Nat
      BY AttemptFacts, FS_CardinalityType
    <3>5. QED
      BY <3>1, <3>2, <3>3, <3>4, SettingsAssumption
  <2>3. InWindow(s)' \subseteq made
    <3>1. autos'[s] \subseteq autos[s] \union {Attempt(s)}
      BY <2>1 DEF Typed, EpisodesTyped
    <3>2. QED
      BY <1>4, <2>1, <3>1 DEF InWindow
  <2>4. \A r \in Servers \ {s} : attempts'[r] = attempts[r] /\ autos'[r] = autos[r]
    BY <2>1 DEF Typed, TypeOK, EpisodesTyped
  <2>5. attempts'[s] = made
    BY <2>1 DEF Typed, TypeOK
  <2> HIDE DEF made
  <2>6. QED
    BY <2>1, <2>2, <2>3, <2>4, <2>5 DEF BoundInv, InWindow
<1>7. QED
  BY <1>2, <1>3, <1>5, <1>6 DEF Look

\* The bound is inductive: elsewhere only the clock matters, and the window
\* moves with it.
LEMMA BoundStep == ASSUME Typed, BoundInv, [Next]_vars PROVE BoundInv'
<1>1. CASE Handler
  BY <1>1, HandlerBound DEF Handler
<1>2. ASSUME UNCHANGED <<attempts, autos, now>> PROVE BoundInv'
  BY <1>2 DEF BoundInv, InWindow
<1>3. CASE Agent
  BY <1>2, <1>3
     DEF Agent, StartCycle, StartPoll, Verdict, EndCycle, Report, Execute,
         recoveryVars, historyVars
<1>4. CASE Tick
  <2>1. UNCHANGED <<attempts, autos>> /\ now' = now + 1
    BY <1>4 DEF Tick, recoveryVars
  <2>2. \A s \in Servers : InWindow(s)' \subseteq InWindow(s)
    BY <2>1, TimeFacts DEF InWindow
  <2>3. QED
    BY <2>1, <2>2 DEF BoundInv
<1>5. CASE Others /\ ~ Tick
  BY <1>2, <1>5
     DEF Others, AlertSent, Answer, GetFails, AgentCrash, BackendCrash, AdminOrder, CancelOrder, SetWatched,
         GameCrash, recoveryVars, historyVars
<1>6. CASE UNCHANGED vars
  BY <1>2, <1>6 DEF vars, recoveryVars, historyVars
<1>7. QED
  BY <1>1, <1>3, <1>4, <1>5, <1>6 DEF Next

\* No window holds more than MaxAttempts automatic starts of an episode, however
\* long the handlers are suspended and wherever the backend dies.
THEOREM StartsBounded == Spec => []AutoStartsBounded
<1>1. Init => BoundInv
  BY FS_EmptySet, SettingsAssumption DEF Init, BoundInv, InWindow
<1>2. Typed /\ BoundInv => AutoStartsBounded
  <2> SUFFICES ASSUME Typed, BoundInv, NEW s \in Servers
               PROVE  Cardinality(InWindow(s)) =< MaxAttempts
    BY DEF AutoStartsBounded, InWindow
  <2>1. /\ InWindow(s) \subseteq attempts[s] /\ IsFiniteSet(attempts[s])
        /\ Cardinality(attempts[s]) =< MaxAttempts
    BY DEF BoundInv, Typed, EpisodesTyped
  <2>2. Cardinality(InWindow(s)) =< Cardinality(attempts[s])
    BY <2>1, FS_Subset
  <2>3. Cardinality(InWindow(s)) \in Nat /\ Cardinality(attempts[s]) \in Nat
    BY <2>1, FS_Subset, FS_CardinalityType
  <2>4. QED
    BY <2>1, <2>2, <2>3, SettingsAssumption
<1>3. Spec => [](Typed /\ BoundInv)
  BY <1>1, TypedInit, TypedStep, BoundStep, PTL DEF Spec
<1>4. QED
  BY <1>2, <1>3, PTL

\* One alert an episode, and the breaker stays set for the rest of it.
THEOREM AlertOnce == Spec => []OneAlertPerEpisode
<1>1. Init => OneAlertPerEpisode
  BY DEF Init, OneAlertPerEpisode
<1>2. ASSUME Typed, OneAlertPerEpisode, [Next]_vars PROVE OneAlertPerEpisode'
  <2>0. alerts \in [Servers -> 0..2]
    BY <1>2 DEF Typed, EpisodesTyped
  <2>a. \A r \in Servers : alerts[r] =< 1 /\ (alerts[r] = 1 => r \in breaker)
    BY <1>2 DEF OneAlertPerEpisode
  <2>1. ASSUME UNCHANGED <<alerts, breaker>> PROVE OneAlertPerEpisode'
    BY <2>1, <2>a DEF OneAlertPerEpisode
  <2>2. ASSUME NEW h \in Handlers, NEW s \in Servers, ClearHistory(h, s) PROVE OneAlertPerEpisode'
    BY <2>0, <2>a, <2>2 DEF ClearHistory, OneAlertPerEpisode
  <2>3. ASSUME NEW h \in Handlers, NEW s \in Servers, TripBreaker(h, s) PROVE OneAlertPerEpisode'
    <3>1. s \notin breaker
      BY <2>3 DEF TripBreaker, Held
    <3>2. alerts[s] = 0
      BY <2>0, <2>a, <3>1
    <3>3. alerts' = [alerts EXCEPT ![s] = 1] /\ breaker' = breaker \union {s}
      BY <2>3, <3>2 DEF TripBreaker
    <3>4. QED
      BY <2>0, <2>a, <3>3 DEF OneAlertPerEpisode
  <2>4. CASE Handler
    BY <2>1, <2>2, <2>3, <2>4
       DEF Handler, Look, PassOver, CountUp, HoldBack, AutoStart, KilledBeforeOrder, RecordAttempt,
           recoveryVars, historyVars
  <2>5. CASE Agent
    BY <2>1, <2>5
       DEF Agent, StartCycle, StartPoll, Verdict, EndCycle, Report, Execute,
           recoveryVars, historyVars
  <2>6. CASE Others
    BY <2>1, <2>6
       DEF Others, AlertSent, Answer, GetFails, AgentCrash, BackendCrash, Tick, AdminOrder, CancelOrder,
           SetWatched, GameCrash, recoveryVars, historyVars
  <2>7. CASE UNCHANGED vars
    BY <2>1, <2>7 DEF vars, recoveryVars, historyVars
  <2>8. QED
    BY <1>2, <2>4, <2>5, <2>6, <2>7 DEF Next
<1>3. Spec => [](Typed /\ OneAlertPerEpisode)
  BY <1>1, <1>2, TypedInit, TypedStep, PTL DEF Spec
<1>4. QED
  BY <1>3, PTL

-----------------------------------------------------------------------------
(* How far automatic starts pile up *)

Ahead(todo, s) == \E i \in DOMAIN todo : todo[i] = s

\* The handlers that may still queue a start of the server: they have to look
\* at it, and read no order of it.
Blind(s) ==
  {h \in Handlers : /\ poll[h].at \in {"run", "alert"}
                    /\ Ahead(poll[h].todo, s) /\ s \notin poll[h].pending}

Room(s) == IF s = Registry[1] THEN 1 ELSE Cardinality(Handlers)

\* Between two awaits a handler has the event loop for itself.
OneRuns == \A g, h \in Handlers : poll[g].at = "run" /\ poll[h].at = "run" => g = h

\* The starts in the queue, with those that may still join them.
Roomy ==
  \A s \in Servers : Cardinality(AutoStartsOf(s)) + Cardinality(Blind(s)) =< Room(s)

PileInv == Typed /\ OneRuns /\ Roomy

\* These sets can be counted.
LEMMA PileCounts ==
  ASSUME Typed, NEW s \in Servers
  PROVE  /\ IsFiniteSet(AutoStartsOf(s)) /\ Cardinality(AutoStartsOf(s)) \in Nat
         /\ IsFiniteSet(Blind(s)) /\ Cardinality(Blind(s)) \in Nat
         /\ Cardinality(Blind(s)) =< Cardinality(Handlers)
         /\ Room(s) \in Nat
<1>1. IsFiniteSet(Handlers) /\ Cardinality(Handlers) \in Nat
  BY SettingsAssumption, FS_CardinalityType
<1>2. Blind(s) \subseteq Handlers
  BY DEF Blind
<1>3. queue \in Seq(Order)
  BY DEF Typed, TypeOK
<1>4. DOMAIN queue = 1..Len(queue) /\ Len(queue) \in Int
  BY <1>3
<1>5. IsFiniteSet(DOMAIN queue)
  BY <1>4, FS_Interval
<1>6. AutoStartsOf(s) \subseteq DOMAIN queue
  BY DEF AutoStartsOf
<1>7. IsFiniteSet(AutoStartsOf(s)) /\ IsFiniteSet(Blind(s))
      /\ Cardinality(Blind(s)) =< Cardinality(Handlers)
  BY <1>1, <1>2, <1>5, <1>6, FS_Subset
<1>8. QED
  BY <1>1, <1>7, FS_CardinalityType DEF Room

\* Past the first place, the first server is not met again.
LEMMA FirstNotAhead ==
  ASSUME NEW k \in 2..(Len(Registry) + 1), NEW todo \in Seq(Servers), AtPlace(todo, k)
  PROVE  ~ Ahead(todo, Registry[1])
<1> SUFFICES ASSUME NEW i \in DOMAIN todo PROVE todo[i] # Registry[1]
  BY DEF Ahead
<1>1. Len(todo) = Len(Registry) - k + 1 /\ \A j \in 1..Len(todo) : todo[j] = Registry[k + j - 1]
  BY DEF AtPlace
<1>2. Len(Registry) \in Nat /\ DOMAIN Registry = 1..Len(Registry)
  BY RegistryFacts
<1>3. i \in 1..Len(todo)
  OBVIOUS
<1>4. k + i - 1 \in DOMAIN Registry /\ 1 \in DOMAIN Registry /\ k + i - 1 # 1
  BY <1>1, <1>2, <1>3
<1>5. Registry[k + i - 1] # Registry[1]
  BY <1>4, RegistryAssumption
<1>6. QED
  BY <1>1, <1>3, <1>5

\* Of the first server at most the handler that runs is blind: one that awaits
\* an alert is past it.
LEMMA BlindFits ==
  ASSUME Typed, OneRuns, NEW s \in Servers
  PROVE  Cardinality(Blind(s)) =< Room(s)
<1>1. CASE s = Registry[1]
  <2>1. ASSUME NEW h \in Blind(s) PROVE h \in Handlers /\ poll[h].at = "run"
    <3>1. h \in Handlers /\ poll[h].at \in {"run", "alert"} /\ Ahead(poll[h].todo, s)
      BY <2>1 DEF Blind
    <3> DEFINE x == poll[h]
    <3>2. x \in PollState /\ PollTyped(x)
      BY <3>1 DEF Typed, PollsTyped
    <3>3. x.todo \in Seq(Servers)
      BY <3>2 DEF PollState
    <3>4. x.at = "alert" => ~ Ahead(x.todo, Registry[1])
      BY <3>2, <3>3, FirstNotAhead DEF PollTyped
    <3>5. QED
      BY <1>1, <3>1, <3>4
  <2>2. \A g, h \in Blind(s) : g = h
    BY <2>1 DEF OneRuns
  <2>3. CASE Blind(s) = {}
    <3>1. Cardinality(Blind(s)) = 0
      BY <2>3, FS_EmptySet
    <3>2. QED
      BY <1>1, <3>1 DEF Room
  <2>4. CASE Blind(s) # {}
    <3>1. PICK h : h \in Blind(s)
      BY <2>4
    <3>2. Blind(s) = {h}
      BY <2>2, <3>1
    <3>3. Cardinality(Blind(s)) = 1
      BY <3>2, FS_Singleton
    <3>4. QED
      BY <1>1, <3>3 DEF Room
  <2>5. QED
    BY <2>3, <2>4
<1>2. CASE s # Registry[1]
  BY <1>2, PileCounts DEF Room
<1>3. QED
  BY <1>1, <1>2

\* Nothing gets worse when no start is added and no handler goes blind.
LEMMA PileKept ==
  ASSUME PileInv, Typed', OneRuns',
         \A s \in Servers : /\ Cardinality(AutoStartsOf(s)') =< Cardinality(AutoStartsOf(s))
                            /\ Blind(s)' \subseteq Blind(s)
  PROVE  PileInv'
<1>1. Roomy'
  <2> SUFFICES ASSUME NEW s \in Servers
               PROVE  Cardinality(AutoStartsOf(s)') + Cardinality(Blind(s)') =< Room(s)
    BY DEF Roomy, Room
  <2>1. /\ Cardinality(AutoStartsOf(s)) \in Nat /\ Cardinality(Blind(s)) \in Nat
        /\ IsFiniteSet(Blind(s)) /\ Room(s) \in Nat
    BY PileCounts DEF PileInv
  <2>2. IsFiniteSet(AutoStartsOf(s)') /\ Cardinality(AutoStartsOf(s)') \in Nat
    <3>1. queue' \in Seq(Order)
      BY DEF Typed, TypeOK
    <3>2. DOMAIN queue' = 1..Len(queue') /\ Len(queue') \in Int
      BY <3>1
    <3>3. IsFiniteSet(DOMAIN queue')
      BY <3>2, FS_Interval
    <3>4. AutoStartsOf(s)' \subseteq DOMAIN queue'
      BY DEF AutoStartsOf
    <3>5. QED
      BY <3>3, <3>4, FS_Subset, FS_CardinalityType
  <2>3. Cardinality(Blind(s)') =< Cardinality(Blind(s)) /\ Cardinality(Blind(s)') \in Nat
    BY <2>1, FS_Subset, FS_CardinalityType
  <2>4. Cardinality(AutoStartsOf(s)) + Cardinality(Blind(s)) =< Room(s)
    BY DEF PileInv, Roomy
  <2>5. QED
    BY <2>1, <2>2, <2>3, <2>4
<1>2. QED
  BY <1>1 DEF PileInv

\* A queue whose orders were all in the queue before has no start more.
LEMMA FewerStarts ==
  ASSUME Typed, NEW f \in [DOMAIN queue' -> DOMAIN queue],
         \A i, j \in DOMAIN queue' : f[i] = f[j] => i = j,
         \A i \in DOMAIN queue' : /\ queue'[i].server = queue[f[i]].server
                                  /\ queue'[i].author = queue[f[i]].author
  PROVE  \A s \in Servers : Cardinality(AutoStartsOf(s)') =< Cardinality(AutoStartsOf(s))
<1> SUFFICES ASSUME NEW s \in Servers
             PROVE  Cardinality(AutoStartsOf(s)') =< Cardinality(AutoStartsOf(s))
  OBVIOUS
<1> DEFINE after == AutoStartsOf(s)'
           before == AutoStartsOf(s)
           g == [i \in after |-> f[i]]
<1>1. after \subseteq DOMAIN queue' /\ \A i \in after : f[i] \in before
  BY DEF AutoStartsOf
<1>2. IsFiniteSet(before)
  BY PileCounts
<1> HIDE DEF after, before
<1>3. g \in [after -> before] /\ \A i, j \in after : g[i] = g[j] => i = j
  BY <1>1
<1>4. g \in Injection(after, before)
  BY <1>3 DEF Injection, IsInjective
<1> HIDE DEF g
<1>5. Cardinality(after) =< Cardinality(before)
  BY <1>2, <1>4, FS_Injection
<1>6. QED
  BY <1>5 DEF after, before

\* The same orders.
LEMMA SameStarts ==
  ASSUME Typed, DOMAIN queue' = DOMAIN queue,
         \A i \in DOMAIN queue : queue'[i].server = queue[i].server
                                 /\ queue'[i].author = queue[i].author
  PROVE  \A s \in Servers : Cardinality(AutoStartsOf(s)') =< Cardinality(AutoStartsOf(s))
<1> DEFINE f == [i \in DOMAIN queue' |-> i]
<1>1. f \in [DOMAIN queue' -> DOMAIN queue] /\ \A i \in DOMAIN queue' : f[i] = i
  OBVIOUS
<1> HIDE DEF f
<1>2. QED
  BY <1>1, FewerStarts

\* An order that is cancelled.
LEMMA RemovedStarts ==
  ASSUME Typed, NEW i \in DOMAIN queue, queue' = RemoveAt(queue, i)
  PROVE  \A s \in Servers : Cardinality(AutoStartsOf(s)') =< Cardinality(AutoStartsOf(s))
<1>1. queue \in Seq(Order)
  BY DEF Typed, TypeOK
<1> DEFINE f == [j \in DOMAIN queue' |-> IF j < i THEN j ELSE j + 1]
<1>2. /\ DOMAIN queue' = 1..(Len(queue) - 1)
      /\ \A j \in DOMAIN queue' : queue'[j] = IF j < i THEN queue[j] ELSE queue[j + 1]
  BY <1>1, RemoveAtFacts
<1>3. DOMAIN queue = 1..Len(queue) /\ Len(queue) \in Nat /\ i \in 1..Len(queue)
  BY <1>1
<1>4. \A j \in DOMAIN queue' : f[j] \in DOMAIN queue /\ queue'[j] = queue[f[j]]
  BY <1>2, <1>3
<1>5. \A j, k \in DOMAIN queue' : f[j] = f[k] => j = k
  BY <1>2, <1>3
<1>6. f \in [DOMAIN queue' -> DOMAIN queue]
  BY <1>4
<1> HIDE DEF f
<1>7. QED
  BY <1>4, <1>5, <1>6, FewerStarts

\* An order that is closed by its verdict.
LEMMA ClosedStarts ==
  ASSUME Typed, queue # <<>>, queue' = Tail(queue)
  PROVE  \A s \in Servers : Cardinality(AutoStartsOf(s)') =< Cardinality(AutoStartsOf(s))
<1>1. queue \in Seq(Order)
  BY DEF Typed, TypeOK
<1>2. /\ DOMAIN queue = 1..Len(queue) /\ Len(queue) \in Nat
      /\ DOMAIN queue' = 1..(Len(queue) - 1)
      /\ \A j \in DOMAIN queue' : queue'[j] = queue[j + 1]
  BY <1>1, HeadTailFacts
<1> DEFINE f == [j \in DOMAIN queue' |-> j + 1]
<1>3. f \in [DOMAIN queue' -> DOMAIN queue] /\ \A j \in DOMAIN queue' : f[j] = j + 1
  BY <1>2
<1> HIDE DEF f
<1>4. \A j, k \in DOMAIN queue' : f[j] = f[k] => j = k
  BY <1>2, <1>3
<1>5. QED
  BY <1>2, <1>3, <1>4, FewerStarts

\* An order of the admin.
LEMMA AdminsStarts ==
  ASSUME Typed, NEW order \in Order, order.author = "admin", queue' = Append(queue, order)
  PROVE  \A s \in Servers : AutoStartsOf(s)' = AutoStartsOf(s)
<1>1. queue \in Seq(Order)
  BY DEF Typed, TypeOK
<1>2. /\ DOMAIN queue = 1..Len(queue) /\ DOMAIN queue' = 1..(Len(queue) + 1)
      /\ Len(queue) \in Nat
      /\ \A i \in DOMAIN queue : queue'[i] = queue[i]
      /\ queue'[Len(queue) + 1] = order
  BY <1>1, AppendFacts
<1>3. \A i \in DOMAIN queue' : i = Len(queue) + 1 \/ i \in DOMAIN queue
  BY <1>2
<1>4. DOMAIN queue \subseteq DOMAIN queue'
  BY <1>2
<1>5. QED
  BY <1>2, <1>3, <1>4 DEF AutoStartsOf

\* A handler that moves on, or back from its alert, goes blind to no server.
LEMMA BlindMoves ==
  ASSUME PileInv, NEW h \in Handlers, NEW x \in PollState, poll' = [poll EXCEPT ![h] = x],
         x.at \in {"run", "alert"} =>
           /\ poll[h].at \in {"run", "alert"}
           /\ \A s \in Servers : Ahead(x.todo, s) =>
                Ahead(poll[h].todo, s) /\ x.pending = poll[h].pending,
         x.at = "run" => EventLoopFree \/ poll[h].at = "run"
  PROVE  OneRuns' /\ \A s \in Servers : Blind(s)' \subseteq Blind(s)
<1>1. /\ poll'[h] = x /\ \A g \in Handlers : g # h => poll'[g] = poll[g]
  BY DEF PileInv, Typed, PollsTyped
<1>2. OneRuns'
  <2> SUFFICES ASSUME NEW g \in Handlers, NEW k \in Handlers,
                      poll'[g].at = "run", poll'[k].at = "run"
               PROVE  g = k
    BY DEF OneRuns
  <2>1. CASE g # h /\ k # h
    BY <1>1, <2>1 DEF PileInv, OneRuns
  <2>2. ASSUME NEW i \in Handlers, i # h, poll'[i].at = "run", x.at = "run" PROVE FALSE
    BY <1>1, <2>2 DEF PileInv, OneRuns, EventLoopFree
  <2>3. QED
    BY <1>1, <2>1, <2>2
<1>3. ASSUME NEW s \in Servers, NEW g \in Blind(s)' PROVE g \in Blind(s)
  <2>1. /\ g \in Handlers /\ poll'[g].at \in {"run", "alert"}
        /\ Ahead(poll'[g].todo, s) /\ s \notin poll'[g].pending
    BY <1>3 DEF Blind
  <2>2. CASE g # h
    BY <1>1, <2>1, <2>2 DEF Blind
  <2>3. CASE g = h
    BY <1>1, <2>1, <2>3 DEF Blind
  <2>4. QED
    BY <2>2, <2>3
<1>4. QED
  BY <1>2, <1>3

\* At its place the handler looks at the head of what is left, once.
LEMMA LookingFacts ==
  ASSUME Typed, NEW h \in Handlers, NEW s \in Servers, Looking(h, s)
  PROVE  /\ Ahead(poll[h].todo, s)
         /\ \A r \in Servers : Ahead(Tail(poll[h].todo), r) => r # s /\ Ahead(poll[h].todo, r)
<1> DEFINE todo == poll[h].todo
<1>1. poll[h] \in PollState /\ PollTyped(poll[h]) /\ poll[h].at = "run" /\ Head(todo) = s
  BY DEF Looking, Typed, PollsTyped
<1>2. todo \in Seq(Servers) /\ \E k \in 1..Len(Registry) : AtPlace(todo, k)
  BY <1>1 DEF PollTyped, PollState
<1> HIDE DEF todo
<1>3. PICK k \in 1..Len(Registry) : AtPlace(todo, k)
  BY <1>2
<1>4. todo # <<>>
  BY <1>2, <1>3, PlaceFacts
<1>5. Ahead(todo, s)
  BY <1>1, <1>2, <1>4, HeadTailFacts DEF Ahead
<1>6. \A i \in DOMAIN Tail(todo) :
        Tail(todo)[i] # s /\ \E j \in DOMAIN todo : todo[j] = Tail(todo)[i]
  BY <1>1, <1>2, <1>3, PlaceOnce
<1>7. \A r \in Servers : Ahead(Tail(todo), r) => r # s /\ Ahead(todo, r)
  BY <1>6 DEF Ahead
<1>8. QED
  BY <1>5, <1>7 DEF todo

\* A handler that has looked at a server has it no longer ahead.
LEMMA BlindLooks ==
  ASSUME PileInv, NEW h \in Handlers, NEW s \in Servers, Looking(h, s),
         NEW at \in {"run", "alert"}, poll' = [poll EXCEPT ![h] = Remaining(h, at)]
  PROVE  /\ OneRuns' /\ h \notin Blind(s)'
         /\ \A r \in Servers : Blind(r)' \subseteq Blind(r)
<1> DEFINE x == Remaining(h, at)
           old == poll[h]
<1>1. old \in PollState /\ PollTyped(old) /\ old.at = "run"
  BY DEF PileInv, Typed, PollsTyped, Looking
<1>2. /\ x \in PollState /\ x.at \in {at, "answer"}
      /\ x.at # "answer" =>
           x.todo = <<>> \/ (x.todo = Tail(old.todo) /\ x.pending = old.pending)
  BY <1>1, RemainingFacts
<1>3. /\ Ahead(old.todo, s)
      /\ \A r \in Servers : Ahead(Tail(old.todo), r) => r # s /\ Ahead(old.todo, r)
  BY LookingFacts DEF PileInv
<1>4. poll' = [poll EXCEPT ![h] = x] /\ old = poll[h]
  OBVIOUS
<1> HIDE DEF x
<1>5. \A r \in Servers : ~ Ahead(<<>>, r)
  BY DEF Ahead
<1>6. x.at # "answer" =>
        \A r \in Servers : Ahead(x.todo, r) =>
          r # s /\ Ahead(old.todo, r) /\ x.pending = old.pending
  BY <1>2, <1>3, <1>5
<1>7. poll'[h] = x
  BY <1>4 DEF PileInv, Typed, PollsTyped
<1>8. h \notin Blind(s)'
  <2>1. h \in Blind(s)' => x.at \in {"run", "alert"} /\ Ahead(x.todo, s)
    BY <1>7 DEF Blind
  <2>2. QED
    BY <1>6, <2>1
<1>9. OneRuns' /\ \A r \in Servers : Blind(r)' \subseteq Blind(r)
  BY <1>1, <1>2, <1>4, <1>6, BlindMoves
<1>10. QED
  BY <1>8, <1>9

\* A handler's look at one server that queues nothing.
LEMMA LookPile ==
  ASSUME PileInv, Typed', NEW h \in Handlers, NEW s \in Servers,
         \/ PassOver(h, s) \/ CountUp(h, s) \/ ClearHistory(h, s) \/ HoldBack(h, s)
         \/ TripBreaker(h, s)
  PROVE  PileInv'
<1>1. /\ Looking(h, s) /\ UNCHANGED queue
      /\ \E at \in {"run", "alert"} : poll' = [poll EXCEPT ![h] = Remaining(h, at)]
  BY DEF PassOver, CountUp, ClearHistory, HoldBack, TripBreaker, SeenUp, SeenDown,
         Advance, storeVars
<1>2. OneRuns' /\ \A r \in Servers : Blind(r)' \subseteq Blind(r)
  BY <1>1, BlindLooks
<1>3. \A r \in Servers : Cardinality(AutoStartsOf(r)') =< Cardinality(AutoStartsOf(r))
  BY <1>1, SameStarts DEF PileInv
<1>4. QED
  BY <1>2, <1>3, PileKept

\* An automatic start: one start more, one blind handler less.
LEMMA StartPile ==
  ASSUME PileInv, Typed', NEW h \in Handlers, NEW s \in Servers, AutoStart(h, s)
  PROVE  PileInv'
<1>1. /\ Looking(h, s) /\ ~ Held(h, s) /\ queue' = Append(queue, AutoStarts(s))
      /\ poll' = [poll EXCEPT ![h] = Remaining(h, "run")]
  BY DEF AutoStart, RecordAttempt, SeenDown, Advance
<1>2. /\ OneRuns' /\ h \notin Blind(s)'
      /\ \A r \in Servers : Blind(r)' \subseteq Blind(r)
  BY <1>1, BlindLooks
<1>3. h \in Blind(s)
  <2>1. Ahead(poll[h].todo, s)
    BY <1>1, LookingFacts DEF PileInv
  <2>2. QED
    BY <1>1, <2>1 DEF Looking, Held, Blind
<1>4. queue \in Seq(Order) /\ AutoStarts(s) \in Order
      /\ AutoStarts(s).server = s /\ AutoStarts(s).author = "auto"
  BY DEF PileInv, Typed, TypeOK, AutoStarts, Order
<1>5. /\ DOMAIN queue = 1..Len(queue) /\ DOMAIN queue' = 1..(Len(queue) + 1)
      /\ Len(queue) \in Nat
      /\ \A i \in DOMAIN queue : queue'[i] = queue[i]
      /\ queue'[Len(queue) + 1] = AutoStarts(s)
  BY <1>1, <1>4, AppendFacts
<1>6. \A i \in DOMAIN queue' : i = Len(queue) + 1 \/ i \in DOMAIN queue
  BY <1>5
<1>7. DOMAIN queue \subseteq DOMAIN queue' /\ Len(queue) + 1 \in DOMAIN queue'
  BY <1>5
<1>8. /\ AutoStartsOf(s)' = AutoStartsOf(s) \union {Len(queue) + 1}
      /\ \A r \in Servers : r # s => AutoStartsOf(r)' = AutoStartsOf(r)
  BY <1>4, <1>5, <1>6, <1>7 DEF AutoStartsOf
<1>9. ASSUME NEW r \in Servers
      PROVE  Cardinality(AutoStartsOf(r)') + Cardinality(Blind(r)') =< Room(r)
  <2>1. /\ Cardinality(AutoStartsOf(r)) \in Nat /\ IsFiniteSet(AutoStartsOf(r))
        /\ Cardinality(Blind(r)) \in Nat /\ IsFiniteSet(Blind(r)) /\ Room(r) \in Nat
    BY PileCounts DEF PileInv
  <2>2. Cardinality(AutoStartsOf(r)) + Cardinality(Blind(r)) =< Room(r)
    BY DEF PileInv, Roomy
  <2>3. CASE r # s
    <3>1. Cardinality(Blind(r)') =< Cardinality(Blind(r)) /\ Cardinality(Blind(r)') \in Nat
      BY <1>2, <2>1, FS_Subset, FS_CardinalityType
    <3>2. QED
      BY <1>8, <2>1, <2>2, <2>3, <3>1
  <2>4. CASE r = s
    <3> DEFINE less == Blind(s) \ {h}
    <3>1. IsFiniteSet(less) /\ Cardinality(less) = Cardinality(Blind(s)) - 1
      BY <1>3, <2>1, <2>4, FS_RemoveElement
    <3>2. Blind(s)' \subseteq less
      BY <1>2
    <3>3. Cardinality(Blind(s)') =< Cardinality(less) /\ Cardinality(Blind(s)') \in Nat
      BY <3>1, <3>2, FS_Subset, FS_CardinalityType
    <3> DEFINE more == AutoStartsOf(s) \union {Len(queue) + 1}
    <3>a. Cardinality(more) = IF Len(queue) + 1 \in AutoStartsOf(s)
                              THEN Cardinality(AutoStartsOf(s))
                              ELSE Cardinality(AutoStartsOf(s)) + 1
      BY <2>1, <2>4, FS_AddElement
    <3>4. Cardinality(AutoStartsOf(s)') \in {Cardinality(AutoStartsOf(s)),
                                             Cardinality(AutoStartsOf(s)) + 1}
      BY <1>8, <3>a
    <3> HIDE DEF less, more
    <3>5. QED
      BY <2>1, <2>2, <2>4, <3>1, <3>3, <3>4
  <2>5. QED
    BY <2>3, <2>4
<1>10. Roomy'
  BY <1>9 DEF Roomy, Room
<1>11. QED
  BY <1>2, <1>10 DEF PileInv

\* A handler that starts reads the orders: it is blind only to servers that
\* have none.
LEMMA PollPile ==
  ASSUME PileInv, Typed', NEW h \in Handlers, StartPoll(h)
  PROVE  PileInv'
<1>1. PICK x \in PollState :
        /\ poll' = [poll EXCEPT ![h] = x] /\ x.at = "run"
        /\ x.pending = {queue[i].server : i \in DOMAIN queue}
  BY StartPollFacts DEF PileInv
<1>2. EventLoopFree /\ UNCHANGED queue
  BY DEF StartPoll, storeVars
<1>3. /\ poll'[h] = x /\ \A g \in Handlers : g # h => poll'[g] = poll[g]
  BY <1>1 DEF PileInv, Typed, PollsTyped
<1>4. OneRuns'
  BY <1>2, <1>3 DEF OneRuns, EventLoopFree
<1>5. ASSUME NEW s \in Servers
      PROVE  Cardinality(AutoStartsOf(s)') + Cardinality(Blind(s)') =< Room(s)
  <2>1. AutoStartsOf(s)' = AutoStartsOf(s)
    BY <1>2 DEF AutoStartsOf
  <2>2. /\ Cardinality(AutoStartsOf(s)) \in Nat /\ Cardinality(Blind(s)) \in Nat
        /\ IsFiniteSet(Blind(s)) /\ Room(s) \in Nat
        /\ Cardinality(AutoStartsOf(s)) + Cardinality(Blind(s)) =< Room(s)
    BY PileCounts DEF PileInv, Roomy
  <2>3. CASE AutoStartsOf(s) = {}
    <3>1. Cardinality(Blind(s)') =< Room(s) /\ Cardinality(Blind(s)') \in Nat
      <4>1. (Typed /\ OneRuns /\ s \in Servers
               => Cardinality(Blind(s)) =< Room(s) /\ Cardinality(Blind(s)) \in Nat)'
        BY BlindFits, PileCounts, PTL
      <4>2. QED
        BY <1>4, <4>1 DEF Room
    <3>2. Cardinality(AutoStartsOf(s)') = 0
      BY <2>1, <2>3, FS_EmptySet
    <3>3. QED
      BY <2>2, <3>1, <3>2
  <2>4. CASE AutoStartsOf(s) # {}
    <3>1. s \in x.pending
      BY <1>1, <2>4 DEF AutoStartsOf
    <3>2. Blind(s)' \subseteq Blind(s)
      BY <1>3, <3>1 DEF Blind
    <3>3. Cardinality(Blind(s)') =< Cardinality(Blind(s)) /\ Cardinality(Blind(s)') \in Nat
      BY <2>2, <3>2, FS_Subset, FS_CardinalityType
    <3>4. QED
      BY <2>1, <2>2, <3>3
  <2>5. QED
    BY <2>3, <2>4
<1>6. Roomy'
  BY <1>5 DEF Roomy, Room
<1>7. QED
  BY <1>4, <1>6 DEF PileInv

\* The invariant is inductive.
LEMMA PileStep == ASSUME PileInv, [Next]_vars PROVE PileInv'
<1>0. Typed'
  BY TypedStep DEF PileInv
<1>1. ASSUME UNCHANGED queue
      PROVE  \A s \in Servers : Cardinality(AutoStartsOf(s)') =< Cardinality(AutoStartsOf(s))
  BY <1>1, SameStarts DEF PileInv
<1>2. ASSUME UNCHANGED poll,
             \A s \in Servers : Cardinality(AutoStartsOf(s)') =< Cardinality(AutoStartsOf(s))
      PROVE  PileInv'
  <2>1. OneRuns' /\ \A s \in Servers : Blind(s)' \subseteq Blind(s)
    BY <1>2 DEF OneRuns, Blind, PileInv
  <2>2. QED
    BY <1>0, <1>2, <2>1, PileKept
<1>3. ASSUME HandlersLost, UNCHANGED queue PROVE PileInv'
  <2>1. \A h \in Handlers : poll'[h].at = "idle"
    BY <1>3, LostTyped
  <2>2. OneRuns' /\ \A s \in Servers : Blind(s)' \subseteq Blind(s)
    BY <2>1 DEF OneRuns, Blind
  <2>3. QED
    BY <1>0, <1>1, <1>3, <2>2, PileKept
<1>4. CASE Handler
  <2>1. ASSUME NEW h \in Handlers, NEW s \in Servers, KilledBeforeOrder(h, s) PROVE PileInv'
    BY <1>3, <2>1 DEF KilledBeforeOrder, storeVars
  <2>2. QED
    BY <1>0, <1>4, <2>1, LookPile, StartPile DEF Handler, Look
<1>5. CASE Agent
  <2>1. ASSUME NEW h \in Handlers, StartPoll(h) PROVE PileInv'
    BY <1>0, <2>1, PollPile
  <2>2. CASE Verdict
    <3>1. queue # <<>> /\ queue' = Tail(queue) /\ UNCHANGED poll
      BY <2>2 DEF Verdict, PileInv, Typed, TypeOK
    <3>2. QED
      BY <1>2, <3>1, ClosedStarts DEF PileInv
  <2>3. QED
    BY <1>1, <1>2, <1>5, <2>1, <2>2
       DEF Agent, StartCycle, EndCycle, Report, Execute, storeVars
<1>6. CASE Others
  <2>1. ASSUME NEW h \in Handlers, AlertSent(h) PROVE PileInv'
    <3>1. PICK x \in PollState :
            /\ poll' = [poll EXCEPT ![h] = x] /\ poll[h].at = "alert"
            /\ x.at \in {"run", "answer"}
            /\ x.todo = poll[h].todo /\ x.pending = poll[h].pending
      BY <2>1, AlertSentFacts DEF PileInv, Typed
    <3>2. EventLoopFree /\ UNCHANGED queue
      BY <2>1 DEF AlertSent, storeVars
    <3>3. OneRuns' /\ \A s \in Servers : Blind(s)' \subseteq Blind(s)
      BY <3>1, <3>2, BlindMoves
    <3>4. QED
      BY <1>0, <1>1, <3>2, <3>3, PileKept
  <2>2. ASSUME NEW h \in Handlers, Answer(h) PROVE PileInv'
    <3>1. \A s \in Servers : Cardinality(AutoStartsOf(s)') =< Cardinality(AutoStartsOf(s))
      BY <2>2, AnswerTyped, SameStarts DEF PileInv
    <3>2. poll' = [poll EXCEPT ![h] = NoPoll]
      BY <2>2 DEF Answer
    <3>3. OneRuns' /\ \A s \in Servers : Blind(s)' \subseteq Blind(s)
      BY <3>2, NoPollTyped, BlindMoves
    <3>4. QED
      BY <1>0, <3>1, <3>3, PileKept
  <2>3. CASE BackendCrash
    BY <1>3, <2>3 DEF BackendCrash, storeVars
  <2>4. ASSUME NEW i \in DOMAIN queue, CancelOrder(i) PROVE PileInv'
    BY <1>2, <2>4, RemovedStarts DEF CancelOrder, PileInv
  <2>5. ASSUME NEW s \in Servers, NEW t \in Buttons, AdminOrder(s, t) PROVE PileInv'
    <3> DEFINE order == [server |-> s, type |-> t, author |-> "admin", taken |-> FALSE]
    <3>1. order \in Order /\ order.author = "admin"
      BY SettingsAssumption DEF Order
    <3>2. queue' = Append(queue, order) /\ UNCHANGED poll
      BY <2>5 DEF AdminOrder
    <3> HIDE DEF order
    <3>3. \A r \in Servers : AutoStartsOf(r)' = AutoStartsOf(r)
      BY <3>1, <3>2, AdminsStarts DEF PileInv
    <3>4. \A r \in Servers : Cardinality(AutoStartsOf(r)') =< Cardinality(AutoStartsOf(r))
      BY <3>3, PileCounts DEF PileInv
    <3>5. QED
      BY <1>2, <3>2, <3>4
  <2>6. QED
    BY <1>1, <1>2, <1>6, <2>1, <2>2, <2>3, <2>4, <2>5
       DEF Others, GetFails, AgentCrash, Tick, SetWatched, GameCrash, storeVars
<1>7. CASE UNCHANGED vars
  BY <1>1, <1>2, <1>7 DEF vars, storeVars
<1>8. QED
  BY <1>4, <1>5, <1>6, <1>7 DEF Next

\* However many handlers overlap, and wherever they are suspended on an alert,
\* the automatic starts of a server in the queue are at most as many as the
\* handlers in flight at a time, and those of the first server at most one.
THEOREM PileUpIsBounded == Spec => []PileUpBounded
<1>1. Init => PileInv
  <2> SUFFICES ASSUME Init PROVE PileInv
    OBVIOUS
  <2>1. \A h \in Handlers : poll[h].at = "idle"
    BY NoPollTyped DEF Init
  <2>2. ASSUME NEW s \in Servers PROVE AutoStartsOf(s) = {} /\ Blind(s) = {}
    BY <2>1 DEF Init, AutoStartsOf, Blind
  <2>3. Typed /\ OneRuns
    BY <2>1, TypedInit DEF OneRuns
  <2>4. ASSUME NEW s \in Servers
        PROVE  Cardinality(AutoStartsOf(s)) + Cardinality(Blind(s)) =< Room(s)
    <3>1. Cardinality(AutoStartsOf(s)) = 0 /\ Cardinality(Blind(s)) =< Room(s)
      BY <2>2, <2>3, FS_EmptySet, BlindFits
    <3>2. Cardinality(Blind(s)) \in Nat /\ Room(s) \in Nat
      BY <2>3, PileCounts
    <3>3. QED
      BY <3>1, <3>2
  <2>5. QED
    BY <2>3, <2>4 DEF PileInv, Roomy
<1>2. PileInv => PileUpBounded
  <2> SUFFICES ASSUME PileInv, NEW s \in Servers
               PROVE  Cardinality(AutoStartsOf(s)) =< Room(s)
    BY DEF PileUpBounded, Room
  <2>1. /\ Cardinality(AutoStartsOf(s)) \in Nat /\ Cardinality(Blind(s)) \in Nat
        /\ Room(s) \in Nat /\ Cardinality(AutoStartsOf(s)) + Cardinality(Blind(s)) =< Room(s)
    BY PileCounts DEF PileInv, Roomy
  <2>2. QED
    BY <2>1
<1>3. Spec => []PileInv
  BY <1>1, PileStep, PTL DEF Spec
<1>4. QED
  BY <1>2, <1>3, PTL

-----------------------------------------------------------------------------
(* The first server's stop is respected *)

AtFirst(h) == poll[h].at = "run" /\ Head(poll[h].todo) = Registry[1]

\* What a handler read is still so when it looks at the first server: it has
\* the event loop, and has left it to nobody.
Fresh ==
  /\ OneRuns
  /\ \A h \in Handlers : AtFirst(h) =>
       /\ poll[h].desired = desired
       /\ poll[h].pending = {queue[i].server : i \in DOMAIN queue}

\* Past the first place, the first server is not looked at.
LEMMA PastFirst ==
  ASSUME NEW todo \in Seq(Servers), NEW j \in 1..Len(Registry), AtPlace(todo, j),
         NEW k \in 2..(Len(Registry) + 1), AtPlace(todo, k)
  PROVE  Head(todo) # Registry[1]
<1>1. j = k
  <2>1. Len(todo) = Len(Registry) - j + 1 /\ Len(todo) = Len(Registry) - k + 1
    BY DEF AtPlace
  <2>2. QED
    BY <2>1, RegistryFacts
<1>2. Head(todo) = Registry[j]
  BY PlaceFacts
<1>3. j \in DOMAIN Registry /\ 1 \in DOMAIN Registry /\ j # 1
  BY <1>1, RegistryFacts
<1>4. QED
  BY <1>2, <1>3, RegistryAssumption

\* A handler that goes on, or is back, has the first server behind it.
LEMMA FreshMoves ==
  ASSUME Typed, Fresh, NEW h \in Handlers, NEW x \in PollState, PollTyped(x),
         poll' = [poll EXCEPT ![h] = x],
         EventLoopFree \/ poll[h].at = "run",
         x.at = "run" => \E k \in 2..(Len(Registry) + 1) : AtPlace(x.todo, k)
  PROVE  Fresh'
<1>1. /\ poll'[h] = x /\ \A g \in Handlers : g # h => poll'[g] = poll[g]
  BY DEF Typed, PollsTyped
<1>2. \A g \in Handlers : g # h => poll'[g].at # "run"
  BY <1>1 DEF Fresh, OneRuns, EventLoopFree
<1>3. OneRuns'
  BY <1>2 DEF OneRuns
<1>4. ~ AtFirst(h)'
  <2> SUFFICES ASSUME x.at = "run" PROVE Head(x.todo) # Registry[1]
    BY <1>1 DEF AtFirst
  <2>1. x.todo \in Seq(Servers)
    BY DEF PollState
  <2>2. QED
    BY <2>1, PastFirst DEF PollTyped
<1>5. \A g \in Handlers : ~ AtFirst(g)'
  BY <1>2, <1>4 DEF AtFirst
<1>6. QED
  BY <1>3, <1>5 DEF Fresh

\* What was read stays fresh: until the handler has looked at the first server
\* it is not suspended.
LEMMA FreshStep == ASSUME Typed, Fresh, [Next]_vars PROVE Fresh'
<1>1. ASSUME \A h \in Handlers : poll'[h].at # "run" PROVE Fresh'
  BY <1>1 DEF Fresh, OneRuns, AtFirst
<1>2. ASSUME NEW h \in Handlers, NEW s \in Servers, Look(h, s) PROVE Fresh'
  <2>1. CASE KilledBeforeOrder(h, s)
    BY <1>1, <2>1, LostTyped DEF KilledBeforeOrder
  <2>2. CASE ~ KilledBeforeOrder(h, s)
    <3>1. /\ poll[h].at = "run"
          /\ \E at \in {"run", "alert"} : poll' = [poll EXCEPT ![h] = Remaining(h, at)]
      BY <1>2, <2>2
         DEF Look, PassOver, CountUp, ClearHistory, HoldBack, TripBreaker, AutoStart,
             RecordAttempt, SeenUp, SeenDown, Looking, Advance
    <3>2. PICK at \in {"run", "alert"} : poll' = [poll EXCEPT ![h] = Remaining(h, at)]
      BY <3>1
    <3> DEFINE x == Remaining(h, at)
    <3>3. /\ x \in PollState /\ PollTyped(x)
          /\ x.at = "run" => \E k \in 2..(Len(Registry) + 1) : AtPlace(x.todo, k)
      BY <3>1, RemainingFacts DEF Typed, PollsTyped
    <3>4. poll' = [poll EXCEPT ![h] = x]
      BY <3>2
    <3> HIDE DEF x
    <3>5. QED
      BY <3>1, <3>3, <3>4, FreshMoves
  <2>3. QED
    BY <2>1, <2>2
<1>3. ASSUME EventLoopFree, UNCHANGED poll PROVE Fresh'
  BY <1>1, <1>3 DEF EventLoopFree
<1>4. ASSUME NEW h \in Handlers, StartPoll(h) PROVE Fresh'
  <2>1. PICK x \in PollState :
          /\ poll' = [poll EXCEPT ![h] = x] /\ x.desired = desired
          /\ x.pending = {queue[i].server : i \in DOMAIN queue}
    BY <1>4, StartPollFacts
  <2>2. EventLoopFree /\ UNCHANGED <<queue, desired>>
    BY <1>4 DEF StartPoll, storeVars
  <2>3. /\ poll'[h] = x /\ \A g \in Handlers : g # h => poll'[g].at # "run"
    BY <2>1, <2>2 DEF EventLoopFree, Typed, PollsTyped
  <2>4. OneRuns'
    BY <2>3 DEF OneRuns
  <2>5. QED
    BY <2>1, <2>2, <2>3, <2>4 DEF Fresh, AtFirst
<1>5. ASSUME NEW h \in Handlers, AlertSent(h) PROVE Fresh'
  <2>1. EventLoopFree
    BY <1>5 DEF AlertSent
  <2>2. PICK x \in PollState :
          /\ poll' = [poll EXCEPT ![h] = x] /\ PollTyped(x)
          /\ \E k \in 2..(Len(Registry) + 1) : AtPlace(x.todo, k)
    BY <1>5, AlertSentFacts DEF Typed
  <2>3. QED
    BY <2>1, <2>2, FreshMoves
<1>6. ASSUME NEW h \in Handlers, Answer(h) PROVE Fresh'
  <2>1. EventLoopFree /\ poll' = [poll EXCEPT ![h] = NoPoll]
    BY <1>6 DEF Answer
  <2>2. QED
    BY <2>1, NoPollTyped, FreshMoves
<1>7. CASE BackendCrash
  BY <1>1, <1>7, LostTyped DEF BackendCrash
<1>8. CASE Agent
  BY <1>3, <1>4, <1>8 DEF Agent, StartCycle, Verdict, EndCycle, Report, Execute
<1>9. CASE Others
  BY <1>3, <1>5, <1>6, <1>7, <1>9
     DEF Others, GetFails, AgentCrash, Tick, AdminOrder, CancelOrder, SetWatched, GameCrash
<1>10. CASE UNCHANGED vars
  BY <1>10 DEF Fresh, OneRuns, AtFirst, vars, storeVars
<1>11. QED
  BY <1>2, <1>8, <1>9, <1>10 DEF Next, Handler

\* Two orders added to the same queue that give the same queue are the same.
LEMMA SameAppend ==
  ASSUME Typed, NEW e \in Order, NEW f \in Order, Append(queue, e) = Append(queue, f)
  PROVE  e = f
<1>1. queue \in Seq(Order)
  BY DEF Typed, TypeOK
<1>2. Append(queue, e)[Len(queue) + 1] = e /\ Append(queue, f)[Len(queue) + 1] = f
  BY <1>1, AppendFacts
<1>3. QED
  BY <1>2

\* The only step that adds an automatic start is the decision of the handler.
LEMMA OnlyAutoStartQueues ==
  ASSUME Typed, [Next]_vars, NEW s \in Servers, AutoQueued(s)
  PROVE  \E h \in Handlers : AutoStart(h, s)
<1>1. queue \in Seq(Order) /\ AutoStarts(s) \in Order
  BY DEF Typed, TypeOK, AutoStarts, Order
<1>2. /\ DOMAIN queue = 1..Len(queue) /\ Len(queue) \in Nat
      /\ DOMAIN queue' = 1..(Len(queue) + 1)
  BY <1>1, AppendFacts DEF AutoQueued
<1>3. DOMAIN queue' # DOMAIN queue
  <2>1. Len(queue) + 1 \in 1..(Len(queue) + 1) /\ Len(queue) + 1 \notin 1..Len(queue)
    BY <1>2
  <2>2. QED
    BY <1>2, <2>1
<1>4. ASSUME NEW h \in Handlers, NEW r \in Servers, AutoStart(h, r) PROVE AutoStart(h, s)
  <2>1. AutoStarts(r) \in Order /\ queue' = Append(queue, AutoStarts(r))
    BY <1>4 DEF AutoStart, AutoStarts, Order
  <2>2. AutoStarts(r) = AutoStarts(s)
    BY <1>1, <2>1, SameAppend DEF AutoQueued
  <2>3. r = s
    BY <2>2 DEF AutoStarts
  <2>4. QED
    BY <1>4, <2>3
<1>5. ASSUME NEW r \in Servers, NEW t \in Buttons, AdminOrder(r, t) PROVE FALSE
  <2> DEFINE order == [server |-> r, type |-> t, author |-> "admin", taken |-> FALSE]
  <2>1. order \in Order /\ queue' = Append(queue, order)
    BY <1>5, SettingsAssumption DEF AdminOrder, Order
  <2>2. order = AutoStarts(s)
    BY <1>1, <2>1, SameAppend DEF AutoQueued
  <2>3. QED
    BY <2>2 DEF AutoStarts
<1>6. ASSUME NEW i \in DOMAIN queue, CancelOrder(i) PROVE FALSE
  <2>1. DOMAIN queue' = 1..(Len(queue) - 1)
    BY <1>1, <1>6, RemoveAtFacts DEF CancelOrder
  <2>2. QED
    BY <1>2, <2>1
<1>7. ASSUME Verdict PROVE FALSE
  <2>1. queue # <<>> /\ queue' = Tail(queue)
    BY <1>7 DEF Verdict, Typed, TypeOK
  <2>2. DOMAIN queue' = 1..(Len(queue) - 1)
    BY <1>1, <2>1, HeadTailFacts
  <2>3. QED
    BY <1>2, <2>2
<1>8. ~ Agent
  BY <1>3, <1>7
     DEF Agent, StartCycle, StartPoll, EndCycle, Report, Execute, storeVars
<1>9. ~ Others
  BY <1>3, <1>5, <1>6, AnswerTyped
     DEF Others, AlertSent, GetFails, AgentCrash, BackendCrash, Tick, SetWatched, GameCrash, storeVars
<1>10. CASE Handler
  BY <1>3, <1>4, <1>10
     DEF Handler, Look, PassOver, CountUp, ClearHistory, HoldBack, TripBreaker, KilledBeforeOrder,
         storeVars
<1>11. QED
  BY <1>3, <1>8, <1>9, <1>10 DEF Next, vars, storeVars

\* The handler is not suspended before it looks at the first server of the
\* registry: that one is not restarted against a stop, whoever sends it and when.
THEOREM FirstStopHeeded == Spec => FirstStopRespected
<1>1. Init => Fresh
  BY NoPollTyped DEF Init, Fresh, OneRuns, AtFirst
<1>2. ASSUME Typed, Fresh, [Next]_vars, AutoQueued(Registry[1])
      PROVE  ~ StopWanted(Registry[1])
  <2> DEFINE first == Registry[1]
  <2>1. first \in Servers
    BY RegistryFacts
  <2>2. PICK h \in Handlers : AutoStart(h, first)
    BY <1>2, <2>1, OnlyAutoStartQueues
  <2>3. AtFirst(h) /\ ~ Held(h, first)
    BY <2>2 DEF AutoStart, RecordAttempt, SeenDown, Looking, AtFirst
  <2>4. /\ poll[h].desired = desired
        /\ poll[h].pending = {queue[i].server : i \in DOMAIN queue}
    BY <1>2, <2>3 DEF Fresh
  <2>5. desired[first] # "stopped" /\ first \notin poll[h].pending
    BY <2>3, <2>4 DEF Held
  <2>6. QED
    BY <2>4, <2>5 DEF StopWanted
<1>3. Typed /\ Fresh /\ [Next]_vars =>
        [AutoQueued(Registry[1]) => ~ StopWanted(Registry[1])]_vars
  BY <1>2
<1>4. QED
  BY <1>1, <1>3, TypedInit, TypedStep, FreshStep, PTL DEF Spec, FirstStopRespected
=============================================================================
