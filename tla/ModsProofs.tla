----------------------------- MODULE ModsProofs -----------------------------
(***************************************************************************)
(* Proofs about Mods, for any mods, requests in flight and bounds.         *)
(***************************************************************************)
EXTENDS Mods, FiniteSetTheorems, SequenceTheorems, TLAPS

-----------------------------------------------------------------------------
(* Sequences                                                               *)

\* Adding one element at the end keeps the others in their places.
LEMMA AppendFacts ==
  ASSUME NEW S, NEW q \in Seq(S), NEW e \in S
  PROVE  /\ Append(q, e) \in Seq(S)
         /\ Len(q) \in Nat /\ DOMAIN q = 1..Len(q)
         /\ DOMAIN Append(q, e) = 1..(Len(q) + 1)
         /\ \A j \in DOMAIN q : Append(q, e)[j] = q[j]
         /\ Append(q, e)[Len(q) + 1] = e
OBVIOUS

\* Removing one element keeps the others, in their order.
LEMMA RemoveAtFacts ==
  ASSUME NEW S, NEW q \in Seq(S), NEW i \in DOMAIN q
  PROVE  /\ RemoveAt(q, i) \in Seq(S)
         /\ DOMAIN RemoveAt(q, i) = 1..(Len(q) - 1)
         /\ \A j \in DOMAIN RemoveAt(q, i) :
              RemoveAt(q, i)[j] = IF j < i THEN q[j] ELSE q[j + 1]
<1> DEFINE front == SubSeq(q, 1, i - 1)
           back  == SubSeq(q, i + 1, Len(q))
<1>1. front \in Seq(S) /\ Len(front) = i - 1 /\ \A j \in 1..(i - 1) : front[j] = q[j]
  OBVIOUS
<1>2. /\ back \in Seq(S) /\ Len(back) = Len(q) - i
      /\ \A j \in 1..(Len(q) - i) : back[j] = q[i + j]
  OBVIOUS
<1> DEFINE rest == front \o back
<1>3. RemoveAt(q, i) = rest
  BY DEF RemoveAt
<1> HIDE DEF front, back
<1>4. /\ rest \in Seq(S) /\ Len(rest) = Len(q) - 1
      /\ \A j \in 1..(Len(q) - 1) :
           rest[j] = IF j < i THEN front[j] ELSE back[j - (i - 1)]
  <2>1. Len(front) + Len(back) = Len(q) - 1 /\ Len(q) \in Nat /\ i \in Nat
    BY <1>1, <1>2
  <2>2. /\ rest \in Seq(S) /\ Len(rest) = Len(front) + Len(back)
        /\ \A j \in 1..(Len(front) + Len(back)) :
             rest[j] = IF j <= Len(front) THEN front[j] ELSE back[j - Len(front)]
    BY <1>1, <1>2, ConcatProperties
  <2> HIDE DEF rest
  <2>3. QED
    BY <1>1, <2>1, <2>2
<1> HIDE DEF rest
<1>5. ASSUME NEW j \in 1..(Len(q) - 1)
      PROVE  rest[j] = IF j < i THEN q[j] ELSE q[j + 1]
  <2>1. CASE j < i
    BY <2>1, <1>1, <1>4
  <2>2. CASE ~ (j < i)
    <3>1. j - (i - 1) \in 1..(Len(q) - i) /\ i + (j - (i - 1)) = j + 1
      BY <2>2
    <3>2. rest[j] = back[j - (i - 1)]
      BY <2>2, <1>4
    <3>3. QED
      BY <2>2, <3>1, <3>2, <1>2
  <2>3. QED
    BY <2>1, <2>2
<1>6. DOMAIN rest = 1..(Len(q) - 1)
  BY <1>4
<1>7. QED
  BY <1>3, <1>4, <1>5, <1>6

\* A set as a sequence: one place for each of its elements.
LEMMA SetToSeqFacts ==
  ASSUME NEW S, IsFiniteSet(S)
  PROVE  /\ SetToSeq(S) \in [1..Cardinality(S) -> S]
         /\ \A a, b \in 1..Cardinality(S) : SetToSeq(S)[a] = SetToSeq(S)[b] => a = b
<1>1. PICK f \in [1..Cardinality(S) -> S] : IsInjective(f)
  BY FS_CardinalityType DEF ExistsBijection, Bijection, Injection
<1>2. SetToSeq(S) \in [1..Cardinality(S) -> S] /\ IsInjective(SetToSeq(S))
  BY <1>1 DEF SetToSeq
<1>3. QED
  BY <1>2 DEF IsInjective

-----------------------------------------------------------------------------
(* The orders of a batch                                                   *)

\* An order to install or to remove names a mod.
Named(o) == IF o.type = "restart" THEN o.wid = NoWid ELSE o.wid \in Wids

\* What is added to the queue: orders numbered from made + 1.
Numbered(new) ==
  /\ new \in Seq(Orders)
  /\ \A k \in DOMAIN new : new[k].id = made + k /\ Named(new[k])

LEMMA InstallsFacts ==
  ASSUME NEW ws, IsFiniteSet(ws), NEW author, made \in Nat
  PROVE  /\ DOMAIN Installs(ws, author) = 1..Cardinality(ws) /\ Cardinality(ws) \in Nat
         /\ \A k \in 1..Cardinality(ws) :
              Installs(ws, author)[k] = [id |-> made + k, type |-> "install_mod",
                wid |-> SetToSeq(ws)[k], author |-> author, status |-> "pending"]
         /\ \A k \in 1..Cardinality(ws) : Installs(ws, author)[k].wid \in ws
         /\ \A k, l \in 1..Cardinality(ws) :
              Installs(ws, author)[k].wid = Installs(ws, author)[l].wid => k = l
<1>1. /\ SetToSeq(ws) \in [1..Cardinality(ws) -> ws] /\ Cardinality(ws) \in Nat
      /\ \A a, b \in 1..Cardinality(ws) : SetToSeq(ws)[a] = SetToSeq(ws)[b] => a = b
  BY SetToSeqFacts, FS_CardinalityType
<1>2. Installs(ws, author) = [k \in 1..Cardinality(ws) |->
        [id |-> made + k, type |-> "install_mod", wid |-> SetToSeq(ws)[k],
         author |-> author, status |-> "pending"]]
  BY <1>1 DEF Installs
<1>3. QED
  BY <1>1, <1>2

\* A batch: an install of each mod, then the restart, if any.
LEMMA BatchFacts ==
  ASSUME NEW ws \in SUBSET Wids, NEW author \in {"auto", "admin"}, made \in Nat,
         made + Len(Batch(ws, author)) <= MaxOrders
  PROVE  LET b == Batch(ws, author) IN
         /\ Numbered(b) /\ \A k \in DOMAIN b : b[k].author = author
         /\ \A k \in DOMAIN b : b[k].type = "install_mod" => b[k].wid \in ws
         /\ \A k \in DOMAIN b : b[k].type \in {"install_mod", "restart"}
         /\ \A k, l \in DOMAIN b : b[k].type = "install_mod" /\ b[l].type = "install_mod"
                                     /\ b[k].wid = b[l].wid => k = l
         /\ NeedsRestart => \E l \in DOMAIN b : /\ b[l].type = "restart"
              /\ \A k \in DOMAIN b : b[k].type = "install_mod" => k < l
<1> DEFINE b == Batch(ws, author)
           n == Cardinality(ws)
           installs == Installs(ws, author)
           last == Restart(made + n + 1, author)
           end == IF NeedsRestart THEN <<last>> ELSE <<>>
           anywhere == [id : Int, type : {"install_mod", "remove_mod", "restart"},
                        wid : Wids \union {NoWid}, author : {"auto", "admin"},
                        status : {"pending", "running"}]
<1>1. IsFiniteSet(ws)
  BY BoundsAssumption, FS_Subset
<1>2. /\ n \in Nat /\ DOMAIN installs = 1..n
      /\ \A k \in 1..n : installs[k] = [id |-> made + k, type |-> "install_mod",
            wid |-> SetToSeq(ws)[k], author |-> author, status |-> "pending"]
      /\ \A k \in 1..n : installs[k].wid \in ws
      /\ \A k, l \in 1..n : installs[k].wid = installs[l].wid => k = l
  BY <1>1, InstallsFacts
<1>3. installs \in Seq(anywhere) /\ Len(installs) = n
  <2>1. \A k \in 1..n : installs[k] \in anywhere
    BY <1>2
  <2>2. installs = [k \in 1..n |-> installs[k]]
    BY <1>2 DEF Installs
  <2> HIDE DEF installs, anywhere
  <2>3. QED
    BY <1>2, <2>1, <2>2
<1>4. last \in anywhere
  BY <1>2 DEF Restart
<1>5. b = installs \o end /\ end \in Seq(anywhere)
  <2>1. b = installs \o end
    BY DEF Batch
  <2> HIDE DEF last, anywhere
  <2>2. <<last>> \in Seq(anywhere) /\ <<>> \in Seq(anywhere)
    BY <1>4
  <2>3. QED
    BY <2>1, <2>2
<1>6. Len(end) = (IF NeedsRestart THEN 1 ELSE 0) /\ (NeedsRestart => end[1] = last)
  OBVIOUS
<1> HIDE DEF b, n, installs, end, anywhere
<1>7. /\ b \in Seq(anywhere) /\ DOMAIN b = 1..Len(b)
      /\ Len(b) = n + (IF NeedsRestart THEN 1 ELSE 0)
      /\ \A k \in 1..n : b[k] = installs[k]
      /\ NeedsRestart => b[n + 1] = last
  <2>1. /\ b \in Seq(anywhere) /\ Len(b) = Len(installs) + Len(end)
        /\ \A k \in 1..(Len(installs) + Len(end)) :
             b[k] = IF k <= Len(installs) THEN installs[k] ELSE end[k - Len(installs)]
    BY <1>3, <1>5, ConcatProperties
  <2>2. QED
    BY <2>1, <1>2, <1>3, <1>6
<1>8. \A k \in DOMAIN b : k \in 1..n \/ (NeedsRestart /\ k = n + 1)
  BY <1>2, <1>7
<1>9. \A k \in DOMAIN b : b[k].id = made + k /\ Named(b[k]) /\ b[k].author = author
  <2>1. ASSUME NEW k \in 1..n
        PROVE  b[k].id = made + k /\ Named(b[k]) /\ b[k].author = author
    <3>1. b[k] = [id |-> made + k, type |-> "install_mod", wid |-> SetToSeq(ws)[k],
                  author |-> author, status |-> "pending"] /\ b[k].wid \in ws
      BY <1>2, <1>7
    <3>2. QED
      BY <3>1 DEF Named
  <2>2. ASSUME NeedsRestart
        PROVE  /\ b[n + 1].id = made + (n + 1) /\ Named(b[n + 1])
               /\ b[n + 1].author = author
    <3>1. b[n + 1] = [id |-> made + n + 1, type |-> "restart", wid |-> NoWid,
                      author |-> author, status |-> "pending"]
      BY <1>7, <2>2 DEF Restart, last
    <3>2. QED
      BY <1>2, <3>1 DEF Named
  <2>3. QED
    BY <1>8, <2>1, <2>2
<1>10. b \in Seq(Orders)
  <2>1. made + Len(b) <= MaxOrders
    BY DEF b
  <2>2. \A k \in 1..Len(b) : b[k] \in Orders
    <3>1. SUFFICES ASSUME NEW k \in 1..Len(b) PROVE b[k] \in Orders
      OBVIOUS
    <3>2. b[k] \in anywhere /\ b[k].id = made + k
      BY <1>7, <1>9
    <3>3. b[k].id \in 0..MaxOrders
      BY <2>1, <3>2, <1>7, <1>2, BoundsAssumption
    <3>4. QED
      BY <3>2, <3>3 DEF anywhere, Orders
  <2>3. Len(b) \in Nat /\ b = [k \in 1..Len(b) |-> b[k]]
    BY <1>7
  <2>4. QED
    BY <2>2, <2>3
<1>11. \A k \in DOMAIN b : /\ k \in 1..n => b[k].type = "install_mod" /\ b[k].wid \in ws
                           /\ k = n + 1 => b[k].type = "restart"
  BY <1>2, <1>7, <1>8 DEF Restart, last
<1>12. NeedsRestart => n + 1 \in DOMAIN b
  BY <1>2, <1>7
<1>13. \A k \in DOMAIN b : b[k].type = "install_mod" => k \in 1..n
  BY <1>8, <1>11
<1>14. \A k, l \in 1..n : b[k].wid = b[l].wid => k = l
  BY <1>2, <1>7
<1>15. /\ Numbered(b) /\ \A k \in DOMAIN b : b[k].author = author
  BY <1>9, <1>10 DEF Numbered
<1>16. NeedsRestart => \E l \in DOMAIN b : /\ b[l].type = "restart"
              /\ \A k \in DOMAIN b : b[k].type = "install_mod" => k < l
  <2>1. \A k \in 1..n : k < n + 1
    BY <1>2
  <2>2. QED
    BY <1>11, <1>12, <1>13, <2>1
<1>17. \A k \in DOMAIN b : b[k].type \in {"install_mod", "restart"}
  <2>1. SUFFICES ASSUME NEW k \in DOMAIN b PROVE b[k].type \in {"install_mod", "restart"}
    OBVIOUS
  <2>2. k \in 1..n \/ k = n + 1
    BY <1>8
  <2>3. QED
    BY <2>2, <1>11
<1>18. QED
  <2>1. \A k \in DOMAIN b : b[k].type = "install_mod" => b[k].wid \in ws
    BY <1>11, <1>13
  <2>2. \A k, l \in DOMAIN b : b[k].type = "install_mod" /\ b[l].type = "install_mod"
                                 /\ b[k].wid = b[l].wid => k = l
    BY <1>13, <1>14
  <2>3. QED
    BY <2>1, <2>2, <1>15, <1>16, <1>17, Zenon DEF b

-----------------------------------------------------------------------------
(* The queue                                                               *)

\* The orders are numbered as they come, none after the last one made.
InOrder ==
  /\ \A i \in DOMAIN queue : queue[i].id \in 1..made /\ Named(queue[i])
  /\ \A i, j \in DOMAIN queue : i < j => queue[i].id < queue[j].id

QueueOK ==
  /\ queue \in Seq(Orders) /\ made \in 0..MaxOrders
  /\ InOrder /\ OneInstallPerMod

\* An order of that number, type and mod is in the queue, whatever its status.
Listed(id, type, wid) ==
  \E i \in DOMAIN queue : queue[i].id = id /\ queue[i].type = type /\ queue[i].wid = wid

\* A number is one order's.
LEMMA OneOrderPerId ==
  ASSUME QueueOK, NEW i \in DOMAIN queue, NEW j \in DOMAIN queue, queue[i].id = queue[j].id
  PROVE  i = j
<1>1. i \in Nat /\ j \in Nat
  BY DEF QueueOK
<1>2. i < j \/ j < i \/ i = j
  BY <1>1
<1>3. queue[i].id \in 1..made
  BY DEF QueueOK, InOrder
<1>4. QED
  BY <1>2, <1>3 DEF QueueOK, InOrder

\* New orders at the end: numbered, and no install of a mod that has one.
Adds(new) ==
  /\ Numbered(new) /\ made + Len(new) <= MaxOrders
  /\ queue' = queue \o new /\ made' = made + Len(new)
  /\ \A k \in DOMAIN new : new[k].type = "install_mod" => ~ Live("install_mod", new[k].wid)
  /\ \A k, l \in DOMAIN new : new[k].type = "install_mod" /\ new[l].type = "install_mod"
                                /\ new[k].wid = new[l].wid => k = l

LEMMA Added ==
  ASSUME QueueOK, NEW new, Adds(new)
  PROVE  /\ QueueOK'
         /\ \A i \in DOMAIN queue' :
              \/ i \in DOMAIN queue /\ queue'[i] = queue[i]
              \/ \E k \in DOMAIN new : queue'[i] = new[k] /\ i = Len(queue) + k
         /\ \A i \in DOMAIN queue : i \in DOMAIN queue' /\ queue'[i] = queue[i]
         /\ \A k \in DOMAIN new : /\ Len(queue) + k \in DOMAIN queue'
                                 /\ queue'[Len(queue) + k] = new[k]
<1> DEFINE n == Len(queue)
           m == Len(new)
<1>1. /\ queue \in Seq(Orders) /\ new \in Seq(Orders) /\ n \in Nat /\ m \in Nat
      /\ DOMAIN queue = 1..n /\ DOMAIN new = 1..m /\ made \in Nat /\ made' = made + m
  BY BoundsAssumption DEF QueueOK, Adds, Numbered
<1>2. /\ queue' \in Seq(Orders) /\ DOMAIN queue' = 1..(n + m)
      /\ \A i \in 1..n : queue'[i] = queue[i]
      /\ \A k \in 1..m : queue'[n + k] = new[k]
  <2>1. /\ queue' \in Seq(Orders) /\ Len(queue') = n + m
        /\ \A i \in 1..(n + m) : queue'[i] = IF i <= n THEN queue[i] ELSE new[i - n]
    BY <1>1, ConcatProperties DEF Adds
  <2>2. \A k \in 1..m : n + k \in 1..(n + m) /\ ~ (n + k <= n) /\ (n + k) - n = k
    BY <1>1
  <2> HIDE DEF n, m
  <2>3. DOMAIN queue' = 1..(n + m)
    BY <2>1
  <2>4. \A i \in 1..n : queue'[i] = queue[i]
    BY <2>1, <1>1
  <2>5. \A k \in 1..m : queue'[n + k] = new[k]
    BY <2>1, <2>2
  <2>6. QED
    BY <2>1, <2>3, <2>4, <2>5
<1>3. \A i \in DOMAIN queue' : i \in 1..n \/ \E k \in 1..m : i = n + k
  <2>1. SUFFICES ASSUME NEW i \in 1..(n + m), i \notin 1..n PROVE \E k \in 1..m : i = n + k
    BY <1>2
  <2>2. i - n \in 1..m /\ i = n + (i - n)
    BY <2>1, <1>1
  <2>3. QED
    BY <2>2
<1> HIDE DEF n, m
<1>4. InOrder'
  <2>1. \A i \in 1..n : queue'[i].id \in 1..made /\ Named(queue'[i])
    BY <1>1, <1>2 DEF QueueOK, InOrder
  <2>2. \A k \in 1..m : queue'[n + k].id = made + k /\ Named(queue'[n + k])
    BY <1>1, <1>2 DEF Adds, Numbered
  <2>3. \A i \in DOMAIN queue' : queue'[i].id \in 1..made' /\ Named(queue'[i])
    BY <2>1, <2>2, <1>1, <1>3
  <2>4. ASSUME NEW i \in DOMAIN queue', NEW j \in DOMAIN queue', i < j
        PROVE  queue'[i].id < queue'[j].id
    <3>1. CASE i \in 1..n /\ j \in 1..n
      BY <3>1, <2>4, <1>1, <1>2 DEF QueueOK, InOrder
    <3>2. CASE i \in 1..n /\ j \notin 1..n
      <4>1. PICK k \in 1..m : j = n + k
        BY <3>2, <1>3
      <4>2. queue'[i].id \in 1..made /\ queue'[j].id = made + k
        BY <4>1, <3>2, <2>1, <2>2
      <4>3. QED
        BY <4>2, <1>1
    <3>3. CASE i \notin 1..n
      <4>1. PICK k \in 1..m : i = n + k
        BY <3>3, <1>3
      <4>2. j \notin 1..n
        BY <4>1, <2>4, <1>1
      <4>3. PICK l \in 1..m : j = n + l
        BY <4>2, <1>3
      <4>4. k < l
        BY <4>1, <4>3, <2>4, <1>1
      <4>5. queue'[i].id = made + k /\ queue'[j].id = made + l
        BY <4>1, <4>3, <2>2
      <4>6. QED
        BY <4>4, <4>5, <1>1
    <3>4. QED
      BY <3>1, <3>2, <3>3
  <2>5. QED
    BY <2>3, <2>4 DEF InOrder, Named
<1>5. OneInstallPerMod'
  <2>1. \A i \in 1..n, k \in 1..m :
          queue[i].type = "install_mod" /\ new[k].type = "install_mod" => queue[i].wid # new[k].wid
    BY <1>1 DEF Adds, Live
  <2>2. SUFFICES ASSUME NEW i \in DOMAIN queue', NEW j \in DOMAIN queue',
                        queue'[i].type = "install_mod", queue'[j].type = "install_mod",
                        queue'[i].wid = queue'[j].wid
                 PROVE  i = j
    BY DEF OneInstallPerMod
  <2>3. CASE i \in 1..n /\ j \in 1..n
    BY <2>2, <2>3, <1>1, <1>2 DEF QueueOK, OneInstallPerMod
  <2>4. CASE i \in 1..n /\ j \notin 1..n
    BY <2>1, <2>2, <2>4, <1>2, <1>3
  <2>5. CASE i \notin 1..n /\ j \in 1..n
    BY <2>1, <2>2, <2>5, <1>2, <1>3
  <2>6. CASE i \notin 1..n /\ j \notin 1..n
    <3>1. PICK k \in 1..m, l \in 1..m : i = n + k /\ j = n + l
      BY <2>6, <1>3
    <3>2. queue'[i] = new[k] /\ queue'[j] = new[l] /\ k \in DOMAIN new /\ l \in DOMAIN new
      BY <3>1, <1>1, <1>2
    <3>3. k = l
      BY <3>2, <2>2 DEF Adds
    <3>4. QED
      BY <3>1, <3>3
  <2>7. QED
    BY <2>3, <2>4, <2>5, <2>6
<1>6. made' \in 0..MaxOrders
  BY <1>1, BoundsAssumption DEF Adds, m
<1>7. QueueOK'
  BY <1>2, <1>4, <1>5, <1>6 DEF QueueOK
<1>8. \A k \in DOMAIN new : n + k \in DOMAIN queue' /\ queue'[n + k] = new[k]
  BY <1>1, <1>2
<1>9. \A i \in DOMAIN queue : i \in DOMAIN queue' /\ queue'[i] = queue[i]
  BY <1>1, <1>2
<1>10. \A i \in DOMAIN queue' :
         \/ i \in DOMAIN queue /\ queue'[i] = queue[i]
         \/ \E k \in DOMAIN new : queue'[i] = new[k] /\ i = n + k
  BY <1>1, <1>2, <1>3
<1>11. QED
  BY <1>7, <1>8, <1>9, <1>10 DEF n

LEMMA Removed ==
  ASSUME QueueOK, NEW i \in DOMAIN queue, queue' = RemoveAt(queue, i), made' = made
  PROVE  /\ QueueOK'
         /\ \A id, type, wid : Listed(id, type, wid)' <=> Listed(id, type, wid) /\ id # queue[i].id
<1> DEFINE at(j) == IF j < i THEN j ELSE j + 1
<1>1. /\ queue \in Seq(Orders) /\ Len(queue) \in Nat /\ DOMAIN queue = 1..Len(queue)
      /\ i \in 1..Len(queue)
  BY DEF QueueOK
<1>2. /\ queue' \in Seq(Orders) /\ DOMAIN queue' = 1..(Len(queue) - 1)
      /\ \A j \in DOMAIN queue' : queue'[j] = IF j < i THEN queue[j] ELSE queue[j + 1]
  BY <1>1, RemoveAtFacts
<1>3. /\ \A j \in DOMAIN queue' : at(j) \in DOMAIN queue \ {i} /\ queue'[j] = queue[at(j)]
      /\ \A j, l \in DOMAIN queue' : j < l => at(j) < at(l)
      /\ \A j, l \in DOMAIN queue' : at(j) = at(l) => j = l
  BY <1>1, <1>2
<1>4. \A k \in DOMAIN queue \ {i} : \E j \in DOMAIN queue' : at(j) = k
  <2>1. SUFFICES ASSUME NEW k \in 1..Len(queue), k # i PROVE \E j \in DOMAIN queue' : at(j) = k
    BY <1>1
  <2>2. CASE k < i
    BY <2>2, <1>1, <1>2
  <2>3. CASE ~ (k < i)
    <3>1. k - 1 \in DOMAIN queue' /\ at(k - 1) = k
      BY <2>1, <2>3, <1>1, <1>2
    <3>2. QED
      BY <3>1
  <2>4. QED
    BY <2>2, <2>3
<1> HIDE DEF at
<1>5. QueueOK'
  <2>1. InOrder'
    BY <1>3 DEF QueueOK, InOrder, Named
  <2>2. OneInstallPerMod'
    BY <1>3 DEF QueueOK, OneInstallPerMod
  <2>3. QED
    BY <1>2, <2>1, <2>2 DEF QueueOK
<1>6. ASSUME NEW id, NEW type, NEW wid
      PROVE  Listed(id, type, wid)' <=> Listed(id, type, wid) /\ id # queue[i].id
  <2>1. ASSUME Listed(id, type, wid)'
        PROVE  Listed(id, type, wid) /\ id # queue[i].id
    <3>1. PICK j \in DOMAIN queue' : /\ queue'[j].id = id /\ queue'[j].type = type
                                     /\ queue'[j].wid = wid
      BY <2>1 DEF Listed
    <3>2. at(j) \in DOMAIN queue \ {i} /\ queue[at(j)] = queue'[j]
      BY <1>3
    <3>3. queue[at(j)].id # queue[i].id
      BY <3>2, OneOrderPerId
    <3>4. QED
      BY <3>1, <3>2, <3>3 DEF Listed
  <2>2. ASSUME Listed(id, type, wid), id # queue[i].id
        PROVE  Listed(id, type, wid)'
    <3>1. PICK k \in DOMAIN queue : queue[k].id = id /\ queue[k].type = type /\ queue[k].wid = wid
      BY <2>2 DEF Listed
    <3>2. PICK j \in DOMAIN queue' : at(j) = k
      BY <3>1, <2>2, <1>4
    <3>3. queue'[j] = queue[k]
      BY <3>2, <1>3
    <3>4. QED
      BY <3>1, <3>3 DEF Listed
  <2>3. QED
    BY <2>1, <2>2
<1>7. QED
  BY <1>5, <1>6

\* An order told to be running keeps what it is and its place.
LEMMA Marked ==
  ASSUME QueueOK, NEW i \in DOMAIN queue, queue' = [queue EXCEPT ![i].status = "running"],
         made' = made
  PROVE  /\ QueueOK' /\ DOMAIN queue' = DOMAIN queue
         /\ \A j \in DOMAIN queue : /\ queue'[j].id = queue[j].id /\ queue'[j].type = queue[j].type
                                    /\ queue'[j].wid = queue[j].wid
                                    /\ queue'[j].author = queue[j].author
<1>1. queue \in Seq(Orders) /\ DOMAIN queue = 1..Len(queue) /\ Len(queue) \in Nat
  BY DEF QueueOK
<1>2. \A j \in DOMAIN queue : queue[j] \in Orders
  BY <1>1
<1>3. DOMAIN queue' = DOMAIN queue
  OBVIOUS
<1>4. \A j \in DOMAIN queue : queue'[j] = IF j = i THEN [queue[i] EXCEPT !.status = "running"]
                                          ELSE queue[j]
  BY <1>1
<1>5. \A j \in DOMAIN queue : /\ queue'[j] \in Orders
                              /\ queue'[j].id = queue[j].id /\ queue'[j].type = queue[j].type
                              /\ queue'[j].wid = queue[j].wid
                              /\ queue'[j].author = queue[j].author
  BY <1>2, <1>4 DEF Orders
<1>6. queue' \in Seq(Orders)
  <2>1. queue' = [j \in 1..Len(queue) |-> queue'[j]]
    BY <1>1
  <2>2. \A j \in 1..Len(queue) : queue'[j] \in Orders
    BY <1>1, <1>5
  <2> DEFINE q == [j \in 1..Len(queue) |-> queue'[j]]
  <2>3. q \in Seq(Orders)
    BY <2>2, <1>1
  <2>4. QED
    BY <2>1, <2>3
<1>7. InOrder' /\ OneInstallPerMod'
  BY <1>3, <1>5 DEF QueueOK, InOrder, OneInstallPerMod, Named
<1>8. QED
  BY <1>3, <1>5, <1>6, <1>7 DEF QueueOK

\* The order of that number is gone, if there was one.
LEMMA WithoutFacts ==
  ASSUME QueueOK, NEW n, queue' = Without(n), made' = made
  PROVE  /\ QueueOK'
         /\ \A id, type, wid : Listed(id, type, wid)' <=> Listed(id, type, wid) /\ id # n
<1>1. CASE \E i \in DOMAIN queue : queue[i].id = n
  <2> DEFINE i == CHOOSE i \in DOMAIN queue : queue[i].id = n
  <2>1. i \in DOMAIN queue /\ queue[i].id = n
    BY <1>1
  <2>2. queue' = RemoveAt(queue, i)
    BY <1>1 DEF Without
  <2> HIDE DEF i
  <2>3. QED
    BY <2>1, <2>2, Removed
<1>2. CASE ~ \E i \in DOMAIN queue : queue[i].id = n
  <2>1. queue' = queue
    BY <1>2 DEF Without
  <2>2. QED
    BY <1>2, <2>1 DEF QueueOK, InOrder, OneInstallPerMod, Named, Listed
<1>3. QED
  BY <1>1, <1>2

-----------------------------------------------------------------------------
(* Requests                                                                *)

Calls == [at : {"idle", "bulk", "item"}, ids : SUBSET Wids,
          kind : {"auto", "admin", "page", "install"}]

\* Dates are asked for by those who need them.
CallOK ==
  /\ installed \subseteq Wids /\ call \in [Callers -> Calls]
  /\ \A c \in Callers : call[c].at = "bulk" => call[c].kind # "install"

LEMMA SuspendedFacts ==
  ASSUME CallOK, NEW c \in Callers, NEW at \in {"bulk", "item"}, NEW ids \in SUBSET Wids,
         NEW kind \in {"auto", "admin", "page", "install"}, at = "bulk" => kind # "install",
         Suspended(c, at, kind, ids), installed' \subseteq Wids
  PROVE  CallOK'
<1> DEFINE new == IF ids = {} THEN NoCall ELSE [at |-> at, kind |-> kind, ids |-> ids]
<1>1. new \in Calls /\ (new.at = "bulk" => new.kind # "install")
  BY DEF NoCall, Calls
<1>2. call' = [call EXCEPT ![c] = new]
  BY DEF Suspended
<1> HIDE DEF new
<1>3. QED
  BY <1>1, <1>2 DEF CallOK

LEMMA CallEnds ==
  ASSUME CallOK, NEW c \in Callers, call' = [call EXCEPT ![c] = NoCall], installed' \subseteq Wids
  PROVE  CallOK'
BY DEF CallOK, NoCall, Calls

LEMMA CallStep ==
  ASSUME CallOK, [Next]_vars
  PROVE  CallOK'
<1>1. installed \subseteq Wids /\ \A c \in Callers : call[c] \in Calls
  BY DEF CallOK
<1>2. installed' \subseteq Wids
  BY <1>1 DEF Next, vars, store, StartCall, BulkAnswer, ItemAnswer, TimersElapse, InstallMod,
    InstallAnswer, InstallFails, RemoveMod, CancelOrder, Expire, Execute, Verdict, Report, OnDisk,
    ReportLost, AgentCrash, Publish
<1>3. ASSUME call' = call
      PROVE  CallOK'
  BY <1>2, <1>3 DEF CallOK
<1>4. ASSUME NEW c \in Callers, NEW kind \in {"auto", "admin", "page"}, NEW m,
             NEW ids \in SUBSET Wids, AfterRefresh(c, kind, ids, m)
      PROVE  CallOK'
  <2>1. CASE kind = "page"
    <3>1. Untitled(ids, m) \in SUBSET Wids
      BY DEF Untitled
    <3>2. QED
      BY <1>2, <1>4, <2>1, <3>1, SuspendedFacts DEF AfterRefresh
  <2>2. CASE kind # "page"
    BY <1>2, <1>4, <2>2, CallEnds DEF AfterRefresh
  <2>3. QED
    BY <2>1, <2>2
<1>5. ASSUME NEW c \in Callers, NEW kind \in {"auto", "admin", "page"}, StartCall(c, kind)
      PROVE  CallOK'
  <2>1. CASE fresh \/ installed = {}
    BY <1>1, <1>4, <1>5, <2>1 DEF StartCall
  <2>2. CASE ~ (fresh \/ installed = {})
    BY <1>1, <1>2, <1>5, <2>2, SuspendedFacts DEF StartCall
  <2>3. QED
    BY <2>1, <2>2
<1>6. ASSUME NEW c \in Callers, NEW answered, BulkAnswer(c, answered)
      PROVE  CallOK'
  <2>1. call[c].kind \in {"auto", "admin", "page"} /\ call[c].ids \in SUBSET Wids
    BY <1>1, <1>6 DEF BulkAnswer, Calls, CallOK
  <2>2. QED
    BY <1>4, <1>6, <2>1 DEF BulkAnswer
<1>7. ASSUME NEW c \in Callers, NEW w, NEW answer, ItemAnswer(c, w, answer)
      PROVE  CallOK'
  <2>1. call[c].ids \ {w} \in SUBSET Wids
    BY <1>1 DEF Calls
  <2>2. QED
    BY <1>2, <1>7, <2>1, SuspendedFacts DEF ItemAnswer
<1>8. ASSUME NEW c \in Callers, NEW w \in Wids, InstallMod(c, w)
      PROVE  CallOK'
  BY <1>2, <1>8, SuspendedFacts DEF InstallMod
<1>9. ASSUME NEW c \in Callers, NEW w \in Wids, InstallAnswer(c, w)
      PROVE  CallOK'
  BY <1>2, <1>9, CallEnds DEF InstallAnswer
<1>10. ASSUME NEW c \in Callers, InstallFails(c)
       PROVE  CallOK'
  BY <1>2, <1>10, CallEnds DEF InstallFails
<1>11. QED
  BY <1>3, <1>5, <1>6, <1>7, <1>8, <1>9, <1>10
  DEF Next, vars, TimersElapse, RemoveMod, CancelOrder, Expire, Execute, Verdict, Report,
    ReportLost, AgentCrash, Publish

-----------------------------------------------------------------------------
(* The queue, step by step                                                 *)

\* A batch: the mods that are behind for m and have no install waiting, on a
\* server without players when it is automatic.
Batched(ids, m, author) ==
  LET ws == Targets(ids, m, author = "admin") IN
  /\ MayEnqueue(author) /\ ws \in SUBSET Wids /\ author \in {"auto", "admin"}
  /\ Adds(Batch(ws, author)) /\ made + Len(Batch(ws, author)) <= MaxOrders
  /\ owed' = IF NeedsRestart THEN owed \union ws ELSE owed \ ws

LEMMA EnqueueFacts ==
  ASSUME QueueOK, NEW ids \in SUBSET Wids, NEW m, NEW author \in {"auto", "admin"},
         Enqueue(ids, m, author)
  PROVE  UNCHANGED <<queue, made, owed>> \/ Batched(ids, m, author)
<1> DEFINE ws == IF MayEnqueue(author) THEN Targets(ids, m, author = "admin") ELSE {}
           b == Batch(ws, author)
<1>1. CASE ws = {}
  BY <1>1 DEF Enqueue
<1>2. CASE ws # {}
  <2>1. MayEnqueue(author) /\ ws = Targets(ids, m, author = "admin")
    BY <1>2
  <2>2. /\ made + Len(b) <= MaxOrders /\ queue' = queue \o b /\ made' = made + Len(b)
        /\ owed' = IF NeedsRestart THEN owed \union ws ELSE owed \ ws
    BY <1>2 DEF Enqueue
  <2>3. ws \in SUBSET Wids /\ \A w \in ws : ~ Live("install_mod", w)
    BY <2>1 DEF Targets, Behind
  <2> HIDE DEF ws
  <2>4. made \in Nat
    BY BoundsAssumption DEF QueueOK
  <2>5. /\ Numbered(b)
        /\ \A k \in DOMAIN b : b[k].type = "install_mod" => b[k].wid \in ws
        /\ \A k, l \in DOMAIN b : b[k].type = "install_mod" /\ b[l].type = "install_mod"
                                    /\ b[k].wid = b[l].wid => k = l
    BY <2>2, <2>3, <2>4, BatchFacts
  <2>6. Adds(b)
    <3> HIDE DEF b
    <3>1. QED
      BY <2>2, <2>3, <2>5 DEF Adds
  <2>7. QED
    BY <2>1, <2>2, <2>3, <2>6 DEF Batched
<1>3. QED
  BY <1>1, <1>2

\* What a request that asks for updates does to the queue, before Steam is
\* asked or once it has answered.
LEMMA RequestMoves ==
  ASSUME QueueOK, CallOK, NEW c \in Callers,
         \/ \E kind \in {"auto", "admin", "page"} : StartCall(c, kind)
         \/ \E answered : BulkAnswer(c, answered)
  PROVE  \/ UNCHANGED <<queue, made, owed>>
         \/ \E ids \in SUBSET Wids, author \in {"auto", "admin"} : Batched(ids, meta', author)
<1>1. installed \in SUBSET Wids /\ call[c] \in Calls
  BY DEF CallOK
<1>2. ASSUME NEW kind \in {"auto", "admin", "page"}, NEW ids \in SUBSET Wids, NEW m,
             AfterRefresh(c, kind, ids, m)
      PROVE  UNCHANGED <<queue, made, owed>> \/
             (kind \in {"auto", "admin"} /\ Batched(ids, m, kind))
  BY <1>2, EnqueueFacts DEF AfterRefresh
<1>3. ASSUME NEW kind \in {"auto", "admin", "page"}, StartCall(c, kind)
      PROVE  UNCHANGED <<queue, made, owed>> \/
             (kind \in {"auto", "admin"} /\ Batched(installed, meta', kind))
  <2>1. meta' = meta
    BY <1>3 DEF StartCall, store
  <2>2. CASE fresh \/ installed = {}
    <3>1. AfterRefresh(c, kind, installed, meta)
      BY <1>3, <2>2 DEF StartCall
    <3>2. QED
      BY <3>1, <2>1, <1>1, <1>2
  <2>3. CASE ~ (fresh \/ installed = {})
    BY <1>3, <2>3 DEF StartCall
  <2>4. QED
    BY <2>2, <2>3
<1>4. ASSUME NEW answered, BulkAnswer(c, answered)
      PROVE  UNCHANGED <<queue, made, owed>> \/
             (call[c].kind \in {"auto", "admin"} /\ Batched(call[c].ids, meta', call[c].kind))
  <2>1. call[c].kind \in {"auto", "admin", "page"} /\ call[c].ids \in SUBSET Wids
    BY <1>1, <1>4 DEF BulkAnswer, Calls, CallOK
  <2>2. AfterRefresh(c, call[c].kind, call[c].ids, meta')
    BY <1>4 DEF BulkAnswer
  <2>3. QED
    BY <2>1, <2>2, <1>2
<1>5. call[c].ids \in SUBSET Wids
  BY <1>1 DEF Calls
<1>6. QED
  BY <1>1, <1>3, <1>4, <1>5

\* An install the admin asked for, and an order to remove.
LEMMA InstallAdds ==
  ASSUME QueueOK, NEW c \in Callers, NEW w \in Wids, InstallAnswer(c, w)
  PROVE  \/ UNCHANGED <<queue, made, owed>>
         \/ /\ Adds(Installs({w}, "admin")) /\ owed' = owed \ {w}
            /\ DOMAIN Installs({w}, "admin") = {1}
            /\ Installs({w}, "admin")[1] = [id |-> made + 1, type |-> "install_mod", wid |-> w,
                                            author |-> "admin", status |-> "pending"]
<1> DEFINE new == Installs({w}, "admin")
<1>1. IsFiniteSet({w}) /\ Cardinality({w}) = 1 /\ made \in Nat
  <2>1. IsFiniteSet({w}) /\ Cardinality({w}) = 1
    BY FS_Singleton, Zenon
  <2>2. QED
    BY <2>1, BoundsAssumption DEF QueueOK
<1>2. /\ DOMAIN new = 1..1 /\ new[1].wid \in {w}
      /\ new[1] = [id |-> made + 1, type |-> "install_mod", wid |-> SetToSeq({w})[1],
                   author |-> "admin", status |-> "pending"]
  <2>1. /\ DOMAIN new = 1..Cardinality({w})
        /\ \A k \in 1..Cardinality({w}) : new[k] = [id |-> made + k, type |-> "install_mod",
             wid |-> SetToSeq({w})[k], author |-> "admin", status |-> "pending"]
        /\ \A k \in 1..Cardinality({w}) : new[k].wid \in {w}
    BY <1>1, InstallsFacts
  <2> HIDE DEF new
  <2>2. 1 \in 1..Cardinality({w})
    BY <1>1
  <2>3. QED
    BY <2>1, <2>2, <1>1
<1>3. new[1] = [id |-> made + 1, type |-> "install_mod", wid |-> w,
                author |-> "admin", status |-> "pending"]
  BY <1>2
<1>4. new = <<new[1]>>
  BY <1>1, <1>2 DEF Installs
<1> HIDE DEF new
<1>5. CASE ~ Live("install_mod", w)
  <2>1. made < MaxOrders /\ queue' = queue \o new /\ made' = made + 1 /\ owed' = owed \ {w}
    BY <1>5 DEF InstallAnswer, new
  <2>2. new[1] \in Orders
    BY <1>1, <1>3, <2>1, BoundsAssumption DEF Orders
  <2>3. new \in Seq(Orders) /\ Len(new) = 1
    BY <1>4, <2>2
  <2>4. Numbered(new)
    BY <2>3, <1>2, <1>3 DEF Numbered, Named
  <2>5. Adds(new)
    BY <2>1, <2>3, <2>4, <1>1, <1>2, <1>3, <1>5, BoundsAssumption DEF Adds
  <2>6. QED
    BY <2>1, <2>5, <1>2, <1>3 DEF new
<1>6. CASE Live("install_mod", w)
  BY <1>6 DEF InstallAnswer
<1>7. QED
  BY <1>5, <1>6

LEMMA RemoveAdds ==
  ASSUME QueueOK, NEW w \in Wids, RemoveMod(w)
  PROVE  \/ UNCHANGED <<queue, made>>
         \/ \E new : /\ Adds(new) /\ DOMAIN new = {1}
                     /\ new[1] = [id |-> made + 1, type |-> "remove_mod", wid |-> w,
                                  author |-> "admin", status |-> "pending"]
<1> DEFINE o == [id |-> made + 1, type |-> "remove_mod", wid |-> w,
                 author |-> "admin", status |-> "pending"]
<1>1. CASE ~ Live("remove_mod", w)
  <2>1. made < MaxOrders /\ queue' = Append(queue, o) /\ made' = made + 1 /\ made \in Nat
    BY <1>1, BoundsAssumption DEF RemoveMod, QueueOK
  <2>2. o \in Orders
    BY <2>1, BoundsAssumption DEF Orders
  <2>3. o.id = made + 1 /\ Named(o) /\ o.type # "install_mod"
    BY DEF Named
  <2> HIDE DEF o
  <2>4. <<o>> \in Seq(Orders) /\ DOMAIN <<o>> = {1} /\ Len(<<o>>) = 1 /\ <<o>>[1] = o
    BY <2>2
  <2>5. queue' = queue \o <<o>>
    BY <2>1, <2>2 DEF QueueOK
  <2>6. Numbered(<<o>>)
    BY <2>3, <2>4 DEF Numbered
  <2>7. Adds(<<o>>)
    BY <2>1, <2>3, <2>4, <2>5, <2>6, BoundsAssumption DEF Adds
  <2>8. QED
    BY <2>4, <2>7 DEF o
<1>2. CASE Live("remove_mod", w)
  BY <1>2 DEF RemoveMod
<1>3. QED
  BY <1>1, <1>2

\* The queue is left as it is, grows, loses an order, or has one marked.
LEMMA QueueStep ==
  ASSUME QueueOK, CallOK, [Next]_vars
  PROVE  QueueOK'
<1>1. ASSUME UNCHANGED <<queue, made>>
      PROVE  QueueOK'
  BY <1>1 DEF QueueOK, InOrder, OneInstallPerMod, Named
<1>2. ASSUME NEW c \in Callers,
             \/ \E kind \in {"auto", "admin", "page"} : StartCall(c, kind)
             \/ \E answered : BulkAnswer(c, answered)
      PROVE  QueueOK'
  <2>1. UNCHANGED <<queue, made>> \/ \E new : Adds(new)
    BY <1>2, RequestMoves DEF Batched
  <2>2. QED
    BY <2>1, <1>1, Added
<1>3. ASSUME NEW c \in Callers, NEW w \in Wids, InstallAnswer(c, w)
      PROVE  QueueOK'
  BY <1>1, <1>3, InstallAdds, Added
<1>4. ASSUME NEW w \in Wids, RemoveMod(w)
      PROVE  QueueOK'
  BY <1>1, <1>4, RemoveAdds, Added
<1>5. ASSUME NEW i \in DOMAIN queue, CancelOrder(i) \/ Expire(i)
      PROVE  QueueOK'
  <2>1. queue' = RemoveAt(queue, i) /\ made' = made
    BY <1>5 DEF CancelOrder, Expire, Dropped
  <2>2. QED
    BY <2>1, Removed
<1>6. ASSUME NEW i \in DOMAIN queue, NEW told, NEW ok, Execute(i, told, ok)
      PROVE  QueueOK'
  BY <1>1, <1>6, Marked DEF Execute
<1>7. ASSUME NEW told, Verdict(told)
      PROVE  QueueOK'
  BY <1>1, <1>7, WithoutFacts DEF Verdict
<1>8. QED
  BY <1>1, <1>2, <1>3, <1>4, <1>5, <1>6, <1>7
  DEF Next, vars, ItemAnswer, TimersElapse, InstallMod, InstallFails, Report,
    ReportLost, AgentCrash, Publish

-----------------------------------------------------------------------------
(* The agent                                                               *)

Agents == [at : {"idle", "verdict", "report"}, order : Orders, ok : BOOLEAN,
           tried : SUBSET (1..MaxOrders)]

\* What the agent has in hand is an order that was made, as it was made.
AgentOK ==
  /\ agent \in Agents /\ Named(agent.order)
  /\ agent.order.id <= made
  /\ \A type, wid : agent.at = "verdict" /\ Listed(agent.order.id, type, wid) =>
       type = agent.order.type /\ wid = agent.order.wid

\* Steps that are not the agent's leave the orders listed as they were, take
\* some away, or add some with new numbers.
LEMMA ListedStep ==
  ASSUME QueueOK, CallOK, [Next]_vars, NEW id, NEW type, NEW wid, Listed(id, type, wid)'
  PROVE  Listed(id, type, wid) \/ id > made
<1>1. CASE queue' = queue
  BY <1>1 DEF Listed
<1>2. ASSUME NEW new, Adds(new)
      PROVE  Listed(id, type, wid) \/ id > made
  <2>1. PICK i \in DOMAIN queue' : queue'[i].id = id /\ queue'[i].type = type /\ queue'[i].wid = wid
    BY DEF Listed
  <2>2. CASE i \in DOMAIN queue /\ queue'[i] = queue[i]
    BY <2>1, <2>2 DEF Listed
  <2>3. CASE \E k \in DOMAIN new : queue'[i] = new[k]
    <3>1. PICK k \in DOMAIN new : queue'[i] = new[k]
      BY <2>3
    <3>2. new[k].id = made + k /\ k \in Nat \ {0} /\ made \in Nat
      BY <1>2, BoundsAssumption DEF Adds, Numbered, QueueOK
    <3>3. QED
      BY <2>1, <3>1, <3>2
  <2>4. QED
    BY <2>2, <2>3, <1>2, Added
<1>3. ASSUME NEW c \in Callers,
             \/ \E kind \in {"auto", "admin", "page"} : StartCall(c, kind)
             \/ \E answered : BulkAnswer(c, answered)
      PROVE  Listed(id, type, wid) \/ id > made
  <2>1. UNCHANGED queue \/ \E new : Adds(new)
    BY <1>3, RequestMoves DEF Batched
  <2>2. QED
    BY <2>1, <1>1, <1>2
<1>4. ASSUME NEW c \in Callers, NEW w \in Wids, InstallAnswer(c, w)
      PROVE  Listed(id, type, wid) \/ id > made
  BY <1>1, <1>2, <1>4, InstallAdds
<1>5. ASSUME NEW w \in Wids, RemoveMod(w)
      PROVE  Listed(id, type, wid) \/ id > made
  BY <1>1, <1>2, <1>5, RemoveAdds
<1>6. ASSUME NEW i \in DOMAIN queue, CancelOrder(i) \/ Expire(i)
      PROVE  Listed(id, type, wid) \/ id > made
  <2>1. queue' = RemoveAt(queue, i) /\ made' = made
    BY <1>6 DEF CancelOrder, Expire, Dropped
  <2>2. QED
    BY <2>1, Removed
<1>7. ASSUME NEW i \in DOMAIN queue, NEW told, NEW ok, Execute(i, told, ok)
      PROVE  Listed(id, type, wid) \/ id > made
  BY <1>1, <1>7, Marked DEF Execute, Listed
<1>8. ASSUME NEW told, Verdict(told)
      PROVE  Listed(id, type, wid) \/ id > made
  BY <1>1, <1>8, WithoutFacts DEF Verdict
<1>9. QED
  BY <1>1, <1>3, <1>4, <1>5, <1>6, <1>7, <1>8
  DEF Next, vars, ItemAnswer, TimersElapse, InstallMod, InstallFails, Report,
    ReportLost, AgentCrash, Publish

LEMMA MadeGrows ==
  ASSUME QueueOK, CallOK, [Next]_vars
  PROVE  made <= made'
<1>1. made \in Nat
  BY BoundsAssumption DEF QueueOK
<1>2. ASSUME NEW new, Adds(new)
      PROVE  made <= made'
  <2>1. Len(new) \in Nat
    BY <1>2 DEF Adds, Numbered
  <2>2. QED
    BY <1>1, <1>2, <2>1 DEF Adds
<1>3. CASE made' = made
  BY <1>1, <1>3
<1>4. ASSUME NEW c \in Callers,
             \/ \E kind \in {"auto", "admin", "page"} : StartCall(c, kind)
             \/ \E answered : BulkAnswer(c, answered)
      PROVE  made <= made'
  BY <1>2, <1>3, <1>4, RequestMoves DEF Batched
<1>5. ASSUME NEW c \in Callers, NEW w \in Wids, InstallAnswer(c, w)
      PROVE  made <= made'
  BY <1>2, <1>3, <1>5, InstallAdds
<1>6. ASSUME NEW w \in Wids, RemoveMod(w)
      PROVE  made <= made'
  BY <1>2, <1>3, <1>6, RemoveAdds
<1>7. QED
  BY <1>3, <1>4, <1>5, <1>6
  DEF Next, vars, ItemAnswer, TimersElapse, InstallMod, InstallFails, CancelOrder, Expire,
    Execute, Verdict, Report, ReportLost, AgentCrash, Publish

LEMMA AgentStep ==
  ASSUME QueueOK, CallOK, AgentOK, [Next]_vars
  PROVE  AgentOK'
<1>1. agent \in Agents /\ made \in Nat /\ agent.order.id \in Int
  BY BoundsAssumption DEF AgentOK, QueueOK, Agents, Orders
<1>2. made <= made' /\ made' \in Nat
  BY MadeGrows, QueueStep, BoundsAssumption DEF QueueOK
<1>3. NoOrder \in Orders /\ Named(NoOrder) /\ NoOrder.id = 0
  BY BoundsAssumption DEF NoOrder, Orders, Named, NoWid
<1>4. CASE agent' = agent
  <2>1. agent'.order.id <= made'
    BY <1>1, <1>2, <1>4 DEF AgentOK
  <2>2. ASSUME NEW n, NEW type, NEW wid, n = agent.order.id, agent.at = "verdict",
               Listed(n, type, wid)'
        PROVE  type = agent.order.type /\ wid = agent.order.wid
    <3>1. Listed(n, type, wid) \/ n > made
      BY <2>2, ListedStep
    <3>2. QED
      BY <3>1, <1>1, <2>2 DEF AgentOK
  <2>3. Named(agent.order)'
    BY <1>4 DEF AgentOK, Named
  <2>4. \A type, wid : agent'.at = "verdict" /\ Listed(agent.order.id, type, wid)' =>
          type = agent'.order.type /\ wid = agent'.order.wid
    BY <1>4, <2>2 DEF Listed
  <2>5. QED
    BY <1>1, <1>4, <2>1, <2>3, <2>4 DEF AgentOK
<1>5. ASSUME agent' \in Agents, agent'.at # "verdict", agent'.order \in {agent.order, NoOrder}
      PROVE  AgentOK'
  <2>1. agent'.order.id <= made'
    BY <1>1, <1>2, <1>3, <1>5 DEF AgentOK
  <2>2. Named(agent.order)'
    BY <1>3, <1>5 DEF AgentOK, Named
  <2>3. QED
    BY <1>5, <2>1, <2>2 DEF AgentOK
<1>6. ASSUME NEW i \in DOMAIN queue, NEW told \in BOOLEAN, NEW ok \in BOOLEAN, Execute(i, told, ok)
      PROVE  AgentOK'
  <2>1. queue[i] \in Orders /\ Named(queue[i]) /\ queue[i].id <= made
    BY DEF QueueOK, InOrder
  <2>2. {queue[j].id : j \in 1..i} \in SUBSET (1..MaxOrders)
    <3>1. \A j \in 1..i : queue[j].id \in 1..made
      BY DEF QueueOK, InOrder
    <3>2. QED
      BY <3>1, BoundsAssumption DEF QueueOK
  <2>3. agent' = [at |-> "verdict", order |-> queue[i], ok |-> ok,
                  tried |-> {queue[j].id : j \in 1..i}] /\ made' = made
    BY <1>6 DEF Execute
  <2>4. agent' \in Agents /\ agent'.order = queue[i]
    BY <2>1, <2>2, <2>3 DEF Agents
  <2>5. \A j \in DOMAIN queue' : /\ j \in DOMAIN queue /\ queue'[j].id = queue[j].id
                                 /\ queue'[j].type = queue[j].type
                                 /\ queue'[j].wid = queue[j].wid
    BY <1>6, Marked DEF Execute
  <2>6. \A j \in DOMAIN queue' : queue'[j].id = queue[i].id =>
          queue'[j].type = queue[i].type /\ queue'[j].wid = queue[i].wid
    BY <2>5, OneOrderPerId
  <2>7. QED
    BY <2>1, <2>3, <2>4, <2>6 DEF AgentOK, Named, Listed
<1>7. ASSUME NEW told \in BOOLEAN, Verdict(told)
      PROVE  AgentOK'
  <2> DEFINE left == {id \in agent.tried : \E i \in DOMAIN queue' : queue'[i].id = id}
  <2>1. agent' = [at |-> "report", order |-> NoOrder, ok |-> FALSE, tried |-> left]
    BY <1>7 DEF Verdict
  <2>2. left \in SUBSET (1..MaxOrders)
    BY <1>1 DEF Agents
  <2> HIDE DEF left
  <2>3. agent' \in Agents /\ agent'.at # "verdict" /\ agent'.order = NoOrder
    BY <2>1, <2>2, <1>3 DEF Agents
  <2>4. QED
    BY <2>3, <1>5
<1>8. CASE AgentCrash \/ ReportLost \/ \E empty, running \in BOOLEAN : Report(empty, running)
  <2>1. \/ agent' = [at |-> "idle", order |-> NoOrder, ok |-> FALSE, tried |-> {}]
        \/ agent' = [agent EXCEPT !.at = "idle"]
        \/ agent' = [agent EXCEPT !.at = "idle", !.tried = {}]
    BY <1>1, <1>8 DEF AgentCrash, ReportLost, Report, Agents
  <2>2. {} \in SUBSET (1..MaxOrders)
    OBVIOUS
  <2>3. agent' \in Agents /\ agent'.at # "verdict" /\ agent'.order \in {agent.order, NoOrder}
    <3>1. CASE agent' = [at |-> "idle", order |-> NoOrder, ok |-> FALSE, tried |-> {}]
      BY <1>3, <2>2, <3>1 DEF Agents
    <3>2. CASE agent' = [agent EXCEPT !.at = "idle"]
      BY <1>1, <3>2 DEF Agents
    <3>3. CASE agent' = [agent EXCEPT !.at = "idle", !.tried = {}]
      BY <1>1, <2>2, <3>3 DEF Agents
    <3>4. QED
      BY <2>1, <3>1, <3>2, <3>3
  <2>4. QED
    BY <2>3, <1>5
<1>9. QED
  BY <1>4, <1>6, <1>7, <1>8
  DEF Next, vars, StartCall, BulkAnswer, ItemAnswer, TimersElapse, InstallMod, InstallAnswer,
    InstallFails, RemoveMod, CancelOrder, Expire, Publish

-----------------------------------------------------------------------------
(* The restart that a batch is owed                                        *)

\* A mod that is owed a restart has one behind each of its installs that was
\* not executed yet, or whose verdict was heard; what the agent executes comes
\* after what it has executed; and a restart loads all that is on disk.
OwedOK ==
  /\ BatchApplied
  /\ \A w \in owed, id \in Nat : Listed(id, "install_mod", w) /\ id \notin unheard =>
       \E later \in Nat : id < later /\ Listed(later, "restart", NoWid)
  /\ agent.tried \subseteq unheard
  /\ agent.at = "verdict" =>
       /\ agent.order.id \in unheard
       /\ \A id \in Nat : \A type, wid :
            Listed(id, type, wid) /\ id < agent.order.id => id \in unheard
       /\ agent.ok /\ agent.order.type = "restart" => disk = loaded

LEMMA ListedFacts ==
  ASSUME QueueOK, NEW id, NEW type, NEW wid, Listed(id, type, wid)
  PROVE  /\ id \in 1..made /\ id \in Nat /\ Live(type, wid)
         /\ type = "restart" => wid = NoWid
<1>1. PICK i \in DOMAIN queue : queue[i].id = id /\ queue[i].type = type /\ queue[i].wid = wid
  BY DEF Listed
<1>2. queue[i].id \in 1..made /\ Named(queue[i])
  BY DEF QueueOK, InOrder
<1>3. QED
  BY <1>1, <1>2 DEF Live, Named

LEMMA LiveListed ==
  ASSUME QueueOK, NEW type, NEW wid, Live(type, wid)
  PROVE  \E id \in Nat : Listed(id, type, wid)
<1>1. PICK i \in DOMAIN queue : queue[i].type = type /\ queue[i].wid = wid
  BY DEF Live
<1>2. Listed(queue[i].id, type, wid) /\ queue[i].id \in Nat
  BY <1>1 DEF Listed, QueueOK, InOrder
<1>3. QED
  BY <1>2

\* A step of the backend that leaves the agent and the files alone: what is
\* owed has a restart behind it, as before or as a new one.
LEMMA OwedFrom ==
  ASSUME QueueOK, CallOK, AgentOK, OwedOK, [Next]_vars,
         UNCHANGED <<disk, loaded, agent, unheard>>,
         \A w \in owed', id \in Nat : Listed(id, "install_mod", w)' /\ id \notin unheard =>
           \/ w \in owed /\ Listed(id, "install_mod", w)
           \/ \E later \in Nat : id < later /\ Listed(later, "restart", NoWid)',
         \A w \in owed' : w \in owed \/ \E id \in Nat : Listed(id, "restart", NoWid)',
         \A id \in Nat : Listed(id, "restart", NoWid) =>
           Listed(id, "restart", NoWid)' \/ owed' = {}
  PROVE  OwedOK'
<1>1. QueueOK'
  BY QueueStep
<1>2. BatchApplied'
  <2>1. SUFFICES ASSUME NEW w \in owed', disk[w] \notin {None, loaded[w]}
                 PROVE  Live("restart", NoWid)'
    BY DEF BatchApplied
  <2>2. \E id \in Nat : Listed(id, "restart", NoWid)'
    <3>1. CASE w \in owed
      <4>1. Live("restart", NoWid)
        BY <2>1, <3>1 DEF OwedOK, BatchApplied
      <4>2. QED
        BY <4>1, <2>1, LiveListed
    <3>2. QED
      BY <3>1
  <2>3. QED
    BY <2>2 DEF Listed, Live
<1>3. \A w \in owed', id \in Nat : Listed(id, "install_mod", w)' /\ id \notin unheard' =>
        \E later \in Nat : id < later /\ Listed(later, "restart", NoWid)'
  BY DEF OwedOK
<1>4. ASSUME agent.at = "verdict", NEW n, n = agent.order.id
      PROVE  \A id \in Nat : \A type, wid : Listed(id, type, wid)' /\ id < n => id \in unheard
  <2>1. n <= made /\ n \in Int /\ made \in Nat
    BY <1>4, BoundsAssumption DEF AgentOK, QueueOK, Agents, Orders
  <2>2. SUFFICES ASSUME NEW id \in Nat, NEW type, NEW wid, Listed(id, type, wid)', id < n
                 PROVE  id \in unheard
    OBVIOUS
  <2>3. Listed(id, type, wid)
    BY <2>1, <2>2, ListedStep
  <2>4. QED
    BY <2>2, <2>3, <1>4 DEF OwedOK
<1>5. (agent.at = "verdict" =>
       /\ agent.order.id \in unheard
       /\ \A id \in Nat : \A type, wid :
            Listed(id, type, wid) /\ id < agent.order.id => id \in unheard
       /\ agent.ok /\ agent.order.type = "restart" => disk = loaded)'
  <2>1. SUFFICES ASSUME agent.at = "verdict"
                 PROVE  \A id \in Nat : \A type, wid :
                          Listed(id, type, wid)' /\ id < agent.order.id => id \in unheard
    BY DEF OwedOK
  <2>2. QED
    BY <2>1, <1>4
<1>6. (agent.tried \subseteq unheard)'
  BY DEF OwedOK
<1>7. QED
  BY <1>2, <1>3, <1>5, <1>6 DEF OwedOK

\* New orders leave the others listed.
LEMMA AddedListed ==
  ASSUME QueueOK, NEW new, Adds(new), NEW id, NEW type, NEW wid
  PROVE  Listed(id, type, wid)' <=>
           \/ Listed(id, type, wid)
           \/ \E k \in DOMAIN new : new[k].id = id /\ new[k].type = type /\ new[k].wid = wid
<1>1. /\ \A i \in DOMAIN queue' :
           \/ i \in DOMAIN queue /\ queue'[i] = queue[i]
           \/ \E k \in DOMAIN new : queue'[i] = new[k]
      /\ \A i \in DOMAIN queue : i \in DOMAIN queue' /\ queue'[i] = queue[i]
      /\ \A k \in DOMAIN new : Len(queue) + k \in DOMAIN queue' /\ queue'[Len(queue) + k] = new[k]
  BY Added
<1>2. ASSUME Listed(id, type, wid)'
      PROVE  \/ Listed(id, type, wid)
             \/ \E k \in DOMAIN new : new[k].id = id /\ new[k].type = type /\ new[k].wid = wid
  <2>1. PICK i \in DOMAIN queue' : queue'[i].id = id /\ queue'[i].type = type /\ queue'[i].wid = wid
    BY <1>2 DEF Listed
  <2>2. QED
    BY <2>1, <1>1 DEF Listed
<1>3. ASSUME Listed(id, type, wid)
      PROVE  Listed(id, type, wid)'
  BY <1>1, <1>3 DEF Listed
<1>4. ASSUME NEW k \in DOMAIN new, new[k].id = id, new[k].type = type, new[k].wid = wid
      PROVE  Listed(id, type, wid)'
  BY <1>1, <1>4 DEF Listed
<1>5. QED
  BY <1>2, <1>3, <1>4

LEMMA OwedBatched ==
  ASSUME QueueOK, CallOK, AgentOK, OwedOK, [Next]_vars,
         UNCHANGED <<disk, loaded, agent, unheard>>,
         NEW ids \in SUBSET Wids, NEW author \in {"auto", "admin"}, NEW m,
         Batched(ids, m, author)
  PROVE  OwedOK'
<1> DEFINE ws == Targets(ids, m, author = "admin")
           b == Batch(ws, author)
<1>1. /\ ws \in SUBSET Wids /\ Adds(b) /\ made \in Nat /\ made + Len(b) <= MaxOrders
      /\ owed' = IF NeedsRestart THEN owed \union ws ELSE owed \ ws
  BY BoundsAssumption DEF Batched, QueueOK
<1>2. \A w \in ws : ~ Live("install_mod", w)
  BY DEF Targets
<1> HIDE DEF ws
<1>3. /\ \A k \in DOMAIN b : b[k].id = made + k /\ k \in Nat /\ Named(b[k])
      /\ \A k \in DOMAIN b : b[k].type = "install_mod" => b[k].wid \in ws
      /\ NeedsRestart => \E l \in DOMAIN b : /\ b[l].type = "restart"
           /\ \A k \in DOMAIN b : b[k].type = "install_mod" => k < l
  <2>1. /\ Numbered(b)
        /\ \A k \in DOMAIN b : b[k].type = "install_mod" => b[k].wid \in ws
        /\ NeedsRestart => \E l \in DOMAIN b : /\ b[l].type = "restart"
             /\ \A k \in DOMAIN b : b[k].type = "install_mod" => k < l
    BY <1>1, BatchFacts
  <2> HIDE DEF b
  <2>2. b \in Seq(Orders) /\ \A k \in DOMAIN b : b[k].id = made + k /\ Named(b[k])
    BY <2>1 DEF Numbered
  <2>3. \A k \in DOMAIN b : k \in Nat
    BY <2>2
  <2>4. QED
    BY <2>1, <2>2, <2>3
<1> HIDE DEF b
<1>4. \A id, type, wid : Listed(id, type, wid)' <=>
           \/ Listed(id, type, wid)
           \/ \E k \in DOMAIN b : b[k].id = id /\ b[k].type = type /\ b[k].wid = wid
  BY <1>1, AddedListed
<1>5. NeedsRestart => \E later \in Nat :
        /\ Listed(later, "restart", NoWid)'
        /\ \A k \in DOMAIN b : b[k].type = "install_mod" => made + k < later
  <2>1. SUFFICES ASSUME NeedsRestart
                 PROVE  \E later \in Nat :
                   /\ Listed(later, "restart", NoWid)'
                   /\ \A k \in DOMAIN b : b[k].type = "install_mod" => made + k < later
    OBVIOUS
  <2>2. PICK l \in DOMAIN b : /\ b[l].type = "restart"
           /\ \A k \in DOMAIN b : b[k].type = "install_mod" => k < l
    BY <2>1, <1>3
  <2>3. b[l].id = made + l /\ l \in Nat /\ b[l].wid = NoWid
    BY <2>2, <1>3 DEF Named
  <2>4. PICK later \in Nat : later = made + l
    BY <1>1, <2>3
  <2>5. Listed(later, "restart", NoWid)'
    BY <1>4, <2>2, <2>3, <2>4
  <2>6. \A k \in DOMAIN b : b[k].type = "install_mod" => made + k < later
    BY <1>1, <1>3, <2>2, <2>3, <2>4
  <2>7. QED
    BY <2>5, <2>6
<1>6. ASSUME NEW w \in owed', NEW id \in Nat, Listed(id, "install_mod", w)', id \notin unheard
      PROVE  \/ w \in owed /\ Listed(id, "install_mod", w)
             \/ \E later \in Nat : id < later /\ Listed(later, "restart", NoWid)'
  <2>1. CASE Listed(id, "install_mod", w)
    <3>1. Live("install_mod", w)
      BY <2>1, ListedFacts
    <3>2. w \in owed
      BY <3>1, <1>1, <1>2, <1>6
    <3>3. QED
      BY <2>1, <3>2
  <2>2. CASE \E k \in DOMAIN b : b[k].id = id /\ b[k].type = "install_mod" /\ b[k].wid = w
    <3>1. PICK k \in DOMAIN b : b[k].id = id /\ b[k].type = "install_mod" /\ b[k].wid = w
      BY <2>2
    <3>2. w \in ws /\ id = made + k
      BY <3>1, <1>3
    <3>3. NeedsRestart
      BY <3>2, <1>1, <1>6
    <3>4. QED
      BY <1>5, <3>1, <3>2, <3>3
  <2>3. QED
    BY <2>1, <2>2, <1>4, <1>6
<1>7. \A w \in owed' : w \in owed \/ \E id \in Nat : Listed(id, "restart", NoWid)'
  BY <1>1, <1>5
<1>8. \A id \in Nat : Listed(id, "restart", NoWid) => Listed(id, "restart", NoWid)'
  BY <1>4
<1>9. QED
  BY <1>6, <1>7, <1>8, OwedFrom

\* An order added by the admin.
LEMMA OwedOrdered ==
  ASSUME QueueOK, CallOK, AgentOK, OwedOK, [Next]_vars,
         UNCHANGED <<disk, loaded, agent, unheard>>,
         NEW new, Adds(new), DOMAIN new = {1}, owed' \subseteq owed,
         new[1].type = "install_mod" => new[1].wid \notin owed'
  PROVE  OwedOK'
<1>1. \A id, type, wid : Listed(id, type, wid)' <=>
        \/ Listed(id, type, wid)
        \/ new[1].id = id /\ new[1].type = type /\ new[1].wid = wid
  BY AddedListed
<1>2. \A w \in owed', id \in Nat : Listed(id, "install_mod", w)' => Listed(id, "install_mod", w)
  BY <1>1
<1>3. QED
  BY <1>1, <1>2, OwedFrom

\* An order cancelled or expired: the mods it would have loaded are excused.
LEMMA OwedDropped ==
  ASSUME QueueOK, CallOK, AgentOK, OwedOK, [Next]_vars,
         UNCHANGED <<disk, loaded, agent, unheard>>,
         NEW i \in DOMAIN queue, Dropped(i), made' = made
  PROVE  OwedOK'
<1>1. \A id, type, wid : Listed(id, type, wid)' <=> Listed(id, type, wid) /\ id # queue[i].id
  BY Removed DEF Dropped
<1>2. owed' \subseteq owed
  BY DEF Dropped
<1>3. ASSUME NEW id \in Nat, Listed(id, "restart", NoWid)
      PROVE  Listed(id, "restart", NoWid)' \/ owed' = {}
  <2>1. CASE id # queue[i].id
    BY <1>1, <1>3, <2>1
  <2>2. CASE id = queue[i].id
    <3>1. PICK j \in DOMAIN queue : queue[j].id = id /\ queue[j].type = "restart"
      BY <1>3 DEF Listed
    <3>2. queue[i].type = "restart"
      BY <2>2, <3>1, OneOrderPerId
    <3>3. QED
      BY <3>2 DEF Dropped
  <2>3. QED
    BY <2>1, <2>2
<1>4. \A w \in owed', id \in Nat : Listed(id, "install_mod", w)' =>
        w \in owed /\ Listed(id, "install_mod", w)
  BY <1>1, <1>2
<1>5. QED
  BY <1>2, <1>3, <1>4, OwedFrom

LEMMA OwedSame ==
  ASSUME QueueOK, CallOK, AgentOK, OwedOK, [Next]_vars,
         UNCHANGED <<disk, loaded, agent, unheard, queue, owed>>
  PROVE  OwedOK'
<1>1. \A id, type, wid : Listed(id, type, wid)' <=> Listed(id, type, wid)
  BY DEF Listed
<1>2. QED
  BY <1>1, OwedFrom

\* The agent goes on, or starts over.
LEMMA OwedAgent ==
  ASSUME OwedOK, UNCHANGED <<disk, loaded, unheard, queue, owed>>,
         agent'.at # "verdict", agent'.tried \subseteq agent.tried
  PROVE  OwedOK'
BY DEF OwedOK, BatchApplied, Live, Listed

-----------------------------------------------------------------------------
(* An order is executed                                                    *)

LEMMA OwedExecute ==
  ASSUME QueueOK, AgentOK, OwedOK, unheard \in SUBSET Int,
         NEW i \in DOMAIN queue, NEW told \in BOOLEAN, NEW ok \in BOOLEAN, Execute(i, told, ok),
         disk \in [Wids -> Int], owed \subseteq Wids
  PROVE  OwedOK'
<1> DEFINE o == queue[i]
<1>1. /\ DOMAIN queue' = DOMAIN queue
      /\ \A j \in DOMAIN queue : /\ queue'[j].id = queue[j].id /\ queue'[j].type = queue[j].type
                                 /\ queue'[j].wid = queue[j].wid
  BY Marked DEF Execute
<1>2. /\ \A id, type, wid : Listed(id, type, wid)' <=> Listed(id, type, wid)
      /\ \A type, wid : Live(type, wid)' <=> Live(type, wid)
  BY <1>1 DEF Listed, Live
<1>3. /\ unheard' = unheard \union {o.id} /\ owed' \subseteq owed
      /\ agent' = [at |-> "verdict", order |-> o, ok |-> ok, tried |-> {queue[j].id : j \in 1..i}]
      /\ disk' \in DiskAfter(o, ok) /\ loaded' = IF ok /\ o.type = "restart" THEN disk ELSE loaded
  BY DEF Execute
<1>4. \A j \in 1..i : queue[j].id \in unheard'
  <2>1. SUFFICES ASSUME NEW j \in 1..i PROVE queue[j].id \in unheard'
    OBVIOUS
  <2>2. i \in Nat
    BY DEF QueueOK
  <2>3. CASE j = i
    BY <1>3, <2>3
  <2>4. CASE j # i
    <3>1. j \in 1..i-1
      BY <2>1, <2>2, <2>4
    <3>2. queue[j].id \in agent.tried
      BY <3>1 DEF Execute, IsNext
    <3>3. QED
      BY <3>2, <1>3 DEF OwedOK
  <2>5. QED
    BY <2>3, <2>4
<1>5. \A j \in DOMAIN queue : queue[j].id < o.id => j \in 1..i
  <2>1. SUFFICES ASSUME NEW j \in DOMAIN queue, queue[j].id < o.id PROVE j \in 1..i
    OBVIOUS
  <2>2. /\ j \in Nat \ {0} /\ i \in Nat /\ queue[j].id \in 1..made /\ queue[i].id \in 1..made
        /\ (i < j => queue[i].id < queue[j].id)
    BY DEF QueueOK, InOrder
  <2>3. QED
    BY <2>1, <2>2
<1>6. \A id \in Nat : \A type, wid : Listed(id, type, wid) /\ id < o.id => id \in unheard'
  BY <1>4, <1>5 DEF Listed
<1>7. ASSUME NEW w \in owed', disk'[w] \notin {None, loaded'[w]}
      PROVE  Live("restart", NoWid)
  <2>1. CASE disk'[w] = disk[w] /\ loaded' = loaded
    BY <1>3, <1>7, <2>1 DEF OwedOK, BatchApplied
  <2>2. CASE o.type = "install_mod" /\ o.wid = w
    <3>1. CASE o.id \in unheard
      BY <1>7, <2>2, <3>1 DEF Execute
    <3>2. CASE o.id \notin unheard
      <4>1. Listed(o.id, "install_mod", w) /\ o.id \in Nat
        BY <2>2 DEF Listed, QueueOK, InOrder
      <4>2. \E later \in Nat : Listed(later, "restart", NoWid)
        BY <1>3, <1>7, <3>2, <4>1 DEF OwedOK
      <4>3. QED
        BY <4>2, ListedFacts
    <3>3. QED
      BY <3>1, <3>2
  <2>3. w \in Wids
    BY <1>3
  <2>4. CASE o.type = "install_mod" /\ o.wid # w
    <3>1. disk'[w] = disk[w] /\ loaded' = loaded
      BY <1>3, <2>3, <2>4 DEF DiskAfter
    <3>2. QED
      BY <3>1, <2>1
  <2>5. CASE o.type = "restart"
    BY <1>3, <1>7, <2>1, <2>5 DEF DiskAfter
  <2>6. CASE o.type = "remove_mod"
    <3>1. disk'[w] \in {None, disk[w]} /\ loaded' = loaded
      BY <1>3, <2>3, <2>6 DEF DiskAfter
    <3>2. QED
      BY <1>7, <3>1, <2>1
  <2>7. o.type \in {"install_mod", "remove_mod", "restart"}
    <3>1. queue[i] \in Orders
      BY DEF QueueOK
    <3>2. QED
      BY <3>1 DEF Orders
  <2>8. QED
    BY <2>2, <2>4, <2>5, <2>6, <2>7
<1>8. BatchApplied'
  BY <1>2, <1>7 DEF BatchApplied
<1>9. (\A w \in owed, id \in Nat : Listed(id, "install_mod", w) /\ id \notin unheard =>
         \E later \in Nat : id < later /\ Listed(later, "restart", NoWid))'
  BY <1>2, <1>3 DEF OwedOK
<1>10. (agent.tried \subseteq unheard)'
  BY <1>3, <1>4
<1>11. ok /\ o.type = "restart" => disk' = loaded'
  BY <1>3 DEF DiskAfter
<1> HIDE DEF o
<1>12. agent'.order = o /\ agent'.ok = ok
  BY <1>3
<1>13. (\A id \in Nat : \A type, wid :
          Listed(id, type, wid) /\ id < agent.order.id => id \in unheard)'
  BY <1>2, <1>6, <1>12
<1>14. QED
  BY <1>3, <1>8, <1>9, <1>10, <1>11, <1>12, <1>13 DEF OwedOK

LEMMA OwedVerdict ==
  ASSUME QueueOK, AgentOK, OwedOK, NEW told \in BOOLEAN, Verdict(told)
  PROVE  OwedOK'
<1> DEFINE o == agent.order
           left == {id \in agent.tried : \E i \in DOMAIN queue' : queue'[i].id = id}
<1>1. /\ agent.at = "verdict" /\ UNCHANGED <<disk, loaded, made>> /\ owed' \subseteq owed
      /\ agent' = [at |-> "report", order |-> NoOrder, ok |-> FALSE, tried |-> left]
      /\ queue' = (IF told THEN Without(o.id) ELSE queue)
      /\ unheard' = IF told THEN unheard \ {o.id} ELSE unheard
  BY DEF Verdict, world
<1>2. agent'.at # "verdict" /\ agent'.tried = left
  BY <1>1
<1>3. CASE ~ told
  <2>1. UNCHANGED <<disk, loaded, unheard, queue>> /\ owed' = owed
    BY <1>1, <1>3 DEF Verdict
  <2>2. QED
    BY <1>2, <2>1, OwedAgent
<1>4. CASE told
  <2>1. \A id, type, wid : Listed(id, type, wid)' <=> Listed(id, type, wid) /\ id # o.id
    <3>1. PICK n : n = o.id
      OBVIOUS
    <3>2. \A id, type, wid : Listed(id, type, wid)' <=> Listed(id, type, wid) /\ id # n
      BY <1>1, <1>4, <3>1, WithoutFacts
    <3>3. QED
      BY <3>1, <3>2
  <2>2. (agent.tried \subseteq unheard)'
    <3>1. \A i \in DOMAIN queue' : queue'[i].id # o.id
      <4>1. \A i \in DOMAIN queue' : Listed(queue[i].id, queue[i].type, queue[i].wid)'
        BY DEF Listed
      <4>2. ASSUME NEW i \in DOMAIN queue', queue'[i].id = o.id
            PROVE  FALSE
        <5>1. PICK n, type, wid : n = queue'[i].id /\ type = queue'[i].type /\ wid = queue'[i].wid
          OBVIOUS
        <5>2. Listed(n, type, wid)'
          BY <5>1 DEF Listed
        <5>3. QED
          BY <2>1, <4>2, <5>1, <5>2
      <4>3. QED
        BY <4>2
    <3>2. left \subseteq unheard'
      BY <1>1, <3>1 DEF OwedOK
    <3>3. QED
      BY <1>2, <3>2
  <2>3. ASSUME NEW w \in owed', NEW id \in Nat, Listed(id, "install_mod", w)', id \notin unheard'
        PROVE  \E later \in Nat : id < later /\ Listed(later, "restart", NoWid)'
    <3>1. Listed(id, "install_mod", w) /\ id # o.id /\ id \notin unheard /\ w \in owed
      BY <1>1, <2>1, <2>3
    <3>2. PICK later \in Nat : id < later /\ Listed(later, "restart", NoWid)
      BY <3>1 DEF OwedOK
    <3>3. later # o.id
      BY <1>1, <3>1, <3>2 DEF OwedOK
    <3>4. QED
      BY <2>1, <3>2, <3>3
  <2>4. BatchApplied'
    <3>1. CASE o.type # "restart"
      <4>1. SUFFICES ASSUME NEW w \in owed', disk[w] \notin {None, loaded[w]}
                     PROVE  Live("restart", NoWid)'
        BY <1>1 DEF BatchApplied
      <4>2. Live("restart", NoWid)
        BY <1>1, <4>1 DEF OwedOK, BatchApplied
      <4>3. PICK id \in Nat : Listed(id, "restart", NoWid)
        BY <4>2, LiveListed
      <4>4. id # o.id
        BY <1>1, <3>1, <4>3 DEF AgentOK
      <4>5. Listed(id, "restart", NoWid)'
        BY <2>1, <4>3, <4>4
      <4>6. QED
        BY <4>5 DEF Listed, Live
    <3>2. CASE o.type = "restart" /\ agent.ok
      BY <1>1, <3>2 DEF OwedOK, BatchApplied
    <3>3. CASE o.type = "restart" /\ ~ agent.ok
      <4>1. CASE \E i \in DOMAIN queue : queue[i].id = o.id
        <5>1. owed' = {}
          BY <1>4, <3>3, <4>1 DEF Verdict
        <5>2. QED
          BY <5>1 DEF BatchApplied
      <4>2. CASE ~ \E i \in DOMAIN queue : queue[i].id = o.id
        <5>1. queue' = queue
          BY <1>1, <4>2 DEF Without
        <5>2. QED
          BY <1>1, <5>1 DEF OwedOK, BatchApplied, Live
      <4>3. QED
        BY <4>1, <4>2
    <3>4. QED
      BY <3>1, <3>2, <3>3
  <2>5. (\A w \in owed, id \in Nat : Listed(id, "install_mod", w) /\ id \notin unheard =>
           \E later \in Nat : id < later /\ Listed(later, "restart", NoWid))'
    BY <2>3
  <2>6. QED
    BY <1>2, <2>2, <2>4, <2>5 DEF OwedOK
<1>5. QED
  BY <1>3, <1>4

-----------------------------------------------------------------------------
(* Types                                                                   *)

Entries == [listed : BOOLEAN, titled : BOOLEAN, installed_at : 0..MaxTime, steam_at : 0..MaxTime]

DatesTyped ==
  /\ meta \in [Wids -> Entries] /\ published \in [Wids -> 1..MaxTime] /\ now \in 1..MaxTime
  /\ disk \in [Wids -> 0..MaxTime] /\ loaded \in [Wids -> 0..MaxTime]

FlagsTyped ==
  /\ vacant \in BOOLEAN /\ up \in BOOLEAN /\ cooling \in BOOLEAN /\ fresh \in BOOLEAN
  /\ faults \in 0..MaxFaults

HistoryTyped ==
  /\ unheard \subseteq 1..MaxOrders /\ unstamped \subseteq Wids
  /\ overtaken \subseteq Wids /\ owed \subseteq Wids

LEMMA MetaFacts ==
  ASSUME DatesTyped
  PROVE  /\ Absent \in Entries
         /\ \A w \in Wids : Described(meta[w], published[w]) \in Entries
         /\ \A w \in Wids : Described(meta[w], None) \in Entries
         /\ \A w : Forgotten(w) \in [Wids -> Entries]
         /\ \A w : Stamped(w) \in [Wids -> Entries]
         /\ \A ids : StateUpdated(ids) \in [Wids -> Entries]
<1>1. Absent \in Entries
  BY BoundsAssumption DEF Absent, Entries, None
<1>2. \A w \in Wids : meta[w] \in Entries /\ published[w] \in 1..MaxTime
  BY DEF DatesTyped
<1>3. \A w \in Wids : /\ Described(meta[w], published[w]) \in Entries
                      /\ Described(meta[w], None) \in Entries
  BY <1>2 DEF Described, Entries, None
<1>4. \A w : Forgotten(w) \in [Wids -> Entries]
  BY <1>1 DEF Forgotten, DatesTyped
<1>5. \A w \in Wids : /\ [meta[w] EXCEPT !.installed_at = now] \in Entries
                      /\ [meta[w] EXCEPT !.listed = TRUE, !.installed_at = now] \in Entries
  <2>1. SUFFICES ASSUME NEW w \in Wids, NEW e, e = meta[w]
                 PROVE  /\ [e EXCEPT !.installed_at = now] \in Entries
                        /\ [e EXCEPT !.listed = TRUE, !.installed_at = now] \in Entries
    OBVIOUS
  <2>2. e \in Entries /\ now \in 0..MaxTime
    BY <1>2, <2>1, BoundsAssumption DEF DatesTyped
  <2>3. QED
    BY <2>2 DEF Entries
<1>6. ASSUME NEW w
      PROVE  Stamped(w) \in [Wids -> Entries]
  <2>1. CASE w \in Wids
    BY <1>5, <2>1 DEF Stamped, DatesTyped
  <2>2. CASE w \notin Wids
    BY <2>2 DEF Stamped, DatesTyped
  <2>3. QED
    BY <2>1, <2>2
<1>7. ASSUME NEW ids
      PROVE  StateUpdated(ids) \in [Wids -> Entries]
  BY <1>1, <1>2, <1>5 DEF StateUpdated
<1>8. QED
  BY <1>1, <1>3, <1>4, <1>6, <1>7

LEMMA DatesTypedStep ==
  ASSUME QueueOK, AgentOK, DatesTyped, [Next]_vars
  PROVE  DatesTyped'
<1>1. CASE UNCHANGED <<meta, published, now, disk, loaded>>
  BY <1>1 DEF DatesTyped
<1>2. ASSUME meta' \in [Wids -> Entries], UNCHANGED world
      PROVE  DatesTyped'
  BY <1>2 DEF DatesTyped, world
<1>3. ASSUME NEW c \in Callers, NEW answered, BulkAnswer(c, answered)
      PROVE  DatesTyped'
  <2>1. meta' \in [Wids -> Entries]
    BY <1>3, MetaFacts DEF BulkAnswer, DatesTyped
  <2>2. QED
    BY <1>2, <1>3, <2>1 DEF BulkAnswer
<1>4. ASSUME NEW c \in Callers, NEW w, NEW answer, ItemAnswer(c, w, answer)
      PROVE  DatesTyped'
  <2>1. meta' \in [Wids -> Entries]
    BY <1>4, MetaFacts DEF ItemAnswer, DatesTyped
  <2>2. QED
    BY <1>2, <1>4, <2>1 DEF ItemAnswer
<1>5. ASSUME NEW c \in Callers, NEW w \in Wids, InstallAnswer(c, w)
      PROVE  DatesTyped'
  <2>1. meta' \in [Wids -> Entries]
    BY <1>5, MetaFacts DEF InstallAnswer, DatesTyped
  <2>2. QED
    BY <1>2, <1>5, <2>1 DEF InstallAnswer
<1>6. ASSUME NEW w \in Wids, RemoveMod(w)
      PROVE  DatesTyped'
  BY <1>2, <1>6, MetaFacts DEF RemoveMod
<1>7. ASSUME NEW i \in DOMAIN queue, CancelOrder(i)
      PROVE  DatesTyped'
  <2>1. meta' \in [Wids -> Entries]
    BY <1>7, MetaFacts DEF CancelOrder, DatesTyped
  <2>2. QED
    BY <1>2, <1>7, <2>1 DEF CancelOrder
<1>8. ASSUME NEW i \in DOMAIN queue, NEW told, NEW ok \in BOOLEAN, Execute(i, told, ok)
      PROVE  DatesTyped'
  <2>1. queue[i] \in Orders /\ Named(queue[i])
    BY DEF QueueOK, InOrder
  <2>2. /\ queue[i].type \in {"install_mod", "remove_mod", "restart"}
        /\ queue[i].type # "restart" => queue[i].wid \in Wids
    BY <2>1 DEF Orders, Named
  <2>3. /\ disk' \in DiskAfter(queue[i], ok) /\ loaded' \in {loaded, disk}
        /\ UNCHANGED <<meta, published, now>>
    BY <1>8 DEF Execute, store
  <2>4. disk' \in [Wids -> 0..MaxTime]
    <3>1. CASE queue[i].type = "install_mod"
      <4>1. \A w \in Wids : published[w] \in 0..MaxTime /\ None \in 0..MaxTime
        BY BoundsAssumption DEF DatesTyped, None
      <4>2. QED
        BY <2>2, <2>3, <3>1, <4>1 DEF DiskAfter, DatesTyped
    <3>2. CASE queue[i].type # "install_mod"
      <4>1. None \in 0..MaxTime
        BY BoundsAssumption DEF None
      <4>2. QED
        BY <2>2, <2>3, <3>2, <4>1 DEF DiskAfter, DatesTyped
    <3>3. QED
      BY <3>1, <3>2
  <2>5. QED
    BY <2>3, <2>4 DEF DatesTyped
<1>9. ASSUME NEW told, Verdict(told)
      PROVE  DatesTyped'
  <2>1. meta' \in [Wids -> Entries]
    BY <1>9, MetaFacts DEF Verdict, DatesTyped
  <2>2. QED
    BY <1>2, <1>9, <2>1 DEF Verdict
<1>10. ASSUME NEW empty, NEW running, Report(empty, running)
       PROVE  DatesTyped'
  BY <1>2, <1>10, MetaFacts DEF Report
<1>11. ASSUME NEW w \in Wids, Publish(w)
       PROVE  DatesTyped'
  <2>1. now' \in 1..MaxTime /\ published' \in [Wids -> 1..MaxTime]
    BY <1>11, BoundsAssumption DEF Publish, DatesTyped
  <2>2. QED
    BY <1>11, <2>1 DEF Publish, DatesTyped, store
<1>12. QED
  BY <1>1, <1>3, <1>4, <1>5, <1>6, <1>7, <1>8, <1>9, <1>10, <1>11
  DEF Next, vars, store, world, StartCall, TimersElapse, InstallMod, InstallFails, Expire,
    ReportLost, AgentCrash

LEMMA FlagsTypedStep ==
  ASSUME FlagsTyped, [Next]_vars
  PROVE  FlagsTyped'
<1>1. faults' \in {faults, faults + 1} /\ (faults' # faults => faults < MaxFaults)
  BY DEF Next, vars, history, StartCall, BulkAnswer, ItemAnswer, TimersElapse, InstallMod,
    InstallAnswer, InstallFails, RemoveMod, CancelOrder, Expire, Execute, Verdict, Report,
    ReportLost, AgentCrash, Publish
<1>2. vacant' \in BOOLEAN /\ up' \in BOOLEAN
  <2>1. \/ UNCHANGED <<vacant, up>>
        \/ \E empty, running \in BOOLEAN : Report(empty, running)
    BY ZenonT(30) DEF Next, vars, store, StartCall, BulkAnswer, ItemAnswer, TimersElapse, InstallMod,
      InstallAnswer, InstallFails, RemoveMod, CancelOrder, Expire, Execute, Verdict, ReportLost,
      AgentCrash, Publish
  <2>2. QED
    BY <2>1 DEF FlagsTyped, Report
<1>3. fresh' \in BOOLEAN
  <2>1. \/ fresh' = fresh \/ TimersElapse
        \/ \E c \in Callers, kind \in {"auto", "admin", "page"} : StartCall(c, kind)
    BY DEF Next, vars, timers, BulkAnswer, ItemAnswer, InstallMod, InstallAnswer, InstallFails,
      RemoveMod, CancelOrder, Expire, Execute, Verdict, Report, ReportLost, AgentCrash, Publish
  <2>2. QED
    BY <2>1 DEF FlagsTyped, TimersElapse, StartCall
<1>4. cooling' \in BOOLEAN
  <2>1. ASSUME NEW ids, NEW m, NEW author, Enqueue(ids, m, author)
        PROVE  cooling' \in BOOLEAN
    <3>1. cooling' = cooling \/ cooling' = (cooling \/ author = "auto")
      BY <2>1, Zenon DEF Enqueue
    <3>2. QED
      BY <3>1, Zenon DEF FlagsTyped
  <2>2. ASSUME NEW c, NEW kind, NEW ids, NEW m, AfterRefresh(c, kind, ids, m)
        PROVE  cooling' \in BOOLEAN
    BY <2>1, <2>2 DEF FlagsTyped, AfterRefresh
  <2>3. ASSUME NEW c, NEW kind, StartCall(c, kind)
        PROVE  cooling' \in BOOLEAN
    BY <2>2, <2>3 DEF FlagsTyped, StartCall
  <2>4. ASSUME NEW c, NEW answered, BulkAnswer(c, answered)
        PROVE  cooling' \in BOOLEAN
    BY <2>2, <2>4 DEF BulkAnswer
  <2>5. \/ cooling' = cooling \/ TimersElapse
        \/ \E c \in Callers, kind \in {"auto", "admin", "page"} : StartCall(c, kind)
        \/ \E c \in Callers : \E answered : BulkAnswer(c, answered)
    BY DEF Next, vars, timers, ItemAnswer, InstallMod, InstallAnswer, InstallFails,
      RemoveMod, CancelOrder, Expire, Execute, Verdict, Report, ReportLost, AgentCrash, Publish
  <2>6. QED
    BY <2>3, <2>4, <2>5 DEF FlagsTyped, TimersElapse
<1>5. faults' \in 0..MaxFaults
  BY <1>1, BoundsAssumption DEF FlagsTyped
<1>6. QED
  BY <1>2, <1>3, <1>4, <1>5 DEF FlagsTyped

LEMMA HistoryTypedStep ==
  ASSUME QueueOK, CallOK, AgentOK, HistoryTyped, [Next]_vars
  PROVE  HistoryTyped'
<1>1. \A i \in DOMAIN queue : queue[i].id \in 1..MaxOrders /\ Named(queue[i])
  <2>1. \A i \in DOMAIN queue : queue[i].id \in 1..made /\ Named(queue[i])
    BY DEF QueueOK, InOrder
  <2>2. made <= MaxOrders /\ made \in Nat
    BY BoundsAssumption DEF QueueOK
  <2>3. QED
    BY <2>1, <2>2, BoundsAssumption
<1>2. unheard' \subseteq 1..MaxOrders
  <2>1. \/ unheard' \subseteq unheard
        \/ \E i \in DOMAIN queue : unheard' = unheard \union {queue[i].id}
    BY DEF Next, vars, history, StartCall, BulkAnswer, ItemAnswer, TimersElapse, InstallMod,
      InstallAnswer, InstallFails, RemoveMod, CancelOrder, Expire, Execute, Verdict, Report,
      ReportLost, AgentCrash, Publish
  <2>2. unheard \subseteq 1..MaxOrders /\ \A i \in DOMAIN queue : queue[i].id \in 1..MaxOrders
    BY <1>1 DEF HistoryTyped
  <2>3. CASE unheard' \subseteq unheard
    BY <2>2, <2>3, Zenon
  <2>4. CASE \E i \in DOMAIN queue : unheard' = unheard \union {queue[i].id}
    <3>1. PICK i \in DOMAIN queue : unheard' = unheard \union {queue[i].id}
      BY <2>4
    <3>2. queue[i].id \in 1..MaxOrders
      BY <2>2
    <3>3. QED
      BY <2>2, <3>1, <3>2, Zenon
  <2>5. QED
    BY <2>1, <2>3, <2>4
<1>3. unstamped' \subseteq Wids
  <2>1. \/ unstamped' \subseteq unstamped
        \/ \E i \in DOMAIN queue : /\ queue[i].type = "install_mod"
                                   /\ unstamped' = unstamped \union {queue[i].wid}
    BY DEF Next, vars, history, StartCall, BulkAnswer, ItemAnswer, TimersElapse, InstallMod,
      InstallAnswer, InstallFails, RemoveMod, CancelOrder, Expire, Execute, Verdict, Report,
      ReportLost, AgentCrash, Publish
  <2>2. QED
    BY <1>1, <2>1 DEF HistoryTyped, Named
<1>4. overtaken' \subseteq Wids
  BY DEF UndatedBy, HistoryTyped, Next, vars, history, StartCall, BulkAnswer, ItemAnswer,
    TimersElapse, InstallMod, InstallAnswer, InstallFails, RemoveMod, CancelOrder, Expire,
    Execute, Verdict, Report, ReportLost, AgentCrash, Publish
<1>5. owed' \subseteq Wids
  <2>1. ASSUME NEW c \in Callers,
               \/ \E kind \in {"auto", "admin", "page"} : StartCall(c, kind)
               \/ \E answered : BulkAnswer(c, answered)
        PROVE  owed' \subseteq Wids
    BY <2>1, RequestMoves DEF Batched, HistoryTyped
  <2>2. QED
    BY <2>1 DEF HistoryTyped, Next, vars, history, ItemAnswer, TimersElapse,
      InstallMod, InstallAnswer, InstallFails, RemoveMod, CancelOrder, Expire, Dropped, Execute,
      Verdict, Report, ReportLost, AgentCrash, Publish
<1>6. QED
  BY <1>2, <1>3, <1>4, <1>5 DEF HistoryTyped

-----------------------------------------------------------------------------
(* What a batch is owed, step by step                                      *)

LEMMA AgentMoves ==
  ASSUME AgentOK, AgentCrash \/ ReportLost \/ \E empty, running \in BOOLEAN : Report(empty, running)
  PROVE  agent'.at # "verdict" /\ agent'.tried \subseteq agent.tried
<1>1. agent \in Agents
  BY DEF AgentOK
<1>2. CASE agent' = [at |-> "idle", order |-> NoOrder, ok |-> FALSE, tried |-> {}]
  BY <1>2
<1>3. CASE agent' = [agent EXCEPT !.at = "idle"]
  BY <1>1, <1>3 DEF Agents
<1>4. CASE agent' = [agent EXCEPT !.at = "idle", !.tried = {}]
  BY <1>1, <1>4 DEF Agents
<1>5. QED
  BY <1>1, <1>2, <1>3, <1>4 DEF AgentCrash, ReportLost, Report, Agents

LEMMA OwedStep ==
  ASSUME QueueOK, CallOK, AgentOK, OwedOK, DatesTyped, HistoryTyped, [Next]_vars
  PROVE  OwedOK'
<1>1. unheard \in SUBSET Int /\ disk \in [Wids -> Int] /\ owed \subseteq Wids
  BY BoundsAssumption DEF HistoryTyped, DatesTyped
<1>2. CASE UNCHANGED <<disk, loaded, agent, unheard, queue, owed>>
  BY <1>2, OwedSame
<1>3. ASSUME NEW c \in Callers,
             \/ \E kind \in {"auto", "admin", "page"} : StartCall(c, kind)
             \/ \E answered : BulkAnswer(c, answered)
      PROVE  OwedOK'
  <2>1. UNCHANGED <<disk, loaded, agent, unheard>>
    BY <1>3 DEF StartCall, BulkAnswer, world
  <2>2. CASE UNCHANGED <<queue, made, owed>>
    BY <2>1, <2>2, <1>2
  <2>3. CASE \E ids \in SUBSET Wids, author \in {"auto", "admin"} : Batched(ids, meta', author)
    BY <2>1, <2>3, OwedBatched
  <2>4. QED
    BY <1>3, <2>2, <2>3, RequestMoves
<1>4. ASSUME NEW c \in Callers, NEW w \in Wids, InstallAnswer(c, w)
      PROVE  OwedOK'
  <2> DEFINE new == Installs({w}, "admin")
  <2>1. UNCHANGED <<disk, loaded, agent, unheard>>
    BY <1>4 DEF InstallAnswer, world
  <2>2. CASE UNCHANGED <<queue, made, owed>>
    BY <2>1, <2>2, <1>2
  <2>3. CASE /\ Adds(new) /\ owed' = owed \ {w} /\ DOMAIN new = {1}
             /\ new[1] = [id |-> made + 1, type |-> "install_mod", wid |-> w,
                          author |-> "admin", status |-> "pending"]
    <3>1. new[1].wid \notin owed' /\ owed' \subseteq owed
      BY <2>3
    <3>2. QED
      BY <2>1, <2>3, <3>1, OwedOrdered
  <2>4. QED
    BY <1>4, <2>2, <2>3, InstallAdds
<1>5. ASSUME NEW w \in Wids, RemoveMod(w)
      PROVE  OwedOK'
  <2>1. UNCHANGED <<disk, loaded, agent, unheard, owed>>
    BY <1>5 DEF RemoveMod, world
  <2>2. CASE UNCHANGED <<queue, made>>
    BY <2>1, <2>2, <1>2
  <2>3. CASE \E new : /\ Adds(new) /\ DOMAIN new = {1}
                      /\ new[1] = [id |-> made + 1, type |-> "remove_mod", wid |-> w,
                                   author |-> "admin", status |-> "pending"]
    <3>1. PICK new : /\ Adds(new) /\ DOMAIN new = {1} /\ new[1].type = "remove_mod"
      BY <2>3
    <3>2. QED
      BY <2>1, <3>1, OwedOrdered
  <2>4. QED
    BY <1>5, <2>2, <2>3, RemoveAdds
<1>6. ASSUME NEW i \in DOMAIN queue, CancelOrder(i) \/ Expire(i)
      PROVE  OwedOK'
  <2>1. UNCHANGED <<disk, loaded, agent, unheard>> /\ Dropped(i) /\ made' = made
    BY <1>6 DEF CancelOrder, Expire, world
  <2>2. QED
    BY <2>1, OwedDropped
<1>7. ASSUME NEW i \in DOMAIN queue, NEW told \in BOOLEAN, NEW ok \in BOOLEAN,
             Execute(i, told, ok)
      PROVE  OwedOK'
  BY <1>1, <1>7, OwedExecute
<1>8. ASSUME NEW told \in BOOLEAN, Verdict(told)
      PROVE  OwedOK'
  BY <1>8, OwedVerdict
<1>9. CASE AgentCrash \/ ReportLost \/ \E empty, running \in BOOLEAN : Report(empty, running)
  <2>1. UNCHANGED <<disk, loaded, unheard, queue, owed>>
    BY <1>9 DEF AgentCrash, ReportLost, Report, world
  <2>2. agent'.at # "verdict" /\ agent'.tried \subseteq agent.tried
    BY <1>9, AgentMoves
  <2>3. QED
    BY <2>1, <2>2, OwedAgent
<1>10. QED
  BY <1>2, <1>3, <1>4, <1>5, <1>6, <1>7, <1>8, <1>9
  DEF Next, vars, history, world, ItemAnswer, TimersElapse, InstallMod, InstallFails, Publish

-----------------------------------------------------------------------------
(* The dates of a mod                                                      *)

\* No date is later than what it dates; the copy of a mod is not newer than
\* its installed_at, unless this one is still to be set.  A copy neither
\* overtaken nor undated is either the last one published, or older than a
\* version published after installed_at; and so for the date that Steam gave.
Dates(w) ==
  LET entry == meta[w] IN
  /\ entry.installed_at <= now /\ entry.steam_at <= published[w] /\ published[w] <= now
  /\ disk[w] <= published[w]
  /\ w \notin unstamped /\ entry.installed_at # None => disk[w] <= entry.installed_at
  /\ disk[w] # None /\ w \notin overtaken /\ w \in unstamped => published[w] = disk[w]
  /\ disk[w] # None /\ w \notin overtaken /\ w \notin unstamped =>
       /\ entry.installed_at # None
       /\ published[w] = disk[w] \/ published[w] > entry.installed_at
       /\ entry.steam_at <= disk[w] \/ entry.steam_at > entry.installed_at

\* The verdict of an install dates a copy that has no date yet.
DatesOK ==
  /\ \A w \in Wids : Dates(w)
  /\ agent.at = "verdict" /\ agent.ok /\ agent.order.type = "install_mod" =>
       agent.order.wid \in unstamped

LEMMA DateFacts ==
  ASSUME DatesTyped, NEW w \in Wids
  PROVE  /\ meta[w].installed_at \in Nat /\ meta[w].steam_at \in Nat
         /\ published[w] \in Nat \ {0} /\ disk[w] \in Nat /\ now \in Nat \ {0}
<1>1. meta[w] \in Entries /\ published[w] \in 1..MaxTime /\ disk[w] \in 0..MaxTime
  BY DEF DatesTyped
<1>2. QED
  BY <1>1, BoundsAssumption DEF Entries, DatesTyped

\* The date that Steam gives, if any, and a copy that is removed.
LEMMA DatesKept ==
  ASSUME DatesTyped, NEW w \in Wids, Dates(w),
         meta'[w].installed_at = meta[w].installed_at,
         meta'[w].steam_at \in {meta[w].steam_at, published[w]},
         published'[w] = published[w], now' = now, disk'[w] \in {disk[w], None},
         w \in unstamped' <=> w \in unstamped, w \in overtaken => w \in overtaken'
  PROVE  Dates(w)'
<1>1. /\ meta[w].installed_at \in Nat /\ meta[w].steam_at \in Nat
      /\ published[w] \in Nat \ {0} /\ disk[w] \in Nat /\ now \in Nat \ {0}
  BY DateFacts
<1>2. QED
  BY <1>1 DEF Dates, None

\* An entry that goes takes the date of the copy with it.
LEMMA DatesForgotten ==
  ASSUME DatesTyped, NEW w \in Wids, Dates(w), meta'[w] \in {meta[w], Absent},
         UNCHANGED <<published, now, disk, unstamped>>,
         overtaken' = overtaken \union UndatedBy(meta')
  PROVE  Dates(w)'
<1>1. /\ meta[w].installed_at \in Nat /\ meta[w].steam_at \in Nat
      /\ published[w] \in Nat \ {0} /\ disk[w] \in Nat /\ now \in Nat \ {0}
  BY DateFacts
<1>2. CASE meta'[w] = meta[w]
  BY <1>2, DatesKept
<1>3. CASE meta'[w] = Absent
  <2>1. meta'[w].installed_at = None /\ meta'[w].steam_at = None
    BY <1>3 DEF Absent
  <2>2. disk[w] # None /\ meta[w].installed_at # None => w \in overtaken'
    BY <2>1 DEF UndatedBy
  <2>3. QED
    BY <1>1, <2>1, <2>2 DEF Dates, None
<1>4. QED
  BY <1>2, <1>3

\* A copy just written by the agent.
LEMMA DatesWritten ==
  ASSUME DatesTyped, NEW w \in Wids, Dates(w), UNCHANGED <<meta, published, now>>,
         disk'[w] = published[w], w \in unstamped'
  PROVE  Dates(w)'
<1>1. /\ meta[w].installed_at \in Nat /\ meta[w].steam_at \in Nat
      /\ published[w] \in Nat \ {0} /\ disk[w] \in Nat /\ now \in Nat \ {0}
  BY DateFacts
<1>2. QED
  BY <1>1 DEF Dates

\* The date is set by the verdict, or by the report that shows the mod first:
\* the copy had none, so it is the last one published, or was overtaken.
LEMMA DatesSet ==
  ASSUME DatesTyped, NEW w \in Wids, Dates(w), UNCHANGED <<published, disk, now, overtaken>>,
         meta'[w].installed_at = now, meta'[w].steam_at = meta[w].steam_at,
         w \in unstamped \/ meta[w].installed_at = None, w \notin unstamped'
  PROVE  Dates(w)'
<1>1. /\ meta[w].installed_at \in Nat /\ meta[w].steam_at \in Nat
      /\ published[w] \in Nat \ {0} /\ disk[w] \in Nat /\ now \in Nat \ {0}
  BY DateFacts
<1>2. QED
  BY <1>1 DEF Dates, None

\* A version is published.
LEMMA DatesPublished ==
  ASSUME DatesTyped, NEW w \in Wids, Dates(w), UNCHANGED <<meta, disk, unstamped>>,
         now' = now + 1, published'[w] = now + 1,
         w \in unstamped => w \in overtaken', w \in overtaken => w \in overtaken'
  PROVE  Dates(w)'
<1>1. /\ meta[w].installed_at \in Nat /\ meta[w].steam_at \in Nat
      /\ published[w] \in Nat \ {0} /\ disk[w] \in Nat /\ now \in Nat \ {0}
  BY DateFacts
<1>2. QED
  BY <1>1 DEF Dates, None

LEMMA DatesLater ==
  ASSUME DatesTyped, NEW w \in Wids, Dates(w), UNCHANGED <<meta, disk, unstamped>>,
         now' = now + 1, published'[w] = published[w], w \in overtaken => w \in overtaken'
  PROVE  Dates(w)'
<1>1. /\ meta[w].installed_at \in Nat /\ meta[w].steam_at \in Nat
      /\ published[w] \in Nat \ {0} /\ disk[w] \in Nat /\ now \in Nat \ {0}
  BY DateFacts
<1>2. QED
  BY <1>1 DEF Dates, None

LEMMA DescribedDates ==
  ASSUME DatesTyped, NEW w \in Wids, NEW date \in {published[w], None}
  PROVE  /\ Described(meta[w], date).installed_at = meta[w].installed_at
         /\ Described(meta[w], date).steam_at \in {meta[w].steam_at, published[w]}
BY DEF Described

LEMMA DatesStep ==
  ASSUME QueueOK, AgentOK, DatesTyped, DatesOK, [Next]_vars
  PROVE  \A w \in Wids : Dates(w)'
<1> SUFFICES ASSUME NEW v \in Wids
             PROVE  Dates(v)'
  OBVIOUS
<1>1. Dates(v)
  BY DEF DatesOK
<1>2. CASE UNCHANGED <<meta, world, unstamped, overtaken>>
  BY <1>1, <1>2, DatesKept DEF world
<1>3. ASSUME UNCHANGED <<world, unstamped, overtaken>>,
             \/ meta'[v] = meta[v]
             \/ \E date \in {published[v], None} : meta'[v] = Described(meta[v], date)
      PROVE  Dates(v)'
  BY <1>1, <1>3, DescribedDates, DatesKept DEF world
<1>4. \A w \in Wids : DOMAIN meta = Wids
  BY DEF DatesTyped
<1>5. ASSUME NEW c \in Callers, NEW answered, BulkAnswer(c, answered)
      PROVE  Dates(v)'
  BY <1>3, <1>5 DEF BulkAnswer
<1>6. ASSUME NEW c \in Callers, NEW w, NEW answer, ItemAnswer(c, w, answer)
      PROVE  Dates(v)'
  BY <1>3, <1>4, <1>6 DEF ItemAnswer, history
<1>7. ASSUME NEW c \in Callers, NEW w \in Wids, InstallAnswer(c, w)
      PROVE  Dates(v)'
  BY <1>3, <1>4, <1>7 DEF InstallAnswer
<1>8. ASSUME NEW w, meta' = Forgotten(w)
      PROVE  meta'[v] \in {meta[v], Absent}
  BY <1>4, <1>8 DEF Forgotten
<1>9. ASSUME NEW w \in Wids, RemoveMod(w)
      PROVE  Dates(v)'
  BY <1>1, <1>8, <1>9, DatesForgotten DEF RemoveMod, world
<1>10. ASSUME NEW i \in DOMAIN queue, CancelOrder(i)
       PROVE  Dates(v)'
  <2>1. meta'[v] \in {meta[v], Absent}
    BY <1>8, <1>10 DEF CancelOrder
  <2>2. QED
    BY <2>1, <1>1, <1>10, DatesForgotten DEF CancelOrder, world
<1>11. ASSUME NEW i \in DOMAIN queue, NEW told, NEW ok \in BOOLEAN, Execute(i, told, ok)
       PROVE  Dates(v)'
  <2> DEFINE o == queue[i]
  <2>1. o \in Orders /\ Named(o) /\ DOMAIN disk = Wids
    BY DEF QueueOK, InOrder, DatesTyped
  <2>2. /\ o.type \in {"install_mod", "remove_mod", "restart"}
        /\ o.type # "restart" => o.wid \in Wids
    BY <2>1 DEF Orders, Named
  <2>3. UNCHANGED <<meta, published, now>> /\ disk' \in DiskAfter(o, ok)
    BY <1>11 DEF Execute, store
  <2>4. CASE ok /\ o.type = "install_mod" /\ o.wid = v
    <3>1. v \in unstamped' /\ disk'[v] = published[v]
      BY <1>11, <2>1, <2>3, <2>4 DEF Execute, DiskAfter
    <3>2. QED
      BY <1>1, <2>3, <3>1, DatesWritten
  <2>5. CASE ~ (ok /\ o.type = "install_mod" /\ o.wid = v)
    <3>1. (v \in unstamped' <=> v \in unstamped) /\ (v \in overtaken => v \in overtaken')
      BY <1>11, <2>5 DEF Execute
    <3>2. disk'[v] \in {disk[v], None}
      BY <2>1, <2>2, <2>3, <2>5 DEF DiskAfter
    <3>3. QED
      BY <1>1, <2>3, <3>1, <3>2, DatesKept
  <2>6. QED
    BY <2>4, <2>5
<1>12. ASSUME NEW told, Verdict(told)
       PROVE  Dates(v)'
  <2> DEFINE w == agent.order.wid
             heard == told /\ \E i \in DOMAIN queue : queue[i].id = agent.order.id
             installs == heard /\ agent.ok /\ agent.order.type = "install_mod"
  <2>1. /\ UNCHANGED <<world, overtaken>> /\ agent.at = "verdict"
        /\ meta' = IF installs THEN Stamped(w) ELSE meta
        /\ unstamped' = IF installs /\ meta[w].listed THEN unstamped \ {w} ELSE unstamped
    BY <1>12 DEF Verdict
  <2> HIDE DEF heard
  <2>2. CASE installs /\ meta[w].listed /\ w = v
    <3>1. meta'[v] = [meta[v] EXCEPT !.installed_at = now]
      BY <1>4, <2>1, <2>2 DEF Stamped
    <3>2. meta'[v].installed_at = now /\ meta'[v].steam_at = meta[v].steam_at
      <4>1. meta[v] \in Entries
        BY DEF DatesTyped
      <4>2. QED
        BY <3>1, <4>1 DEF Entries
    <3>3. v \in unstamped /\ v \notin unstamped'
      BY <2>1, <2>2 DEF DatesOK
    <3>4. QED
      BY <1>1, <2>1, <3>2, <3>3, DatesSet DEF world
  <2>3. CASE ~ (installs /\ meta[w].listed /\ w = v)
    <3>1. meta'[v] = meta[v] /\ (v \in unstamped' <=> v \in unstamped)
      BY <2>1, <2>3 DEF Stamped
    <3>2. QED
      BY <1>1, <2>1, <3>1, DatesKept DEF world
  <2>4. QED
    BY <2>2, <2>3
<1>13. ASSUME NEW empty, NEW running, Report(empty, running)
       PROVE  Dates(v)'
  <2>1. /\ UNCHANGED <<world, overtaken>> /\ meta' = StateUpdated(OnDisk)
        /\ unstamped' = {w \in unstamped : meta'[w].installed_at = meta[w].installed_at}
    BY <1>13 DEF Report
  <2>2. meta[v] \in Entries
    BY DEF DatesTyped
  <2>3. CASE v \in installed \ OnDisk
    <3>1. disk[v] = None /\ meta'[v] = Absent
      BY <2>1, <2>3 DEF StateUpdated, OnDisk
    <3>2. meta'[v].installed_at = None /\ meta'[v].steam_at = None
      BY <3>1 DEF Absent
    <3>3. /\ published[v] \in Nat \ {0} /\ now \in Nat \ {0} /\ published[v] <= now
      BY <1>1, DateFacts DEF Dates
    <3>4. QED
      BY <2>1, <3>1, <3>2, <3>3 DEF Dates, None, world
  <2>4. CASE v \in OnDisk \ installed /\ meta[v].installed_at = None
    <3>1. meta'[v] = [meta[v] EXCEPT !.listed = TRUE, !.installed_at = now]
      BY <2>1, <2>4 DEF StateUpdated
    <3>2. meta'[v].installed_at = now /\ meta'[v].steam_at = meta[v].steam_at
      BY <2>2, <3>1 DEF Entries
    <3>3. now # None
      BY DateFacts DEF None
    <3>4. v \notin unstamped'
      BY <2>1, <2>4, <3>2, <3>3
    <3>5. QED
      BY <1>1, <2>1, <2>4, <3>2, <3>4, DatesSet DEF world
  <2>5. CASE /\ v \notin installed \ OnDisk
             /\ ~ (v \in OnDisk \ installed /\ meta[v].installed_at = None)
    <3>1. meta'[v] = meta[v]
      BY <2>1, <2>5 DEF StateUpdated
    <3>2. v \in unstamped' <=> v \in unstamped
      BY <2>1, <3>1
    <3>3. QED
      BY <1>1, <2>1, <3>1, <3>2, DatesKept DEF world
  <2>6. QED
    BY <2>3, <2>4, <2>5
<1>14. ASSUME NEW w \in Wids, Publish(w)
       PROVE  Dates(v)'
  <2>1. /\ now' = now + 1 /\ UNCHANGED <<meta, disk, unstamped>>
        /\ published' = [published EXCEPT ![w] = now + 1]
        /\ overtaken' = IF w \in unstamped THEN overtaken \union {w} ELSE overtaken
        /\ DOMAIN published = Wids
    BY <1>14 DEF Publish, store, DatesTyped
  <2>2. CASE v = w
    BY <1>1, <2>1, <2>2, DatesPublished
  <2>3. CASE v # w
    BY <1>1, <2>1, <2>3, DatesLater
  <2>4. QED
    BY <2>2, <2>3
<1>15. QED
  BY <1>2, <1>5, <1>6, <1>7, <1>9, <1>10, <1>11, <1>12, <1>13, <1>14
  DEF Next, vars, store, history, StartCall, TimersElapse, InstallMod, InstallFails, Expire,
    ReportLost, AgentCrash

LEMMA DatesOKStep ==
  ASSUME QueueOK, AgentOK, DatesTyped, DatesOK, [Next]_vars
  PROVE  DatesOK'
<1>1. CASE UNCHANGED <<agent, unstamped>>
  BY <1>1, DatesStep DEF DatesOK
<1>2. CASE agent'.at # "verdict"
  BY <1>2, DatesStep DEF DatesOK
<1>3. ASSUME NEW i \in DOMAIN queue, NEW told, NEW ok, Execute(i, told, ok)
      PROVE  DatesOK'
  <2>1. agent'.order = queue[i] /\ agent'.ok = ok
    BY <1>3 DEF Execute
  <2>2. ok /\ queue[i].type = "install_mod" => queue[i].wid \in unstamped'
    BY <1>3 DEF Execute
  <2>3. QED
    BY <2>1, <2>2, DatesStep DEF DatesOK
<1>4. CASE AgentCrash \/ ReportLost \/ \E empty, running \in BOOLEAN : Report(empty, running)
  BY <1>2, <1>4, AgentMoves
<1>5. ASSUME NEW told, Verdict(told)
      PROVE  DatesOK'
  BY <1>2, <1>5 DEF Verdict
<1>6. QED
  BY <1>1, <1>3, <1>4, <1>5
  DEF Next, vars, history, StartCall, BulkAnswer, ItemAnswer, TimersElapse, InstallMod,
    InstallAnswer, InstallFails, RemoveMod, CancelOrder, Expire, Publish

-----------------------------------------------------------------------------
(* The specification                                                       *)

IInv ==
  /\ QueueOK /\ CallOK /\ AgentOK /\ OwedOK
  /\ DatesTyped /\ FlagsTyped /\ HistoryTyped /\ DatesOK

LEMMA InitIInv ==
  ASSUME Init
  PROVE  IInv
<1>1. queue = <<>> /\ made = 0
  BY DEF Init
<1>2. DOMAIN queue = {} /\ queue \in Seq(Orders)
  BY <1>1
<1>3. QueueOK
  BY <1>1, <1>2, BoundsAssumption DEF QueueOK, InOrder, OneInstallPerMod
<1>4. CallOK
  BY DEF Init, CallOK, NoCall, Calls
<1>5. agent = [at |-> "idle", order |-> NoOrder, ok |-> FALSE, tried |-> {}]
  BY DEF Init
<1>6. AgentOK
  <2>1. NoOrder \in Orders /\ Named(NoOrder) /\ NoOrder.id = 0
    BY BoundsAssumption DEF NoOrder, Orders, Named, NoWid
  <2>2. agent \in Agents
    BY <1>5, <2>1 DEF Agents
  <2>3. QED
    BY <1>1, <1>5, <2>1, <2>2 DEF AgentOK
<1>7. OwedOK
  BY <1>2, <1>5 DEF Init, OwedOK, BatchApplied
<1>8. DatesTyped
  <2>1. Absent \in Entries
    BY BoundsAssumption DEF Absent, Entries, None
  <2>2. 1 \in 1..MaxTime /\ {None, 1} \subseteq 0..MaxTime
    BY BoundsAssumption DEF None
  <2>3. QED
    BY <2>1, <2>2 DEF Init, DatesTyped
<1>9. FlagsTyped /\ HistoryTyped
  <2>1. vacant \in BOOLEAN /\ up \in BOOLEAN /\ cooling \in BOOLEAN /\ fresh \in BOOLEAN
    BY DEF Init
  <2>2. faults \in 0..MaxFaults
    BY BoundsAssumption DEF Init
  <2>3. HistoryTyped
    BY DEF Init, HistoryTyped
  <2>4. QED
    BY <2>1, <2>2, <2>3 DEF FlagsTyped
<1>10. DatesOK
  <2>1. ASSUME NEW w \in Wids
        PROVE  Dates(w)
    <3>1. /\ meta[w].installed_at = None /\ meta[w].steam_at = None
          /\ published[w] = 1 /\ now = 1 /\ disk[w] \in {None, 1}
          /\ w \in unstamped <=> disk[w] # None
      BY <2>1 DEF Init, Absent
    <3>2. QED
      BY <3>1 DEF Dates, None
  <2>2. QED
    BY <1>5, <2>1 DEF DatesOK
<1>11. QED
  BY <1>3, <1>4, <1>6, <1>7, <1>8, <1>9, <1>10 DEF IInv

LEMMA NextIInv ==
  ASSUME IInv, [Next]_vars
  PROVE  IInv'
<1>1. /\ QueueOK /\ CallOK /\ AgentOK /\ OwedOK
      /\ DatesTyped /\ FlagsTyped /\ HistoryTyped /\ DatesOK
  BY DEF IInv
<1>2. QueueOK' /\ CallOK' /\ AgentOK'
  BY <1>1, QueueStep, CallStep, AgentStep
<1>3. DatesTyped' /\ FlagsTyped' /\ HistoryTyped'
  BY <1>1, DatesTypedStep, FlagsTypedStep, HistoryTypedStep
<1>4. OwedOK' /\ DatesOK'
  BY <1>1, OwedStep, DatesOKStep
<1>5. QED
  BY <1>2, <1>3, <1>4 DEF IInv

LEMMA IInvHolds == Spec => []IInv
<1>1. Init => IInv
  BY InitIInv
<1>2. IInv /\ [Next]_vars => IInv'
  BY NextIInv
<1>3. QED
  BY <1>1, <1>2, PTL DEF Spec

\* Every variable keeps its type, for any number of mods, of requests in
\* flight and of orders.
THEOREM TypeCorrect == Spec => []TypeOK
<1>1. IInv => TypeOK
  BY DEF IInv, QueueOK, CallOK, AgentOK, DatesTyped, FlagsTyped, HistoryTyped, TypeOK, Entries,
    Calls, Agents
<1>2. QED
  BY <1>1, IInvHolds, PTL

\* However many requests wait for Steam at the same time, a mod never has two
\* installs in the queue (enqueue_mod_update_orders reads the orders again
\* after the answer, and install_mod refuses a second one).
THEOREM InstallsAreSingle == Spec => []OneInstallPerMod
<1>1. IInv => OneInstallPerMod
  BY DEF IInv, QueueOK
<1>2. QED
  BY <1>1, IInvHolds, PTL

\* No mod of a batch that ends with a restart stays on disk unloaded once no
\* restart is left, whatever is lost, cancelled or done twice meanwhile: each
\* of its installs still to be executed has a restart behind it, and the agent
\* executes the orders in their order.
THEOREM BatchesAreApplied == Spec => []BatchApplied
<1>1. IInv => BatchApplied
  BY DEF IInv, OwedOK
<1>2. QED
  BY <1>1, IInvHolds, PTL

\* A mod behind the version whose date the dashboard has is shown as behind,
\* unless it was overtaken before it was dated or lost its date with its entry:
\* the dates of meta bracket the copy on disk.
THEOREM UpdatesAreShown == Spec => []NoMissedUpdate
<1>1. IInv => NoMissedUpdate
  <2>1. SUFFICES ASSUME IInv, NEW w \in installed, None < disk[w], disk[w] < meta[w].steam_at,
                        meta[w].installed_at # None, w \notin overtaken
                 PROVE  mod_update_available(meta[w])
    BY DEF NoMissedUpdate
  <2>2. w \in Wids /\ Dates(w)
    BY <2>1 DEF IInv, CallOK, DatesOK
  <2>3. /\ meta[w].installed_at \in Nat /\ meta[w].steam_at \in Nat
        /\ published[w] \in Nat /\ disk[w] \in Nat
    BY <2>1, <2>2, DateFacts DEF IInv
  <2>4. QED
    BY <2>1, <2>2, <2>3 DEF Dates, None, mod_update_available
<1>2. QED
  BY <1>1, IInvHolds, PTL

-----------------------------------------------------------------------------
(* What an automatic update may touch                                      *)

\* The step that AutoInstallsProven speaks of.
AutoProven ==
  \A i \in New : queue'[i].author = "auto" /\ queue'[i].type = "install_mod" =>
    /\ vacant
    /\ \/ disk[queue'[i].wid] < published[queue'[i].wid]
       \/ queue'[i].wid \in unstamped

\* The orders already there have the numbers of orders made before.
LEMMA NewFacts ==
  ASSUME QueueOK, NEW i \in New, NEW new, Adds(new)
  PROVE  \E k \in DOMAIN new : queue'[i] = new[k]
<1>1. i \in DOMAIN queue' /\ queue'[i].id > made
  BY DEF New
<1>2. CASE i \in DOMAIN queue /\ queue'[i] = queue[i]
  <2>1. queue[i].id \in 1..made /\ made \in Nat
    BY <1>2, BoundsAssumption DEF QueueOK, InOrder
  <2>2. QED
    BY <1>1, <1>2, <2>1
<1>3. QED
  BY <1>1, <1>2, Added

\* A batch of the automatic update: the players were counted, and the dates
\* that put the mod in it are those of the copy on disk and of a version.
LEMMA BatchedProven ==
  ASSUME IInv, [Next]_vars, UNCHANGED <<disk, published, unstamped>>,
         NEW ids \in SUBSET Wids, NEW author \in {"auto", "admin"}, Batched(ids, meta', author)
  PROVE  AutoProven
<1> DEFINE ws == Targets(ids, meta', author = "admin")
           b == Batch(ws, author)
<1>1. QueueOK /\ made \in Nat
  BY BoundsAssumption DEF IInv, QueueOK
<1>2. /\ MayEnqueue(author) /\ ws \in SUBSET Wids /\ Adds(b) /\ made + Len(b) <= MaxOrders
  BY DEF Batched
<1>3. author = "auto" => \A w \in ws : mod_update_available(meta'[w])
  BY DEF Targets, Behind
<1> HIDE DEF ws
<1>4. /\ \A k \in DOMAIN b : b[k].author = author
      /\ \A k \in DOMAIN b : b[k].type = "install_mod" => b[k].wid \in ws
  BY <1>1, <1>2, BatchFacts
<1> HIDE DEF b
<1>5. SUFFICES ASSUME NEW i \in New, queue'[i].author = "auto", queue'[i].type = "install_mod"
               PROVE  /\ vacant
                      /\ \/ disk[queue'[i].wid] < published[queue'[i].wid]
                         \/ queue'[i].wid \in unstamped
  BY DEF AutoProven
<1>6. PICK k \in DOMAIN b : queue'[i] = b[k]
  BY <1>1, <1>2, NewFacts
<1>7. author = "auto" /\ b[k].wid \in ws
  BY <1>4, <1>5, <1>6
<1>8. vacant
  BY <1>2, <1>7 DEF MayEnqueue
<1>9. PICK w \in Wids : w = b[k].wid
  BY <1>2, <1>7
<1>10. mod_update_available(meta'[w])
  BY <1>3, <1>7, <1>9
<1>11. IInv'
  BY NextIInv
<1>12. Dates(w)'
  BY <1>11 DEF IInv, DatesOK
<1>13. /\ meta'[w].installed_at \in Nat /\ meta'[w].steam_at \in Nat
       /\ published[w] \in Nat /\ disk[w] \in Nat
  <2>1. meta'[w] \in Entries /\ published[w] \in 1..MaxTime /\ disk[w] \in 0..MaxTime
    BY <1>11 DEF IInv, DatesTyped
  <2>2. QED
    BY <2>1, BoundsAssumption DEF Entries
<1>14. disk[w] < published[w] \/ w \in unstamped
  BY <1>10, <1>12, <1>13 DEF Dates, None, mod_update_available
<1>15. QED
  BY <1>6, <1>8, <1>9, <1>14

\* An automatic update never touches a server whose last report shows a
\* player, nor a mod whose copy is the last one published, unless the verdict
\* that would have dated that copy is missing: whatever Steam answered, or did
\* not, while the request waited.
THEOREM AutoUpdatesAreProven == Spec => AutoInstallsProven
<1>1. IInv /\ [Next]_vars => [AutoProven]_vars
  <2> SUFFICES ASSUME IInv, Next
               PROVE  AutoProven
    OBVIOUS
  <2>1. QueueOK /\ CallOK /\ made \in Nat
    BY BoundsAssumption DEF IInv, QueueOK
  <2>2. ASSUME \A id, type, wid : Listed(id, type, wid)' => Listed(id, type, wid)
        PROVE  AutoProven
    <3>1. ASSUME NEW i \in DOMAIN queue'
          PROVE  queue'[i].id \in 1..made
      <4>1. PICK id, type, wid :
              id = queue'[i].id /\ type = queue'[i].type /\ wid = queue'[i].wid
        OBVIOUS
      <4>2. Listed(id, type, wid)'
        BY <4>1 DEF Listed
      <4>3. QED
        BY <2>1, <2>2, <4>1, <4>2, ListedFacts
    <3>2. QED
      BY <2>1, <3>1 DEF New, AutoProven
  <2>3. CASE queue' = queue
    BY <2>2, <2>3 DEF Listed
  <2>4. ASSUME NEW c \in Callers,
               \/ \E kind \in {"auto", "admin", "page"} : StartCall(c, kind)
               \/ \E answered : BulkAnswer(c, answered)
        PROVE  AutoProven
    <3>1. UNCHANGED <<disk, published, unstamped>>
      BY <2>4 DEF StartCall, BulkAnswer, world
    <3>2. CASE \E ids \in SUBSET Wids, author \in {"auto", "admin"} : Batched(ids, meta', author)
      BY <3>1, <3>2, BatchedProven
    <3>3. QED
      BY <2>1, <2>3, <2>4, <3>2, RequestMoves
  <2>5. ASSUME NEW new, Adds(new), DOMAIN new = {1}, new[1].author = "admin"
        PROVE  AutoProven
    BY <2>1, <2>5, NewFacts DEF AutoProven
  <2>6. ASSUME NEW c \in Callers, NEW w \in Wids, InstallAnswer(c, w)
        PROVE  AutoProven
    <3> DEFINE new == Installs({w}, "admin")
    <3>1. CASE Adds(new) /\ DOMAIN new = {1} /\ new[1] = [id |-> made + 1, type |-> "install_mod",
                 wid |-> w, author |-> "admin", status |-> "pending"]
      <4>1. new[1].author = "admin"
        BY <3>1
      <4>2. QED
        BY <2>5, <3>1, <4>1
    <3>2. QED
      BY <2>1, <2>3, <2>6, <3>1, InstallAdds
  <2>7. ASSUME NEW w \in Wids, RemoveMod(w)
        PROVE  AutoProven
    <3>1. ASSUME NEW new, Adds(new), DOMAIN new = {1},
                 new[1] = [id |-> made + 1, type |-> "remove_mod", wid |-> w,
                           author |-> "admin", status |-> "pending"]
          PROVE  AutoProven
      <4>1. new[1].author = "admin"
        BY <3>1
      <4>2. QED
        BY <2>5, <3>1, <4>1
    <3>2. QED
      BY <2>1, <2>3, <2>7, <3>1, RemoveAdds
  <2>8. ASSUME NEW i \in DOMAIN queue, CancelOrder(i) \/ Expire(i)
        PROVE  AutoProven
    <3>1. queue' = RemoveAt(queue, i) /\ made' = made
      BY <2>8 DEF CancelOrder, Expire, Dropped
    <3>2. \A id, type, wid : Listed(id, type, wid)' => Listed(id, type, wid)
      BY <2>1, <3>1, Removed
    <3>3. QED
      BY <2>2, <3>2
  <2>9. ASSUME NEW i \in DOMAIN queue, NEW told, NEW ok, Execute(i, told, ok)
        PROVE  AutoProven
    <3>1. CASE queue' = [queue EXCEPT ![i].status = "running"] /\ made' = made
      <4>1. \A id, type, wid : Listed(id, type, wid)' => Listed(id, type, wid)
        BY <2>1, <3>1, Marked DEF Listed
      <4>2. QED
        BY <2>2, <4>1
    <3>2. QED
      BY <2>3, <2>9, <3>1 DEF Execute
  <2>10. ASSUME NEW told, Verdict(told)
         PROVE  AutoProven
    <3>1. CASE queue' = Without(agent.order.id) /\ made' = made
      <4>1. \A id, type, wid : Listed(id, type, wid)' => Listed(id, type, wid)
        BY <2>1, <3>1, WithoutFacts
      <4>2. QED
        BY <2>2, <4>1
    <3>2. QED
      BY <2>3, <2>10, <3>1 DEF Verdict
  <2>11. QED
    BY <2>3, <2>4, <2>6, <2>7, <2>8, <2>9, <2>10
    DEF Next, ItemAnswer, TimersElapse, InstallMod, InstallFails, Report, ReportLost,
      AgentCrash, Publish
<1>2. [][AutoProven]_vars <=> AutoInstallsProven
  BY DEF AutoProven, AutoInstallsProven
<1>3. QED
  BY <1>1, <1>2, IInvHolds, PTL DEF Spec

=============================================================================
