-------------------------- MODULE FileEditorProofs --------------------------
(***************************************************************************)
(* Proofs about FileEditor, for any files, clients, lifetime of what was   *)
(* read, period of the purge and bounds.                                   *)
(***************************************************************************)
EXTENDS FileEditor, SequenceTheorems, TLAPS

-----------------------------------------------------------------------------
(* Queues *)

\* Adding one element at the end keeps the others in their places.
LEMMA AppendFacts ==
  ASSUME NEW S, NEW q \in Seq(S), NEW e \in S
  PROVE  /\ Append(q, e) \in Seq(S)
         /\ Len(q) \in Nat /\ DOMAIN q = 1..Len(q)
         /\ DOMAIN Append(q, e) = 1..(Len(q) + 1)
         /\ \A j \in DOMAIN q : Append(q, e)[j] = q[j]
         /\ Append(q, e)[Len(q) + 1] = e
OBVIOUS

\* Removing one element keeps the others, in their order.
LEMMA RemoveAtFacts ==
  ASSUME NEW S, NEW q \in Seq(S), NEW i \in DOMAIN q
  PROVE  /\ RemoveAt(q, i) \in Seq(S)
         /\ DOMAIN RemoveAt(q, i) = 1..(Len(q) - 1)
         /\ \A j \in DOMAIN RemoveAt(q, i) :
              RemoveAt(q, i)[j] = IF j < i THEN q[j] ELSE q[j + 1]
<1> DEFINE front == SubSeq(q, 1, i - 1)
           back  == SubSeq(q, i + 1, Len(q))
<1>1. front \in Seq(S) /\ Len(front) = i - 1 /\ \A j \in 1..(i - 1) : front[j] = q[j]
  OBVIOUS
<1>2. /\ back \in Seq(S) /\ Len(back) = Len(q) - i
      /\ \A j \in 1..(Len(q) - i) : back[j] = q[i + j]
  OBVIOUS
<1> DEFINE rest == front \o back
<1>3. RemoveAt(q, i) = rest
  BY DEF RemoveAt
<1> HIDE DEF front, back
<1>4. /\ rest \in Seq(S) /\ Len(rest) = Len(q) - 1
      /\ \A j \in 1..(Len(q) - 1) :
           rest[j] = IF j < i THEN front[j] ELSE back[j - (i - 1)]
  <2>1. Len(front) + Len(back) = Len(q) - 1 /\ Len(q) \in Nat /\ i \in Nat
    BY <1>1, <1>2
  <2>2. /\ rest \in Seq(S) /\ Len(rest) = Len(front) + Len(back)
        /\ \A j \in 1..(Len(front) + Len(back)) :
             rest[j] = IF j <= Len(front) THEN front[j] ELSE back[j - Len(front)]
    BY <1>1, <1>2, ConcatProperties
  <2> HIDE DEF rest
  <2>3. QED
    BY <1>1, <2>1, <2>2
<1> HIDE DEF rest
<1>5. ASSUME NEW j \in 1..(Len(q) - 1)
      PROVE  rest[j] = IF j < i THEN q[j] ELSE q[j + 1]
  <2>1. CASE j < i
    BY <2>1, <1>1, <1>4
  <2>2. CASE ~ (j < i)
    <3>1. j - (i - 1) \in 1..(Len(q) - i) /\ i + (j - (i - 1)) = j + 1
      BY <2>2
    <3>2. rest[j] = back[j - (i - 1)]
      BY <2>2, <1>4
    <3>3. QED
      BY <2>2, <3>1, <3>2, <1>2
  <2>3. QED
    BY <2>1, <2>2
<1>6. DOMAIN rest = 1..(Len(q) - 1)
  BY <1>4
<1>7. QED
  BY <1>3, <1>4, <1>5, <1>6

-----------------------------------------------------------------------------

\* No more requests found a stale read than were made since the last purge.
Counted == calls \in 0..PurgeEvery - 1 /\ late \in Nat /\ late <= calls

\* The types that the proofs need: of what was read, of what a client has
\* before it, of the agent and of the files.
Reads == [path : Paths \union {None}, content : Contents, sha : Contents, at : Nat]
Editors == [path : Paths \union {None}, shown : Contents, sha : Contents]
Agents == [at : {"idle", "read_file", "bytes", "write_file", "checked", "copied", "uncopied",
                 "verdict"},
           order : Orders, ok : BOOLEAN, content : Contents, sha : Contents,
           tried : SUBSET Int]
Files == disk \in [Paths -> Contents] /\ bak \in [Paths -> Contents]

Shaped ==
  /\ file_read \in Reads /\ editor \in [Clients -> Editors] /\ agent \in Agents /\ Files
  /\ queue \in Seq(Orders) /\ made \in 0..MaxOrders /\ contents \in Contents /\ now \in Nat

\* A content goes with its hash, from the file that is read to the order to
\* write it, unless the game wrote the file while it was read.
Matched(path, shown, sha) == path \in raced \/ shown = sha

\* An order names a file, and the content whose hash it has.
Sound(o) == o.path \in Paths /\ Matched(o.path, o.shown, o.sha)

Queued == \A i \in DOMAIN queue : Sound(queue[i])

\* So does what the clients see.
Seen ==
  /\ Matched(file_read.path, file_read.content, file_read.sha)
  /\ \A c \in Clients : /\ Matched(editor[c].path, editor[c].shown, editor[c].sha)
                        /\ editor[c].path = None => editor[c].shown = Nothing

\* What the agent knows at each step of an order.
Midway ==
  LET o == agent.order IN
  /\ agent.at # "idle" => Sound(o)
  /\ agent.at \in {"idle", "read_file", "bytes"} => ~ agent.ok
  /\ agent.at \in {"read_file", "bytes"} => o.type = "read_file"
  /\ agent.at \in {"write_file", "checked", "copied", "uncopied"} => o.type = "write_file"
  /\ agent.at = "bytes" => Matched(o.path, disk[o.path], agent.content)
  /\ agent.at \in {"checked", "copied", "uncopied"} => Matched(o.path, disk[o.path], o.sha)
  /\ agent.at = "copied" => Matched(o.path, bak[o.path], disk[o.path])
  /\ agent.at = "verdict" /\ agent.ok /\ o.type = "read_file" =>
       Matched(o.path, agent.content, agent.sha)

OverwriteInv == Shaped /\ Queued /\ Seen /\ Midway

-----------------------------------------------------------------------------
(* What was read goes                                                      *)

\* A request is counted, and the purge leaves nothing stale.
LEMMA RequestCounts ==
  ASSUME Counted, Requested
  PROVE  Counted'
<1>1. PurgeEvery \in Nat \ {0} /\ calls \in Nat /\ late \in Nat /\ late <= calls
  BY BoundsAssumption DEF Counted
<1>2. CASE calls + 1 >= PurgeEvery
  <2>1. calls + 1 = PurgeEvery
    BY <1>1, <1>2, BoundsAssumption DEF Counted
  <2>2. calls' = 0
    BY <2>1, <1>1 DEF Requested
  <2>3. file_read' = Purged /\ late' = IF Stale(file_read') THEN late + 1 ELSE 0
    BY <1>2 DEF Requested
  <2>4. ~ Stale(Purged)
    BY DEF Purged, Stale
  <2>5. late' = 0
    BY <2>3, <2>4
  <2>6. QED
    BY <2>2, <2>5, <1>1 DEF Counted
<1>3. CASE ~ (calls + 1 >= PurgeEvery)
  <2>1. calls' = calls + 1
    BY <1>1, <1>3 DEF Requested
  <2>2. late' \in {0, late + 1}
    BY DEF Requested
  <2>3. QED
    BY <2>1, <2>2, <1>1, <1>3 DEF Counted
<1>4. QED
  BY <1>2, <1>3

LEMMA CountedStep ==
  ASSUME Counted, [Next]_vars
  PROVE  Counted'
<1>1. 0 \in 0..PurgeEvery - 1
  BY BoundsAssumption
<1>2. CASE Requested
  BY <1>2, RequestCounts
<1>3. CASE calls' = 0 /\ late' = 0
  BY <1>1, <1>3 DEF Counted
<1>4. CASE calls' = calls /\ late' \in {0, late}
  BY <1>4, BoundsAssumption DEF Counted
<1>5. QED
  BY <1>2, <1>3, <1>4 DEF Next, OpenFile, LoadDetail, PostWrite, SaveFile, OtherRequest, Withdraw,
    Start, ReadBytes, ReadHash, CheckHash, CopyAside, Replace, Verdict, EndCycle, AgentCrash,
    BackendRestart, Tick, GameWrites, World, vars, backend, windows, history

\* "il ne doit pas dormir dans state.json": one run of the backend serves no
\* whole round of requests with a stale read, for any round and lifetime.
THEOREM StaleReadsPurged == Spec => []StaleReadsGo
<1>1. Init => Counted
  BY BoundsAssumption DEF Init, Counted
<1>2. Counted => StaleReadsGo
  BY BoundsAssumption DEF Counted, StaleReadsGo
<1>3. Counted /\ [Next]_vars => Counted'
  BY CountedStep
<1>4. QED
  BY <1>1, <1>2, <1>3, PTL DEF Spec

-----------------------------------------------------------------------------
(* What is queued                                                          *)

\* What the game has written stays marked.
LEMMA RacedGrows == [Next]_vars => raced \subseteq raced'
BY DEF Next, OpenFile, LoadDetail, PostWrite, SaveFile, OtherRequest, Withdraw, Start, ReadBytes,
  ReadHash, CheckHash, CopyAside, Replace, Verdict, EndCycle, AgentCrash, BackendRestart, Tick,
  GameWrites, World, vars, backend, windows, history

\* The dashboard never finds a hash in the list of the servers.
LEMMA SaveAlwaysRefused == \A c \in Clients : ExpectedSha256(c) = Nothing
BY DEF ExpectedSha256, LatestServers, NoRead, Nothing

\* An order is added as it was made, with a number.
LEMMA AddedFacts ==
  ASSUME Shaped, Queued, NEW order \in Orders, Sound(order), Added(order), raced' = raced
  PROVE  queue' \in Seq(Orders) /\ made' \in 0..MaxOrders /\ Queued'
<1> DEFINE new == [order EXCEPT !.id = made + 1]
<1>1. made + 1 \in 0..MaxOrders /\ made' = made + 1
  BY BoundsAssumption DEF Added, Shaped
<1>2. new \in Orders /\ Sound(new)
  BY <1>1 DEF Orders, Sound, Matched
<1>3. queue' = Append(queue, new) /\ queue \in Seq(Orders)
  BY DEF Added, Shaped
<1> HIDE DEF new
<1>4. /\ queue' \in Seq(Orders) /\ Len(queue) \in Nat /\ DOMAIN queue' = 1..(Len(queue) + 1)
      /\ DOMAIN queue = 1..Len(queue) /\ queue'[Len(queue) + 1] = new
      /\ \A i \in DOMAIN queue : queue'[i] = queue[i]
  BY <1>2, <1>3, AppendFacts
<1>5. \A i \in DOMAIN queue' : Sound(queue'[i])
  <2>1. SUFFICES ASSUME NEW i \in DOMAIN queue' PROVE Sound(queue'[i])
    OBVIOUS
  <2>2. i \in DOMAIN queue \/ i = Len(queue) + 1
    BY <1>4
  <2>3. QED
    BY <2>2, <1>2, <1>4 DEF Queued
<1>6. QED
  BY <1>1, <1>4, <1>5 DEF Queued, Sound, Matched

\* Taking one away keeps the others.
LEMMA RemovedFacts ==
  ASSUME Shaped, Queued, NEW i \in DOMAIN queue, queue' = RemoveAt(queue, i), raced' = raced
  PROVE  queue' \in Seq(Orders) /\ Queued'
<1>1. queue \in Seq(Orders) /\ Len(queue) \in Nat /\ DOMAIN queue = 1..Len(queue)
  BY DEF Shaped
<1>2. /\ queue' \in Seq(Orders) /\ DOMAIN queue' = 1..(Len(queue) - 1)
      /\ \A j \in DOMAIN queue' : queue'[j] = IF j < i THEN queue[j] ELSE queue[j + 1]
  BY <1>1, RemoveAtFacts
<1>3. \A j \in DOMAIN queue' : j \in DOMAIN queue /\ j + 1 \in DOMAIN queue
  BY <1>1, <1>2
<1>4. \A j \in DOMAIN queue' : Sound(queue'[j])
  BY <1>2, <1>3 DEF Queued
<1>5. QED
  BY <1>2, <1>4 DEF Queued, Sound, Matched

LEMMA QueueStep ==
  ASSUME OverwriteInv, [Next]_vars
  PROVE  queue' \in Seq(Orders) /\ made' \in 0..MaxOrders /\ Queued'
<1> DEFINE P == queue' \in Seq(Orders) /\ made' \in 0..MaxOrders /\ Queued'
<1>1. Shaped /\ Queued /\ queue \in Seq(Orders) /\ made \in 0..MaxOrders
  BY DEF OverwriteInv, Shaped
<1>2. ASSUME UNCHANGED <<queue, made>>
      PROVE  P
  BY <1>1, <1>2, RacedGrows DEF Queued, Sound, Matched
<1>3. ASSUME NEW c \in Clients, NEW p \in Paths, OpenFile(c, p)
      PROVE  P
  <2> DEFINE order == [NoOrder EXCEPT !.path = p]
  <2>1. order \in Orders /\ Sound(order)
    BY BoundsAssumption DEF NoOrder, Orders, Contents, Nothing, Sound, Matched
  <2>2. Added(order) /\ raced' = raced
    BY <1>3 DEF OpenFile
  <2> HIDE DEF order
  <2>3. QED
    BY <2>1, <2>2, <1>1, AddedFacts
<1>4. ASSUME NEW c \in Clients, PostWrite(c)
      PROVE  P
  <2> DEFINE order == [NoOrder EXCEPT !.type = "write_file", !.path = editor[c].path,
                         !.content = contents + 1, !.sha = editor[c].sha,
                         !.shown = editor[c].shown]
  <2>1. editor[c] \in Editors
    BY DEF OverwriteInv, Shaped
  <2>2. contents + 1 \in Contents
    <3>1. contents < MaxContents /\ contents \in 0..MaxContents
      BY <1>4 DEF PostWrite, Posted, OverwriteInv, Shaped, Contents
    <3>2. QED
      BY <3>1, BoundsAssumption DEF Contents
  <2>3. /\ editor[c].path \in Paths
        /\ Matched(editor[c].path, editor[c].shown, editor[c].sha)
    BY <1>4, <2>1 DEF OverwriteInv, Seen, PostWrite, Editors
  <2>4. NoOrder \in Orders
    BY BoundsAssumption DEF NoOrder, Orders, Contents, Nothing
  <2>5. /\ order \in Orders /\ order.path = editor[c].path
        /\ order.shown = editor[c].shown /\ order.sha = editor[c].sha
    BY <2>1, <2>2, <2>4 DEF Orders, Editors
  <2>6. Added(order) /\ raced' = raced
    BY <1>4 DEF PostWrite, Posted
  <2> HIDE DEF order
  <2>7. Sound(order)
    BY <2>3, <2>5 DEF Sound
  <2>8. QED
    BY <2>5, <2>6, <2>7, <1>1, AddedFacts
<1>5. ASSUME NEW i \in DOMAIN queue, Withdraw(i)
      PROVE  P
  BY <1>1, <1>5, RemovedFacts DEF Withdraw, history
<1>6. ASSUME NEW told \in BOOLEAN, Verdict(told)
      PROVE  P
  <2>1. made' = made /\ raced' = raced /\ queue' \in {queue, Without(agent.order.id)}
    BY <1>6 DEF Verdict
  <2>2. CASE queue' = queue
    BY <2>1, <2>2, <1>2
  <2>3. CASE queue' # queue
    <3>1. \E i \in DOMAIN queue : queue' = RemoveAt(queue, i)
      BY <2>1, <2>3 DEF Without
    <3>2. QED
      BY <3>1, <2>1, <1>1, RemovedFacts
  <2>4. QED
    BY <2>2, <2>3
<1>7. QED
  BY <1>2, <1>3, <1>4, <1>5, <1>6, SaveAlwaysRefused
  DEF Next, LoadDetail, SaveFile, OtherRequest, Start, ReadBytes, ReadHash, CheckHash, CopyAside,
    Replace, EndCycle, AgentCrash, BackendRestart, Tick, GameWrites, World, vars, backend,
    windows, history

-----------------------------------------------------------------------------
(* What the clients see                                                    *)

\* A file that was read, of its type, with its hash.
GoodRead == file_read \in Reads /\ Matched(file_read.path, file_read.content, file_read.sha)

\* An editor shows a content with its hash, or nothing.
Shows(e) ==
  /\ Matched(e.path, e.shown, e.sha)
  /\ e.path = None => e.shown = Nothing

GoodEditors == editor \in [Clients -> Editors] /\ \A c \in Clients : Shows(editor[c])

\* A request leaves what was read, or nothing.
LEMMA RequestReads ==
  ASSUME GoodRead, Requested, raced' = raced
  PROVE  GoodRead'
<1>1. NoRead \in Reads /\ NoRead.content = NoRead.sha
  BY BoundsAssumption DEF NoRead, Reads, Contents, Nothing
<1>2. file_read' \in {file_read, NoRead}
  BY DEF Requested, Purged
<1>3. QED
  BY <1>1, <1>2 DEF GoodRead, Matched

LEMMA ReadStep ==
  ASSUME OverwriteInv, [Next]_vars
  PROVE  GoodRead'
<1>1. GoodRead
  BY DEF OverwriteInv, Shaped, Seen, GoodRead, Reads
<1>2. CASE file_read' = file_read
  BY <1>1, <1>2, RacedGrows DEF GoodRead, Matched
<1>3. CASE Requested /\ raced' = raced
  BY <1>1, <1>3, RequestReads
<1>4. ASSUME NEW told \in BOOLEAN, Verdict(told)
      PROVE  GoodRead'
  <2>1. CASE /\ agent.at = "verdict" /\ agent.ok /\ agent.order.type = "read_file"
             /\ file_read' = [path |-> agent.order.path, content |-> agent.content,
                              sha |-> agent.sha, at |-> now]
    <3>1. /\ agent.order \in Orders /\ agent.content \in Contents /\ agent.sha \in Contents
          /\ now \in Nat
      BY DEF OverwriteInv, Shaped, Agents
    <3>2. agent.order.path \in Paths \union {None}
      BY <3>1 DEF Orders
    <3>3. Matched(agent.order.path, agent.content, agent.sha) /\ raced' = raced
      BY <2>1, <1>4 DEF OverwriteInv, Midway, Verdict
    <3>4. file_read' \in Reads
      BY <2>1, <3>1, <3>2 DEF Reads
    <3>5. QED
      BY <2>1, <3>3, <3>4 DEF GoodRead, Matched
  <2>2. QED
    BY <2>1, <1>2, <1>4 DEF Verdict
<1>5. QED
  BY <1>2, <1>3, <1>4, SaveAlwaysRefused
  DEF Next, OpenFile, LoadDetail, PostWrite, SaveFile, OtherRequest, Withdraw, Start, ReadBytes,
    ReadHash, CheckHash, CopyAside, Replace, EndCycle, AgentCrash, BackendRestart, Tick,
    GameWrites, World, vars, backend, windows, history

LEMMA EditorStep ==
  ASSUME OverwriteInv, [Next]_vars
  PROVE  GoodEditors'
<1>1. editor \in [Clients -> Editors] /\ \A c \in Clients : Shows(editor[c])
  BY DEF OverwriteInv, Shaped, Seen, Shows, Editors
<1>2. CASE editor' = editor
  BY <1>1, <1>2, RacedGrows DEF Shows, Matched, GoodEditors
<1>3. ASSUME NEW c \in Clients, NEW e \in Editors, Shows(e),
             editor' = [editor EXCEPT ![c] = e], raced' = raced
      PROVE  GoodEditors'
  BY <1>1, <1>3 DEF Shows, Matched, GoodEditors
<1>4. ASSUME NEW c \in Clients, NEW p \in Paths, OpenFile(c, p)
      PROVE  GoodEditors'
  <2> DEFINE e == [Closed EXCEPT !.path = p]
  <2>1. e \in Editors /\ Shows(e)
    BY BoundsAssumption DEF Closed, Editors, Shows, Matched, Contents, Nothing
  <2>2. editor' = [editor EXCEPT ![c] = e] /\ raced' = raced
    BY <1>4 DEF OpenFile
  <2> HIDE DEF e
  <2>3. QED
    BY <2>1, <2>2, <1>3
<1>5. ASSUME NEW c \in Clients, LoadDetail(c)
      PROVE  GoodEditors'
  <2> DEFINE read == IF file_read'.path = editor[c].path THEN file_read' ELSE NoRead
             e == [editor[c] EXCEPT !.shown = read.content, !.sha = read.sha]
  <2>1. editor' = [editor EXCEPT ![c].shown = read.content, ![c].sha = read.sha]
    BY <1>5 DEF LoadDetail
  <2>2. editor' = [editor EXCEPT ![c] = e] /\ raced' = raced
    BY <2>1, <1>1, <1>5 DEF LoadDetail, Editors
  <2>3. GoodRead'
    BY ReadStep
  <2>4. /\ read.content \in Contents /\ read.sha \in Contents
        /\ editor[c].path \in raced \/ read.content = read.sha
    <3>1. NoRead.content = NoRead.sha /\ NoRead.content \in Contents
      BY BoundsAssumption DEF NoRead, Contents, Nothing
    <3>2. file_read'.content \in Contents /\ file_read'.sha \in Contents
      BY <2>3 DEF GoodRead, Reads
    <3>3. file_read'.path \in raced \/ file_read'.content = file_read'.sha
      BY <2>3, <2>2 DEF GoodRead, Matched
    <3>4. QED
      BY <3>1, <3>2, <3>3
  <2> HIDE DEF read
  <2>5. /\ e \in Editors /\ e.path = editor[c].path /\ e.shown = read.content /\ e.sha = read.sha
    BY <1>1, <2>4 DEF Editors
  <2>6. editor[c].path # None
    BY <1>5 DEF LoadDetail
  <2> HIDE DEF e
  <2>7. Shows(e)
    BY <2>4, <2>5, <2>6 DEF Shows, Matched
  <2>8. QED
    BY <2>2, <2>5, <2>7, <1>3
<1>6. QED
  BY <1>2, <1>4, <1>5
  DEF Next, PostWrite, SaveFile, OtherRequest, Withdraw, Verdict, Start, ReadBytes,
    ReadHash, CheckHash, CopyAside, Replace, EndCycle, AgentCrash, BackendRestart, Tick,
    GameWrites, World, vars, backend, windows, history

-----------------------------------------------------------------------------
(* What the agent does                                                     *)

AgentFine == agent \in Agents /\ Files /\ Midway

LEMMA IdleFine ==
  ASSUME Files', agent' \in Agents, agent'.at = "idle", ~ agent'.ok
  PROVE  AgentFine'
BY DEF AgentFine, Midway

LEMMA StartFine ==
  ASSUME OverwriteInv, NEW i \in DOMAIN queue, Start(i)
  PROVE  AgentFine'
<1>1. /\ agent \in Agents /\ queue \in Seq(Orders) /\ Files /\ Sound(queue[i])
      /\ UNCHANGED <<disk, bak, raced>>
  BY DEF OverwriteInv, Shaped, Agents, Files, Queued, Start, World
<1>2. agent.at = "idle" /\ agent' = [agent EXCEPT !.at = queue[i].type, !.order = queue[i],
                                      !.tried = {queue[j].id : j \in 1..i}]
  BY DEF Start
<1>3. /\ queue[i] \in Orders /\ queue[i].type \in {"read_file", "write_file"}
      /\ {queue[j].id : j \in 1..i} \in SUBSET Int
  <2>1. \A j \in 1..i : queue[j] \in Orders
    BY <1>1
  <2>2. \A j \in 1..i : queue[j].id \in Int
    BY <2>1 DEF Orders
  <2>3. i \in 1..i
    BY <1>1
  <2>4. QED
    BY <2>1, <2>2, <2>3 DEF Orders
<1>4. /\ agent' \in Agents /\ agent'.order = queue[i] /\ agent'.at = queue[i].type
      /\ agent'.ok = agent.ok
  BY <1>1, <1>2, <1>3 DEF Agents
<1>5. ~ agent.ok
  BY <1>2 DEF OverwriteInv, Midway
<1>6. Sound(agent'.order)
  BY <1>1, <1>4
<1>7. QED
  BY <1>1, <1>3, <1>4, <1>5, <1>6 DEF AgentFine, Midway, Files, Sound, Matched

\* Reading: the bytes, then the hash.
LEMMA ReadFine ==
  ASSUME OverwriteInv, ReadBytes \/ ReadHash
  PROVE  AgentFine'
<1>1. agent \in Agents /\ Files /\ UNCHANGED <<disk, bak, raced>>
  BY DEF OverwriteInv, Shaped, Agents, Files, ReadBytes, ReadHash, World
<1>2. agent.order.path \in Paths /\ disk[agent.order.path] \in Contents
  BY <1>1 DEF OverwriteInv, Midway, Sound, Files, ReadBytes, ReadHash
<1>3. /\ agent' \in Agents /\ agent'.order = agent.order
      /\ \/ /\ agent.at = "read_file" /\ agent'.at = "bytes" /\ agent'.ok = agent.ok
            /\ agent'.content = disk[agent.order.path]
         \/ agent.at = "read_file" /\ agent'.at = "verdict" /\ agent'.ok = agent.ok
         \/ /\ agent.at = "bytes" /\ agent'.at = "verdict"
            /\ agent'.content = agent.content /\ agent'.sha = disk[agent.order.path]
         \/ agent.at = "bytes" /\ agent'.at = "verdict" /\ agent'.ok = agent.ok
  BY <1>1, <1>2 DEF ReadBytes, ReadHash, Agents
<1>4. Midway
  BY DEF OverwriteInv
<1>5. QED
  BY <1>1, <1>3, <1>4 DEF AgentFine, Midway, Files, Sound, Matched

\* Writing: compare, copy, replace.
LEMMA WriteFine ==
  ASSUME OverwriteInv, CheckHash \/ CopyAside \/ Replace
  PROVE  AgentFine'
<1> DEFINE p == agent.order.path
<1>1. agent \in Agents /\ Files /\ Midway /\ UNCHANGED raced
  BY DEF OverwriteInv, Shaped, Agents, Files, CheckHash, CopyAside, Replace, World
<1>2. /\ agent.order.type = "write_file" /\ p \in Paths /\ agent.order.content \in Contents
      /\ Sound(agent.order)
  BY <1>1 DEF Midway, Sound, CheckHash, CopyAside, Replace, Agents, Orders
<1>3. CASE CheckHash
  <2>1. /\ agent' \in Agents /\ agent'.order = agent.order
        /\ agent'.at \in {"checked", "verdict"} /\ UNCHANGED <<disk, bak>>
        /\ agent'.at = "checked" => disk[p] = agent.order.sha
    BY <1>1, <1>3 DEF CheckHash, MayReplace, Agents
  <2>2. QED
    BY <2>1, <1>1, <1>2 DEF AgentFine, Midway, Files, Sound, Matched
<1>4. CASE CopyAside
  <2>1. /\ agent' \in Agents /\ agent'.order = agent.order /\ disk' = disk /\ agent.at = "checked"
        /\ \/ agent'.at = "copied" /\ bak' = [bak EXCEPT ![p] = disk[p]]
           \/ agent'.at = "uncopied" /\ bak' = bak
    BY <1>1, <1>4 DEF CopyAside, Agents
  <2>2. bak' \in [Paths -> Contents] /\ (agent'.at = "copied" => bak'[p] = disk[p])
    BY <2>1, <1>1, <1>2 DEF Files
  <2>3. QED
    BY <2>1, <2>2, <1>1, <1>2 DEF AgentFine, Midway, Files, Sound, Matched
<1>5. CASE Replace
  <2>1. /\ agent' \in Agents /\ agent'.order = agent.order /\ agent'.at = "verdict"
        /\ bak' = bak /\ disk' \in {disk, [disk EXCEPT ![p] = agent.order.content]}
    BY <1>1, <1>5 DEF Replace, Agents
  <2>2. disk' \in [Paths -> Contents]
    BY <2>1, <1>1, <1>2 DEF Files
  <2>3. QED
    BY <2>1, <2>2, <1>1, <1>2 DEF AgentFine, Midway, Files, Sound, Matched
<1>6. QED
  BY <1>3, <1>4, <1>5

\* A file the game writes in the middle is marked.
LEMMA GameFine ==
  ASSUME OverwriteInv, NEW p \in Paths, GameWrites(p)
  PROVE  AgentFine'
<1>1. /\ agent \in Agents /\ Files /\ Midway /\ bak' = bak /\ agent' = agent
      /\ disk' = [disk EXCEPT ![p] = contents + 1] /\ raced \subseteq raced'
      /\ Busy(p) => p \in raced'
  BY DEF OverwriteInv, Shaped, Agents, Files, GameWrites
<1>2. contents + 1 \in Contents
  <2>1. contents < MaxContents /\ contents \in 0..MaxContents
    BY DEF GameWrites, OverwriteInv, Shaped, Contents
  <2>2. QED
    BY <2>1, BoundsAssumption DEF Contents
<1>3. disk' \in [Paths -> Contents] /\ \A q \in Paths : q # p => disk'[q] = disk[q]
  BY <1>1, <1>2 DEF Files
<1>4. CASE agent.at \in {"bytes", "checked", "copied", "uncopied"}
  <2>1. agent.order.path \in Paths
    BY <1>1, <1>4 DEF Midway, Sound
  <2>2. CASE agent.order.path = p
    <3>1. p \in raced'
      BY <1>1, <1>4, <2>2 DEF Busy
    <3>2. QED
      BY <3>1, <2>2, <1>1, <1>3, <1>4 DEF AgentFine, Files, Midway, Sound, Matched
  <2>3. CASE agent.order.path # p
    BY <2>1, <2>3, <1>1, <1>3, <1>4 DEF AgentFine, Files, Midway, Sound, Matched
  <2>4. QED
    BY <2>2, <2>3
<1>5. CASE agent.at \notin {"bytes", "checked", "copied", "uncopied"}
  BY <1>1, <1>3, <1>5 DEF AgentFine, Files, Midway, Sound, Matched
<1>6. QED
  BY <1>4, <1>5

LEMMA AgentStep ==
  ASSUME OverwriteInv, [Next]_vars
  PROVE  AgentFine'
<1>1. agent \in Agents /\ Files /\ Midway
  BY DEF OverwriteInv, Shaped, Agents, Files
<1>2. CASE UNCHANGED <<disk, bak, agent>>
  BY <1>1, <1>2, RacedGrows DEF AgentFine, Midway, Files, Sound, Matched
<1>3. Idle \in Agents
  BY BoundsAssumption DEF Idle, Agents, NoOrder, Orders, Contents, Nothing
<1>4. CASE EndCycle \/ AgentCrash
  <2>1. agent' = Idle /\ Files'
    BY <1>1, <1>4 DEF EndCycle, AgentCrash, Files
  <2>2. agent'.at = "idle" /\ ~ agent'.ok
    BY <2>1 DEF Idle
  <2>3. QED
    BY <2>1, <2>2, <1>3, IdleFine
<1>5. ASSUME NEW told \in BOOLEAN, Verdict(told)
      PROVE  AgentFine'
  <2>1. [Idle EXCEPT !.tried = agent.tried] \in Agents
    BY <1>1, <1>3 DEF Agents
  <2>2. agent' = [Idle EXCEPT !.tried = agent.tried] /\ Files'
    BY <1>1, <1>5 DEF Verdict, Files
  <2>3. agent'.at = "idle" /\ ~ agent'.ok
    BY <2>2 DEF Idle
  <2>4. QED
    BY <2>1, <2>2, <2>3, IdleFine
<1>6. CASE ~ UNCHANGED vars
  BY <1>2, <1>4, <1>5, <1>6, StartFine, ReadFine, WriteFine, GameFine, SaveAlwaysRefused
  DEF Next, OpenFile, LoadDetail, PostWrite, SaveFile, OtherRequest, Withdraw, BackendRestart,
    Tick, windows
<1>7. QED
  BY <1>2, <1>6 DEF vars, windows

-----------------------------------------------------------------------------
(* Nothing is overwritten unseen                                           *)

LEMMA BoundsStep ==
  ASSUME OverwriteInv, [Next]_vars
  PROVE  contents' \in Contents /\ now' \in Nat
<1>1. contents \in 0..MaxContents /\ now \in Nat
  BY DEF OverwriteInv, Shaped, Contents
<1>2. contents' = contents \/ (contents < MaxContents /\ contents' = contents + 1)
  BY SaveAlwaysRefused
  DEF Next, OpenFile, LoadDetail, PostWrite, Posted, SaveFile, OtherRequest, Withdraw, Start,
    ReadBytes, ReadHash, CheckHash, CopyAside, Replace, Verdict, EndCycle, AgentCrash,
    BackendRestart, Tick, GameWrites, World, vars, backend, windows, history
<1>3. now' = now \/ now' = now + 1
  BY SaveAlwaysRefused
  DEF Next, OpenFile, LoadDetail, PostWrite, SaveFile, OtherRequest, Withdraw, Start, ReadBytes,
    ReadHash, CheckHash, CopyAside, Replace, Verdict, EndCycle, AgentCrash, BackendRestart,
    Tick, GameWrites, World, vars, backend, windows, history
<1>4. QED
  BY <1>1, <1>2, <1>3, BoundsAssumption DEF Contents

LEMMA OverwriteInit == Init => OverwriteInv
<1>1. SUFFICES ASSUME Init PROVE OverwriteInv
  OBVIOUS
<1>2. /\ NoRead \in Reads /\ Closed \in Editors /\ NoOrder \in Orders /\ Idle \in Agents
      /\ NoRead.content = NoRead.sha /\ Shows(Closed)
  BY BoundsAssumption DEF NoRead, Reads, Closed, Editors, NoOrder, Orders, Idle, Agents,
    Contents, Nothing, Shows, Matched
<1>3. 1 \in Contents /\ 0 \in Contents /\ 0 \in 0..MaxOrders
  BY BoundsAssumption DEF Contents
<1>4. Shaped
  BY <1>1, <1>2, <1>3 DEF Init, Shaped, Files, Nothing
<1>5. Queued /\ Seen /\ Midway
  BY <1>1, <1>2 DEF Init, Queued, Seen, Shows, Midway, Matched, Idle
<1>6. QED
  BY <1>4, <1>5 DEF OverwriteInv

\* "anti-conflit et sauvegarde de secours": a write replaces what its author
\* was shown, which is in the backup file unless its copy failed, for any number
\* of clients, files and replays, and unless the game wrote the file while the
\* agent was at work on it.
THEOREM NothingLostUnseen == Spec => NoUnseenOverwrite
<1>1. OverwriteInv /\ [Next]_vars => OverwriteInv'
  <2> SUFFICES ASSUME OverwriteInv, [Next]_vars PROVE OverwriteInv'
    OBVIOUS
  <2>1. Shaped'
    <3>1. queue' \in Seq(Orders) /\ made' \in 0..MaxOrders
      BY QueueStep
    <3>2. file_read' \in Reads /\ editor' \in [Clients -> Editors]
      BY ReadStep, EditorStep DEF GoodRead, GoodEditors
    <3>3. agent' \in Agents /\ Files'
      BY AgentStep DEF AgentFine
    <3>4. QED
      BY <3>1, <3>2, <3>3, BoundsStep DEF Shaped
  <2>2. Seen'
    BY ReadStep, EditorStep DEF GoodRead, GoodEditors, Shows, Seen
  <2>3. QED
    BY <2>1, <2>2, QueueStep, AgentStep DEF OverwriteInv, AgentFine
<1>2. OverwriteInv =>
        (Replace => LET o == agent.order IN
           \/ o.path \in raced
           \/ /\ o.shown = disk[o.path]
              /\ agent.at = "uncopied" \/ bak[o.path] = disk[o.path])
  BY DEF OverwriteInv, Midway, Sound, Matched, Replace
<1>3. QED
  BY <1>1, <1>2, OverwriteInit, PTL DEF Spec, NoUnseenOverwrite
=============================================================================
