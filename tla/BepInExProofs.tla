--------------------------- MODULE BepInExProofs ---------------------------
(***************************************************************************)
(* Proofs about BepInEx, for every set of mods, every layout of their      *)
(* versions, any number of checks in flight, and for all bounds.           *)
(***************************************************************************)
EXTENDS BepInEx, FiniteSetTheorems, TLAPS

USE BoundsAssumption

Files == [Places -> 0..MaxVersion]
Entry == [version : 1..MaxVersion, previous_paths : SUBSET Places]

-----------------------------------------------------------------------------
(* The operators keep their types. *)

\* There is a first version, and every version of a mod lies in a place of its
\* own, which is never the nested one.
LEMMA PlaceType ==
  /\ MaxVersion \in Nat /\ 1 \in 1..MaxVersion
  /\ \A m \in Mods, v \in 1..MaxVersion :
       Place(m, v) \in {"flat", "dir"} /\ Place(m, v) \in Places
  /\ \A m \in Root, v \in 1..MaxVersion : Place(m, v) = "flat"
<1>1. Len(Layout) \in Nat /\ Len(Layout) # 0 /\ DOMAIN Layout = 1..Len(Layout)
  OBVIOUS
<1>2. \A v \in 1..Len(Layout) : Layout[v] \in {"flat", "dir"}
  BY <1>1
<1>3. QED
  BY <1>1, <1>2 DEF MaxVersion, Place, Places

\* The mods are those of the list.
LEMMA ModListType == \A i \in DOMAIN ModList : ModList[i] \in Mods
BY DEF Mods, ToSet

\* A payload maps some mods to entries.
LEMMA PayloadFacts ==
  ASSUME NEW p \in Payloads
  PROVE  /\ DOMAIN p \subseteq Mods
         /\ \A m \in DOMAIN p : /\ p[m] \in Entry
                                /\ p[m].version \in 1..MaxVersion
                                /\ p[m].previous_paths \subseteq Places
BY DEF Payloads, Entry

\* What maps some mods to entries is a payload.
LEMMA PayloadIntro ==
  ASSUME NEW ms \in SUBSET Mods, NEW p \in [ms -> Entry]
  PROVE  p \in Payloads
BY DEF Payloads, Entry

\* No order at all has a payload without mods.
LEMMA NoOrderType == NoOrder \in Orders /\ NoOrder.status = "done" /\ NoOrder.id = 0
<1>1. <<>> \in [{} -> Entry]
  OBVIOUS
<1>2. <<>> \in Payloads
  BY <1>1, PayloadIntro
<1>3. QED
  BY <1>2 DEF NoOrder, Orders

\* Without files, nothing is anywhere.
LEMMA NoFilesType == NoFiles \in Files /\ NoBackup \in [Mods -> Files]
BY PlaceType DEF NoFiles, NoBackup, Files, None

\* Removing, copying and restoring files.
LEMMA RemovedType ==
  ASSUME NEW m, disk[m] \in Files, NEW previous
  PROVE  Removed(m, previous) \in Files
BY PlaceType DEF Removed, Files, None

LEMMA CopiedType ==
  ASSUME NEW f \in Files, NEW m \in Mods, NEW v \in 1..MaxVersion
  PROVE  Copied(f, m, v) \in Files
<1> DEFINE p == Place(m, v)
           l == IF (m \in Root \/ p = "dir") /\ f[p] # None THEN "nested" ELSE p
<1>1. l \in Places
  BY PlaceType DEF Places
<1>2. Copied(f, m, v) = [f EXCEPT ![l] = v]
  BY DEF Copied
<1>3. v \in 0..MaxVersion
  BY PlaceType
<1> HIDE DEF l
<1>4. QED
  BY <1>1, <1>2, <1>3 DEF Files

LEMMA ReplacedType ==
  ASSUME disk \in [Mods -> Files], agent.order.mods \in Payloads,
         NEW done, NEW stuck, NEW lost
  PROVE  Replaced(done, stuck, lost) \in [Mods -> Files]
<1> DEFINE o == agent.order.mods
           gone(m) == m \notin stuck /\ (m \in Root => m \in done)
           kept(m) == IF gone(m) THEN Removed(m, o[m].previous_paths) ELSE disk[m]
<1>1. ASSUME NEW m \in Mods
      PROVE  kept(m) \in Files
  BY RemovedType
<1>2. ASSUME NEW m \in DOMAIN o
      PROVE  Copied(kept(m), m, o[m].version) \in Files
  <2>1. m \in Mods /\ o[m].version \in 1..MaxVersion
    BY PayloadFacts
  <2> HIDE DEF kept
  <2>2. QED
    BY <1>1, <2>1, CopiedType
<1>3. Replaced(done, stuck, lost) =
        [m \in Mods |-> IF m \notin DOMAIN o THEN disk[m]
                        ELSE IF m \in done \ lost
                             THEN Copied(kept(m), m, o[m].version) ELSE kept(m)]
  BY DEF Replaced
<1> HIDE DEF kept, o
<1>4. QED
  BY <1>1, <1>2, <1>3

LEMMA RestoredType ==
  ASSUME backup \in [Mods -> Files], NEW f \in [Mods -> Files]
  PROVE  Restored(f) \in [Mods -> Files]
BY DEF Restored, Files

-----------------------------------------------------------------------------
(* Type correctness *)

\* The sequence of the mods still to ask.
LEMMA HeadTail ==
  ASSUME NEW q \in Seq(Mods), q # <<>>
  PROVE  Head(q) \in Mods /\ Tail(q) \in Seq(Mods)
OBVIOUS

\* No call is a call, with nothing asked.
LEMMA NoCallType == NoCall \in Calls /\ ~ NoCall.asked
BY PlaceType DEF NoCall, Calls, None

\* The initial state is well typed.
LEMMA TypeInit == Init => TypeOK
<1> SUFFICES ASSUME Init PROVE TypeOK
  OBVIOUS
<1>1. \A m \in Mods : [NoFiles EXCEPT ![Place(m, 1)] = 1] \in Files
  BY PlaceType, NoFilesType DEF Files
<1>2. disk \in [Mods -> Files] /\ backup \in [Mods -> Files]
  BY <1>1, NoFilesType DEF Init
<1>3. /\ latest \in [Mods -> 0..MaxVersion] /\ installed \in [Mods -> 1..MaxVersion]
      /\ public \in [Mods -> 1..MaxVersion]
  BY PlaceType DEF Init, None
<1>4. paths \in [Mods -> SUBSET Places]
  BY PlaceType DEF Init
<1>5. order \in Orders /\ agent \in [at : {"idle", "stopped", "started", "verdict"},
                                     order : Orders, ok : BOOLEAN, live : BOOLEAN]
  BY NoOrderType DEF Init, Idle
<1>6. NoCall \in Calls
  BY NoCallType
<1>7. call \in [Callers -> Calls]
  BY <1>6 DEF Init
<1>8. /\ made \in 0..MaxOrders /\ faults \in 0..MaxFaults
      /\ silent \subseteq Mods /\ unsure \subseteq Mods /\ leftover \subseteq Mods
  BY DEF Init
<1>9. overlap \in BOOLEAN
  BY Zenon DEF Init
<1>10. QED
  BY <1>2, <1>3, <1>4, <1>5, <1>7, <1>8, <1>9 DEF TypeOK, Files

\* What TypeOK says of the order and of the agent.
LEMMA TypeFacts ==
  ASSUME TypeOK
  PROVE  /\ order.mods \in Payloads /\ order.id \in 0..MaxOrders
         /\ order.status \in {"pending", "running", "done"}
         /\ agent.order \in Orders /\ agent.order.mods \in Payloads
         /\ agent.order.id \in 0..MaxOrders
         /\ agent.ok \in BOOLEAN /\ agent.live \in BOOLEAN
         /\ disk \in [Mods -> Files] /\ backup \in [Mods -> Files]
BY DEF TypeOK, Orders, Files

AgentType == [at : {"idle", "stopped", "started", "verdict"}, order : Orders,
              ok : BOOLEAN, live : BOOLEAN]

\* An answer is awaited for a mod.
AskedInv == \A c \in Callers : call[c].asked => call[c].todo # <<>>

\* The checks of the versions keep the types.
LEMMA TypeChecks ==
  ASSUME TypeOK, AskedInv, NEW c \in Callers, StartCheck(c) \/ Ask(c) \/ Answer(c)
  PROVE  TypeOK' /\ AskedInv'
<1> USE DEF store
<1>0. call[c] \in Calls /\ call[c].todo \in Seq(Mods) /\ call[c].got \in 0..MaxVersion
  BY DEF TypeOK, Calls
<1>1. CASE StartCheck(c)
  <2> DEFINE mine == [call[c] EXCEPT !.todo = ModList]
  <2>1. ~ call[c].asked
    BY <1>1 DEF StartCheck, NoCall
  <2>2. mine \in Calls /\ ~ mine.asked
    BY <1>0, <2>1 DEF Calls
  <2>3. call' = [call EXCEPT ![c] = mine]
    BY <1>1 DEF StartCheck
  <2> HIDE DEF mine
  <2>4. call' \in [Callers -> Calls] /\ AskedInv'
    BY <2>2, <2>3 DEF AskedInv, TypeOK
  <2>5. overlap' \in BOOLEAN
    BY <1>1 DEF StartCheck
  <2>6. QED
    BY <1>1, <2>4, <2>5 DEF StartCheck, TypeOK
<1>2. CASE Ask(c)
  <2>1. PICK got \in Fetched(Head(call[c].todo)) :
          call' = [call EXCEPT ![c].asked = TRUE, ![c].got = got]
    BY <1>2 DEF Ask
  <2> DEFINE mine == [[call[c] EXCEPT !.asked = TRUE] EXCEPT !.got = got]
  <2>2. call[c].todo # <<>>
    BY <1>2 DEF Ask
  <2>3. public[Head(call[c].todo)] \in 1..MaxVersion
    BY <1>0, <2>2, HeadTail DEF TypeOK
  <2>4. got \in 0..MaxVersion
    BY <2>3, PlaceType DEF Fetched, None
  <2>5. mine \in Calls /\ mine.todo # <<>>
    BY <1>0, <2>2, <2>4 DEF Calls
  <2>6. call' = [call EXCEPT ![c] = mine]
    BY <2>1 DEF TypeOK
  <2> HIDE DEF mine
  <2>7. call' \in [Callers -> Calls] /\ AskedInv'
    BY <2>5, <2>6 DEF AskedInv, TypeOK
  <2>8. QED
    BY <1>2, <2>7 DEF Ask, TypeOK, history
<1>3. CASE Answer(c)
  <2> DEFINE mine == [NoCall EXCEPT !.todo = Tail(call[c].todo)]
  <2>1. call[c].asked /\ call[c].todo # <<>>
    BY <1>3 DEF Answer, AskedInv
  <2>2. Tail(call[c].todo) \in Seq(Mods)
    BY <1>0, <2>1, HeadTail
  <2>3. mine \in Calls /\ ~ mine.asked
    BY <2>2, NoCallType DEF Calls
  <2>4. call' = [call EXCEPT ![c] = mine]
    BY <1>3 DEF Answer
  <2> HIDE DEF mine
  <2>5. call' \in [Callers -> Calls] /\ AskedInv'
    BY <2>3, <2>4 DEF AskedInv, TypeOK
  <2>6. latest' \in [Mods -> 0..MaxVersion]
    BY <1>0, <1>3 DEF Answer, LatestAfter, TypeOK
  <2>7. overlap' \in BOOLEAN
    BY <1>3 DEF Answer
  <2>8. QED
    BY <1>3, <2>5, <2>6, <2>7 DEF Answer, TypeOK
<1>4. QED
  BY <1>1, <1>2, <1>3

\* The steps of the order keep the types.
LEMMA TypeOrders ==
  ASSUME TypeOK,
         (\E ms \in SUBSET Mods : UpdateSome(ms)) \/ UpdateAll \/ CancelOrder \/ Expire
  PROVE  TypeOK'
<1> USE DEF store, history
<1>1. ASSUME NEW ms \in SUBSET Mods, Enqueue(ms)
      PROVE  TypeOK'
  <2>1. \A m \in ms : [version |-> latest[m], previous_paths |-> paths[m]] \in Entry
    <3>1. \A m \in ms : latest[m] \in 1..MaxVersion
      BY <1>1, PlaceType DEF Enqueue, Known, TypeOK, None
    <3>2. \A m \in ms : paths[m] \in SUBSET Places
      BY DEF TypeOK
    <3>3. QED
      BY <3>1, <3>2 DEF Entry
  <2>2. Payload(ms) \in [ms -> Entry]
    BY <2>1 DEF Payload
  <2>3. Payload(ms) \in Payloads
    BY <2>2, PayloadIntro
  <2>4. order' \in Orders /\ made' \in 0..MaxOrders
    BY <1>1, <2>3 DEF Enqueue, Orders, TypeOK
  <2>5. QED
    BY <1>1, <2>4 DEF Enqueue, TypeOK
<1>2. ASSUME Withdraw, faults' \in 0..MaxFaults
      PROVE  TypeOK'
  <2>1. DOMAIN order.mods \subseteq Mods /\ Moved(order) \subseteq Mods
    BY TypeFacts, PayloadFacts DEF Moved
  <2>2. unsure' \subseteq Mods /\ leftover' \subseteq Mods
    BY <1>2, <2>1 DEF Withdraw, TypeOK
  <2>3. order' \in Orders
    BY <1>2, NoOrderType DEF Withdraw
  <2>4. QED
    BY <1>2, <2>2, <2>3 DEF Withdraw, TypeOK
<1>3. CASE UpdateAll
  <2>1. {m \in Mods : Newer(m)} \in SUBSET Mods
    OBVIOUS
  <2>2. QED
    BY <1>1, <1>3, <2>1 DEF UpdateAll
<1>4. CASE CancelOrder
  BY <1>2, <1>4 DEF CancelOrder, TypeOK
<1>5. CASE Expire
  <2>1. faults' \in 0..MaxFaults
    BY <1>5 DEF Expire, TypeOK
  <2>2. QED
    BY <1>2, <1>5, <2>1 DEF Expire
<1>6. QED
  BY <1>1, <1>3, <1>4, <1>5 DEF UpdateSome

\* A new version published keeps the types.
LEMMA TypePublish ==
  ASSUME TypeOK, NEW m \in Mods, Publish(m)
  PROVE  TypeOK'
<1>1. public[m] + 1 \in 1..MaxVersion
  <2>1. public[m] \in 1..MaxVersion /\ public[m] < MaxVersion
    BY DEF TypeOK, Publish
  <2>2. QED
    BY <2>1, PlaceType
<1>2. public' \in [Mods -> 1..MaxVersion]
  BY <1>1 DEF TypeOK, Publish
<1>3. QED
  BY <1>2 DEF TypeOK, Publish, store, history

\* What the files, the books and the agent are told keeps the types, when the
\* order and the checks are left alone.
LEMMA TypeAgent ==
  ASSUME TypeOK, UNCHANGED <<latest, made, call, public, overlap>>,
         order' \in Orders, installed' \in [Mods -> 1..MaxVersion],
         paths' \in [Mods -> SUBSET Places], disk' \in [Mods -> Files],
         backup' \in [Mods -> Files], agent' \in AgentType, faults' \in 0..MaxFaults,
         silent' \subseteq Mods, unsure' \subseteq Mods, leftover' \subseteq Mods
  PROVE  TypeOK'
BY DEF TypeOK, AgentType, Files

\* The mods of the agent's order, and those whose files move, are mods.
LEMMA InOrderType ==
  ASSUME TypeOK
  PROVE  /\ DOMAIN agent.order.mods \subseteq Mods /\ Moved(agent.order) \subseteq Mods
         /\ DOMAIN order.mods \subseteq Mods /\ Moved(order) \subseteq Mods
BY TypeFacts, PayloadFacts DEF Moved

\* What goes back to the files of before.
LEMMA TypeRollBack ==
  ASSUME TypeOK, NEW files \in [Mods -> Files], NEW works, RollBack(files, works)
  PROVE  /\ disk' \in [Mods -> Files] /\ agent' \in AgentType
         /\ unsure' \subseteq Mods /\ leftover' \subseteq Mods
<1>1. disk' \in [Mods -> Files]
  <2>1. Restored(files) \in [Mods -> Files]
    BY TypeFacts, RestoredType
  <2>2. disk' = [m \in Mods |-> IF m \in works THEN Restored(files)[m] ELSE files[m]]
    BY DEF RollBack
  <2>3. QED
    BY <2>1, <2>2
<1>2. agent' \in AgentType
  BY DEF RollBack, TypeOK, AgentType
<1>3. unsure' \subseteq Mods /\ leftover' \subseteq Mods
  BY InOrderType DEF RollBack, TypeOK
<1>4. QED
  BY <1>1, <1>2, <1>3

\* The steps of the agent keep the types.
LEMMA TypeBegin ==
  ASSUME TypeOK, NEW told \in BOOLEAN, NEW ready \in BOOLEAN, NEW live \in BOOLEAN,
         NEW saved \in SUBSET Mods, Begin(told, ready, live, saved)
  PROVE  TypeOK'
<1>1. order' \in Orders
  BY DEF Begin, TypeOK, Orders
<1>2. agent' \in AgentType
  BY DEF Begin, TypeOK, AgentType
<1>3. backup' \in [Mods -> Files]
  <2>1. [m \in Mods |-> IF m \in saved THEN disk[m] ELSE NoFiles] \in [Mods -> Files]
    BY TypeFacts, NoFilesType
  <2>2. QED
    BY <2>1, TypeFacts DEF Begin
<1>4. faults' \in 0..MaxFaults
  <2>1. faults \in 0..MaxFaults /\ MaxFaults \in Nat
    BY DEF TypeOK
  <2>2. (faults' = faults + 1 /\ faults < MaxFaults) \/ faults' = faults
    BY DEF Begin
  <2>3. QED
    BY <2>1, <2>2
<1>5. UNCHANGED <<latest, made, call, public, overlap, installed, paths, disk,
                  silent, unsure, leftover>>
  BY DEF Begin, store
<1>6. QED
  BY <1>1, <1>2, <1>3, <1>4, <1>5, TypeFacts, TypeAgent DEF TypeOK

LEMMA TypeReplace ==
  ASSUME TypeOK, NEW done, NEW stuck \in SUBSET DOMAIN agent.order.mods,
         NEW lost \in SUBSET DOMAIN agent.order.mods, NEW works,
         Replace(done, stuck, lost, works)
  PROVE  TypeOK'
<1>1. Replaced(done, stuck, lost) \in [Mods -> Files]
  BY TypeFacts, ReplacedType
<1>2. /\ disk' \in [Mods -> Files] /\ agent' \in AgentType
      /\ unsure' \subseteq Mods /\ leftover' \subseteq Mods
  <2>1. CASE done = DOMAIN agent.order.mods
    <3>1. leftover' = leftover \union (stuck \intersect Moved(agent.order)) /\ unsure' = unsure
      BY <2>1 DEF Replace
    <3>2. unsure' \subseteq Mods /\ leftover' \subseteq Mods
      BY <3>1, InOrderType DEF TypeOK
    <3>3. agent' \in AgentType
      BY <2>1 DEF Replace, TypeOK, AgentType
    <3>4. QED
      BY <1>1, <2>1, <3>2, <3>3 DEF Replace
  <2>2. CASE done # DOMAIN agent.order.mods
    BY <1>1, <2>2, TypeRollBack DEF Replace
  <2>3. QED
    BY <2>1, <2>2
<1>3. faults' \in 0..MaxFaults
  <2>1. faults \in 0..MaxFaults /\ MaxFaults \in Nat
    BY DEF TypeOK
  <2>2. (faults' = faults + 1 /\ faults < MaxFaults) \/ faults' = faults
    BY DEF Replace, Locked
  <2>3. QED
    BY <2>1, <2>2
<1>4. silent' \subseteq Mods
  BY InOrderType DEF Replace
<1>5. UNCHANGED <<latest, installed, paths, order, made, call, public, backup, overlap>>
  BY DEF Replace, store
<1>6. QED
  BY <1>2, <1>3, <1>4, <1>5, TypeFacts, TypeAgent DEF TypeOK

LEMMA TypeVerify ==
  ASSUME TypeOK, NEW ok \in BOOLEAN, NEW works, Verify(ok, works)
  PROVE  TypeOK'
<1>1. /\ disk' \in [Mods -> Files] /\ agent' \in AgentType
      /\ unsure' \subseteq Mods /\ leftover' \subseteq Mods
  <2>1. CASE ok
    BY <2>1, TypeFacts DEF Verify, TypeOK, AgentType
  <2>2. CASE ~ ok
    BY <2>2, TypeFacts, TypeRollBack DEF Verify
  <2>3. QED
    BY <2>1, <2>2
<1>2. UNCHANGED <<latest, installed, paths, order, made, call, public, backup, faults,
                  overlap, silent>>
  BY DEF Verify, store
<1>3. QED
  BY <1>1, <1>2, TypeFacts, TypeAgent DEF TypeOK

LEMMA TypeVerdict ==
  ASSUME TypeOK, Verdict
  PROVE  TypeOK'
<1> DEFINE o == agent.order.mods
           accepted == IF Mine /\ agent.ok THEN DOMAIN o ELSE {}
<1>1. accepted \subseteq DOMAIN o /\ DOMAIN o \subseteq Mods
  BY InOrderType
<1>2. \A m \in DOMAIN o : o[m].version \in 1..MaxVersion /\ {Place(m, o[m].version)} \in SUBSET Places
  BY TypeFacts, PayloadFacts, PlaceType
<1>3. /\ installed' = [m \in Mods |-> IF m \in accepted THEN o[m].version ELSE installed[m]]
      /\ paths' = [m \in Mods |-> IF m \in accepted THEN {Place(m, o[m].version)} ELSE paths[m]]
      /\ unsure' = (unsure \ accepted) \union (accepted \intersect (leftover \union silent))
  BY DEF Verdict
<1> HIDE DEF accepted, o
<1>4. installed' \in [Mods -> 1..MaxVersion] /\ paths' \in [Mods -> SUBSET Places]
  BY <1>1, <1>2, <1>3 DEF TypeOK
<1>5. unsure' \subseteq Mods /\ leftover' \subseteq Mods
  BY <1>1, <1>3 DEF Verdict, TypeOK
<1>6. order' \in Orders
  BY NoOrderType DEF Verdict, TypeOK
<1>7. agent' \in AgentType
  BY NoOrderType DEF Verdict, Idle, AgentType
<1>8. backup' \in [Mods -> Files] /\ disk' \in [Mods -> Files]
  BY NoFilesType, TypeFacts DEF Verdict
<1>9. UNCHANGED <<latest, made, call, public, overlap, faults>> /\ silent' = {}
  BY DEF Verdict
<1>10. QED
  BY <1>4, <1>5, <1>6, <1>7, <1>8, <1>9, TypeAgent DEF TypeOK

LEMMA TypeInterrupted ==
  ASSUME TypeOK, NEW files \in [Mods -> Files], Interrupted(files)
  PROVE  TypeOK'
<1>1. disk' \in [Mods -> Files] /\ backup' \in [Mods -> Files]
  BY NoFilesType DEF Interrupted
<1>2. silent' \subseteq Mods /\ unsure' \subseteq Mods /\ leftover' \subseteq Mods
  BY InOrderType DEF Interrupted, TypeOK
<1>3. agent' \in AgentType
  BY NoOrderType DEF Interrupted, Idle, AgentType
<1>4. faults' \in 0..MaxFaults
  BY DEF Interrupted, TypeOK
<1>5. UNCHANGED <<latest, installed, paths, order, made, call, public, overlap>>
  BY DEF Interrupted, store
<1>6. QED
  BY <1>1, <1>2, <1>3, <1>4, <1>5, TypeAgent DEF TypeOK

\* Every step keeps the types.
LEMMA TypeStep ==
  ASSUME TypeOK, AskedInv, [Next]_vars
  PROVE  TypeOK' /\ AskedInv'
<1>1. ASSUME NEW c \in Callers, StartCheck(c) \/ Ask(c) \/ Answer(c)
      PROVE  TypeOK' /\ AskedInv'
  BY <1>1, TypeChecks
<1>2. ASSUME call' = call
      PROVE  AskedInv'
  BY <1>2 DEF AskedInv
<1>3. ASSUME NEW m \in Mods, Publish(m)
      PROVE  TypeOK' /\ AskedInv'
  <2>1. TypeOK'
    BY <1>3, TypePublish
  <2>2. QED
    BY <1>2, <1>3, <2>1 DEF Publish
<1>4. ASSUME (\E ms \in SUBSET Mods : UpdateSome(ms)) \/ UpdateAll \/ CancelOrder \/ Expire
      PROVE  TypeOK' /\ AskedInv'
  <2>1. TypeOK'
    BY <1>4, TypeOrders
  <2>2. call' = call
    BY <1>4 DEF UpdateSome, UpdateAll, Enqueue, CancelOrder, Expire, Withdraw
  <2>3. QED
    BY <1>2, <2>1, <2>2
<1>5. ASSUME NEW told \in BOOLEAN, NEW ready \in BOOLEAN, NEW live \in BOOLEAN,
             NEW saved \in SUBSET Mods, Begin(told, ready, live, saved)
      PROVE  TypeOK' /\ AskedInv'
  <2>1. TypeOK'
    BY <1>5, TypeBegin
  <2>2. QED
    BY <1>2, <1>5, <2>1 DEF Begin
<1>6. ASSUME NEW done \in SUBSET DOMAIN agent.order.mods,
             NEW stuck \in SUBSET DOMAIN agent.order.mods,
             NEW lost \in SUBSET DOMAIN agent.order.mods,
             NEW works \in SUBSET DOMAIN agent.order.mods, Replace(done, stuck, lost, works)
      PROVE  TypeOK' /\ AskedInv'
  <2>1. TypeOK'
    BY <1>6, TypeReplace
  <2>2. QED
    BY <1>2, <1>6, <2>1 DEF Replace
<1>7. ASSUME NEW ok \in BOOLEAN, NEW works \in SUBSET DOMAIN agent.order.mods,
             Verify(ok, works)
      PROVE  TypeOK' /\ AskedInv'
  <2>1. TypeOK'
    BY <1>7, TypeVerify
  <2>2. QED
    BY <1>2, <1>7, <2>1 DEF Verify
<1>8. CASE Verdict
  <2>1. TypeOK'
    BY <1>8, TypeVerdict
  <2>2. QED
    BY <1>2, <1>8, <2>1 DEF Verdict
<1>9. ASSUME NEW files \in [Mods -> Files], Interrupted(files)
      PROVE  TypeOK' /\ AskedInv'
  <2>1. TypeOK'
    BY <1>9, TypeInterrupted
  <2>2. QED
    BY <1>2, <1>9, <2>1 DEF Interrupted
<1>10. ASSUME NEW done \in SUBSET DOMAIN agent.order.mods,
              NEW stuck \in SUBSET DOMAIN agent.order.mods,
              NEW lost \in SUBSET DOMAIN agent.order.mods,
              CrashWhileReplacing(done, stuck, lost)
       PROVE  TypeOK' /\ AskedInv'
  BY <1>9, <1>10, TypeFacts, ReplacedType DEF CrashWhileReplacing
<1>11. CASE CrashOrLostVerdict
  BY <1>9, <1>11, TypeFacts DEF CrashOrLostVerdict
<1>12. CASE UNCHANGED vars
  BY <1>2, <1>12 DEF vars, store, history, TypeOK
<1>13. QED
  BY <1>1, <1>3, <1>4, <1>5, <1>6, <1>7, <1>8, <1>10, <1>11, <1>12 DEF Next

\* Every variable keeps its type, and every version an order names exists:
\* the state of the checks, of the order and of the agent as the code reads it.
THEOREM TypeCorrect == Spec => []TypeOK
<1>1. Init => TypeOK /\ AskedInv
  BY TypeInit DEF Init, AskedInv, NoCall
<1>2. (TypeOK /\ AskedInv) /\ [Next]_vars => (TypeOK /\ AskedInv)'
  BY TypeStep
<1>3. QED
  BY <1>1, <1>2, PTL DEF Spec

-----------------------------------------------------------------------------
(* The files and the books.                                                *)
(*                                                                         *)
(* An order freezes the paths of its mods; the books keep them until its   *)
(* verdict.  So what the agent removes is where the books say the files    *)
(* are, and what it leaves behind, whatever step fails, is only what the   *)
(* histories unsure and leftover tell of.                                  *)

InOrder == DOMAIN agent.order.mods
Version(m) == agent.order.mods[m].version

\* Where the books say the files of a mod are.
Home(m) == Place(m, installed[m])

OnlyAt(f, l) == \A k \in Places \ {l} : f[k] = None

\* Nothing elsewhere, but for what a removal of l takes with it.
OnlyUnder(f, m, l) ==
  \A k \in Places \ {l} : (k = "nested" /\ (m \in Root \/ l = "dir")) \/ f[k] = None

\* The files f are those the books say m has.  The files of an unsure mod need
\* not be, but unless some are left over the next removal takes them all.
Fits(f, m) ==
  /\ m \notin unsure => f[Home(m)] = installed[m]
  /\ m \notin leftover => OnlyUnder(f, m, Home(m))
  /\ m \notin leftover \union unsure => OnlyAt(f, Home(m))

\* The files on disk are those the order brought.
Landed(m) ==
  /\ m \notin leftover => OnlyUnder(disk[m], m, Place(m, Version(m)))
  /\ m \notin leftover \union silent =>
       disk[m][Place(m, Version(m))] = Version(m) /\ OnlyAt(disk[m], Place(m, Version(m)))

BookPaths == \A m \in Mods : paths[m] = {Home(m)}

IdsInv == order.id <= made /\ agent.order.id <= made

\* A live order removes the paths of the books.
OrderPaths ==
  order.status # "done" =>
    \A m \in DOMAIN order.mods : order.mods[m].previous_paths = paths[m]

\* So does the order under execution, which is the live one unless it was
\* withdrawn; then its mods are known to be unsure.
AgentOrder ==
  agent.at # "idle" =>
    /\ \A m \in InOrder : agent.order.mods[m].previous_paths = paths[m]
    /\ Mine => agent.order.mods = order.mods
    /\ ~ Mine => InOrder \subseteq unsure /\ Moved(agent.order) \subseteq leftover

\* Nothing was replaced, or what was is back.
Before == agent.at \in {"idle", "stopped"} \/ (agent.at = "verdict" /\ ~ agent.ok)

\* All was replaced.
After == agent.at = "started" \/ (agent.at = "verdict" /\ agent.ok)

DiskInv ==
  /\ agent.at \in {"stopped", "started"} => ~ agent.ok
  /\ agent.at = "stopped" => \A m \in Mods : backup[m] \in {disk[m], NoFiles}
  /\ agent.at = "started" => \A m \in Mods : backup[m] # NoFiles => Fits(backup[m], m)
  /\ Before => \A m \in Mods : Fits(disk[m], m)
  /\ After => \A m \in Mods : IF m \in InOrder THEN Landed(m) ELSE Fits(disk[m], m)

BooksInv ==
  TypeOK /\ AskedInv /\ BookPaths /\ IdsInv /\ OrderPaths /\ AgentOrder /\ DiskInv

\* The version an order brings, and where it goes.
LEMMA InOrderFacts ==
  ASSUME TypeOK, NEW m \in InOrder
  PROVE  /\ m \in Mods /\ Version(m) \in 1..MaxVersion
         /\ Place(m, Version(m)) \in {"flat", "dir"}
         /\ m \in Root => Place(m, Version(m)) = "flat"
<1>1. m \in Mods /\ Version(m) \in 1..MaxVersion
  BY TypeFacts, PayloadFacts DEF InOrder, Version
<1>2. QED
  BY <1>1, PlaceType

LEMMA HomeFacts ==
  ASSUME TypeOK, NEW m \in Mods
  PROVE  /\ installed[m] \in 1..MaxVersion /\ installed[m] # None
         /\ Home(m) \in {"flat", "dir"} /\ Home(m) \in Places
         /\ m \in Root => Home(m) = "flat"
<1>1. installed[m] \in 1..MaxVersion
  BY DEF TypeOK
<1>2. installed[m] # None
  BY <1>1, PlaceType DEF None
<1>3. QED
  BY <1>1, <1>2, PlaceType DEF Home

\* What did not move lands where the books say.
LEMMA NotMoved ==
  ASSUME TypeOK, BookPaths, AgentOrder, agent.at # "idle",
         NEW m \in InOrder, m \notin Moved(agent.order)
  PROVE  Place(m, Version(m)) = Home(m)
<1>1. agent.order.mods[m].previous_paths = {Home(m)}
  BY InOrderFacts DEF AgentOrder, BookPaths
<1>2. Place(m, Version(m)) \in agent.order.mods[m].previous_paths
  BY DEF Moved, InOrder, Version
<1>3. QED
  BY <1>1, <1>2

\* What lies at one place is under it.
LEMMA AtIsUnder ==
  ASSUME NEW f, NEW m, NEW l, OnlyAt(f, l)
  PROVE  OnlyUnder(f, m, l)
BY DEF OnlyAt, OnlyUnder

\* Removing the paths of the books leaves nothing of files that lie under them.
LEMMA RemovedLeaves ==
  ASSUME TypeOK, NEW m \in Mods, OnlyUnder(disk[m], m, Home(m))
  PROVE  \A l \in Places : Removed(m, {Home(m)})[l] = None
<1>1. \A l \in Places : Removed(m, {Home(m)})[l] =
        IF m \in Root \/ (IF l = "nested" THEN "dir" ELSE l) = Home(m)
        THEN None ELSE disk[m][l]
  BY DEF Removed
<1>2. \A k \in Places \ {Home(m)} :
        (k = "nested" /\ (m \in Root \/ Home(m) = "dir")) \/ disk[m][k] = None
  BY DEF OnlyUnder
<1>3. QED
  BY <1>1, <1>2, HomeFacts

\* A version copied where nothing is lies at its place, alone.
LEMMA CopiedLands ==
  ASSUME NEW f \in Files, NEW m \in Mods, NEW v \in 1..MaxVersion,
         \A l \in Places : f[l] = None
  PROVE  Copied(f, m, v)[Place(m, v)] = v /\ OnlyAt(Copied(f, m, v), Place(m, v))
<1>1. Place(m, v) \in Places
  BY PlaceType
<1>2. Copied(f, m, v) = [f EXCEPT ![Place(m, v)] = v]
  BY <1>1 DEF Copied
<1> DEFINE l == Place(m, v)
<1> HIDE DEF l
<1>3. Copied(f, m, v) = [f EXCEPT ![l] = v] /\ l \in Places
  BY <1>1, <1>2 DEF l
<1>4. Copied(f, m, v)[l] = v /\ OnlyAt(Copied(f, m, v), l)
  BY <1>3 DEF OnlyAt, Files
<1>5. QED
  BY <1>4 DEF l

\* Copied over what could not be removed, it lies under its place.
LEMMA CopiedUnder ==
  ASSUME NEW f \in Files, NEW m \in Mods, NEW v \in 1..MaxVersion,
         OnlyUnder(f, m, Place(m, v))
  PROVE  OnlyUnder(Copied(f, m, v), m, Place(m, v))
<1> DEFINE l == Place(m, v)
           k == IF (m \in Root \/ l = "dir") /\ f[l] # None THEN "nested" ELSE l
<1>1. Copied(f, m, v) = [f EXCEPT ![k] = v]
  BY DEF Copied
<1>2. k = l \/ (k = "nested" /\ (m \in Root \/ l = "dir"))
  OBVIOUS
<1> HIDE DEF l, k
<1>3. OnlyUnder(f, m, l) => OnlyUnder(Copied(f, m, v), m, l)
  BY <1>1, <1>2 DEF OnlyUnder, Files
<1>4. QED
  BY <1>3 DEF l

\* The files of a mod of the order once the agent has removed the old ones.
Cleared(m, done, stuck) ==
  IF m \notin stuck /\ (m \in Root => m \in done) THEN Removed(m, {Home(m)}) ELSE disk[m]

LEMMA ReplacedAt ==
  ASSUME TypeOK, BookPaths, AgentOrder, agent.at # "idle",
         NEW done, NEW stuck, NEW lost, NEW m \in Mods
  PROVE  /\ m \notin InOrder => Replaced(done, stuck, lost)[m] = disk[m]
         /\ m \in InOrder /\ m \in done \ lost =>
              Replaced(done, stuck, lost)[m] = Copied(Cleared(m, done, stuck), m, Version(m))
         /\ m \in InOrder /\ m \notin done \ lost =>
              Replaced(done, stuck, lost)[m] = Cleared(m, done, stuck)
<1>1. m \in InOrder => agent.order.mods[m].previous_paths = {Home(m)}
  BY DEF AgentOrder, BookPaths
<1> DEFINE kept == IF m \notin stuck /\ (m \in Root => m \in done)
                   THEN Removed(m, agent.order.mods[m].previous_paths) ELSE disk[m]
<1>2. Replaced(done, stuck, lost)[m] =
        IF m \notin InOrder THEN disk[m]
        ELSE IF m \in done \ lost THEN Copied(kept, m, Version(m)) ELSE kept
  BY DEF Replaced, InOrder, Version
<1>3. m \in InOrder => kept = Cleared(m, done, stuck)
  BY <1>1 DEF Cleared
<1> HIDE DEF kept
<1>4. QED
  BY <1>2, <1>3

\* With all copied, a mod none of whose files failed is where its version goes,
\* alone.
LEMMA ReplacedLands ==
  ASSUME TypeOK, BookPaths, AgentOrder, agent.at # "idle",
         NEW done, NEW stuck, NEW lost, NEW m \in InOrder,
         m \in done, m \notin stuck, m \notin lost, OnlyUnder(disk[m], m, Home(m))
  PROVE  /\ Replaced(done, stuck, lost)[m][Place(m, Version(m))] = Version(m)
         /\ OnlyAt(Replaced(done, stuck, lost)[m], Place(m, Version(m)))
<1> DEFINE f == Removed(m, {Home(m)})
<1>1. m \in Mods /\ Version(m) \in 1..MaxVersion
  BY InOrderFacts
<1>2. f \in Files
  BY <1>1, TypeFacts, RemovedType
<1>3. \A l \in Places : f[l] = None
  BY <1>1, RemovedLeaves
<1>4. Replaced(done, stuck, lost)[m] = Copied(f, m, Version(m))
  <2>1. Cleared(m, done, stuck) = f
    BY DEF Cleared
  <2> HIDE DEF f
  <2>2. QED
    BY <1>1, <2>1, ReplacedAt
<1> HIDE DEF f
<1>5. QED
  BY <1>1, <1>2, <1>3, <1>4, CopiedLands

\* Whatever fails, a mod that did not move has nothing elsewhere than under its
\* place; nor a mod that moved, if it was removed and all were copied.
LEMMA ReplacedUnder ==
  ASSUME TypeOK, BookPaths, AgentOrder, agent.at # "idle",
         NEW done, NEW stuck, NEW lost, NEW m \in InOrder,
         OnlyUnder(disk[m], m, Home(m)),
         m \notin Moved(agent.order) \/ (m \in done /\ m \notin stuck)
  PROVE  OnlyUnder(Replaced(done, stuck, lost)[m], m, Place(m, Version(m)))
<1> DEFINE f == Cleared(m, done, stuck)
           l == Place(m, Version(m))
<1>1. m \in Mods /\ Version(m) \in 1..MaxVersion
  BY InOrderFacts
<1>2. f \in Files
  BY <1>1, TypeFacts, RemovedType DEF Cleared
<1>3. OnlyUnder(f, m, l)
  <2>1. CASE m \notin stuck /\ (m \in Root => m \in done)
    <3>1. \A k \in Places : f[k] = None
      BY <1>1, <2>1, RemovedLeaves DEF Cleared
    <3> HIDE DEF f, l
    <3>2. QED
      BY <3>1 DEF OnlyUnder
  <2>2. CASE ~ (m \notin stuck /\ (m \in Root => m \in done))
    <3>1. l = Home(m)
      BY <2>2, NotMoved
    <3>2. f = disk[m]
      BY <2>2 DEF Cleared
    <3>3. QED
      BY <3>1, <3>2
  <2>3. QED
    BY <2>1, <2>2
<1>4. Replaced(done, stuck, lost)[m] \in {f, Copied(f, m, Version(m))}
  BY <1>1, ReplacedAt
<1> HIDE DEF f
<1>5. QED
  BY <1>1, <1>2, <1>3, <1>4, CopiedUnder

\* With some copied, a mod that did not move and whose files did not fail has
\* nothing elsewhere.
LEMMA ReplacedKeeps ==
  ASSUME TypeOK, BookPaths, AgentOrder, agent.at # "idle",
         NEW done, NEW stuck, NEW lost, NEW m \in InOrder,
         m \notin Moved(agent.order), m \notin stuck, m \notin lost, OnlyAt(disk[m], Home(m))
  PROVE  OnlyAt(Replaced(done, stuck, lost)[m], Home(m))
<1>1. m \in Mods /\ OnlyUnder(disk[m], m, Home(m))
  BY InOrderFacts, AtIsUnder
<1>2. CASE m \in done
  BY <1>1, <1>2, NotMoved, ReplacedLands
<1>3. CASE m \notin done
  <2>1. Replaced(done, stuck, lost)[m] \in {Removed(m, {Home(m)}), disk[m]}
    <3>1. Cleared(m, done, stuck) \in {Removed(m, {Home(m)}), disk[m]}
      BY DEF Cleared
    <3>2. QED
      BY <1>1, <1>3, <3>1, ReplacedAt
  <2>2. OnlyAt(Removed(m, {Home(m)}), Home(m))
    BY <1>1, RemovedLeaves DEF OnlyAt
  <2>3. QED
    BY <2>1, <2>2
<1>4. QED
  BY <1>2, <1>3

\* The files of an order that failed: of the other mods they are those of the
\* books, and of its own mods they are nowhere else, unless they moved; failed
\* are the mods whose files could not be removed or copied.
Kept(files, failed) ==
  /\ \A m \in Mods \ InOrder : Fits(files[m], m)
  /\ \A m \in InOrder : m \notin Moved(agent.order) /\ m \notin leftover
                          => OnlyUnder(files[m], m, Home(m))
  /\ \A m \in InOrder :
       m \notin Moved(agent.order) /\ m \notin leftover /\ m \notin unsure /\ m \notin failed
         => OnlyAt(files[m], Home(m))

\* So they are while the agent replaces them, and as the disk then is.
LEMMA ReplacedKept ==
  ASSUME BooksInv, agent.at = "stopped", NEW done, NEW stuck, NEW lost
  PROVE  Kept(Replaced(done, stuck, lost), stuck \union lost)
<1> DEFINE files == Replaced(done, stuck, lost)
<1>1. TypeOK /\ BookPaths /\ AgentOrder /\ agent.at # "idle"
  BY DEF BooksInv
<1>2. \A m \in Mods : Fits(disk[m], m)
  BY DEF BooksInv, DiskInv, Before
<1>3. \A m \in Mods \ InOrder : files[m] = disk[m]
  BY <1>1, ReplacedAt
<1>4. ASSUME NEW m \in InOrder, m \notin Moved(agent.order), m \notin leftover
      PROVE  OnlyUnder(files[m], m, Home(m))
  <2>1. m \in Mods
    BY <1>1, InOrderFacts
  <2>2. OnlyUnder(disk[m], m, Home(m))
    BY <1>2, <1>4, <2>1 DEF Fits
  <2>3. QED
    BY <1>1, <1>4, <2>2, NotMoved, ReplacedUnder
<1>5. ASSUME NEW m \in InOrder, m \notin Moved(agent.order), m \notin leftover,
             m \notin unsure, m \notin stuck \union lost
      PROVE  OnlyAt(files[m], Home(m))
  <2>1. m \in Mods
    BY <1>1, InOrderFacts
  <2>2. OnlyAt(disk[m], Home(m))
    BY <1>2, <1>5, <2>1 DEF Fits
  <2>3. QED
    BY <1>1, <1>5, <2>2, ReplacedKeeps
<1> HIDE DEF files
<1>6. \A m \in Mods \ InOrder : Fits(files[m], m)
  BY <1>2, <1>3
<1>7. Kept(files, stuck \union lost)
  BY <1>4, <1>5, <1>6 DEF Kept
<1>8. QED
  BY <1>7 DEF files

LEMMA DiskKept ==
  ASSUME BooksInv, agent.at # "idle"
  PROVE  Kept(disk, silent)
<1>1. TypeOK /\ BookPaths /\ AgentOrder /\ DiskInv /\ InOrder \subseteq Mods
  BY InOrderFacts DEF BooksInv
<1>2. CASE Before
  BY <1>1, <1>2 DEF DiskInv, Kept, Fits
<1>3. CASE After
  <2>1. \A m \in Mods \ InOrder : Fits(disk[m], m)
    BY <1>1, <1>3 DEF DiskInv
  <2>2. ASSUME NEW m \in InOrder, m \notin Moved(agent.order), m \notin leftover
        PROVE  /\ OnlyUnder(disk[m], m, Home(m))
               /\ m \notin silent => OnlyAt(disk[m], Home(m))
    <3>1. Landed(m)
      BY <1>1, <1>3 DEF DiskInv
    <3>2. /\ OnlyUnder(disk[m], m, Place(m, Version(m)))
          /\ m \notin silent => OnlyAt(disk[m], Place(m, Version(m)))
      BY <2>2, <3>1 DEF Landed
    <3>3. QED
      BY <1>1, <2>2, <3>2, NotMoved
  <2>3. QED
    BY <2>1, <2>2 DEF Kept
<1>4. Before \/ After
  BY <1>1 DEF Before, After, TypeOK
<1>5. QED
  BY <1>2, <1>3, <1>4

\* After the rollback, whatever of it works, the files are those of the books.
LEMMA RollBackFits ==
  ASSUME BooksInv, NEW files, NEW works \in SUBSET InOrder, RollBack(files, works),
         Kept(files, silent'),
         \A m \in Mods : backup[m] # NoFiles => Fits(backup[m], m),
         UNCHANGED installed
  PROVE  \A m \in Mods : Fits(disk[m], m)'
<1> SUFFICES ASSUME NEW m \in Mods PROVE Fits(disk[m], m)'
  OBVIOUS
<1>1. Home(m)' = Home(m) /\ installed'[m] = installed[m]
  BY DEF Home
<1>2. /\ installed[m] # None /\ Home(m) \in Places
  BY HomeFacts DEF BooksInv
<1>3. /\ leftover' = leftover \union Moved(agent.order)
      /\ unsure' = unsure \union (InOrder \ works)
                          \union (InOrder \intersect (Unsaved \union silent'))
  BY DEF RollBack, InOrder
<1>4. \A l \in Places :
        disk'[m][l] = IF m \in works /\ backup[m][l] # None THEN backup[m][l] ELSE files[m][l]
  BY DEF RollBack, Restored
<1>5. CASE m \notin InOrder
  <2>1. \A l \in Places : disk'[m][l] = files[m][l]
    BY <1>4, <1>5
  <2>2. Fits(files[m], m)
    BY <1>5 DEF Kept
  <2>3. /\ m \notin unsure' => files[m][Home(m)] = installed[m]
        /\ m \notin leftover' => OnlyUnder(files[m], m, Home(m))
        /\ m \notin leftover' \union unsure' => OnlyAt(files[m], Home(m))
    BY <1>3, <2>2 DEF Fits
  <2>4. QED
    BY <1>1, <1>2, <2>1, <2>3 DEF Fits, OnlyAt, OnlyUnder
<1>6. CASE m \in InOrder
  <2>1. ASSUME m \notin unsure'
        PROVE  disk'[m][Home(m)] = installed[m]
    <3>1. m \in works /\ m \notin unsure /\ backup[m] # NoFiles
      BY <1>3, <1>6, <2>1 DEF Unsaved
    <3>2. backup[m][Home(m)] = installed[m]
      BY <3>1 DEF Fits
    <3>3. QED
      BY <1>2, <1>4, <3>1, <3>2
  <2>2. ASSUME m \notin leftover'
        PROVE  OnlyUnder(disk'[m], m, Home(m))
    <3>1. OnlyUnder(files[m], m, Home(m))
      BY <1>3, <1>6, <2>2 DEF Kept
    <3>2. OnlyUnder(backup[m], m, Home(m))
      <4>1. CASE backup[m] = NoFiles
        BY <4>1 DEF OnlyUnder, NoFiles
      <4>2. CASE backup[m] # NoFiles
        BY <1>3, <2>2, <4>2 DEF Fits
      <4>3. QED
        BY <4>1, <4>2
    <3>3. QED
      BY <1>4, <3>1, <3>2 DEF OnlyUnder
  <2>3. ASSUME m \notin leftover' \union unsure'
        PROVE  OnlyAt(disk'[m], Home(m))
    <3>1. m \in works /\ m \notin unsure /\ m \notin silent' /\ backup[m] # NoFiles
          /\ m \notin leftover /\ m \notin Moved(agent.order)
      BY <1>3, <1>6, <2>3 DEF Unsaved
    <3>2. OnlyAt(files[m], Home(m))
      BY <1>6, <3>1 DEF Kept
    <3>3. OnlyAt(backup[m], Home(m))
      BY <3>1 DEF Fits
    <3>4. QED
      BY <1>4, <3>2, <3>3 DEF OnlyAt
  <2>4. QED
    BY <1>1, <2>1, <2>2, <2>3 DEF Fits, OnlyAt, OnlyUnder
<1>7. QED
  BY <1>5, <1>6

\* A step that leaves books, files and agent alone keeps what holds of the
\* files, if it takes no mod out of the histories.
LEMMA DiskUntouched ==
  ASSUME DiskInv, UNCHANGED <<installed, disk, agent, backup, silent>>,
         unsure \subseteq unsure', leftover \subseteq leftover'
  PROVE  DiskInv'
<1>1. ASSUME NEW f, NEW m \in Mods, Fits(f, m)
      PROVE  Fits(f, m)'
  BY <1>1 DEF Fits, Home, OnlyAt, OnlyUnder
<1>2. \A m \in Mods : (Fits(disk[m], m) => Fits(disk[m], m)')
                      /\ (Fits(backup[m], m) => Fits(backup[m], m)')
  BY <1>1
<1>3. \A m \in Mods : Landed(m) => Landed(m)'
  BY DEF Landed, Version, OnlyAt, OnlyUnder
<1>4. InOrder' = InOrder /\ Before' = Before /\ After' = After
  BY DEF InOrder, Before, After
<1>5. QED
  BY <1>2, <1>3, <1>4 DEF DiskInv

LEMMA BooksInit == Init => BooksInv
<1> SUFFICES ASSUME Init PROVE BooksInv
  OBVIOUS
<1>1. TypeOK /\ AskedInv
  BY TypeInit DEF Init, AskedInv, NoCall
<1>2. BookPaths /\ IdsInv /\ OrderPaths /\ AgentOrder
  BY NoOrderType DEF Init, BookPaths, Home, IdsInv, OrderPaths, AgentOrder, Idle
<1>3. ASSUME NEW m \in Mods
      PROVE  Fits(disk[m], m)
  <2>1. disk[m] = [NoFiles EXCEPT ![Place(m, 1)] = 1] /\ installed[m] = 1
    BY DEF Init
  <2>2. Place(m, 1) \in Places
    BY PlaceType
  <2> DEFINE l == Place(m, 1)
  <2> HIDE DEF l
  <2>3. disk[m] = [NoFiles EXCEPT ![l] = 1] /\ l \in Places /\ Home(m) = l
    BY <2>1, <2>2 DEF Home, l
  <2>4. QED
    BY <2>1, <2>3 DEF Fits, OnlyAt, OnlyUnder, NoFiles
<1>4. DiskInv
  BY <1>3 DEF DiskInv, Init, Idle, Before, After
<1>5. QED
  BY <1>1, <1>2, <1>4 DEF BooksInv

\* The steps that touch neither the order, nor the files, nor the agent.
BooksVars == <<installed, paths, order, made, disk, agent, backup, silent, unsure, leftover>>

LEMMA BooksUntouched ==
  ASSUME BooksInv, UNCHANGED BooksVars, TypeOK', AskedInv'
  PROVE  BooksInv'
<1>1. BookPaths' /\ IdsInv' /\ OrderPaths'
  BY DEF BooksInv, BooksVars, BookPaths, Home, IdsInv, OrderPaths
<1>2. AgentOrder'
  BY DEF BooksInv, BooksVars, AgentOrder, InOrder, Mine, Moved
<1>3. DiskInv'
  BY DiskUntouched DEF BooksInv, BooksVars
<1>4. QED
  BY <1>1, <1>2, <1>3 DEF BooksInv

\* A new order removes the paths of the books, and is not the one under execution.
LEMMA BooksEnqueue ==
  ASSUME BooksInv, TypeOK', AskedInv', NEW ms \in SUBSET Mods, Enqueue(ms)
  PROVE  BooksInv'
<1>1. /\ UNCHANGED <<installed, paths, disk, agent, backup, silent, unsure, leftover>>
      /\ order.status = "done" /\ made' = made + 1
      /\ order' = [id |-> made + 1, mods |-> Payload(ms), status |-> "pending"]
  BY DEF Enqueue, store, history
<1>2. made \in Nat /\ order.id \in Nat /\ agent.order.id \in Nat
      /\ agent.order.id <= made
  BY TypeFacts DEF BooksInv, TypeOK, IdsInv
<1>3. BookPaths' /\ IdsInv'
  BY <1>1, <1>2 DEF BooksInv, BookPaths, Home, IdsInv
<1>4. OrderPaths'
  BY <1>1 DEF OrderPaths, Payload
<1>5. ~ Mine /\ ~ Mine'
  BY <1>1, <1>2 DEF Mine
<1>6. AgentOrder'
  BY <1>1, <1>5 DEF BooksInv, AgentOrder, InOrder, Moved
<1>7. DiskInv'
  BY <1>1, DiskUntouched DEF BooksInv
<1>8. QED
  BY <1>3, <1>4, <1>6, <1>7 DEF BooksInv

\* An order withdrawn while it is executed leaves its mods unsure.
LEMMA BooksWithdraw ==
  ASSUME BooksInv, TypeOK', AskedInv', Withdraw
  PROVE  BooksInv'
<1>1. /\ UNCHANGED <<installed, paths, made, disk, agent, backup, silent>>
      /\ order' = NoOrder
      /\ unsure \subseteq unsure' /\ leftover \subseteq leftover'
  BY DEF Withdraw, store
<1>2. agent.order.id = order.id =>
        DOMAIN order.mods \subseteq unsure' /\ Moved(order) \subseteq leftover'
  BY DEF Withdraw
<1>3. BookPaths' /\ OrderPaths' /\ ~ Mine'
  BY <1>1, NoOrderType DEF BooksInv, BookPaths, Home, OrderPaths, Mine
<1>4. IdsInv'
  BY <1>1, NoOrderType DEF BooksInv, IdsInv, TypeOK
<1>5. AgentOrder'
  <2>1. SUFFICES ASSUME agent.at # "idle"
                 PROVE  InOrder \subseteq unsure' /\ Moved(agent.order) \subseteq leftover'
    BY <1>1, <1>3 DEF BooksInv, AgentOrder, InOrder, Moved
  <2>2. CASE Mine
    BY <1>2, <2>1, <2>2 DEF BooksInv, AgentOrder, InOrder, Mine, Moved
  <2>3. CASE ~ Mine
    BY <1>1, <2>1, <2>3 DEF BooksInv, AgentOrder
  <2>4. QED
    BY <2>2, <2>3
<1>6. DiskInv'
  BY <1>1, DiskUntouched DEF BooksInv
<1>7. QED
  BY <1>3, <1>4, <1>5, <1>6 DEF BooksInv

\* The agent takes the live order; the backup is what is on disk.
LEMMA BooksBegin ==
  ASSUME BooksInv, TypeOK', AskedInv', NEW told, NEW ready \in BOOLEAN, NEW live, NEW saved,
         Begin(told, ready, live, saved)
  PROVE  BooksInv'
<1>1. /\ UNCHANGED <<installed, paths, made, disk, unsure, leftover>>
      /\ agent.at = "idle" /\ order.status # "done"
      /\ order'.id = order.id /\ order'.mods = order.mods /\ order'.status # "done"
      /\ agent'.at = (IF ready THEN "stopped" ELSE "verdict")
      /\ agent'.order = order /\ agent'.ok = FALSE
      /\ ready => \A m \in Mods : backup'[m] \in {disk[m], NoFiles}
  <2>1. order' = IF told THEN [order EXCEPT !.status = "running"] ELSE order
    BY DEF Begin
  <2>2. /\ order'.id = order.id /\ order'.mods = order.mods
        /\ order.status # "done" => order'.status # "done"
    BY <2>1 DEF BooksInv, TypeOK, Orders
  <2>3. ready => \A m \in Mods : backup'[m] \in {disk[m], NoFiles}
    BY DEF Begin
  <2>4. QED
    BY <2>2, <2>3 DEF Begin, store
<1>2. BookPaths' /\ IdsInv' /\ OrderPaths'
  BY <1>1 DEF BooksInv, BookPaths, Home, IdsInv, OrderPaths
<1>3. Mine'
  BY <1>1 DEF Mine
<1>4. AgentOrder'
  BY <1>1, <1>3 DEF BooksInv, AgentOrder, InOrder, OrderPaths
<1>5. \A m \in Mods : Fits(disk[m], m)'
  <2>1. \A m \in Mods : Fits(disk[m], m)
    BY <1>1 DEF BooksInv, DiskInv, Before
  <2>2. QED
    BY <1>1, <2>1 DEF Fits, Home, OnlyAt, OnlyUnder
<1>6. DiskInv'
  BY <1>1, <1>5 DEF DiskInv, After
<1>7. QED
  BY <1>2, <1>4, <1>6 DEF BooksInv

\* The books and the live order are left alone, and the agent keeps its order.
LEMMA BooksKept ==
  ASSUME BooksInv, UNCHANGED <<installed, paths, order, made>>,
         agent'.order = agent.order, agent.at # "idle",
         unsure \subseteq unsure', leftover \subseteq leftover'
  PROVE  BookPaths' /\ IdsInv' /\ OrderPaths' /\ AgentOrder' /\ InOrder' = InOrder
<1>1. BookPaths' /\ IdsInv' /\ OrderPaths'
  BY DEF BooksInv, BookPaths, Home, IdsInv, OrderPaths
<1>2. InOrder' = InOrder /\ Moved(agent.order)' = Moved(agent.order) /\ Mine' = Mine
  BY DEF InOrder, Moved, Mine
<1>3. AgentOrder'
  BY <1>2 DEF BooksInv, AgentOrder
<1>4. QED
  BY <1>1, <1>2, <1>3

\* A rollback keeps the books true.
LEMMA BooksRollBack ==
  ASSUME BooksInv, TypeOK', AskedInv', agent.at \in {"stopped", "started"},
         UNCHANGED <<installed, paths, order, made>>,
         NEW files, NEW works \in SUBSET InOrder, RollBack(files, works),
         Kept(files, silent'),
         \A m \in Mods : backup[m] # NoFiles => Fits(backup[m], m)
  PROVE  BooksInv'
<1>1. agent'.order = agent.order /\ agent'.at = "verdict" /\ agent'.ok = agent.ok
  BY DEF RollBack, BooksInv, TypeOK
<1>2. ~ agent.ok
  BY DEF BooksInv, DiskInv
<1>3. unsure \subseteq unsure' /\ leftover \subseteq leftover'
  BY DEF RollBack
<1>4. BookPaths' /\ IdsInv' /\ OrderPaths' /\ AgentOrder'
  BY <1>1, <1>3, BooksKept
<1>5. \A m \in Mods : Fits(disk[m], m)'
  BY RollBackFits
<1>6. DiskInv'
  BY <1>1, <1>2, <1>5 DEF DiskInv, After
<1>7. QED
  BY <1>4, <1>6 DEF BooksInv

LEMMA BooksReplace ==
  ASSUME BooksInv, TypeOK', AskedInv', NEW done, NEW stuck \in SUBSET InOrder, NEW lost,
         NEW works \in SUBSET InOrder, Replace(done, stuck, lost, works)
  PROVE  BooksInv'
<1> DEFINE files == Replaced(done, stuck, lost)
<1>1. /\ agent.at = "stopped" /\ agent.at # "idle" /\ silent' = stuck \union lost
      /\ UNCHANGED <<installed, paths, order, made, backup>>
  BY DEF Replace, store
<1>2. \A m \in Mods : Fits(disk[m], m) /\ backup[m] \in {disk[m], NoFiles}
  BY <1>1 DEF BooksInv, DiskInv, Before
<1>3. \A m \in Mods : backup[m] # NoFiles => Fits(backup[m], m)
  BY <1>2
<1>4. CASE done = DOMAIN agent.order.mods
  <2>1. /\ disk' = files /\ agent'.at = "started"
        /\ agent'.order = agent.order /\ agent'.ok = agent.ok
        /\ unsure' = unsure
        /\ leftover' = leftover \union (stuck \intersect Moved(agent.order))
    BY <1>4 DEF Replace, BooksInv, TypeOK
  <2>2. BookPaths' /\ IdsInv' /\ OrderPaths' /\ AgentOrder' /\ InOrder' = InOrder
    BY <1>1, <2>1, BooksKept
  <2>3. ~ agent.ok
    BY <1>1 DEF BooksInv, DiskInv
  <2>4. ASSUME NEW m \in InOrder
        PROVE  Landed(m)'
    <3>1. m \in Mods /\ m \in done
      BY <1>4, InOrderFacts DEF BooksInv, InOrder
    <3>2. m \notin leftover => OnlyUnder(disk[m], m, Home(m))
      BY <1>2, <3>1 DEF Fits
    <3>3. m \notin leftover' => OnlyUnder(files[m], m, Place(m, Version(m)))
      <4>1. SUFFICES ASSUME m \notin leftover'
                     PROVE  OnlyUnder(files[m], m, Place(m, Version(m)))
        OBVIOUS
      <4>2. m \notin leftover /\ (m \notin Moved(agent.order) \/ m \notin stuck)
        BY <2>1, <4>1
      <4>3. QED
        BY <1>1, <3>1, <3>2, <4>2, ReplacedUnder DEF BooksInv
    <3>4. m \notin leftover' \union silent' =>
            /\ files[m][Place(m, Version(m))] = Version(m)
            /\ OnlyAt(files[m], Place(m, Version(m)))
      <4>1. SUFFICES ASSUME m \notin leftover' \union silent'
                     PROVE  /\ files[m][Place(m, Version(m))] = Version(m)
                            /\ OnlyAt(files[m], Place(m, Version(m)))
        OBVIOUS
      <4>2. m \notin leftover /\ m \notin stuck /\ m \notin lost
        BY <1>1, <2>1, <4>1
      <4>3. QED
        BY <1>1, <3>1, <3>2, <4>2, ReplacedLands DEF BooksInv
    <3>5. Version(m)' = Version(m)
      BY <2>1 DEF Version
    <3> HIDE DEF files
    <3>6. QED
      BY <2>1, <3>3, <3>4, <3>5 DEF Landed, OnlyAt, OnlyUnder
  <2>5. ASSUME NEW m \in Mods, NEW f, Fits(f, m)
        PROVE  Fits(f, m)'
    BY <1>1, <2>1, <2>5 DEF Fits, Home, OnlyAt, OnlyUnder
  <2>6. \A m \in Mods : backup'[m] # NoFiles => Fits(backup[m], m)'
    <3>1. \A m \in Mods : Fits(backup[m], m) => Fits(backup[m], m)'
      BY <1>1, <2>5
    <3>2. QED
      BY <1>1, <1>3, <3>1
  <2>7. ASSUME NEW m \in Mods \ InOrder
        PROVE  Fits(disk[m], m)'
    <3>1. files[m] = disk[m]
      BY <1>1, ReplacedAt DEF BooksInv
    <3>2. Fits(disk[m], m)
      BY <1>2
    <3>3. disk'[m] = disk[m]
      BY <2>1, <3>1
    <3>4. QED
      BY <1>1, <2>1, <3>2, <3>3 DEF Fits, Home, OnlyAt, OnlyUnder
  <2> HIDE DEF files
  <2>8. DiskInv'
    BY <2>1, <2>2, <2>3, <2>4, <2>6, <2>7 DEF DiskInv, Before
  <2>9. QED
    BY <2>2, <2>8 DEF BooksInv
<1>5. CASE done # DOMAIN agent.order.mods
  <2>1. RollBack(files, works)
    BY <1>5 DEF Replace
  <2>2. Kept(files, silent')
    BY <1>1, ReplacedKept
  <2> HIDE DEF files
  <2>3. QED
    BY <1>1, <1>3, <2>1, <2>2, BooksRollBack
<1>6. QED
  BY <1>4, <1>5

LEMMA BooksVerify ==
  ASSUME BooksInv, TypeOK', AskedInv', NEW ok, NEW works \in SUBSET InOrder,
         Verify(ok, works)
  PROVE  BooksInv'
<1>1. /\ agent.at = "started" /\ agent.at # "idle"
      /\ UNCHANGED <<installed, paths, order, made, backup, silent>>
  BY DEF Verify, store
<1>2. CASE ok
  <2>1. /\ agent'.at = "verdict" /\ agent'.ok = TRUE /\ agent'.order = agent.order
        /\ UNCHANGED <<disk, unsure, leftover>>
    BY <1>2 DEF Verify, BooksInv, TypeOK
  <2>2. BookPaths' /\ IdsInv' /\ OrderPaths' /\ AgentOrder' /\ InOrder' = InOrder
    BY <1>1, <2>1, BooksKept
  <2>3. \A m \in Mods : IF m \in InOrder THEN Landed(m) ELSE Fits(disk[m], m)
    BY <1>1 DEF BooksInv, DiskInv, After
  <2>4. \A m \in Mods : Landed(m) => Landed(m)'
    BY <1>1, <2>1 DEF Landed, Version, OnlyAt, OnlyUnder
  <2>5. \A m \in Mods : Fits(disk[m], m) => Fits(disk[m], m)'
    BY <1>1, <2>1 DEF Fits, Home, OnlyAt, OnlyUnder
  <2>6. DiskInv'
    BY <2>1, <2>2, <2>3, <2>4, <2>5 DEF DiskInv, Before
  <2>7. QED
    BY <2>2, <2>6 DEF BooksInv
<1>3. CASE ~ ok
  <2>1. RollBack(disk, works)
    BY <1>3 DEF Verify
  <2>2. Kept(disk, silent')
    BY <1>1, DiskKept
  <2>3. \A m \in Mods : backup[m] # NoFiles => Fits(backup[m], m)
    BY <1>1 DEF BooksInv, DiskInv
  <2>4. QED
    BY <1>1, <2>1, <2>2, <2>3, BooksRollBack
<1>4. QED
  BY <1>2, <1>3

\* The verdict: the books follow the files of an order that succeeded, when it
\* is still the live one; else they stay what they were.
LEMMA BooksVerdict ==
  ASSUME BooksInv, TypeOK', AskedInv', Verdict
  PROVE  BooksInv'
<1> DEFINE accepted == IF Mine /\ agent.ok THEN InOrder ELSE {}
<1>1. /\ agent.at = "verdict" /\ agent' = Idle
      /\ order' = IF Mine THEN NoOrder ELSE order
      /\ UNCHANGED <<made, disk, leftover>>
      /\ unsure' = (unsure \ accepted) \union (accepted \intersect (leftover \union silent))
      /\ \A m \in Mods :
           /\ installed'[m] = IF m \in accepted THEN Version(m) ELSE installed[m]
           /\ paths'[m] = IF m \in accepted THEN {Place(m, Version(m))} ELSE paths[m]
  BY DEF Verdict, InOrder, Version
<1>2. accepted \subseteq InOrder /\ (accepted # {} => Mine /\ agent.ok)
      /\ (Mine /\ agent.ok => accepted = InOrder)
  OBVIOUS
<1> HIDE DEF accepted
<1>3. BookPaths'
  BY <1>1 DEF BooksInv, BookPaths, Home
<1>4. IdsInv' /\ agent'.at = "idle" /\ AgentOrder'
  BY <1>1, NoOrderType DEF BooksInv, TypeOK, IdsInv, Idle, AgentOrder
<1>5. OrderPaths'
  <2>1. CASE Mine
    BY <1>1, <2>1, NoOrderType DEF OrderPaths
  <2>2. CASE ~ Mine
    <3>1. accepted = {}
      BY <1>2, <2>2
    <3>2. order' = order /\ \A m \in DOMAIN order.mods : m \in Mods
      BY <1>1, <2>2, InOrderType DEF BooksInv
    <3>3. \A m \in Mods : paths'[m] = paths[m]
      BY <1>1, <3>1
    <3>4. QED
      BY <3>2, <3>3 DEF BooksInv, OrderPaths
  <2>3. QED
    BY <2>1, <2>2
<1>6. ASSUME NEW m \in Mods
      PROVE  Fits(disk[m], m)'
  <2>1. CASE m \in accepted
    <3>1. Landed(m) /\ Home(m)' = Place(m, Version(m)) /\ installed'[m] = Version(m)
      BY <1>1, <1>2, <2>1 DEF BooksInv, DiskInv, After, Home
    <3>2. m \notin unsure' => m \notin leftover \union silent
      BY <1>1, <2>1
    <3>3. QED
      BY <1>1, <3>1, <3>2 DEF Fits, Landed, OnlyAt, OnlyUnder
  <2>2. CASE m \notin accepted
    <3>1. Home(m)' = Home(m) /\ installed'[m] = installed[m]
          /\ (m \in unsure => m \in unsure')
      BY <1>1, <2>2 DEF Home
    <3>2. CASE m \notin InOrder \/ ~ agent.ok
      <4>1. Fits(disk[m], m)
        BY <1>1, <3>2 DEF BooksInv, DiskInv, Before, After
      <4>2. QED
        BY <1>1, <3>1, <4>1 DEF Fits, OnlyAt, OnlyUnder
    <3>3. CASE m \in InOrder /\ agent.ok
      <4>1. ~ Mine /\ m \in unsure /\ Moved(agent.order) \subseteq leftover
        BY <1>1, <1>2, <2>2, <3>3 DEF BooksInv, AgentOrder
      <4>2. Kept(disk, silent)
        BY <1>1, DiskKept
      <4>3. m \notin leftover => OnlyUnder(disk[m], m, Home(m))
        BY <3>3, <4>1, <4>2 DEF Kept
      <4>4. QED
        BY <1>1, <3>1, <4>1, <4>3 DEF Fits, OnlyUnder
    <3>4. QED
      BY <3>2, <3>3
  <2>3. QED
    BY <2>1, <2>2
<1>7. DiskInv'
  BY <1>4, <1>6 DEF DiskInv, After
<1>8. QED
  BY <1>3, <1>4, <1>5, <1>7 DEF BooksInv

\* An interruption leaves the mods of the order unsure, and the others as they were.
LEMMA BooksInterrupted ==
  ASSUME BooksInv, TypeOK', AskedInv', agent.at # "idle", NEW files, NEW failed,
         Interrupted(files), Kept(files, failed)
  PROVE  BooksInv'
<1>1. /\ disk' = files /\ agent' = Idle
      /\ UNCHANGED <<installed, paths, order, made>>
      /\ leftover' = leftover \union Moved(agent.order)
      /\ unsure' = unsure \union InOrder
  BY DEF Interrupted, InOrder, store
<1>2. BookPaths' /\ IdsInv' /\ OrderPaths' /\ agent'.at = "idle" /\ AgentOrder'
  BY <1>1, NoOrderType DEF BooksInv, TypeOK, BookPaths, Home, IdsInv, OrderPaths, Idle, AgentOrder
<1>3. ASSUME NEW m \in Mods
      PROVE  Fits(disk[m], m)'
  <2>1. Home(m)' = Home(m)
    BY <1>1 DEF Home
  <2>2. CASE m \in InOrder
    BY <1>1, <2>1, <2>2 DEF Kept, Fits, OnlyUnder
  <2>3. CASE m \notin InOrder
    BY <1>1, <2>1, <2>3 DEF Kept, Fits, OnlyAt, OnlyUnder
  <2>4. QED
    BY <2>2, <2>3
<1>4. DiskInv'
  BY <1>2, <1>3 DEF DiskInv, After
<1>5. QED
  BY <1>2, <1>4 DEF BooksInv

LEMMA BooksStep ==
  ASSUME BooksInv, [Next]_vars
  PROVE  BooksInv'
<1>1. TypeOK' /\ AskedInv'
  BY TypeStep DEF BooksInv
<1>2. ASSUME NEW c \in Callers, StartCheck(c) \/ Ask(c) \/ Answer(c)
      PROVE  BooksInv'
  <2>1. UNCHANGED BooksVars
    BY <1>2 DEF StartCheck, Ask, Answer, BooksVars, store, history
  <2>2. QED
    BY <1>1, <2>1, BooksUntouched
<1>3. ASSUME NEW m \in Mods, Publish(m)
      PROVE  BooksInv'
  <2>1. UNCHANGED BooksVars
    BY <1>3 DEF Publish, BooksVars, store, history
  <2>2. QED
    BY <1>1, <2>1, BooksUntouched
<1>4. ASSUME NEW ms \in SUBSET Mods, UpdateSome(ms)
      PROVE  BooksInv'
  BY <1>1, <1>4, BooksEnqueue DEF UpdateSome
<1>5. CASE UpdateAll
  <2>1. {m \in Mods : Newer(m)} \in SUBSET Mods
    OBVIOUS
  <2>2. QED
    BY <1>1, <1>5, <2>1, BooksEnqueue DEF UpdateAll
<1>6. CASE CancelOrder \/ Expire
  BY <1>1, <1>6, BooksWithdraw DEF CancelOrder, Expire
<1>7. ASSUME NEW told \in BOOLEAN, NEW ready \in BOOLEAN, NEW live \in BOOLEAN,
             NEW saved \in SUBSET Mods, Begin(told, ready, live, saved)
      PROVE  BooksInv'
  BY <1>1, <1>7, BooksBegin
<1>8. ASSUME NEW done \in SUBSET InOrder, NEW stuck \in SUBSET InOrder,
             NEW lost \in SUBSET InOrder, NEW works \in SUBSET InOrder,
             Replace(done, stuck, lost, works)
      PROVE  BooksInv'
  BY <1>1, <1>8, BooksReplace
<1>9. ASSUME NEW ok \in BOOLEAN, NEW works \in SUBSET InOrder, Verify(ok, works)
      PROVE  BooksInv'
  BY <1>1, <1>9, BooksVerify
<1>10. CASE Verdict
  BY <1>1, <1>10, BooksVerdict
<1>11. ASSUME NEW done \in SUBSET InOrder, NEW stuck \in SUBSET InOrder,
              NEW lost \in SUBSET InOrder, CrashWhileReplacing(done, stuck, lost)
       PROVE  BooksInv'
  <2>1. agent.at = "stopped" /\ Interrupted(Replaced(done, stuck, lost))
    BY <1>11 DEF CrashWhileReplacing
  <2>2. Kept(Replaced(done, stuck, lost), stuck \union lost)
    BY <2>1, ReplacedKept
  <2>3. QED
    BY <1>1, <2>1, <2>2, BooksInterrupted
<1>12. CASE CrashOrLostVerdict
  <2>1. agent.at # "idle" /\ Interrupted(disk)
    BY <1>12 DEF CrashOrLostVerdict
  <2>2. QED
    BY <1>1, <2>1, DiskKept, BooksInterrupted
<1>13. CASE UNCHANGED vars
  <2>1. UNCHANGED BooksVars
    BY <1>13 DEF vars, store, history, BooksVars
  <2>2. QED
    BY <1>1, <2>1, BooksUntouched
<1>14. QED
  BY <1>2, <1>3, <1>4, <1>5, <1>6, <1>7, <1>8, <1>9, <1>10, <1>11, <1>12, <1>13
     DEF Next, InOrder

LEMMA BooksAlways == Spec => []BooksInv
<1>1. Init => BooksInv
  BY BooksInit
<1>2. BooksInv /\ [Next]_vars => BooksInv'
  BY BooksStep
<1>3. QED
  BY <1>1, <1>2, PTL DEF Spec

\* All or nothing: between two orders the files at the paths of the books have
\* the version of the books, whichever of the mods failed and at which step
\* (Update-BepInExMods, set_installed).  The mods that unsure excepts: those
\* whose files could not be saved, removed, copied or restored, as beside a game
\* that outlived its stop; those of an execution interrupted, withdrawn or whose
\* verdict was lost; those that succeeded over files left by an earlier order.
THEOREM BooksFollowDisk == Spec => []BooksMatchDisk
<1>1. BooksInv => BooksMatchDisk
  <2> SUFFICES ASSUME BooksInv, NEW m \in Mods, Settled(m)
               PROVE  paths[m] # {} /\ \A l \in paths[m] : disk[m][l] = installed[m]
    BY DEF BooksMatchDisk
  <2>1. Fits(disk[m], m) /\ paths[m] = {Home(m)}
    BY DEF BooksInv, BookPaths, DiskInv, Before, Settled
  <2>2. QED
    BY <2>1 DEF Fits, Settled
<1>2. QED
  BY <1>1, BooksAlways, PTL

\* Between two orders a mod has files in one place, so that BepInEx loads it
\* once, also when its layout changed from one version to the next
\* (Remove-BepInExPaths, Copy-BepInExPayload).  Excepted are the mods of unsure,
\* and those whose layout changed in an order that was rolled back, interrupted
\* or withdrawn once begun, or whose old files could not be removed.
THEOREM ModsLoadedOnce == Spec => []LoadedOnce
<1>1. BooksInv => LoadedOnce
  <2> SUFFICES ASSUME BooksInv, NEW m \in Mods \ leftover, Settled(m)
               PROVE  Cardinality({l \in Places : disk[m][l] # None}) = 1
    BY DEF LoadedOnce
  <2>1. Fits(disk[m], m)
    BY DEF BooksInv, DiskInv, Before, Settled
  <2>2. disk[m][Home(m)] = installed[m] /\ OnlyAt(disk[m], Home(m))
    BY <2>1 DEF Fits, Settled
  <2>3. Home(m) \in Places /\ installed[m] # None
    BY HomeFacts DEF BooksInv
  <2>4. {l \in Places : disk[m][l] # None} = {Home(m)}
    BY <2>2, <2>3 DEF OnlyAt
  <2>5. QED
    BY <2>4, FS_Singleton
<1>2. QED
  BY <1>1, BooksAlways, PTL

-----------------------------------------------------------------------------
(* The latest version                                                      *)

Active(c) == call[c] # NoCall

\* A check alone brings answers no older than what is shown: what a source
\* gives is never less than what it gave.
LatestInv ==
  /\ \A m \in Mods : latest[m] <= public[m]
  /\ \A c \in Callers : call[c].asked => call[c].got <= public[Head(call[c].todo)]
  /\ ~ overlap =>
       /\ \A c, d \in Callers : Active(c) /\ Active(d) => c = d
       /\ \A c \in Callers : call[c].asked /\ call[c].got # None
                               => latest[Head(call[c].todo)] <= call[c].got

\* What an answer awaited is about.
LEMMA AskedFacts ==
  ASSUME TypeOK, AskedInv, NEW c \in Callers
  PROVE  /\ call[c].got \in Nat /\ call[c].todo \in Seq(Mods)
         /\ call[c].todo # <<>> => Head(call[c].todo) \in Mods
         /\ call[c].asked => call[c].todo # <<>> /\ Head(call[c].todo) \in Mods
         /\ call[c].todo # <<>> => Active(c)
<1>1. call[c].got \in Nat /\ call[c].todo \in Seq(Mods)
  BY PlaceType DEF TypeOK, Calls
<1>2. call[c].todo # <<>> => Head(call[c].todo) \in Mods
  BY <1>1, HeadTail
<1>3. call[c].todo # <<>> => Active(c)
  BY DEF Active, NoCall
<1>4. QED
  BY <1>1, <1>2, <1>3 DEF AskedInv

LEMMA VersionsNat ==
  ASSUME TypeOK, NEW m \in Mods
  PROVE  latest[m] \in Nat /\ public[m] \in Nat
BY PlaceType DEF TypeOK

LEMMA LatestStart ==
  ASSUME TypeOK, AskedInv, LatestInv, NEW c \in Callers, StartCheck(c)
  PROVE  LatestInv'
<1>1. /\ latest' = latest /\ public' = public
      /\ overlap' = \E d \in Callers : Active(d)
      /\ call' = [call EXCEPT ![c].todo = ModList] /\ call[c] = NoCall
  BY DEF StartCheck, store, Active
<1>2. \A d \in Callers \ {c} : call'[d] = call[d]
  BY <1>1 DEF TypeOK
<1>3. ~ call'[c].asked
  <2> DEFINE mine == [call[c] EXCEPT !.todo = ModList]
  <2>1. ~ mine.asked
    BY <1>1, NoCallType DEF TypeOK, Calls
  <2>2. call'[c] = mine
    BY <1>1 DEF TypeOK
  <2> HIDE DEF mine
  <2>3. QED
    BY <2>1, <2>2
<1>4. /\ \A m \in Mods : latest'[m] <= public'[m]
      /\ \A d \in Callers : call'[d].asked => call'[d].got <= public'[Head(call'[d].todo)]
  BY <1>1, <1>2, <1>3 DEF LatestInv
<1>5. ASSUME ~ overlap'
      PROVE  /\ \A d, e \in Callers : Active(d)' /\ Active(e)' => d = e
             /\ \A d \in Callers : ~ call'[d].asked
  <2>1. \A d \in Callers \ {c} : call'[d] = NoCall
    BY <1>1, <1>2, <1>5 DEF Active
  <2>2. QED
    BY <1>3, <2>1, NoCallType DEF Active
<1>6. QED
  BY <1>4, <1>5 DEF LatestInv

LEMMA LatestAsk ==
  ASSUME TypeOK, AskedInv, LatestInv, NEW c \in Callers, Ask(c)
  PROVE  LatestInv'
<1>1. /\ latest' = latest /\ public' = public /\ overlap' = overlap
      /\ call[c].todo # <<>>
  BY DEF Ask, store, history
<1>2. PICK got \in Fetched(Head(call[c].todo)) :
        call' = [call EXCEPT ![c].asked = TRUE, ![c].got = got]
  BY DEF Ask
<1>3. call'[c].todo = call[c].todo /\ call'[c].got = got
  BY <1>2 DEF TypeOK, Calls
<1>4. \A d \in Callers \ {c} : call'[d] = call[d]
  BY <1>2 DEF TypeOK
<1> DEFINE m == Head(call[c].todo)
<1>5. m \in Mods /\ Active(c)
  BY <1>1, AskedFacts
<1>6. (got = public[m] \/ got = None) /\ latest[m] <= public[m]
      /\ latest[m] \in Nat /\ public[m] \in Nat
  BY <1>5, VersionsNat DEF Fetched, LatestInv
<1>7. got <= public[m] /\ (got # None => latest[m] <= got)
  BY <1>6 DEF None
<1>8. \A d \in Callers : Active(d)' => Active(d)
  BY <1>4, <1>5 DEF Active
<1> HIDE DEF m
<1>9. Head(call'[c].todo) = m
  BY <1>3 DEF m
<1>10. /\ \A d \in Callers : call'[d].asked => call'[d].got <= public'[Head(call'[d].todo)]
       /\ ~ overlap' => \A d \in Callers : call'[d].asked /\ call'[d].got # None
                               => latest'[Head(call'[d].todo)] <= call'[d].got
  BY <1>1, <1>3, <1>4, <1>7, <1>9 DEF LatestInv
<1>11. QED
  BY <1>1, <1>8, <1>10 DEF LatestInv

LEMMA LatestAnswer ==
  ASSUME TypeOK, AskedInv, LatestInv, NEW c \in Callers, Answer(c)
  PROVE  /\ LatestInv'
         /\ ~ overlap => \A m \in Mods : ~ (latest'[m] < latest[m])
<1> DEFINE q == Head(call[c].todo)
           got == call[c].got
<1>1. /\ call[c].asked /\ public' = public
      /\ latest' = [latest EXCEPT ![q] = IF got = None THEN @ ELSE got]
      /\ overlap' = (overlap /\ \E d \in Callers : Active(d)')
  BY DEF Answer, LatestAfter, Active
<1>2. q \in Mods /\ Active(c) /\ got \in Nat /\ got <= public[q]
  BY <1>1, AskedFacts DEF LatestInv
<1>3. ~ overlap => (got # None => latest[q] <= got)
  BY <1>1 DEF LatestInv
<1>4. \A d \in Callers \ {c} : call'[d] = call[d]
  BY DEF Answer, TypeOK
<1>5. ~ call'[c].asked
  <2> DEFINE mine == [NoCall EXCEPT !.todo = Tail(call[c].todo)]
  <2>1. ~ mine.asked
    BY NoCallType DEF Calls
  <2>2. call'[c] = mine
    BY DEF Answer, TypeOK
  <2> HIDE DEF mine
  <2>3. QED
    BY <2>1, <2>2
<1> HIDE DEF q, got
<1>6. \A m \in Mods : latest'[m] = IF m = q /\ got # None THEN got ELSE latest[m]
  BY <1>1, <1>2 DEF TypeOK
<1>7. \A m \in Mods : latest'[m] <= public'[m]
  BY <1>1, <1>2, <1>6 DEF LatestInv
<1>8. \A d \in Callers : call'[d].asked => call'[d].got <= public'[Head(call'[d].todo)]
  BY <1>1, <1>4, <1>5 DEF LatestInv
<1>9. ASSUME ~ overlap'
      PROVE  /\ \A d, e \in Callers : Active(d)' /\ Active(e)' => d = e
             /\ \A d \in Callers : ~ call'[d].asked
  <2>1. CASE overlap
    <3>1. \A d \in Callers : ~ Active(d)'
      BY <1>1, <1>9, <2>1
    <3>2. QED
      BY <3>1, NoCallType DEF Active
  <2>2. CASE ~ overlap
    <3>1. \A d \in Callers \ {c} : call[d] = NoCall
      BY <1>2, <2>2 DEF LatestInv, Active
    <3>2. QED
      BY <1>4, <1>5, <3>1, NoCallType DEF Active
  <2>3. QED
    BY <2>1, <2>2
<1>10. LatestInv'
  BY <1>7, <1>8, <1>9 DEF LatestInv
<1>11. ~ overlap => \A m \in Mods : ~ (latest'[m] < latest[m])
  BY <1>2, <1>3, <1>6, VersionsNat
<1>12. QED
  BY <1>10, <1>11

LEMMA LatestPublish ==
  ASSUME TypeOK, AskedInv, LatestInv, NEW m \in Mods, Publish(m)
  PROVE  LatestInv' /\ latest' = latest
<1>1. /\ latest' = latest /\ call' = call /\ overlap' = overlap
      /\ public' = [public EXCEPT ![m] = @ + 1]
  BY DEF Publish, store, history
<1>2. \A n \in Mods : public[n] \in Nat /\ latest[n] \in Nat /\ public'[n] \in Nat
                      /\ public[n] <= public'[n]
  BY <1>1, VersionsNat DEF TypeOK
<1>3. \A n \in Mods : latest'[n] <= public'[n]
  BY <1>1, <1>2 DEF LatestInv
<1>4. \A c \in Callers : call'[c].asked => call'[c].got <= public'[Head(call'[c].todo)]
  BY <1>1, <1>2, AskedFacts DEF LatestInv
<1>5. QED
  BY <1>1, <1>3, <1>4 DEF LatestInv, Active

\* The order and its execution leave the checks and the sources alone.
LatestVars == <<latest, public, call, overlap>>

LEMMA LatestStep ==
  ASSUME TypeOK, AskedInv, LatestInv, [Next]_vars
  PROVE  LatestInv' /\ \A m \in Mods : latest'[m] < latest[m] => overlap
<1>1. ASSUME latest' = latest
      PROVE  \A m \in Mods : latest'[m] < latest[m] => overlap
  BY <1>1, VersionsNat
<1>2. ASSUME UNCHANGED LatestVars
      PROVE  LatestInv' /\ \A m \in Mods : latest'[m] < latest[m] => overlap
  BY <1>1, <1>2 DEF LatestVars, LatestInv, Active
<1>3. ASSUME NEW c \in Callers, StartCheck(c) \/ Ask(c)
      PROVE  LatestInv' /\ \A m \in Mods : latest'[m] < latest[m] => overlap
  <2>1. latest' = latest
    BY <1>3 DEF StartCheck, Ask, store
  <2>2. QED
    BY <1>1, <1>3, <2>1, LatestStart, LatestAsk
<1>4. ASSUME NEW c \in Callers, Answer(c)
      PROVE  LatestInv' /\ \A m \in Mods : latest'[m] < latest[m] => overlap
  BY <1>4, LatestAnswer
<1>5. ASSUME NEW m \in Mods, Publish(m)
      PROVE  LatestInv' /\ \A n \in Mods : latest'[n] < latest[n] => overlap
  BY <1>1, <1>5, LatestPublish
<1>6. ASSUME \/ \E ms \in SUBSET Mods : UpdateSome(ms)
             \/ UpdateAll \/ CancelOrder \/ Expire
      PROVE  UNCHANGED LatestVars
  BY <1>6 DEF UpdateSome, UpdateAll, Enqueue, CancelOrder, Expire, Withdraw, LatestVars,
              store, history
<1>7. ASSUME \/ \E told, ready, live \in BOOLEAN, saved \in SUBSET Mods :
                  Begin(told, ready, live, saved)
             \/ \E done, stuck, lost, works \in SUBSET DOMAIN agent.order.mods :
                  Replace(done, stuck, lost, works)
             \/ \E ok \in BOOLEAN, works \in SUBSET DOMAIN agent.order.mods :
                  Verify(ok, works)
             \/ Verdict
      PROVE  UNCHANGED LatestVars
  BY <1>7 DEF Begin, Replace, Verify, Verdict, LatestVars, store
<1>8. ASSUME \/ \E done, stuck, lost \in SUBSET DOMAIN agent.order.mods :
                  CrashWhileReplacing(done, stuck, lost)
             \/ CrashOrLostVerdict \/ UNCHANGED vars
      PROVE  UNCHANGED LatestVars
  BY <1>8 DEF CrashWhileReplacing, CrashOrLostVerdict, Interrupted, vars, store, history,
              LatestVars
<1>9. QED
  BY <1>2, <1>3, <1>4, <1>5, <1>6, <1>7, <1>8 DEF Next

\* The latest version shown never goes back, for any number of checks started
\* by the poll and by the button, unless two of them overlap (set_latest,
\* refresh_bepinex_versions).
THEOREM LatestKept == Spec => LatestNeverBack
<1> DEFINE Inv == TypeOK /\ AskedInv /\ LatestInv
<1>1. Init => Inv
  <2> SUFFICES ASSUME Init PROVE Inv
    OBVIOUS
  <2>1. TypeOK /\ AskedInv
    BY TypeInit DEF Init, AskedInv, NoCall
  <2>2. \A c \in Callers : call[c] = NoCall
    BY DEF Init
  <2>3. LatestInv
    BY <2>2, NoCallType DEF Init, LatestInv, Active, None
  <2>4. QED
    BY <2>1, <2>3
<1>2. Inv /\ [Next]_vars => Inv'
  BY TypeStep, LatestStep
<1>3. Inv /\ [Next]_vars => [\A m \in Mods : latest'[m] < latest[m] => overlap]_vars
  BY LatestStep
<1> HIDE DEF Inv
<1>4. QED
  BY <1>1, <1>2, <1>3, PTL DEF Spec, LatestNeverBack

=============================================================================
