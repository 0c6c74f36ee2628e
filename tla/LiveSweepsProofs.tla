-------------------------- MODULE LiveSweepsProofs --------------------------
(***************************************************************************)
(* TLAPS proofs about LiveSweeps, for any stations, browsers, volume size  *)
(* and bounds.                                                             *)
(***************************************************************************)
EXTENDS LiveSweeps, TLAPS

-----------------------------------------------------------------------------
(* Volumes and chunks *)

\* Dividing by a positive number.
LEMMA DivFacts ==
  ASSUME NEW x \in Nat, NEW d \in Nat \ {0}
  PROVE  /\ x \div d \in Nat
         /\ d * (x \div d) <= x
         /\ x < d * (x \div d) + d
OBVIOUS

\* Multiplying both sides of a strict inequality leaves room for one factor.
LEMMA TimesMono ==
  ASSUME NEW a \in Nat, NEW b \in Nat, NEW d \in Nat \ {0}, a < b
  PROVE  d * a + d <= d * b
<1>1. a + 1 <= b
  OBVIOUS
<1>2. d * (a + 1) <= d * b
  BY <1>1
<1>3. d * (a + 1) = d * a + d
  OBVIOUS
<1> QED  BY <1>2, <1>3

\* A chunk belongs to one of the volumes, and volumes follow one another.
LEMMA VolFacts ==
  /\ \A i \in Chunks : i \in Nat \ {0} /\ Vol(i) \in 1..Volumes
  /\ \A i, j \in Chunks : i < j => Vol(i) <= Vol(j)
<1> USE ChunkAssumption
<1>1. Volumes * VolumeSize \in Nat /\ VolumeSize \in Nat \ {0}
  OBVIOUS
<1>2. ASSUME NEW i \in Chunks
      PROVE  i \in Nat \ {0} /\ i <= Volumes * VolumeSize
  BY <1>1 DEF Chunks
<1>3. ASSUME NEW i \in Chunks PROVE Vol(i) \in 1..Volumes
  <2> DEFINE q == (i - 1) \div VolumeSize
  <2>1. i - 1 \in Nat
    BY <1>2
  <2>2. q \in Nat /\ VolumeSize * q <= i - 1
    BY <1>1, <2>1, DivFacts
  <2>3. ASSUME q >= Volumes PROVE FALSE
    <3>1. VolumeSize * Volumes <= VolumeSize * q
      <4>1. CASE q = Volumes
        BY <4>1
      <4>2. CASE Volumes < q
        <5>1. VolumeSize * Volumes + VolumeSize <= VolumeSize * q
          BY <1>1, <2>2, <4>2, TimesMono
        <5> QED  BY <1>1, <2>2, <5>1
      <4> QED  BY <2>2, <2>3, <4>1, <4>2
    <3>2. VolumeSize * Volumes = Volumes * VolumeSize
      OBVIOUS
    <3> QED  BY <1>1, <1>2, <2>2, <3>1, <3>2
  <2> QED  BY <2>2, <2>3 DEF Vol
<1>4. ASSUME NEW i \in Chunks, NEW j \in Chunks, i < j PROVE Vol(i) <= Vol(j)
  <2> DEFINE p == (i - 1) \div VolumeSize
             q == (j - 1) \div VolumeSize
  <2>1. i - 1 \in Nat /\ j - 1 \in Nat
    BY <1>2
  <2>2. /\ p \in Nat /\ VolumeSize * p <= i - 1
        /\ q \in Nat /\ j - 1 < VolumeSize * q + VolumeSize
    BY <1>1, <2>1, DivFacts
  <2>3. ASSUME q < p PROVE FALSE
    <3>1. VolumeSize * q + VolumeSize <= VolumeSize * p
      BY <1>1, <2>2, <2>3, TimesMono
    <3> QED  BY <1>1, <1>2, <1>4, <2>2, <3>1
  <2> QED  BY <2>2, <2>3 DEF Vol
<1> QED  BY <1>2, <1>3, <1>4

-----------------------------------------------------------------------------
(* Type correctness *)

LEMMA InitType == Init => TypeOK
BY ChunkAssumption DEF Init, PollerInit, TypeOK, PollerTypeOK, SweepTypeOK

\* The new subscriptions keep the seen sets well typed.
LEMMA ResubscribeType ==
  ASSUME PollerTypeOK, NEW in \in SUBSET Stations, NEW out \in SUBSET Stations,
         Resubscribe(in, out)
  PROVE  /\ subscribed' \in SUBSET Stations
         /\ DOMAIN seenKeys' \in SUBSET Stations
         /\ \A s \in DOMAIN seenKeys' : seenKeys'[s] \in SUBSET Chunks
<1>1. /\ subscribed \in SUBSET Stations
      /\ DOMAIN seenKeys \in SUBSET Stations
      /\ \A s \in DOMAIN seenKeys : seenKeys[s] \in SUBSET Chunks
  BY DEF PollerTypeOK
<1> DEFINE D == ((DOMAIN seenKeys) \cup (in \ subscribed)) \ out
<1>2. seenKeys' = [s \in D |-> IF s \in in \ subscribed THEN {} ELSE seenKeys[s]]
  BY DEF Resubscribe
<1>3. DOMAIN seenKeys' = D
  BY <1>2
<1>4. ASSUME NEW s \in D PROVE seenKeys'[s] \in SUBSET Chunks
  BY <1>1, <1>2
<1>5. subscribed' \in SUBSET Stations
  BY <1>1 DEF Resubscribe
<1> QED  BY <1>1, <1>3, <1>4, <1>5

\* The union of the viewports, whoever has changed his.
LEMMA UpdateType ==
  ASSUME TypeOK, UpdateSubscriptions, clients' \in SUBSET Clients,
         view' \in [Clients -> SUBSET Stations]
  PROVE  /\ viewportStations' \in SUBSET Stations
         /\ subscribed' \in SUBSET Stations
         /\ DOMAIN seenKeys' \in SUBSET Stations
         /\ \A s \in DOMAIN seenKeys' : seenKeys'[s] \in SUBSET Chunks
         /\ DOMAIN sweepState' \in SUBSET Stations
         /\ \A s \in DOMAIN sweepState' :
              sweepState'[s] \in [volume : 1..Volumes, got : SUBSET BaseChunks]
<1> DEFINE union == UNION {view'[c] : c \in clients'}
<1>1. union \in SUBSET Stations
  OBVIOUS
<1>2. /\ viewportStations' = union
      /\ Resubscribe(union \ viewportStations, viewportStations \ union)
      /\ sweepState' = [s \in (DOMAIN sweepState) \ (viewportStations \ union) |->
                          sweepState[s]]
  BY DEF UpdateSubscriptions
<1>3. PollerTypeOK /\ SweepTypeOK
  BY DEF TypeOK
<1>4. viewportStations \in SUBSET Stations
  BY <1>3 DEF SweepTypeOK
<1>5. /\ subscribed' \in SUBSET Stations
      /\ DOMAIN seenKeys' \in SUBSET Stations
      /\ \A s \in DOMAIN seenKeys' : seenKeys'[s] \in SUBSET Chunks
  <2>1. union \ viewportStations \in SUBSET Stations
    BY <1>1
  <2>2. viewportStations \ union \in SUBSET Stations
    BY <1>4
  <2> HIDE DEF union
  <2> QED  BY <1>2, <1>3, <2>1, <2>2, ResubscribeType
<1>6. /\ DOMAIN sweepState' \in SUBSET Stations
      /\ \A s \in DOMAIN sweepState' :
           sweepState'[s] \in [volume : 1..Volumes, got : SUBSET BaseChunks]
  BY <1>2, <1>3 DEF SweepTypeOK
<1> QED  BY <1>1, <1>2, <1>5, <1>6

\* What a client has received, counted anew.
LEMMA RecountType ==
  ASSUME SweepTypeOK, NEW c \in Clients, NEW S \in SUBSET Stations, Recount(c, S)
  PROVE  received' \in [Clients -> [Stations -> Seq(Chunks)]]
<1>1. received \in [Clients -> [Stations -> Seq(Chunks)]]
  BY DEF SweepTypeOK
<1>2. [s \in Stations |-> IF s \in S \cap view[c] THEN received[c][s] ELSE <<>>]
        \in [Stations -> Seq(Chunks)]
  BY <1>1
<1> QED  BY <1>1, <1>2 DEF Recount

\* A chunk handled: the sweep state and the wedges.
LEMMA HandleType ==
  ASSUME TypeOK, NEW s \in Stations, NEW i \in Chunks, HandleChunk(s, i)
  PROVE  SweepTypeOK'
<1>1. SweepTypeOK
  BY DEF TypeOK
<1>2. CASE Num(i) \notin BaseChunks
  BY <1>1, <1>2 DEF HandleChunk, sweepVars, SweepTypeOK
<1>3. CASE Num(i) \in BaseChunks
  <2> DEFINE before == IF s \in DOMAIN sweepState /\ sweepState[s].volume = Vol(i)
                       THEN sweepState[s].got ELSE {}
             new == [volume |-> Vol(i), got |-> before \cup {Num(i)}]
  <2>1. /\ sweepState' = [r \in (DOMAIN sweepState) \cup {s} |->
                             IF r = s THEN new ELSE sweepState[r]]
        /\ Broadcast(s, i)
        /\ UNCHANGED <<clients, view, viewportStations>>
    BY <1>3 DEF HandleChunk
  <2>2. /\ DOMAIN sweepState \in SUBSET Stations
        /\ \A r \in DOMAIN sweepState :
             sweepState[r] \in [volume : 1..Volumes, got : SUBSET BaseChunks]
    BY <1>1 DEF SweepTypeOK
  <2>3. before \in SUBSET BaseChunks
    BY <2>2
  <2>4. new \in [volume : 1..Volumes, got : SUBSET BaseChunks]
    BY <1>3, <2>3, VolFacts
  <2>5. /\ DOMAIN sweepState' \in SUBSET Stations
        /\ \A r \in DOMAIN sweepState' :
             sweepState'[r] \in [volume : 1..Volumes, got : SUBSET BaseChunks]
    <3> HIDE DEF new
    <3> QED  BY <2>1, <2>2, <2>4
  <2>6. received' \in [Clients -> [Stations -> Seq(Chunks)]]
    <3>1. received \in [Clients -> [Stations -> Seq(Chunks)]]
      BY <1>1 DEF SweepTypeOK
    <3>2. ASSUME NEW c \in Clients
          PROVE  [received[c] EXCEPT ![s] = Append(@, i)] \in [Stations -> Seq(Chunks)]
      BY <3>1
    <3> QED  BY <2>1, <3>1, <3>2 DEF Broadcast
  <2> QED  BY <1>1, <2>1, <2>5, <2>6 DEF SweepTypeOK
<1> QED  BY <1>2, <1>3

\* The next key of a poll is marked, and nothing else of the poller changes.
LEMMA PollNextType ==
  ASSUME PollerTypeOK, NEW s \in Stations, NEW i \in pkeys[s], PollNext(s, i),
         faults' \in 0..MaxFaults
  PROVE  PollerTypeOK'
<1>1. i \in Chunks
  BY DEF PollerTypeOK
<1>2. pseen' \in [Stations -> SUBSET Chunks] /\ pkeys' \in [Stations -> SUBSET Chunks]
  BY <1>1 DEF PollNext, PollerTypeOK
<1> QED  BY <1>2 DEF PollNext, PollerTypeOK, feedVars

\* The steps of the poll loop and of the feed.
LEMMA PollerType ==
  ASSUME PollerTypeOK,
         PollCycle \/ PollBatch
           \/ \E s \in Stations : PollList(s) \/ PollDone(s) \/ PollListFail(s)
                                  \/ Publish(s) \/ Age(s)
  PROVE  PollerTypeOK'
<1>1. CASE PollCycle
  BY <1>1 DEF PollCycle, PollerTypeOK, feedVars
<1>2. CASE PollBatch
  <2>1. PICK b \in SUBSET todo :
          /\ todo' = todo \ b
          /\ ppc' = [s \in Stations |-> IF s \in b THEN "list" ELSE ppc[s]]
    BY <1>2 DEF PollBatch
  <2>2. ppc' \in [Stations -> {"idle", "list", "chunks"}] /\ todo' \in SUBSET Stations
    BY <2>1 DEF PollerTypeOK
  <2> QED  BY <1>2, <2>2 DEF PollBatch, PollerTypeOK, feedVars
<1>3. ASSUME NEW s \in Stations, PollList(s) PROVE PollerTypeOK'
  <2> DEFINE listed == {i \in 1..published[s] : i <= MaxKeys}
             seen == IF s \in DOMAIN seenKeys THEN seenKeys[s] ELSE {}
             new == listed \ seen
  <2>1. listed \in SUBSET Chunks
    BY ChunkAssumption DEF PollerTypeOK, Chunks
  <2>2. seen \in SUBSET Chunks
    BY DEF PollerTypeOK
  <2>3. new \in SUBSET Chunks
    BY <2>1
  <2>4. /\ pseen' = [pseen EXCEPT ![s] = seen \cup {i \in new : ~Fresh(s, i)}]
        /\ pkeys' = [pkeys EXCEPT ![s] = {i \in new : Fresh(s, i)}]
        /\ ppc' = [ppc EXCEPT ![s] = "chunks"]
        /\ UNCHANGED <<feedVars, faults, subscribed, seenKeys, todo>>
    BY <1>3 DEF PollList
  <2> HIDE DEF listed, seen, new
  <2>5. pseen' \in [Stations -> SUBSET Chunks] /\ pkeys' \in [Stations -> SUBSET Chunks]
    BY <2>2, <2>3, <2>4 DEF PollerTypeOK
  <2> QED  BY <2>4, <2>5 DEF PollerTypeOK, feedVars
<1>4. ASSUME NEW s \in Stations, PollDone(s) PROVE PollerTypeOK'
  <2>1. /\ DOMAIN seenKeys' \in SUBSET Stations
        /\ \A r \in DOMAIN seenKeys' : seenKeys'[r] \in SUBSET Chunks
    BY <1>4 DEF PollDone, PollerTypeOK
  <2> QED  BY <1>4, <2>1 DEF PollDone, PollerTypeOK, feedVars
<1>5. ASSUME NEW s \in Stations, PollListFail(s) PROVE PollerTypeOK'
  BY <1>5, ChunkAssumption DEF PollListFail, PollerTypeOK, feedVars
<1>6. ASSUME NEW s \in Stations, Publish(s) PROVE PollerTypeOK'
  <2>1. Volumes * VolumeSize \in Nat
    BY ChunkAssumption
  <2>2. published' \in [Stations -> 0..(Volumes * VolumeSize)]
    BY <1>6, <2>1 DEF Publish, PollerTypeOK
  <2> QED  BY <1>6, <2>2 DEF Publish, PollerTypeOK, pollVars
<1>7. ASSUME NEW s \in Stations, Age(s) PROVE PollerTypeOK'
  <2>1. published[s] \in Chunks
    BY <1>7, ChunkAssumption DEF Age, PollerTypeOK, Chunks
  <2>2. Vol(published[s]) \in 1..Volumes
    BY <2>1, VolFacts
  <2>3. aged' \in [Stations -> 0..Volumes]
    BY <1>7, <2>2, ChunkAssumption DEF Age, PollerTypeOK
  <2> QED  BY <1>7, <2>3 DEF Age, PollerTypeOK, pollVars
<1> QED  BY <1>1, <1>2, <1>3, <1>4, <1>5, <1>6, <1>7

\* A step of a browser.
LEMMA BrowserType ==
  ASSUME TypeOK, NEW c \in Clients,
         Connect(c) \/ Close(c) \/ \E S \in SUBSET Stations : Viewport(c, S)
  PROVE  TypeOK'
<1>1. PollerTypeOK /\ SweepTypeOK
  BY DEF TypeOK
<1>2. CASE Connect(c)
  BY <1>1, <1>2 DEF Connect, TypeOK, PollerTypeOK, SweepTypeOK, pollerVars, feedVars,
                    pollVars
<1>3. ASSUME NEW S \in SUBSET Stations, view' = [view EXCEPT ![c] = S],
             clients' \in SUBSET Clients, UpdateSubscriptions, Recount(c, S),
             UNCHANGED <<feedVars, faults, pollVars>>
      PROVE  TypeOK'
  <2>1. view' \in [Clients -> SUBSET Stations]
    BY <1>1, <1>3 DEF SweepTypeOK
  <2>2. /\ viewportStations' \in SUBSET Stations
        /\ subscribed' \in SUBSET Stations
        /\ DOMAIN seenKeys' \in SUBSET Stations
        /\ \A s \in DOMAIN seenKeys' : seenKeys'[s] \in SUBSET Chunks
        /\ DOMAIN sweepState' \in SUBSET Stations
        /\ \A s \in DOMAIN sweepState' :
             sweepState'[s] \in [volume : 1..Volumes, got : SUBSET BaseChunks]
    BY <1>3, <2>1, UpdateType
  <2>3. received' \in [Clients -> [Stations -> Seq(Chunks)]]
    BY <1>1, <1>3, RecountType
  <2>4. SweepTypeOK'
    BY <1>3, <2>1, <2>2, <2>3 DEF SweepTypeOK
  <2>5. PollerTypeOK'
    BY <1>1, <1>3, <2>2 DEF PollerTypeOK, feedVars, pollVars
  <2> QED  BY <2>4, <2>5 DEF TypeOK
<1>4. ASSUME NEW S \in SUBSET Stations, Viewport(c, S) PROVE TypeOK'
  <2>1. clients' \in SUBSET Clients
    BY <1>1, <1>4 DEF Viewport, SweepTypeOK
  <2> QED  BY <1>3, <1>4, <2>1 DEF Viewport
<1>5. CASE Close(c)
  <2>1. clients' \in SUBSET Clients
    BY <1>1, <1>5 DEF Close, SweepTypeOK
  <2>2. {} \in SUBSET Stations
    OBVIOUS
  <2> QED  BY <1>3, <1>5, <2>1, <2>2 DEF Close
<1> QED  BY <1>2, <1>4, <1>5

\* The shape of a step: of the loop, of a station's poll or feed, of a browser.
LEMMA NextCases ==
  ASSUME Next
  PROVE  \/ (PollCycle \/ PollBatch) /\ UNCHANGED sweepVars
         \/ \E s \in Stations :
              \/ \E i \in pkeys[s] : PollNext(s, i) /\ (faults' = faults) /\ HandleChunk(s, i)
              \/ \E i \in pkeys[s] : PollNext(s, i) /\ faults < MaxFaults
                                     /\ faults' = faults + 1 /\ UNCHANGED sweepVars
              \/ PollList(s) /\ UNCHANGED sweepVars
              \/ PollDone(s) /\ UNCHANGED sweepVars
              \/ PollListFail(s) /\ UNCHANGED sweepVars
              \/ (Publish(s) \/ Age(s)) /\ UNCHANGED sweepVars
         \/ \E c \in Clients :
              Connect(c) \/ Close(c) \/ \E S \in SUBSET Stations : Viewport(c, S)
BY DEF Next, LoopWork, PollWork, ChunkEmitted, ChunkLost, PollEmit, PollLost

LEMMA TypeStep == TypeOK /\ [Next]_vars => TypeOK'
<1> SUFFICES ASSUME TypeOK, [Next]_vars PROVE TypeOK'
  OBVIOUS
<1>1. PollerTypeOK /\ SweepTypeOK
  BY DEF TypeOK
<1>2. UNCHANGED sweepVars => SweepTypeOK'
  BY <1>1 DEF sweepVars, SweepTypeOK
<1>3. CASE UNCHANGED vars
  BY <1>1, <1>2, <1>3 DEF vars, pollerVars, feedVars, pollVars, TypeOK, PollerTypeOK
<1>4. CASE (PollCycle \/ PollBatch) /\ UNCHANGED sweepVars
  BY <1>1, <1>2, <1>4, PollerType DEF TypeOK
<1>5. ASSUME NEW s \in Stations, UNCHANGED sweepVars,
             PollList(s) \/ PollDone(s) \/ PollListFail(s) \/ Publish(s) \/ Age(s)
      PROVE  TypeOK'
  BY <1>1, <1>2, <1>5, PollerType DEF TypeOK
<1>6. ASSUME NEW s \in Stations, NEW i \in pkeys[s], PollNext(s, i), faults' = faults,
             HandleChunk(s, i)
      PROVE  TypeOK'
  <2>1. i \in Chunks /\ faults' \in 0..MaxFaults
    BY <1>1, <1>6 DEF PollerTypeOK
  <2>2. PollerTypeOK'
    BY <1>1, <1>6, <2>1, PollNextType
  <2>3. SweepTypeOK'
    BY <1>6, <2>1, HandleType
  <2> QED  BY <2>2, <2>3 DEF TypeOK
<1>7. ASSUME NEW s \in Stations, NEW i \in pkeys[s], PollNext(s, i),
             faults < MaxFaults, faults' = faults + 1, UNCHANGED sweepVars
      PROVE  TypeOK'
  <2>1. faults' \in 0..MaxFaults
    BY <1>1, <1>7, ChunkAssumption DEF PollerTypeOK
  <2> QED  BY <1>1, <1>2, <1>7, <2>1, PollNextType DEF TypeOK
<1>8. ASSUME NEW c \in Clients,
             Connect(c) \/ Close(c) \/ \E S \in SUBSET Stations : Viewport(c, S)
      PROVE  TypeOK'
  BY <1>8, BrowserType
<1> QED  BY <1>3, <1>4, <1>5, <1>6, <1>7, <1>8, NextCases

\* Every variable keeps its type, for any number of stations, browsers and
\* volumes of any size (chunk-poller.ts, sweep-manager.ts, nexrad-ws.ts).
THEOREM SweepTypeCorrect == Spec => []TypeOK
<1> QED  BY InitType, TypeStep, PTL DEF Spec

-----------------------------------------------------------------------------
(* Subscriptions *)

\* Only a connected browser has a viewport.
ViewersConnected == \A c \in Clients : view[c] # {} => c \in clients

Subscriptions == TypeOK /\ ViewersConnected /\ SubscriptionsMatch

\* Who leaves the viewports, the subscriptions or the table of seen keys alone.
LEMMA SubscriptionsKept ==
  ASSUME SubscriptionsMatch, UNCHANGED <<clients, view, viewportStations, subscribed>>,
         DOMAIN seenKeys \subseteq DOMAIN seenKeys'
  PROVE  SubscriptionsMatch'
BY DEF SubscriptionsMatch

\* Whatever a browser does to the viewports, updateSubscriptions brings the
\* poller in line with their union.
LEMMA SubscriptionsUpdated ==
  ASSUME SubscriptionsMatch, UpdateSubscriptions
  PROVE  SubscriptionsMatch'
<1> DEFINE union == UNION {view'[c] : c \in clients'}
<1>1. /\ viewportStations' = union
      /\ Resubscribe(union \ viewportStations, viewportStations \ union)
  BY DEF UpdateSubscriptions
<1>2. viewportStations' = UNION {view'[c] : c \in clients'}
  BY <1>1
<1> HIDE DEF union
<1>3. subscribed = viewportStations /\ subscribed \subseteq DOMAIN seenKeys
  BY DEF SubscriptionsMatch
<1>4. subscribed' = union
  BY <1>1, <1>3 DEF Resubscribe
<1>5. union \subseteq DOMAIN seenKeys'
  BY <1>1, <1>3 DEF Resubscribe
<1> QED  BY <1>1, <1>2, <1>4, <1>5 DEF SubscriptionsMatch


LEMMA SubscriptionsStep == Subscriptions /\ [Next]_vars => Subscriptions'
<1> SUFFICES ASSUME Subscriptions, [Next]_vars PROVE Subscriptions'
  OBVIOUS
<1> USE DEF Subscriptions
<1>1. TypeOK'
  BY TypeStep
<1> SUFFICES ViewersConnected' /\ SubscriptionsMatch'
  BY <1>1
<1>2. UNCHANGED <<clients, view>> => ViewersConnected'
  BY DEF ViewersConnected
<1>3. CASE UNCHANGED vars
  BY <1>2, <1>3, SubscriptionsKept DEF vars, pollerVars, sweepVars
<1>4. CASE (PollCycle \/ PollBatch) /\ UNCHANGED sweepVars
  BY <1>2, <1>4, SubscriptionsKept DEF PollCycle, PollBatch, sweepVars
<1>5. ASSUME NEW s \in Stations, UNCHANGED sweepVars, PollDone(s)
      PROVE  ViewersConnected' /\ SubscriptionsMatch'
  <2>1. DOMAIN seenKeys' = (DOMAIN seenKeys) \cup {s}
    BY <1>5 DEF PollDone
  <2> QED  BY <1>2, <1>5, <2>1, SubscriptionsKept DEF PollDone, sweepVars
<1>6. ASSUME NEW s \in Stations, UNCHANGED sweepVars,
             PollList(s) \/ PollListFail(s) \/ Publish(s) \/ Age(s)
      PROVE  ViewersConnected' /\ SubscriptionsMatch'
  BY <1>2, <1>6, SubscriptionsKept DEF PollList, PollListFail, Publish, Age, sweepVars
<1>7. ASSUME NEW s \in Stations, NEW i \in pkeys[s], PollNext(s, i),
             HandleChunk(s, i) \/ UNCHANGED sweepVars
      PROVE  ViewersConnected' /\ SubscriptionsMatch'
  <2>1. UNCHANGED <<clients, view, viewportStations>>
    BY <1>7 DEF HandleChunk, sweepVars
  <2> QED  BY <1>2, <1>7, <2>1, SubscriptionsKept DEF PollNext
<1>8. ASSUME NEW c \in Clients, Connect(c)
      PROVE  ViewersConnected' /\ SubscriptionsMatch'
  <2>1. clients' = clients \cup {c} /\ view[c] = {} /\ clients \subseteq Clients
    BY <1>8 DEF Connect, ViewersConnected, TypeOK, SweepTypeOK
  <2>2. UNION {view'[d] : d \in clients'} = UNION {view[d] : d \in clients}
    BY <1>8, <2>1 DEF Connect
  <2>3. SubscriptionsMatch'
    BY <1>8, <2>2 DEF Connect, pollerVars, SubscriptionsMatch
  <2> QED  BY <1>8, <2>1, <2>3 DEF Connect, ViewersConnected
<1>9. ASSUME NEW c \in Clients, NEW S \in SUBSET Stations, Viewport(c, S)
      PROVE  ViewersConnected' /\ SubscriptionsMatch'
  <2>1. ViewersConnected'
    BY <1>9 DEF Viewport, ViewersConnected, TypeOK, SweepTypeOK
  <2> QED  BY <1>9, <2>1, SubscriptionsUpdated DEF Viewport
<1>10. ASSUME NEW c \in Clients, Close(c)
       PROVE  ViewersConnected' /\ SubscriptionsMatch'
  <2>1. ViewersConnected'
    BY <1>10 DEF Close, ViewersConnected, TypeOK, SweepTypeOK
  <2> QED  BY <1>10, <2>1, SubscriptionsUpdated DEF Close
<1> QED  BY <1>3, <1>4, <1>5, <1>6, <1>7, <1>8, <1>9, <1>10, NextCases

LEMMA SubscriptionsInit == Init => Subscriptions
<1> SUFFICES ASSUME Init PROVE Subscriptions
  OBVIOUS
<1>1. TypeOK
  BY InitType
<1>2. ViewersConnected /\ SubscriptionsMatch
  BY DEF Init, PollerInit, ViewersConnected, SubscriptionsMatch
<1> QED  BY <1>1, <1>2 DEF Subscriptions

\* The poller is subscribed to exactly the stations some browser has in view,
\* for any number of browsers and stations (sweep-manager.ts, nexrad-ws.ts).
THEOREM SubscriptionsMatchHolds == Spec => []SubscriptionsMatch
<1>1. Subscriptions => SubscriptionsMatch
  BY DEF Subscriptions
<1> QED  BY <1>1, SubscriptionsInit, SubscriptionsStep, PTL DEF Spec

-----------------------------------------------------------------------------
(* The order of the wedges *)

DownClosed(S) == \A j \in S : \A i \in Chunks : i < j => i \in S

\* The keys the poller counts as processed for station s.
Processed(s) ==
  IF ppc[s] = "chunks" THEN pseen[s]
  ELSE IF s \in DOMAIN seenKeys THEN seenKeys[s] ELSE {}

\* What is processed is a prefix of what was published, and what a poll has
\* still to process follows upon it.
KeysInOrder ==
  /\ \A s \in DOMAIN seenKeys : DownClosed(seenKeys[s])
  /\ \A s \in Stations : ppc[s] = "chunks" =>
       /\ DownClosed(pseen[s] \cup pkeys[s])
       /\ \A i \in pkeys[s] : \A j \in pseen[s] : j < i

\* A browser has wedges of stations in its view only, all of processed keys.
WedgesProcessed ==
  \A c \in Clients : \A s \in Stations :
    /\ received[c][s] # <<>> => s \in view[c]
    /\ \A n \in DOMAIN received[c][s] : received[c][s][n] \in Processed(s)

Ordering == KeysInOrder /\ WedgesProcessed /\ WedgesInOrder

\* The listing leaves a poll with keys that follow upon the processed ones.
LEMMA ListInOrder ==
  ASSUME TypeOK, KeysInOrder, NEW s \in Stations, PollList(s)
  PROVE  /\ KeysInOrder'
         /\ Processed(s) \subseteq Processed(s)'
         /\ \A r \in Stations : r # s => Processed(r)' = Processed(r)
<1> DEFINE listed == {i \in 1..published[s] : i <= MaxKeys}
           seen == IF s \in DOMAIN seenKeys THEN seenKeys[s] ELSE {}
           new == listed \ seen
           old == {i \in new : ~Fresh(s, i)}
           fresh == {i \in new : Fresh(s, i)}
<1>1. PollerTypeOK
  BY DEF TypeOK
<1>2. /\ ppc[s] = "list"
      /\ pseen' = [pseen EXCEPT ![s] = seen \cup old]
      /\ pkeys' = [pkeys EXCEPT ![s] = fresh]
      /\ ppc' = [ppc EXCEPT ![s] = "chunks"]
      /\ seenKeys' = seenKeys
  BY DEF PollList
<1>3. listed \subseteq Chunks /\ seen \subseteq Chunks
  BY <1>1, ChunkAssumption DEF PollerTypeOK, Chunks
<1>4. DownClosed(seen)
  BY DEF KeysInOrder, DownClosed
<1>5. DownClosed(seen \cup listed)
  <2>1. \A j \in listed : \A i \in Chunks : i < j => i \in listed
    BY <1>1, ChunkAssumption DEF PollerTypeOK, Chunks
  <2> HIDE DEF listed, seen
  <2> QED  BY <1>4, <2>1 DEF DownClosed
<1>6. (seen \cup old) \cup fresh = seen \cup listed
  OBVIOUS
<1>7. ASSUME NEW i \in fresh, NEW j \in seen \cup old PROVE j < i
  <2>1. i \in Chunks /\ j \in Chunks /\ i \notin seen /\ Fresh(s, i)
    BY <1>3
  <2>2. CASE j \in seen
    <3>1. ~(i < j) /\ i # j
      BY <1>4, <2>1, <2>2 DEF DownClosed
    <3> QED  BY <2>1, <3>1, VolFacts
  <2>3. CASE j \in old
    <3>1. ~Fresh(s, j)
      BY <2>3
    <3>2. ~(i < j) /\ i # j
      <4>1. Vol(i) \in Nat /\ Vol(j) \in Nat /\ aged[s] \in Nat
        BY <1>1, <2>1, VolFacts, ChunkAssumption DEF PollerTypeOK
      <4>2. ~(Vol(i) <= Vol(j))
        BY <2>1, <3>1, <4>1 DEF Fresh
      <4> QED  BY <2>1, <4>1, <4>2, VolFacts
    <3> QED  BY <2>1, <3>2, VolFacts
  <2> QED  BY <2>2, <2>3
<1> HIDE DEF listed, seen, old, fresh
<1>8. /\ pseen'[s] = seen \cup old /\ pkeys'[s] = fresh /\ ppc'[s] = "chunks"
      /\ \A r \in Stations : r # s =>
           pseen'[r] = pseen[r] /\ pkeys'[r] = pkeys[r] /\ ppc'[r] = ppc[r]
  BY <1>1, <1>2 DEF PollerTypeOK
<1>9. KeysInOrder'
  <2>1. \A r \in DOMAIN seenKeys' : DownClosed(seenKeys'[r])
    BY <1>2 DEF KeysInOrder
  <2>2. ASSUME NEW r \in Stations, ppc'[r] = "chunks"
        PROVE  /\ DownClosed(pseen'[r] \cup pkeys'[r])
               /\ \A i \in pkeys'[r] : \A j \in pseen'[r] : j < i
    <3>1. CASE r = s
      BY <1>5, <1>6, <1>7, <1>8, <3>1
    <3>2. CASE r # s
      BY <1>8, <2>2, <3>2 DEF KeysInOrder
    <3> QED  BY <3>1, <3>2
  <2> QED  BY <2>1, <2>2 DEF KeysInOrder, DownClosed
<1>10. Processed(s) = seen /\ Processed(s)' = seen \cup old
  BY <1>2, <1>8 DEF Processed, seen
<1>11. \A r \in Stations : r # s => Processed(r)' = Processed(r)
  BY <1>2, <1>8 DEF Processed
<1> QED  BY <1>9, <1>10, <1>11

\* The next key is the least of those left: it follows upon what is processed.
LEMMA NextInOrder ==
  ASSUME TypeOK, KeysInOrder, NEW s \in Stations, NEW i \in pkeys[s], PollNext(s, i)
  PROVE  /\ KeysInOrder'
         /\ \A j \in Processed(s) : j < i
         /\ Processed(s)' = Processed(s) \cup {i}
         /\ \A r \in Stations : r # s => Processed(r)' = Processed(r)
<1>1. PollerTypeOK
  BY DEF TypeOK
<1>2. /\ ppc[s] = "chunks" /\ ppc' = ppc /\ seenKeys' = seenKeys
      /\ \A j \in pkeys[s] : i <= j
      /\ pseen' = [pseen EXCEPT ![s] = @ \cup {i}]
      /\ pkeys' = [pkeys EXCEPT ![s] = @ \ {i}]
  BY DEF PollNext
<1>3. /\ pseen'[s] = pseen[s] \cup {i} /\ pkeys'[s] = pkeys[s] \ {i}
      /\ \A r \in Stations : r # s => pseen'[r] = pseen[r] /\ pkeys'[r] = pkeys[r]
  BY <1>1, <1>2 DEF PollerTypeOK
<1>4. /\ DownClosed(pseen[s] \cup pkeys[s])
      /\ \A k \in pkeys[s] : \A j \in pseen[s] : j < k
  BY <1>2 DEF KeysInOrder
<1>5. /\ DownClosed(pseen'[s] \cup pkeys'[s])
      /\ \A k \in pkeys'[s] : \A j \in pseen'[s] : j < k
  <2>1. pseen'[s] \cup pkeys'[s] = pseen[s] \cup pkeys[s]
    BY <1>3
  <2>2. \A k \in pkeys[s] \ {i} : i < k
    BY <1>1, <1>2, VolFacts DEF PollerTypeOK
  <2> QED  BY <1>3, <1>4, <2>1, <2>2
<1>6. KeysInOrder'
  <2>1. \A r \in DOMAIN seenKeys' : DownClosed(seenKeys'[r])
    BY <1>2 DEF KeysInOrder
  <2>2. ASSUME NEW r \in Stations, ppc'[r] = "chunks"
        PROVE  /\ DownClosed(pseen'[r] \cup pkeys'[r])
               /\ \A k \in pkeys'[r] : \A j \in pseen'[r] : j < k
    <3>1. CASE r = s
      BY <1>5, <3>1
    <3>2. CASE r # s
      BY <1>2, <1>3, <2>2, <3>2 DEF KeysInOrder
    <3> QED  BY <3>1, <3>2
  <2> QED  BY <2>1, <2>2 DEF KeysInOrder, DownClosed
<1> QED  BY <1>2, <1>3, <1>4, <1>6 DEF Processed

\* The poll puts its keys back as the station's seen keys.
LEMMA DoneInOrder ==
  ASSUME TypeOK, KeysInOrder, NEW s \in Stations, PollDone(s)
  PROVE  /\ KeysInOrder'
         /\ \A r \in Stations : Processed(r)' = Processed(r)
<1>1. PollerTypeOK
  BY DEF TypeOK
<1>2. /\ ppc[s] = "chunks" /\ pkeys[s] = {} /\ pkeys' = pkeys
      /\ ppc' = [ppc EXCEPT ![s] = "idle"]
      /\ pseen' = [pseen EXCEPT ![s] = {}]
      /\ seenKeys' = [r \in (DOMAIN seenKeys) \cup {s} |->
                        IF r = s THEN pseen[s] ELSE seenKeys[r]]
  BY DEF PollDone
<1>3. /\ ppc'[s] = "idle" /\ seenKeys'[s] = pseen[s]
      /\ \A r \in Stations : r # s => ppc'[r] = ppc[r] /\ pseen'[r] = pseen[r]
  BY <1>1, <1>2 DEF PollerTypeOK
<1>4. pseen[s] \cup pkeys[s] = pseen[s]
  BY <1>2
<1>5. DownClosed(pseen[s])
  BY <1>2, <1>4 DEF KeysInOrder
<1>6. \A r \in DOMAIN seenKeys' : DownClosed(seenKeys'[r])
  BY <1>2, <1>5 DEF KeysInOrder
<1>7. \A r \in Stations : ppc'[r] = "chunks" =>
        /\ DownClosed(pseen'[r] \cup pkeys'[r])
        /\ \A i \in pkeys'[r] : \A j \in pseen'[r] : j < i
  <2> TAKE r \in Stations
  <2> HAVE ppc'[r] = "chunks"
  <2>1. r # s
    BY <1>3
  <2> QED  BY <1>2, <1>3, <2>1 DEF KeysInOrder
<1>8. ASSUME NEW r \in Stations PROVE Processed(r)' = Processed(r)
  <2>1. CASE r = s
    BY <1>2, <1>3, <2>1 DEF Processed
  <2>2. CASE r # s
    BY <1>2, <1>3, <2>2 DEF Processed
  <2> QED  BY <2>1, <2>2
<1> QED  BY <1>6, <1>7, <1>8 DEF KeysInOrder, DownClosed

\* Steps that touch neither the wedges nor what is processed.
LEMMA WedgesKept ==
  ASSUME Ordering, KeysInOrder', UNCHANGED <<view, received>>,
         \A s \in Stations : Processed(s) \subseteq Processed(s)'
  PROVE  Ordering'
<1>1. WedgesInOrder'
  BY DEF Ordering, WedgesInOrder
<1>2. WedgesProcessed'
  BY DEF Ordering, WedgesProcessed
<1> QED  BY <1>1, <1>2 DEF Ordering

\* The keys of every station are as they were.
LEMMA KeysKept ==
  ASSUME KeysInOrder, UNCHANGED <<seenKeys, pseen, pkeys>>,
         \A s \in Stations : (ppc'[s] = "chunks") <=> (ppc[s] = "chunks")
  PROVE  /\ KeysInOrder'
         /\ \A s \in Stations : Processed(s)' = Processed(s)
BY DEF KeysInOrder, DownClosed, Processed

\* The wedge of a chunk follows upon those a browser already has.
LEMMA ChunkInOrder ==
  ASSUME TypeOK, TypeOK', Ordering, NEW s \in Stations, NEW i \in pkeys[s],
         PollNext(s, i), HandleChunk(s, i)
  PROVE  Ordering'
<1>1. /\ KeysInOrder'
      /\ \A j \in Processed(s) : j < i
      /\ Processed(s)' = Processed(s) \cup {i}
      /\ \A r \in Stations : r # s => Processed(r)' = Processed(r)
  BY NextInOrder DEF Ordering
<1>2. view' = view
  BY DEF HandleChunk, sweepVars
<1>3. CASE Num(i) \notin BaseChunks
  BY <1>1, <1>2, <1>3, WedgesKept DEF HandleChunk, sweepVars
<1>4. CASE Num(i) \in BaseChunks
  <2>1. Broadcast(s, i)
    BY <1>4 DEF HandleChunk
  <2>2. received \in [Clients -> [Stations -> Seq(Chunks)]]
    BY DEF TypeOK, SweepTypeOK
  <2>3. i \in Chunks
    BY DEF TypeOK, PollerTypeOK
  <2>4. ASSUME NEW c \in Clients, NEW r \in Stations
        PROVE  \/ received'[c][r] = received[c][r]
               \/ r = s /\ s \in view[c] /\ received'[c][r] = Append(received[c][r], i)
    BY <2>1, <2>2 DEF Broadcast
  <2>5. ASSUME NEW c \in Clients, NEW r \in Stations
        PROVE  /\ received'[c][r] # <<>> => r \in view'[c]
               /\ \A n \in DOMAIN received'[c][r] : received'[c][r][n] \in Processed(r)'
               /\ \A m, n \in DOMAIN received'[c][r] :
                    m < n => received'[c][r][m] < received'[c][r][n]
    <3> DEFINE q == received[c][r]
    <3>1. q \in Seq(Chunks)
      BY <2>2
    <3>2. /\ q # <<>> => r \in view[c]
          /\ \A n \in DOMAIN q : q[n] \in Processed(r)
          /\ \A m, n \in DOMAIN q : m < n => q[m] < q[n]
      BY DEF Ordering, WedgesProcessed, WedgesInOrder
    <3>3. CASE received'[c][r] = q
      BY <1>1, <1>2, <3>2, <3>3
    <3>4. CASE r = s /\ s \in view[c] /\ received'[c][r] = Append(q, i)
      <4> HIDE DEF q
      <4> DEFINE p == Append(q, i)
      <4>1. /\ Len(q) \in Nat /\ DOMAIN q = 1..Len(q) /\ DOMAIN p = 1..(Len(q) + 1)
            /\ p[Len(q) + 1] = i /\ \A n \in 1..Len(q) : p[n] = q[n]
        BY <2>3, <3>1
      <4> HIDE DEF p
      <4>2. \A n \in DOMAIN p : p[n] \in Processed(r)'
        BY <1>1, <3>2, <3>4, <4>1
      <4>3. ASSUME NEW m \in DOMAIN p, NEW n \in DOMAIN p, m < n PROVE p[m] < p[n]
        <5>1. m \in 1..Len(q)
          BY <4>1, <4>3
        <5>2. CASE n = Len(q) + 1
          BY <1>1, <3>2, <3>4, <4>1, <5>1, <5>2
        <5>3. CASE n # Len(q) + 1
          <6>1. n \in 1..Len(q)
            BY <4>1, <5>3
          <6> QED  BY <3>2, <4>1, <4>3, <5>1, <6>1
        <5> QED  BY <5>2, <5>3
      <4> QED  BY <1>2, <3>4, <4>2, <4>3 DEF p
    <3> QED  BY <2>4, <3>3, <3>4
  <2>6. WedgesProcessed'
    BY <2>5 DEF WedgesProcessed
  <2>7. WedgesInOrder'
    BY <2>5 DEF WedgesInOrder
  <2> QED  BY <1>1, <2>6, <2>7 DEF Ordering
<1> QED  BY <1>3, <1>4

\* A browser that moves or leaves keeps the wedges of stations it still sees,
\* whose seen keys no subscription touches.
LEMMA BrowserInOrder ==
  ASSUME Subscriptions, Subscriptions', Ordering, NEW c \in Clients,
         NEW S \in SUBSET Stations, view' = [view EXCEPT ![c] = S],
         UpdateSubscriptions, Recount(c, S), UNCHANGED pollVars
  PROVE  Ordering'
<1>1. /\ received \in [Clients -> [Stations -> Seq(Chunks)]]
      /\ view \in [Clients -> SUBSET Stations]
  BY DEF Subscriptions, TypeOK, SweepTypeOK
<1>2. UNCHANGED <<ppc, pkeys, pseen>>
  BY DEF pollVars
<1> DEFINE in == viewportStations' \ viewportStations
           out == viewportStations \ viewportStations'
           D == ((DOMAIN seenKeys) \cup (in \ subscribed)) \ out
<1>3. seenKeys' = [s \in D |-> IF s \in in \ subscribed THEN {} ELSE seenKeys[s]]
  BY DEF UpdateSubscriptions, Resubscribe
<1>4. KeysInOrder'
  <2>1. \A s \in DOMAIN seenKeys' : DownClosed(seenKeys'[s])
    BY <1>3 DEF Ordering, KeysInOrder, DownClosed
  <2> QED  BY <1>2, <2>1 DEF Ordering, KeysInOrder, DownClosed
<1>5. ASSUME NEW d \in Clients, NEW s \in Stations
      PROVE  \/ received'[d][s] = <<>>
             \/ /\ received'[d][s] = received[d][s] /\ s \in view'[d]
                /\ s \in view[d]
  <2>1. CASE d = c
    BY <1>1, <2>1 DEF Recount
  <2>2. CASE d # c
    <3>1. received'[d] = received[d] /\ view'[d] = view[d]
      BY <1>1, <2>2 DEF Recount
    <3> QED  BY <3>1 DEF Ordering, WedgesProcessed
  <2> QED  BY <2>1, <2>2
<1>6. ASSUME NEW d \in Clients, NEW s \in Stations, s \in view[d], s \in view'[d]
      PROVE  Processed(s)' = Processed(s)
  <2>1. s \in viewportStations /\ s \in viewportStations' /\ s \in DOMAIN seenKeys
    BY <1>6 DEF Subscriptions, ViewersConnected, SubscriptionsMatch
  <2>2. s \in DOMAIN seenKeys' /\ seenKeys'[s] = seenKeys[s]
    BY <1>3, <2>1
  <2> QED  BY <1>2, <2>1, <2>2 DEF Processed
<1>7. WedgesProcessed'
  <2>1. ASSUME NEW d \in Clients, NEW s \in Stations
        PROVE  /\ received'[d][s] # <<>> => s \in view'[d]
               /\ \A n \in DOMAIN received'[d][s] : received'[d][s][n] \in Processed(s)'
    <3>1. CASE received'[d][s] = <<>>
      BY <3>1
    <3>2. CASE /\ received'[d][s] = received[d][s] /\ s \in view'[d]
               /\ s \in view[d]
      BY <1>6, <3>2 DEF Ordering, WedgesProcessed
    <3> QED  BY <1>5, <3>1, <3>2
  <2> QED  BY <2>1 DEF WedgesProcessed
<1>8. WedgesInOrder'
  <2>1. ASSUME NEW d \in Clients, NEW s \in Stations
        PROVE  \A m, n \in DOMAIN received'[d][s] :
                 m < n => received'[d][s][m] < received'[d][s][n]
    <3>1. CASE received'[d][s] = <<>>
      BY <3>1
    <3>2. CASE received'[d][s] = received[d][s]
      BY <3>2 DEF Ordering, WedgesInOrder
    <3> QED  BY <1>5, <3>1, <3>2
  <2> QED  BY <2>1 DEF WedgesInOrder
<1> QED  BY <1>4, <1>7, <1>8 DEF Ordering

LEMMA OrderingStep ==
  Subscriptions /\ Subscriptions' /\ Ordering /\ [Next]_vars => Ordering'
<1> SUFFICES ASSUME Subscriptions, Subscriptions', Ordering, [Next]_vars
             PROVE  Ordering'
  OBVIOUS
<1>1. TypeOK /\ TypeOK' /\ PollerTypeOK /\ KeysInOrder
  BY DEF Subscriptions, TypeOK, Ordering
<1>2. CASE UNCHANGED vars
  BY <1>1, <1>2, KeysKept, WedgesKept DEF vars, pollerVars, pollVars, sweepVars
<1>3. CASE (PollCycle \/ PollBatch) /\ UNCHANGED sweepVars
  <2>1. UNCHANGED <<seenKeys, pseen, pkeys>>
    BY <1>3 DEF PollCycle, PollBatch
  <2>2. \A s \in Stations : (ppc'[s] = "chunks") <=> (ppc[s] = "chunks")
    BY <1>3 DEF PollCycle, PollBatch
  <2> QED  BY <1>1, <1>3, <2>1, <2>2, KeysKept, WedgesKept DEF sweepVars
<1>4. ASSUME NEW s \in Stations, PollList(s), UNCHANGED sweepVars PROVE Ordering'
  BY <1>1, <1>4, ListInOrder, WedgesKept DEF sweepVars
<1>5. ASSUME NEW s \in Stations, PollDone(s), UNCHANGED sweepVars PROVE Ordering'
  BY <1>1, <1>5, DoneInOrder, WedgesKept DEF sweepVars
<1>6. ASSUME NEW s \in Stations, PollListFail(s) \/ Publish(s) \/ Age(s),
             UNCHANGED sweepVars
      PROVE  Ordering'
  <2>1. UNCHANGED <<seenKeys, pseen, pkeys>>
    BY <1>6 DEF PollListFail, Publish, Age, pollVars
  <2>2. \A r \in Stations : (ppc'[r] = "chunks") <=> (ppc[r] = "chunks")
    BY <1>1, <1>6 DEF PollListFail, Publish, Age, pollVars, PollerTypeOK
  <2> QED  BY <1>1, <1>6, <2>1, <2>2, KeysKept, WedgesKept DEF sweepVars
<1>7. ASSUME NEW s \in Stations, NEW i \in pkeys[s], PollNext(s, i), HandleChunk(s, i)
      PROVE  Ordering'
  BY <1>1, <1>7, ChunkInOrder
<1>8. ASSUME NEW s \in Stations, NEW i \in pkeys[s], PollNext(s, i), UNCHANGED sweepVars
      PROVE  Ordering'
  BY <1>1, <1>8, NextInOrder, WedgesKept DEF sweepVars
<1>9. ASSUME NEW c \in Clients, Connect(c) PROVE Ordering'
  BY <1>1, <1>9, KeysKept, WedgesKept DEF Connect, pollerVars, pollVars
<1>10. ASSUME NEW c \in Clients, NEW S \in SUBSET Stations, Viewport(c, S)
       PROVE  Ordering'
  BY <1>10, BrowserInOrder DEF Viewport
<1>11. ASSUME NEW c \in Clients, Close(c) PROVE Ordering'
  <2>1. {} \in SUBSET Stations
    OBVIOUS
  <2> QED  BY <1>11, <2>1, BrowserInOrder DEF Close
<1> QED  BY <1>2, <1>3, <1>4, <1>5, <1>6, <1>7, <1>8, <1>9, <1>10, <1>11, NextCases

LEMMA OrderingInit == Init => Ordering
BY DEF Init, PollerInit, Ordering, KeysInOrder, WedgesProcessed, WedgesInOrder

\* A browser gets the wedges of a station in its view once each and in the
\* order of publication, for any number of browsers, stations and volumes,
\* whatever subscriptions change while a poll is under way (chunk-poller.ts,
\* sweep-manager.ts).
THEOREM WedgesInOrderHolds == Spec => []WedgesInOrder
<1>1. Subscriptions /\ Ordering => WedgesInOrder
  BY DEF Ordering
<1> QED  BY <1>1, SubscriptionsInit, SubscriptionsStep, OrderingInit, OrderingStep,
            PTL DEF Spec

=============================================================================
