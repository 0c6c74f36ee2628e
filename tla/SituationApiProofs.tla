------------------------- MODULE SituationApiProofs -------------------------
(***************************************************************************)
(* TLAPS proofs about SituationApi, for any airports, sockets, client ids, *)
(* handlers, skies and bounds.                                             *)
(***************************************************************************)
EXTENDS SituationApi, FiniteSetTheorems, SequenceTheorems, WellFoundedInduction, TLAPS

-----------------------------------------------------------------------------
(* Maxima *)

\* A finite set of integers that is not empty has a maximum: of the finite
\* subsets without one, a smallest would have one.
LEMMA MaxExists ==
  ASSUME NEW S \in SUBSET Int, IsFiniteSet(S), S # {}
  PROVE  \E x \in S : \A y \in S : x >= y
<1> DEFINE HasMax(T) == \E x \in T : \A y \in T : x >= y
           Bad == {T \in FiniteSubsetsOf(S) : T # {} /\ ~HasMax(T)}
<1> SUFFICES ASSUME ~HasMax(S) PROVE FALSE
  OBVIOUS
<1>1. S \in Bad
  BY DEF FiniteSubsetsOf
<1>2. PICK T \in Bad : \A U \in Bad : ~(<<U, T>> \in StrictSubsetOrdering(S))
  <2>1. Bad \subseteq FiniteSubsetsOf(S) /\ Bad # {}
    BY <1>1
  <2>2. IsWellFoundedOn(StrictSubsetOrdering(S), FiniteSubsetsOf(S))
    BY FS_StrictSubsetOrderingWellFounded
  <2> HIDE DEF Bad
  <2> QED  BY <2>1, <2>2, WFMin
<1>3. PICK a \in T : TRUE
  OBVIOUS
<1> DEFINE U == T \ {a}
<1>4. U \in FiniteSubsetsOf(S) /\ <<U, T>> \in StrictSubsetOrdering(S)
  BY <1>3, FS_RemoveElement DEF FiniteSubsetsOf, StrictSubsetOrdering
<1>5. U = {} \/ HasMax(U)
  BY <1>2, <1>4
<1>6. T \in SUBSET Int
  BY DEF FiniteSubsetsOf
<1>7. HasMax(T)
  <2>1. CASE U = {}
    BY <1>3, <1>6, <2>1
  <2>2. CASE HasMax(U)
    <3>1. PICK m \in U : \A y \in U : m >= y
      BY <2>2
    <3>2. CASE m >= a
      BY <1>6, <3>1, <3>2
    <3>3. CASE a > m
      BY <1>3, <1>6, <3>1, <3>3
    <3> QED  BY <1>3, <1>6, <3>1, <3>2, <3>3
  <2> QED  BY <1>5, <2>1, <2>2
<1> QED  BY <1>7

LEMMA MaxFacts ==
  ASSUME NEW S \in SUBSET Int, IsFiniteSet(S), S # {}
  PROVE  Max(S) \in S /\ \A y \in S : Max(S) >= y
BY MaxExists DEF Max

-----------------------------------------------------------------------------
(* Rings *)

\* What is sampled from a sky: maxima that are numbers, severities and a ramp
\* status that are words of the API.
LEMMA RingFacts ==
  ASSUME NEW rings \in RingSet
  PROVE  /\ rings[5].maxDbz \in Nat /\ rings[50].maxDbz \in Nat
         /\ rings[5].severity \in Severity
         /\ RampOf(rings) \in RampStatus
<1>1. PICK sky \in Skies \cup {{}} : rings = sampleRings(sky)
  BY DEF RingSet
<1>2. sky \in SUBSET Pixel /\ IsFiniteSet(sky)
  BY UpdaterAssumption, FS_EmptySet
<1>3. ASSUME NEW r \in RingRadii
      PROVE  RingMax(sky, r) \in Nat
  <2> DEFINE in  == InRing(sky, r)
             dbz == {p.dbz : p \in in}
  <2>1. IsFiniteSet(in) /\ in \in SUBSET Pixel
    <3>1. in \in SUBSET sky
      BY DEF InRing
    <3> QED  BY <1>2, <3>1, FS_Subset
  <2>2. [p \in in |-> p.dbz] \in Surjection(in, dbz)
    BY DEF Surjection
  <2>3. IsFiniteSet(dbz)
    <3> HIDE DEF in, dbz
    <3> QED  BY <2>1, <2>2, FS_Surjection
  <2>4. dbz \in SUBSET Nat
    BY <2>1 DEF Pixel
  <2>5. IsFiniteSet({0} \cup dbz)
    <3>1. IsFiniteSet(dbz \cup {0}) /\ dbz \cup {0} = {0} \cup dbz
      BY <2>3, FS_AddElement
    <3> QED  BY <3>1
  <2>6. Max({0} \cup dbz) \in Nat
    <3> DEFINE all == {0} \cup dbz
    <3>1. all \in SUBSET Int /\ all \in SUBSET Nat /\ all # {} /\ IsFiniteSet(all)
      BY <2>4, <2>5
    <3>2. Max(all) \in all
      <4> HIDE DEF all
      <4> QED  BY <3>1, MaxFacts
    <3> QED  BY <3>1, <3>2
  <2> QED  BY <2>6 DEF RingMax
<1>4. ASSUME NEW r \in RingRadii
      PROVE  rings[r].maxDbz \in Nat /\ rings[r].severity \in Severity
  <2>1. rings[r] = RingData(sky, r)
    BY <1>1 DEF sampleRings
  <2>2. dbzToSeverity(RingMax(sky, r)) \in Severity
    BY DEF dbzToSeverity, Severity
  <2>3. Rounded(RingMax(sky, r)) \in Nat
    BY <1>3 DEF Rounded
  <2> QED  BY <2>1, <2>2, <2>3 DEF RingData
<1>5. RampOf(rings) \in RampStatus
  BY DEF RampOf, computeRampStatus, RampStatus
<1> QED  BY <1>4, <1>5 DEF RingRadii

-----------------------------------------------------------------------------
(* Sockets *)

LEMMA SocketsInitType == SocketsInit => SocketsTypeOK
BY SocketsAssumption DEF SocketsInit, SocketsTypeOK, Untold

\* What a message broadcast to the sockets says is a ramp status.
LEMMA BroadcastType ==
  ASSUME SocketsTypeOK, NEW messages \in SUBSET Message, Broadcast(messages)
  PROVE  told' \in [Sockets -> [Airports -> RampStatus \cup {"none"}]]
<1>1. ASSUME NEW sent \in SUBSET messages, sent # {}
      PROVE  (CHOOSE m \in sent : TRUE).ramp \in RampStatus
  <2>1. (CHOOSE m \in sent : TRUE) \in sent
    BY <1>1
  <2> QED  BY <2>1 DEF Message
<1>2. ASSUME NEW s \in Sockets, NEW x \in Airports
      PROVE  told'[s][x] \in RampStatus \cup {"none"}
  <2> DEFINE sent == {m \in messages : m.airport = x /\ socket[s] = "open" /\
                        \E c \in Ids : clients[c].ws = s /\ Wants(c, m)}
  <2>1. told'[s][x] = IF sent = {} THEN told[s][x] ELSE (CHOOSE m \in sent : TRUE).ramp
    BY DEF Broadcast
  <2>2. sent # {} => (CHOOSE m \in sent : TRUE).ramp \in RampStatus
    <3>1. sent \in SUBSET messages
      OBVIOUS
    <3> HIDE DEF sent
    <3> QED  BY <1>1, <3>1
  <2> QED  BY <2>1, <2>2 DEF SocketsTypeOK
<1>3. \A s \in Sockets : told'[s] = [x \in Airports |-> told'[s][x]]
  BY DEF Broadcast
<1>4. told' = [s \in Sockets |-> told'[s]]
  BY DEF Broadcast
<1> QED  BY <1>2, <1>3, <1>4

\* The steps of the sockets.
LEMMA SocketsType ==
  ASSUME SocketsTypeOK,
         \/ SocketStep \/ ServerGone \/ UNCHANGED socketVars
         \/ \E s \in Sockets, c \in ClientIds, w \in SUBSET Airports, d \in Thresholds :
              Subscribe(s, c, w, d)
  PROVE  SocketsTypeOK'
<1> USE DEF SocketsTypeOK
<1>1. CASE UNCHANGED socketVars
  BY <1>1 DEF socketVars
<1>2. CASE ServerGone
  BY <1>2 DEF ServerGone
<1>3. ASSUME NEW s \in Sockets, NEW c \in ClientIds, NEW w \in SUBSET Airports,
             NEW d \in Thresholds, Subscribe(s, c, w, d)
      PROVE  SocketsTypeOK'
  <2>1. [ws |-> s, watchlist |-> w, dbz |-> d, alive |-> TRUE] \in Entry
    BY DEF Entry
  <2> QED  BY <1>3, <2>1, SocketsAssumption DEF Subscribe, Untold
<1>4. ASSUME NEW s \in Sockets, Connect(s) \/ Hangup(s) PROVE SocketsTypeOK'
  BY <1>4 DEF Connect, Hangup
<1>5. ASSUME NEW s \in Sockets, Pong(s) PROVE SocketsTypeOK'
  <2>1. CASE clientId[s] \in Ids
    <3>1. clientId[s] \in ClientIds /\ clients[clientId[s]] \in Entry
      BY <2>1 DEF Ids
    <3>2. [clients EXCEPT ![clientId[s]].alive = TRUE] \in [ClientIds -> Entry \cup {NoEntry}]
      BY <3>1 DEF Entry
    <3> QED  BY <1>5, <2>1, <3>2 DEF Pong
  <2>2. CASE clientId[s] \notin Ids
    BY <1>5, <2>2 DEF Pong
  <2> QED  BY <2>1, <2>2
<1>6. ASSUME NEW s \in Sockets, Close(s) PROVE SocketsTypeOK'
  BY <1>6 DEF Close
<1>7. CASE PingAll
  <2>1. \A c \in Ids : [clients[c] EXCEPT !.alive = FALSE] \in Entry
    BY DEF Ids, Entry
  <2>2. clients' \in [ClientIds -> Entry \cup {NoEntry}]
    BY <1>7, <2>1 DEF PingAll
  <2>3. socket' \in [Sockets -> {"new", "open", "closing", "closed"}]
    BY <1>7 DEF PingAll
  <2>4. owesPong' \in [Sockets -> BOOLEAN] /\ cutOff' \in SUBSET Sockets
    <3>1. Terminated \subseteq Sockets
      BY DEF Terminated, Silent, Ids, Entry
    <3> QED  BY <1>7, <3>1 DEF PingAll
  <2> QED  BY <1>7, <2>2, <2>3, <2>4 DEF PingAll
<1> QED  BY <1>1, <1>2, <1>3, <1>4, <1>5, <1>6, <1>7 DEF SocketStep

\* An entry of the table is of a socket that has subscribed under its id; and if
\* it has not answered the last ping, then either its socket owes a pong or uses
\* another id by now, so that its pongs no longer vouch for the entry.
Vouched(c) ==
  LET s == clients[c].ws
  IN  /\ socket[s] # "new" /\ c \in usedIds[s] /\ clientId[s] # NoId
      /\ socket[s] = "open" /\ clients[c].alive = FALSE /\ owesPong[s] = FALSE => clientId[s] # c

PongInv ==
  /\ \A c \in Ids : Vouched(c)
  /\ \A s \in Sockets : /\ clientId[s] # NoId => clientId[s] \in usedIds[s]
                        /\ IsFiniteSet(usedIds[s])
  /\ PongersStay

LEMMA InitPong == SocketsInit => PongInv
BY FS_EmptySet DEF SocketsInit, PongInv, Ids, PongersStay

\* Two ids are more than one.
LEMMA TwoIds ==
  ASSUME NEW S, IsFiniteSet(S), NEW c \in S, NEW d \in S, c # d
  PROVE  Cardinality(S) > 1
<1>1. Cardinality(S) \in Nat /\ Cardinality(S) # 0
  BY FS_CardinalityType, FS_EmptySet
<1>2. Cardinality(S) # 1
  BY FS_Singleton
<1> QED  BY <1>1, <1>2

\* And one more leaves them more than one.
LEMMA OneMore ==
  ASSUME NEW S, IsFiniteSet(S), NEW c, Cardinality(S) > 1
  PROVE  Cardinality(S \cup {c}) > 1
<1>1. Cardinality(S) \in Nat
  BY FS_CardinalityType
<1>2. Cardinality(S \cup {c}) = IF c \in S THEN Cardinality(S) ELSE Cardinality(S) + 1
  BY FS_AddElement
<1> QED  BY <1>1, <1>2

LEMMA SubscribePong ==
  ASSUME SocketsTypeOK, PongInv, NEW s \in Sockets, NEW c \in ClientIds,
         NEW w \in SUBSET Airports, NEW d \in Thresholds, Subscribe(s, c, w, d)
  PROVE  PongInv'
<1> USE DEF SocketsTypeOK
<1>1. /\ clients'[c] = [ws |-> s, watchlist |-> w, dbz |-> d, alive |-> TRUE]
      /\ \A e \in ClientIds \ {c} : clients'[e] = clients[e]
      /\ clientId'[s] = c /\ usedIds'[s] = usedIds[s] \cup {c} /\ socket[s] = "open"
      /\ \A r \in Sockets \ {s} : clientId'[r] = clientId[r] /\ usedIds'[r] = usedIds[r]
      /\ UNCHANGED <<socket, owesPong, cutOff>>
  BY DEF Subscribe
<1>2. ASSUME NEW e \in Ids' PROVE Vouched(e)'
  <2>1. e \in ClientIds
    BY DEF Ids
  <2>2. CASE e = c
    BY <1>1, <2>2, SocketsAssumption DEF Vouched
  <2>3. CASE e # c
    <3>1. e \in Ids /\ Vouched(e) /\ clients[e].ws \in Sockets
      BY <1>1, <2>1, <2>3 DEF Ids, PongInv, Entry
    <3> QED  BY <1>1, <2>1, <2>3, <3>1, SocketsAssumption DEF Vouched
  <2> QED  BY <2>2, <2>3
<1>3. ASSUME NEW r \in Sockets
      PROVE  /\ clientId'[r] # NoId => clientId'[r] \in usedIds'[r]
             /\ IsFiniteSet(usedIds'[r])
  <2>1. IsFiniteSet(usedIds[r] \cup {c})
    BY FS_AddElement DEF PongInv
  <2> QED  BY <1>1, <2>1 DEF PongInv
<1>4. PongersStay'
  <2> SUFFICES ASSUME NEW r \in cutOff PROVE Cardinality(usedIds'[r]) > 1
    BY <1>1 DEF PongersStay
  <2>1. r \in Sockets /\ IsFiniteSet(usedIds[r]) /\ Cardinality(usedIds[r]) > 1
    BY DEF PongInv, PongersStay
  <2>2. Cardinality(usedIds[r] \cup {c}) > 1
    BY <2>1, OneMore
  <2>3. usedIds'[r] \in {usedIds[r], usedIds[r] \cup {c}}
    BY <1>1, <2>1
  <2> QED  BY <2>1, <2>2, <2>3
<1> QED  BY <1>2, <1>3, <1>4 DEF PongInv

\* The round of pings: a socket it terminates although it owes no pong has an
\* entry under an id it no longer uses.
LEMMA PingPong ==
  ASSUME SocketsTypeOK, PongInv, PingAll
  PROVE  PongInv'
<1> USE DEF SocketsTypeOK
<1>1. UNCHANGED <<clientId, usedIds>>
  BY DEF PingAll
<1>2. ASSUME NEW c \in Ids' PROVE Vouched(c)'
  <2>1. /\ c \in Ids \ Silent /\ clients[c] \in Entry
        /\ clients'[c] = [clients[c] EXCEPT !.alive = FALSE]
    BY DEF PingAll, Ids
  <2>2. Vouched(c) /\ clients[c].ws \in Sockets /\ clients'[c].ws = clients[c].ws
    BY <2>1 DEF PongInv, Entry
  <2>3. clients[c].ws \in Pinged
    BY <2>1 DEF Pinged
  <2>4. ASSUME NEW s \in Pinged, s \in Sockets, socket[s] # "new"
        PROVE  socket'[s] # "new" /\ (socket'[s] = "open" => owesPong'[s] = TRUE)
    <3>1. socket'[s] = IF s \in Terminated /\ socket[s] = "open" THEN "closing" ELSE socket[s]
      BY <2>4 DEF PingAll
    <3>2. owesPong'[s] = (owesPong[s] \/ (s \in Pinged /\ socket[s] = "open"))
      BY <2>4 DEF PingAll
    <3>3. CASE socket[s] = "open"
      BY <2>4, <3>1, <3>2, <3>3
    <3>4. CASE socket[s] # "open"
      BY <2>4, <3>1, <3>4
    <3> QED  BY <3>3, <3>4
  <2>5. PICK s \in Sockets : s = clients[c].ws
    BY <2>2
  <2>6. socket[s] # "new" /\ c \in usedIds[s] /\ clientId[s] # NoId
    BY <2>2, <2>5 DEF Vouched
  <2>7. clients'[c].ws = s /\ socket'[s] # "new" /\ (socket'[s] = "open" => owesPong'[s] = TRUE)
    BY <2>2, <2>3, <2>4, <2>5, <2>6
  <2> QED  BY <1>1, <2>6, <2>7 DEF Vouched
<1>3. PongersStay'
  <2> SUFFICES ASSUME NEW s \in Terminated, socket[s] = "open", owesPong[s] = FALSE
               PROVE  Cardinality(usedIds[s]) > 1
    <3>1. cutOff' = cutOff \cup {s \in Terminated : socket[s] = "open" /\ owesPong[s] = FALSE}
      <4>1. Terminated \subseteq Sockets
        BY DEF Terminated, Silent, Ids, Entry
      <4> QED  BY <4>1 DEF PingAll
    <3>2. \A s \in cutOff : Cardinality(usedIds[s]) > 1
      BY DEF PongInv, PongersStay
    <3> QED  BY <1>1, <3>1, <3>2 DEF PongersStay
  <2>1. PICK c \in Silent : s = clients[c].ws
    BY DEF Terminated
  <2>2. c \in Ids /\ clients[c] \in Entry /\ s \in Sockets /\ clients[c].alive = FALSE
    BY <2>1 DEF Silent, Ids, Entry
  <2>3. c \in usedIds[s] /\ clientId[s] \in usedIds[s] /\ clientId[s] # c
        /\ IsFiniteSet(usedIds[s])
    BY <2>1, <2>2 DEF PongInv, Vouched
  <2> QED  BY <2>3, TwoIds
<1> QED  BY <1>1, <1>2, <1>3 DEF PongInv

LEMMA SocketsPong ==
  ASSUME SocketsTypeOK, PongInv,
         \/ SocketStep \/ ServerGone
         \/ UNCHANGED <<socket, clientId, clients, subscribes, usedIds, owesPong, cutOff>>
  PROVE  PongInv'
<1> USE DEF SocketsTypeOK
<1>1. CASE UNCHANGED <<socket, clientId, clients, subscribes, usedIds, owesPong, cutOff>>
  BY <1>1 DEF PongInv, Vouched, Ids, PongersStay
<1>2. CASE ServerGone
  BY <1>2 DEF ServerGone, PongInv, Ids, PongersStay
<1>3. ASSUME NEW s \in Sockets, Connect(s) \/ Hangup(s) PROVE PongInv'
  <2>1. UNCHANGED <<clientId, clients, usedIds, owesPong, cutOff>>
    BY <1>3 DEF Connect, Hangup
  <2>2. ASSUME NEW c \in Ids PROVE Vouched(c)'
    BY <1>3, <2>1 DEF Connect, Hangup, PongInv, Vouched, Ids, Entry
  <2> QED  BY <2>1, <2>2 DEF PongInv, Ids, PongersStay
<1>4. ASSUME NEW s \in Sockets, Pong(s) PROVE PongInv'
  <2>1. UNCHANGED <<socket, clientId, usedIds, cutOff>>
    BY <1>4 DEF Pong
  <2>2. ASSUME NEW c \in Ids' PROVE Vouched(c)'
    <3>1. c \in Ids /\ clients[c] \in Entry /\ clients'[c].ws = clients[c].ws
          /\ clients'[c].alive = IF c = clientId[s] THEN TRUE ELSE clients[c].alive
      BY <1>4 DEF Pong, Ids, Entry
    <3>2. Vouched(c) /\ clients[c].ws \in Sockets
      BY <3>1 DEF PongInv, Entry
    <3> QED  BY <1>4, <2>1, <3>1, <3>2 DEF Pong, Vouched
  <2> QED  BY <2>1, <2>2 DEF PongInv, PongersStay
<1>5. ASSUME NEW s \in Sockets, Close(s) PROVE PongInv'
  <2>1. UNCHANGED <<clientId, usedIds, owesPong, cutOff>>
    BY <1>5 DEF Close
  <2>2. ASSUME NEW c \in Ids' PROVE Vouched(c)'
    <3>1. c \in Ids /\ clients'[c] = clients[c]
      BY <1>5 DEF Close, Ids
    <3>2. Vouched(c) /\ clients[c].ws \in Sockets
      BY <3>1 DEF PongInv, Ids, Entry
    <3> QED  BY <1>5, <2>1, <3>1, <3>2 DEF Close, Vouched
  <2> QED  BY <2>1, <2>2 DEF PongInv, PongersStay
<1> QED  BY <1>1, <1>2, <1>3, <1>4, <1>5, PingPong DEF SocketStep

-----------------------------------------------------------------------------
(* Updates *)

Sampling == {"previous", "compare", "store", "storePrevious", "record"}

\* An update has a composite to work on, and past the look at the next airport
\* it has one in hand.
JobSound(h) ==
  /\ ~At(h, "idle") => latestComposite # NoValue
  /\ job[h].step \in Sampling \cup {"sample"} => composite[job[h].stamp] # NoValue
  /\ job[h].step \in Sampling => job[h].subject \in Airports

UpdaterInv ==
  /\ UpdaterTypeOK
  /\ latestComposite # NoValue => composite[latestComposite] # NoValue
  /\ \A h \in Handlers : JobSound(h)

LEMMA IdleType == Idle \in Job
<1>1. sampleRings({}) \in RingSet
  BY DEF RingSet
<1>2. 0 \in Stamps
  BY UpdaterAssumption DEF Stamps
<1> QED  BY <1>1, <1>2 DEF Idle, Job, Steps, SystemStatus

\* A handler's locals with one of them set anew.
LEMMA JobField ==
  ASSUME NEW j \in Job
  PROVE  /\ \A v \in Steps : [j EXCEPT !.step = v] \in Job
         /\ \A v \in SUBSET Airports : [j EXCEPT !.stale = v] \in Job /\ [j EXCEPT !.todo = v] \in Job
         /\ \A v \in Airports \cup {NoValue} : [j EXCEPT !.subject = v] \in Job
         /\ \A v \in RingSet : [j EXCEPT !.rings = v] \in Job
         /\ \A v \in Nat \cup {NoDbz} : [j EXCEPT !.before = v] \in Job
         /\ \A v \in Stamps : [j EXCEPT !.stamp = v] \in Job
         /\ \A v \in SystemStatus : [j EXCEPT !.status = v] \in Job
         /\ \A v \in SUBSET Message : [j EXCEPT !.messages = v] \in Job
<1>1. \A v \in Steps : [j EXCEPT !.step = v] \in Job
  BY DEF Job
<1>2. \A v \in SUBSET Airports : [j EXCEPT !.stale = v] \in Job
  BY DEF Job
<1>3. \A v \in SUBSET Airports : [j EXCEPT !.todo = v] \in Job
  BY DEF Job
<1>4. \A v \in Airports \cup {NoValue} : [j EXCEPT !.subject = v] \in Job
  BY DEF Job
<1>5. \A v \in RingSet : [j EXCEPT !.rings = v] \in Job
  BY DEF Job
<1>6. \A v \in Nat \cup {NoDbz} : [j EXCEPT !.before = v] \in Job
  BY DEF Job
<1>7. \A v \in Stamps : [j EXCEPT !.stamp = v] \in Job
  BY DEF Job
<1>8. \A v \in SystemStatus : [j EXCEPT !.status = v] \in Job
  BY DEF Job
<1>9. \A v \in SUBSET Message : [j EXCEPT !.messages = v] \in Job
  BY DEF Job
<1> QED  BY <1>1, <1>2, <1>3, <1>4, <1>5, <1>6, <1>7, <1>8, <1>9

LEMMA UpdaterInitType == UpdaterInit => UpdaterInv
BY IdleType, UpdaterAssumption
   DEF UpdaterInit, UpdaterInv, UpdaterTypeOK, JobSound, At, Idle, Sampling, Stamps

\* A new composite starts an update.
LEMMA NewFrameType ==
  ASSUME SocketsTypeOK, UpdaterInv, NEW h \in Handlers, NEW t \in Stamps,
         NEW skies \in [Airports -> Skies], NewFrame(h, t, skies)
  PROVE  UpdaterInv'
<1>1. getWatchedAirports \in SUBSET Airports
  BY DEF SocketsTypeOK, getWatchedAirports, Ids, Entry
<1>2. [Idle EXCEPT !.step = "sync", !.active = getWatchedAirports] \in Job
  BY <1>1, IdleType DEF Job, Steps
<1>3. skies # NoValue /\ t # NoValue
  BY UpdaterAssumption, ValueAssumption
<1>4. UpdaterTypeOK'
  BY <1>2, UpdaterAssumption DEF NewFrame, UpdaterInv, UpdaterTypeOK, redisKeys
<1>5. composite' = [composite EXCEPT ![t] = skies] /\ latestComposite' = t
  BY DEF NewFrame
<1>6. \A u \in Stamps : composite[u] # NoValue => composite'[u] # NoValue
  BY <1>3, <1>5 DEF UpdaterInv, UpdaterTypeOK
<1>7. ASSUME NEW g \in Handlers PROVE JobSound(g)'
  <2>1. CASE g = h
    BY <1>3, <1>5, <2>1, IdleType
       DEF NewFrame, UpdaterInv, UpdaterTypeOK, JobSound, At, Idle, Sampling, Job
  <2>2. CASE g # h
    <3>1. job'[g] = job[g] /\ JobSound(g) /\ job[g].stamp \in Stamps
      BY <2>2 DEF NewFrame, UpdaterInv, UpdaterTypeOK, Job
    <3> QED  BY <1>3, <1>5, <1>6, <3>1 DEF JobSound, At
  <2> QED  BY <2>1, <2>2
<1> QED  BY <1>3, <1>4, <1>5, <1>7 DEF UpdaterInv, UpdaterTypeOK

-----------------------------------------------------------------------------
(* The locals of a handler after one of its steps *)

Moves(h) == job' \in [Handlers -> Job] /\ \A g \in Handlers \ {h} : job'[g] = job[g]

KeepsSync(h)    == job'[h].active = job[h].active /\ job'[h].stale = job[h].stale
KeepsFrame(h)   == job'[h].stamp = job[h].stamp /\ job'[h].status = job[h].status
KeepsAirport(h) == job'[h].subject = job[h].subject /\ job'[h].rings = job[h].rings
KeepsTodo(h)    == job'[h].todo = job[h].todo
KeepsBefore(h)  == job'[h].before = job[h].before
KeepsNews(h)    == job'[h].messages = job[h].messages

LEMMA JobSet ==
  ASSUME job \in [Handlers -> Job], NEW h \in Handlers, NEW k \in Job,
         job' = [job EXCEPT ![h] = k]
  PROVE  job'[h] = k /\ Moves(h)
BY DEF Moves

\* A step of the updater by its words.
LEMMA StepNames ==
  \A s \in {"idle", "sync", "add", "remove", "list", "latest", "sample", "compare",
            "previous", "store", "storePrevious", "record", "tell"} : s \in Steps
BY DEF Steps

\* What is on the watchlist and not watched is stale.
LEMMA SyncReadJob ==
  ASSUME UpdaterInv, NEW h \in Handlers, SyncRead(h)
  PROVE  /\ Moves(h)
         /\ job'[h].stale = watchlist \ job[h].active
         /\ job'[h].step = IF job[h].active # {} THEN "add"
                            ELSE IF watchlist \ job[h].active # {} THEN "remove" ELSE "list"
         /\ job'[h].active = job[h].active
         /\ KeepsFrame(h) /\ KeepsAirport(h) /\ KeepsTodo(h) /\ KeepsBefore(h)
         /\ KeepsNews(h)
<1> DEFINE k == [[job[h] EXCEPT !.stale = watchlist \ job[h].active]
                    EXCEPT !.step = IF job[h].active # {} THEN "add"
                            ELSE IF watchlist \ job[h].active # {} THEN "remove" ELSE "list"]
<1>0. watchlist \ job[h].active \in SUBSET Airports
  BY DEF UpdaterInv, UpdaterTypeOK
<1>1. job[h] \in Job
  BY DEF UpdaterInv, UpdaterTypeOK
<1>2. k \in Job
  BY <1>1, <1>0, StepNames, JobField
<1>3. job' = [job EXCEPT ![h] = k]
  BY DEF SyncRead
<1>4. /\ k.stale = watchlist \ job[h].active
      /\ k.step = IF job[h].active # {} THEN "add"
                            ELSE IF watchlist \ job[h].active # {} THEN "remove" ELSE "list"
      /\ k.active = job[h].active /\ k.stamp = job[h].stamp /\ k.status = job[h].status
      /\ k.subject = job[h].subject /\ k.rings = job[h].rings /\ k.todo = job[h].todo
      /\ k.before = job[h].before /\ k.messages = job[h].messages
  BY <1>1 DEF Job
<1> HIDE DEF k
<1>5. job'[h] = k /\ Moves(h)
  BY <1>2, <1>3, JobSet DEF UpdaterInv, UpdaterTypeOK
<1> QED  BY <1>4, <1>5 DEF KeepsFrame, KeepsAirport, KeepsTodo, KeepsBefore, KeepsNews

\* Nothing stale: nothing to remove.
LEMMA SyncAddJob ==
  ASSUME UpdaterInv, NEW h \in Handlers, SyncAdd(h)
  PROVE  /\ Moves(h)
         /\ job'[h].step = IF job[h].stale # {} THEN "remove" ELSE "list"
         /\ KeepsSync(h) /\ KeepsFrame(h) /\ KeepsAirport(h) /\ KeepsTodo(h)
         /\ KeepsBefore(h) /\ KeepsNews(h)
<1> DEFINE k == [job[h] EXCEPT !.step = IF job[h].stale # {} THEN "remove" ELSE "list"]
<1>1. job[h] \in Job
  BY DEF UpdaterInv, UpdaterTypeOK
<1>2. k \in Job
  BY <1>1, StepNames, JobField
<1>3. job' = [job EXCEPT ![h] = k]
  BY DEF SyncAdd
<1>4. /\ k.step = IF job[h].stale # {} THEN "remove" ELSE "list"
      /\ k.active = job[h].active /\ k.stale = job[h].stale /\ k.stamp = job[h].stamp
      /\ k.status = job[h].status /\ k.subject = job[h].subject /\ k.rings = job[h].rings
      /\ k.todo = job[h].todo /\ k.before = job[h].before /\ k.messages = job[h].messages
  BY <1>1 DEF Job
<1> HIDE DEF k
<1>5. job'[h] = k /\ Moves(h)
  BY <1>2, <1>3, JobSet DEF UpdaterInv, UpdaterTypeOK
<1> QED  BY <1>4, <1>5 DEF KeepsSync, KeepsFrame, KeepsAirport, KeepsTodo, KeepsBefore, KeepsNews

\* The watchlist is read next.
LEMMA SyncRemoveJob ==
  ASSUME UpdaterInv, NEW h \in Handlers, SyncRemove(h)
  PROVE  /\ Moves(h)
         /\ job'[h].step = "list"
         /\ KeepsSync(h) /\ KeepsFrame(h) /\ KeepsAirport(h) /\ KeepsTodo(h)
         /\ KeepsBefore(h) /\ KeepsNews(h)
<1> DEFINE k == [job[h] EXCEPT !.step = "list"]
<1>1. job[h] \in Job
  BY DEF UpdaterInv, UpdaterTypeOK
<1>2. k \in Job
  BY <1>1, StepNames, JobField
<1>3. job' = [job EXCEPT ![h] = k]
  BY DEF SyncRemove
<1>4. /\ k.step = "list"
      /\ k.active = job[h].active /\ k.stale = job[h].stale /\ k.stamp = job[h].stamp
      /\ k.status = job[h].status /\ k.subject = job[h].subject /\ k.rings = job[h].rings
      /\ k.todo = job[h].todo /\ k.before = job[h].before /\ k.messages = job[h].messages
  BY <1>1 DEF Job
<1> HIDE DEF k
<1>5. job'[h] = k /\ Moves(h)
  BY <1>2, <1>3, JobSet DEF UpdaterInv, UpdaterTypeOK
<1> QED  BY <1>4, <1>5 DEF KeepsSync, KeepsFrame, KeepsAirport, KeepsTodo, KeepsBefore, KeepsNews

\* The airports of the watchlist are to do.
LEMMA ListWatchedJob ==
  ASSUME UpdaterInv, NEW h \in Handlers, ListWatched(h)
  PROVE  /\ Moves(h)
         /\ job'[h].todo = watchlist
         /\ job'[h].step = IF watchlist = {} THEN "tell" ELSE "latest"
         /\ KeepsSync(h) /\ KeepsFrame(h) /\ KeepsAirport(h) /\ KeepsBefore(h)
         /\ KeepsNews(h)
<1> DEFINE k == [[job[h] EXCEPT !.todo = watchlist]
                    EXCEPT !.step = IF watchlist = {} THEN "tell" ELSE "latest"]
<1>0. watchlist \in SUBSET Airports
  BY DEF UpdaterInv, UpdaterTypeOK
<1>1. job[h] \in Job
  BY DEF UpdaterInv, UpdaterTypeOK
<1>2. k \in Job
  BY <1>1, <1>0, StepNames, JobField
<1>3. job' = [job EXCEPT ![h] = k]
  BY DEF ListWatched
<1>4. /\ k.todo = watchlist
      /\ k.step = IF watchlist = {} THEN "tell" ELSE "latest"
      /\ k.active = job[h].active /\ k.stale = job[h].stale /\ k.stamp = job[h].stamp
      /\ k.status = job[h].status /\ k.subject = job[h].subject /\ k.rings = job[h].rings
      /\ k.before = job[h].before /\ k.messages = job[h].messages
  BY <1>1 DEF Job
<1> HIDE DEF k
<1>5. job'[h] = k /\ Moves(h)
  BY <1>2, <1>3, JobSet DEF UpdaterInv, UpdaterTypeOK
<1> QED  BY <1>4, <1>5 DEF KeepsSync, KeepsFrame, KeepsAirport, KeepsBefore, KeepsNews

\* The frame is the latest.
LEMMA ReadLatestJob ==
  ASSUME UpdaterInv, NEW h \in Handlers, ReadLatest(h)
  PROVE  /\ Moves(h)
         /\ job'[h].stamp = latestComposite
         /\ job'[h].step = "sample"
         /\ job'[h].status = computeSystemStatus(clock - latestComposite)
         /\ KeepsSync(h) /\ KeepsAirport(h) /\ KeepsTodo(h) /\ KeepsBefore(h)
         /\ KeepsNews(h)
<1> DEFINE k == [[[job[h] EXCEPT !.stamp = latestComposite]
                    EXCEPT !.step = "sample"]
                    EXCEPT !.status = computeSystemStatus(clock - latestComposite)]
<1>0. /\ latestComposite \in Stamps
      /\ computeSystemStatus(clock - latestComposite) \in SystemStatus
  BY DEF ReadLatest, UpdaterInv, UpdaterTypeOK, JobSound, At, computeSystemStatus, SystemStatus
<1>1. job[h] \in Job
  BY DEF UpdaterInv, UpdaterTypeOK
<1>2. k \in Job
  BY <1>1, <1>0, StepNames, JobField
<1>3. job' = [job EXCEPT ![h] = k]
  BY DEF ReadLatest
<1>4. /\ k.stamp = latestComposite
      /\ k.step = "sample"
      /\ k.status = computeSystemStatus(clock - latestComposite)
      /\ k.active = job[h].active /\ k.stale = job[h].stale /\ k.subject = job[h].subject
      /\ k.rings = job[h].rings /\ k.todo = job[h].todo /\ k.before = job[h].before
      /\ k.messages = job[h].messages
  BY <1>1 DEF Job
<1> HIDE DEF k
<1>5. job'[h] = k /\ Moves(h)
  BY <1>2, <1>3, JobSet DEF UpdaterInv, UpdaterTypeOK
<1> QED  BY <1>4, <1>5 DEF KeepsSync, KeepsAirport, KeepsTodo, KeepsBefore, KeepsNews

\* An airport is taken in hand.
LEMMA SampleJob ==
  ASSUME UpdaterInv, NEW h \in Handlers, NEW x \in Airports, SampleAirport(h, x)
  PROVE  /\ Moves(h)
         /\ job'[h].todo = job[h].todo \ {x}
         /\ job'[h].subject = x
         /\ job'[h].rings = sampleRings(composite[job[h].stamp][x])
         /\ job'[h].step = "previous"
         /\ KeepsSync(h) /\ KeepsFrame(h) /\ KeepsBefore(h) /\ KeepsNews(h)
<1> DEFINE k == [[[[job[h] EXCEPT !.todo = job[h].todo \ {x}]
                    EXCEPT !.subject = x]
                    EXCEPT !.rings = sampleRings(composite[job[h].stamp][x])]
                    EXCEPT !.step = "previous"]
<1>0. /\ sampleRings(composite[job[h].stamp][x]) \in RingSet
      /\ job[h].todo \ {x} \in SUBSET Airports
  <2>1. job[h] \in Job /\ JobSound(h) /\ job[h].step = "sample"
    BY DEF UpdaterInv, UpdaterTypeOK, SampleAirport, At
  <2>2. composite[job[h].stamp] \in [Airports -> Skies]
    BY <2>1 DEF UpdaterInv, UpdaterTypeOK, JobSound, Job
  <2> QED  BY <2>1, <2>2 DEF RingSet, Job
<1>1. job[h] \in Job
  BY DEF UpdaterInv, UpdaterTypeOK
<1>2. k \in Job
  BY <1>1, <1>0, StepNames, JobField
<1>3. job' = [job EXCEPT ![h] = k]
  BY DEF SampleAirport
<1>4. /\ k.todo = job[h].todo \ {x}
      /\ k.subject = x
      /\ k.rings = sampleRings(composite[job[h].stamp][x])
      /\ k.step = "previous"
      /\ k.active = job[h].active /\ k.stale = job[h].stale /\ k.stamp = job[h].stamp
      /\ k.status = job[h].status /\ k.before = job[h].before /\ k.messages = job[h].messages
  BY <1>1 DEF Job
<1> HIDE DEF k
<1>5. job'[h] = k /\ Moves(h)
  BY <1>2, <1>3, JobSet DEF UpdaterInv, UpdaterTypeOK
<1> QED  BY <1>4, <1>5 DEF KeepsSync, KeepsFrame, KeepsBefore, KeepsNews

\* The maximum before is read.
LEMMA ReadPreviousJob ==
  ASSUME UpdaterInv, NEW h \in Handlers, ReadPrevious(h)
  PROVE  /\ Moves(h)
         /\ job'[h].before = previous[job[h].subject]
         /\ job'[h].step = "compare"
         /\ KeepsSync(h) /\ KeepsFrame(h) /\ KeepsAirport(h) /\ KeepsTodo(h)
         /\ KeepsNews(h)
<1> DEFINE k == [[job[h] EXCEPT !.before = previous[job[h].subject]]
                    EXCEPT !.step = "compare"]
<1>0. previous[job[h].subject] \in Nat \cup {NoDbz}
  BY DEF UpdaterInv, UpdaterTypeOK, ReadPrevious, JobSound, At, Sampling
<1>1. job[h] \in Job
  BY DEF UpdaterInv, UpdaterTypeOK
<1>2. k \in Job
  BY <1>1, <1>0, StepNames, JobField
<1>3. job' = [job EXCEPT ![h] = k]
  BY DEF ReadPrevious
<1>4. /\ k.before = previous[job[h].subject]
      /\ k.step = "compare"
      /\ k.active = job[h].active /\ k.stale = job[h].stale /\ k.stamp = job[h].stamp
      /\ k.status = job[h].status /\ k.subject = job[h].subject /\ k.rings = job[h].rings
      /\ k.todo = job[h].todo /\ k.messages = job[h].messages
  BY <1>1 DEF Job
<1> HIDE DEF k
<1>5. job'[h] = k /\ Moves(h)
  BY <1>2, <1>3, JobSet DEF UpdaterInv, UpdaterTypeOK
<1> QED  BY <1>4, <1>5 DEF KeepsSync, KeepsFrame, KeepsAirport, KeepsTodo, KeepsNews

\* What a handler has to announce of the airport in hand.
News(h) == IF situation[job[h].subject] = NoValue THEN {}
           ELSE Change(job[h].subject, situation[job[h].subject], job[h].rings)

\* A change is announced.
LEMMA CompareJob ==
  ASSUME UpdaterInv, NEW h \in Handlers, CompareAirport(h)
  PROVE  /\ Moves(h)
         /\ job'[h].messages = job[h].messages \cup News(h)
         /\ job'[h].step = "store"
         /\ KeepsSync(h) /\ KeepsFrame(h) /\ KeepsAirport(h) /\ KeepsTodo(h)
         /\ KeepsBefore(h)
<1> DEFINE k == [[job[h] EXCEPT !.messages = job[h].messages \cup News(h)]
                    EXCEPT !.step = "store"]
<1>0. job[h].messages \cup News(h) \in SUBSET Message
  <2>1. job[h] \in Job /\ job[h].subject \in Airports
    BY DEF UpdaterInv, UpdaterTypeOK, CompareAirport, JobSound, At, Sampling
  <2>2. \A old : Change(job[h].subject, old, job[h].rings) \subseteq Message
    BY <2>1, RingFacts DEF Change, Message, Job
  <2> QED  BY <2>1, <2>2 DEF News, Job
<1>1. job[h] \in Job
  BY DEF UpdaterInv, UpdaterTypeOK
<1>2. k \in Job
  BY <1>1, <1>0, StepNames, JobField
<1>3. job' = [job EXCEPT ![h] = k]
  BY DEF CompareAirport, News
<1>4. /\ k.messages = job[h].messages \cup News(h)
      /\ k.step = "store"
      /\ k.active = job[h].active /\ k.stale = job[h].stale /\ k.stamp = job[h].stamp
      /\ k.status = job[h].status /\ k.subject = job[h].subject /\ k.rings = job[h].rings
      /\ k.todo = job[h].todo /\ k.before = job[h].before
  BY <1>1 DEF Job
<1> HIDE DEF k
<1>5. job'[h] = k /\ Moves(h)
  BY <1>2, <1>3, JobSet DEF UpdaterInv, UpdaterTypeOK
<1> QED  BY <1>4, <1>5 DEF KeepsSync, KeepsFrame, KeepsAirport, KeepsTodo, KeepsBefore

\* The maximum is stored next.
LEMMA StoreJob ==
  ASSUME UpdaterInv, NEW h \in Handlers, StoreSituation(h)
  PROVE  /\ Moves(h)
         /\ job'[h].step = "storePrevious"
         /\ KeepsSync(h) /\ KeepsFrame(h) /\ KeepsAirport(h) /\ KeepsTodo(h)
         /\ KeepsBefore(h) /\ KeepsNews(h)
<1> DEFINE k == [job[h] EXCEPT !.step = "storePrevious"]
<1>1. job[h] \in Job
  BY DEF UpdaterInv, UpdaterTypeOK
<1>2. k \in Job
  BY <1>1, StepNames, JobField
<1>3. job' = [job EXCEPT ![h] = k]
  BY DEF StoreSituation
<1>4. /\ k.step = "storePrevious"
      /\ k.active = job[h].active /\ k.stale = job[h].stale /\ k.stamp = job[h].stamp
      /\ k.status = job[h].status /\ k.subject = job[h].subject /\ k.rings = job[h].rings
      /\ k.todo = job[h].todo /\ k.before = job[h].before /\ k.messages = job[h].messages
  BY <1>1 DEF Job
<1> HIDE DEF k
<1>5. job'[h] = k /\ Moves(h)
  BY <1>2, <1>3, JobSet DEF UpdaterInv, UpdaterTypeOK
<1> QED  BY <1>4, <1>5 DEF KeepsSync, KeepsFrame, KeepsAirport, KeepsTodo, KeepsBefore, KeepsNews

\* The history is written next.
LEMMA StorePreviousJob ==
  ASSUME UpdaterInv, NEW h \in Handlers, StorePrevious(h)
  PROVE  /\ Moves(h)
         /\ job'[h].step = "record"
         /\ KeepsSync(h) /\ KeepsFrame(h) /\ KeepsAirport(h) /\ KeepsTodo(h)
         /\ KeepsBefore(h) /\ KeepsNews(h)
<1> DEFINE k == [job[h] EXCEPT !.step = "record"]
<1>1. job[h] \in Job
  BY DEF UpdaterInv, UpdaterTypeOK
<1>2. k \in Job
  BY <1>1, StepNames, JobField
<1>3. job' = [job EXCEPT ![h] = k]
  BY DEF StorePrevious
<1>4. /\ k.step = "record"
      /\ k.active = job[h].active /\ k.stale = job[h].stale /\ k.stamp = job[h].stamp
      /\ k.status = job[h].status /\ k.subject = job[h].subject /\ k.rings = job[h].rings
      /\ k.todo = job[h].todo /\ k.before = job[h].before /\ k.messages = job[h].messages
  BY <1>1 DEF Job
<1> HIDE DEF k
<1>5. job'[h] = k /\ Moves(h)
  BY <1>2, <1>3, JobSet DEF UpdaterInv, UpdaterTypeOK
<1> QED  BY <1>4, <1>5 DEF KeepsSync, KeepsFrame, KeepsAirport, KeepsTodo, KeepsBefore, KeepsNews

\* Nothing is in hand.
LEMMA NextJob ==
  ASSUME UpdaterInv, NEW h \in Handlers, NextAirport(h)
  PROVE  /\ Moves(h)
         /\ job'[h].step = "sample"
         /\ job'[h].subject = NoValue
         /\ job'[h].rings = Idle.rings
         /\ job'[h].before = NoDbz
         /\ KeepsSync(h) /\ KeepsFrame(h) /\ KeepsTodo(h) /\ KeepsNews(h)
<1> DEFINE k == [[[[job[h] EXCEPT !.step = "sample"]
                    EXCEPT !.subject = NoValue]
                    EXCEPT !.rings = Idle.rings]
                    EXCEPT !.before = NoDbz]
<1>0. Idle.rings \in RingSet
  BY IdleType DEF Job
<1>1. job[h] \in Job
  BY DEF UpdaterInv, UpdaterTypeOK
<1>2. k \in Job
  BY <1>1, <1>0, StepNames, JobField
<1>3. job' = [job EXCEPT ![h] = k]
  BY DEF NextAirport
<1>4. /\ k.step = "sample"
      /\ k.subject = NoValue
      /\ k.rings = Idle.rings
      /\ k.before = NoDbz
      /\ k.active = job[h].active /\ k.stale = job[h].stale /\ k.stamp = job[h].stamp
      /\ k.status = job[h].status /\ k.todo = job[h].todo /\ k.messages = job[h].messages
  BY <1>1 DEF Job
<1> HIDE DEF k
<1>5. job'[h] = k /\ Moves(h)
  BY <1>2, <1>3, JobSet DEF UpdaterInv, UpdaterTypeOK
<1> QED  BY <1>4, <1>5 DEF KeepsSync, KeepsFrame, KeepsTodo, KeepsNews

\* The messages go out next.
LEMMA SummariseJob ==
  ASSUME UpdaterInv, NEW h \in Handlers, Summarise(h) \/ SummariseFails(h)
  PROVE  /\ Moves(h)
         /\ job'[h].step = "tell"
         /\ KeepsSync(h) /\ KeepsFrame(h) /\ KeepsAirport(h) /\ KeepsTodo(h)
         /\ KeepsBefore(h) /\ KeepsNews(h)
<1> DEFINE k == [job[h] EXCEPT !.step = "tell"]
<1>1. job[h] \in Job
  BY DEF UpdaterInv, UpdaterTypeOK
<1>2. k \in Job
  BY <1>1, StepNames, JobField
<1>3. job' = [job EXCEPT ![h] = k]
  BY DEF Summarise, SummariseFails
<1>4. /\ k.step = "tell"
      /\ k.active = job[h].active /\ k.stale = job[h].stale /\ k.stamp = job[h].stamp
      /\ k.status = job[h].status /\ k.subject = job[h].subject /\ k.rings = job[h].rings
      /\ k.todo = job[h].todo /\ k.before = job[h].before /\ k.messages = job[h].messages
  BY <1>1 DEF Job
<1> HIDE DEF k
<1>5. job'[h] = k /\ Moves(h)
  BY <1>2, <1>3, JobSet DEF UpdaterInv, UpdaterTypeOK
<1> QED  BY <1>4, <1>5 DEF KeepsSync, KeepsFrame, KeepsAirport, KeepsTodo, KeepsBefore, KeepsNews

\* A handler that is done leaves nothing.
LEMMA DoneJob ==
  ASSUME UpdaterInv, NEW h \in Handlers, job' = [job EXCEPT ![h] = Idle]
  PROVE  Moves(h) /\ job'[h] = Idle
BY IdleType, JobSet DEF UpdaterInv, UpdaterTypeOK

\* Every step of a handler leaves it with a composite to work on.
LEMMA UpdateSound ==
  ASSUME UpdaterInv, NEW h \in Handlers,
         HandlerStep(h) \/ HandlerFault(h) \/ Tell(h)
  PROVE  Moves(h) /\ UNCHANGED radarVars /\ \A g \in Handlers : JobSound(g)'
<1>1. UNCHANGED radarVars
  BY DEF HandlerStep, SyncRead, SyncAdd, SyncRemove, ListWatched, ReadLatest, SampleAirport,
       ReadPrevious, CompareAirport, StoreSituation, StorePrevious, RecordHistory, Summarise,
       HandlerFault, AirportFails, SummariseFails, HandlerFails, Tell
<1>2. JobSound(h) /\ (latestComposite # NoValue => composite[latestComposite] # NoValue)
  BY DEF UpdaterInv
<1>3. ASSUME Moves(h), JobSound(h)' PROVE \A g \in Handlers : JobSound(g)'
  BY <1>1, <1>3 DEF Moves, UpdaterInv, JobSound, At, radarVars
<1>4. CASE SyncRead(h)
  <2>1. Moves(h) /\ job'[h].step \in {"add", "remove", "list"}
    BY <1>4, SyncReadJob
  <2>2. job[h].step = "sync"
    BY <1>4 DEF SyncRead, At
  <2> QED  BY <1>1, <1>2, <1>3, <2>1, <2>2 DEF JobSound, At, Sampling, radarVars
<1>5. CASE SyncAdd(h)
  BY <1>1, <1>2, <1>3, <1>5, SyncAddJob DEF SyncAdd, JobSound, At, Sampling, radarVars
<1>6. CASE SyncRemove(h)
  BY <1>1, <1>2, <1>3, <1>6, SyncRemoveJob DEF SyncRemove, JobSound, At, Sampling, radarVars
<1>7. CASE ListWatched(h)
  <2>1. Moves(h) /\ job'[h].step \in {"tell", "latest"}
    BY <1>7, ListWatchedJob
  <2>2. job[h].step = "list"
    BY <1>7 DEF ListWatched, At
  <2> QED  BY <1>1, <1>2, <1>3, <2>1, <2>2 DEF JobSound, At, Sampling, radarVars
<1>8. CASE ReadLatest(h)
  BY <1>1, <1>2, <1>3, <1>8, ReadLatestJob DEF ReadLatest, JobSound, At, Sampling, radarVars
<1>9. ASSUME NEW x \in Airports, SampleAirport(h, x)
      PROVE  Moves(h) /\ JobSound(h)'
  BY <1>1, <1>2, <1>9, SampleJob
     DEF SampleAirport, JobSound, At, Sampling, radarVars, KeepsFrame
<1>10. CASE ReadPrevious(h)
  BY <1>1, <1>2, <1>3, <1>10, ReadPreviousJob
     DEF ReadPrevious, JobSound, At, Sampling, radarVars, KeepsFrame, KeepsAirport
<1>11. CASE CompareAirport(h)
  BY <1>1, <1>2, <1>3, <1>11, CompareJob
     DEF CompareAirport, JobSound, At, Sampling, radarVars, KeepsFrame, KeepsAirport
<1>12. CASE StoreSituation(h)
  BY <1>1, <1>2, <1>3, <1>12, StoreJob
     DEF StoreSituation, JobSound, At, Sampling, radarVars, KeepsFrame, KeepsAirport
<1>13. CASE StorePrevious(h)
  BY <1>1, <1>2, <1>3, <1>13, StorePreviousJob
     DEF StorePrevious, JobSound, At, Sampling, radarVars, KeepsFrame, KeepsAirport
<1>14. CASE RecordHistory(h) \/ AirportFails(h)
  <2>1. NextAirport(h) /\ job[h].step \in Sampling
    BY <1>14 DEF RecordHistory, AirportFails, At, Sampling
  <2> QED
    BY <1>1, <1>2, <1>3, <2>1, NextJob DEF JobSound, At, Sampling, radarVars, KeepsFrame
<1>15. CASE Summarise(h) \/ SummariseFails(h)
  BY <1>1, <1>2, <1>3, <1>15, SummariseJob
     DEF Summarise, SummariseFails, JobSound, At, Sampling, radarVars
<1>16. CASE Tell(h) \/ HandlerFails(h)
  <2>1. Moves(h) /\ job'[h] = Idle
    BY <1>16, DoneJob DEF Tell, HandlerFails
  <2> QED  BY <1>1, <1>3, <2>1 DEF JobSound, At, Idle, Sampling
<1> QED
  BY <1>1, <1>3, <1>4, <1>5, <1>6, <1>7, <1>8, <1>9, <1>10, <1>11, <1>12, <1>13, <1>14, <1>15,
     <1>16
     DEF HandlerStep, HandlerFault

\* The situation a handler stores.
LEMMA Stored ==
  ASSUME UpdaterInv, NEW h \in Handlers, StoreSituation(h)
  PROVE  /\ job[h].subject \in Airports
         /\ situation' \in [Airports -> Situation \cup {NoValue}]
         /\ \A x \in Airports \ {job[h].subject} : situation'[x] = situation[x]
         /\ situation'[job[h].subject] # NoValue
         /\ situation'[job[h].subject].stamp = job[h].stamp
         /\ situation'[job[h].subject].rings = job[h].rings
         /\ situation'[job[h].subject].ramp = RampOf(job[h].rings)
<1> DEFINE new == [stamp |-> job[h].stamp, rings |-> job[h].rings, ramp |-> RampOf(job[h].rings),
                   trend |-> computeTrend(job[h].rings[50].maxDbz, job[h].before)]
<1>1. job[h].subject \in Airports /\ job[h].rings \in RingSet /\ job[h].stamp \in Stamps
  BY DEF UpdaterInv, UpdaterTypeOK, StoreSituation, JobSound, At, Sampling, Job
<1>2. computeTrend(job[h].rings[50].maxDbz, job[h].before) \in Trend
  BY DEF computeTrend, Trend
<1>3. new \in Situation /\ new # NoValue
  BY <1>1, <1>2, RingFacts, ValueAssumption DEF Situation
<1>4. situation' = [situation EXCEPT ![job[h].subject] = new]
  BY DEF StoreSituation
<1>5. new.stamp = job[h].stamp /\ new.rings = job[h].rings /\ new.ramp = RampOf(job[h].rings)
  OBVIOUS
<1> HIDE DEF new
<1> QED  BY <1>1, <1>3, <1>4, <1>5 DEF UpdaterInv, UpdaterTypeOK

LEMMA UpdateType ==
  ASSUME UpdaterInv, NEW h \in Handlers,
         HandlerStep(h) \/ HandlerFault(h) \/ Tell(h)
  PROVE  UpdaterInv'
<1> USE DEF UpdaterTypeOK
<1>1. job' \in [Handlers -> Job] /\ UNCHANGED radarVars /\ \A g \in Handlers : JobSound(g)'
  BY UpdateSound DEF Moves
<1>2. job[h] \in Job /\ JobSound(h)
  BY DEF UpdaterInv
<1>3. ASSUME UNCHANGED failures \/ Fails
      PROVE  failures' \in 0..MaxFaults
  BY <1>3, UpdaterAssumption DEF Fails, UpdaterInv
<1>4. failures' \in 0..MaxFaults
  BY <1>3 DEF HandlerStep, SyncRead, SyncAdd, SyncRemove, ListWatched, ReadLatest, SampleAirport,
       ReadPrevious, CompareAirport, StoreSituation, StorePrevious, RecordHistory, Summarise,
       HandlerFault, AirportFails, SummariseFails, HandlerFails, Tell
<1>5. watchlist' \in SUBSET Airports
  BY <1>2 DEF UpdaterInv, Job, redisKeys,
       HandlerStep, SyncRead, SyncAdd, SyncRemove, ListWatched, ReadLatest, SampleAirport,
       ReadPrevious, CompareAirport, StoreSituation, StorePrevious, RecordHistory, Summarise,
       HandlerFault, AirportFails, SummariseFails, HandlerFails, Tell
<1>6. situation' \in [Airports -> Situation \cup {NoValue}]
  <2>1. CASE StoreSituation(h)
    BY <2>1, Stored
  <2>2. UNCHANGED situation \/ StoreSituation(h)
    BY DEF redisKeys,
       HandlerStep, SyncRead, SyncAdd, SyncRemove, ListWatched, ReadLatest, SampleAirport,
       ReadPrevious, CompareAirport, StorePrevious, RecordHistory, Summarise,
       HandlerFault, AirportFails, SummariseFails, HandlerFails, Tell
  <2> QED  BY <2>1, <2>2 DEF UpdaterInv
<1>7. previous' \in [Airports -> Nat \cup {NoDbz}]
  <2>1. CASE StorePrevious(h)
    <3>1. job[h].rings[50].maxDbz \in Nat
      BY <1>2, RingFacts DEF Job
    <3> QED  BY <2>1, <3>1 DEF StorePrevious, UpdaterInv
  <2>2. UNCHANGED previous \/ StorePrevious(h)
    BY DEF redisKeys,
       HandlerStep, SyncRead, SyncAdd, SyncRemove, ListWatched, ReadLatest, SampleAirport,
       ReadPrevious, CompareAirport, StoreSituation, RecordHistory, Summarise,
       HandlerFault, AirportFails, SummariseFails, HandlerFails, Tell
  <2> QED  BY <2>1, <2>2 DEF UpdaterInv
<1>8. history' \in [Airports -> SUBSET [stamp : Stamps, rings : RingSet]]
  <2>1. CASE RecordHistory(h)
    <3>1. [stamp |-> job[h].stamp, rings |-> job[h].rings] \in [stamp : Stamps, rings : RingSet]
      BY <1>2 DEF Job
    <3> QED  BY <2>1, <3>1 DEF RecordHistory, UpdaterInv
  <2>2. UNCHANGED history \/ RecordHistory(h)
    BY DEF redisKeys,
       HandlerStep, SyncRead, SyncAdd, SyncRemove, ListWatched, ReadLatest, SampleAirport,
       ReadPrevious, CompareAirport, StoreSituation, StorePrevious, Summarise,
       HandlerFault, AirportFails, SummariseFails, HandlerFails, Tell
  <2> QED  BY <2>1, <2>2 DEF UpdaterInv
<1>9. \/ summary' = NoValue
      \/ summary' \in [stamp : Stamps, affected : SUBSET RegionAirports, status : SystemStatus]
  <2>1. CASE Summarise(h)
    <3>1. [stamp |-> job[h].stamp, affected |-> Affected, status |-> job[h].status]
            \in [stamp : Stamps, affected : SUBSET RegionAirports, status : SystemStatus]
      BY <1>2 DEF Job, Affected
    <3> QED  BY <2>1, <3>1 DEF Summarise
  <2>2. UNCHANGED summary \/ Summarise(h)
    BY DEF redisKeys,
       HandlerStep, SyncRead, SyncAdd, SyncRemove, ListWatched, ReadLatest, SampleAirport,
       ReadPrevious, CompareAirport, StoreSituation, StorePrevious, RecordHistory,
       HandlerFault, AirportFails, SummariseFails, HandlerFails, Tell
  <2> QED  BY <2>1, <2>2 DEF UpdaterInv
<1>10. UpdaterTypeOK'
  BY <1>1, <1>4, <1>5, <1>6, <1>7, <1>8, <1>9 DEF UpdaterInv, radarVars
<1> QED  BY <1>1, <1>10 DEF UpdaterInv, radarVars

-----------------------------------------------------------------------------
(* The API as a whole *)

ApiTypeOK ==
  /\ SocketsTypeOK
  /\ UpdaterInv
  /\ tangled \in BOOLEAN /\ scarred \in BOOLEAN
  /\ settled \in SUBSET Sockets

LEMMA ApiInitType == Init => ApiTypeOK
BY SocketsInitType, UpdaterInitType DEF Init, ApiTypeOK

\* A message told leaves the sockets alone.
LEMMA TellSockets ==
  ASSUME ApiTypeOK, NEW h \in Handlers, Tell(h),
         UNCHANGED <<socket, clientId, clients, subscribes, usedIds, owesPong, cutOff>>
  PROVE  SocketsTypeOK'
<1>1. job[h].messages \in SUBSET Message
  BY DEF ApiTypeOK, UpdaterInv, UpdaterTypeOK, Job
<1>2. told' \in [Sockets -> [Airports -> RampStatus \cup {"none"}]]
  BY <1>1, BroadcastType DEF Tell, ApiTypeOK
<1> QED  BY <1>2 DEF ApiTypeOK, SocketsTypeOK

LEMMA ApiNextType == ApiTypeOK /\ [Next]_vars => ApiTypeOK'
<1> SUFFICES ASSUME ApiTypeOK, [Next]_vars PROVE ApiTypeOK'
  OBVIOUS
<1>1. ASSUME UNCHANGED <<radarVars, failures, redisKeys, job>> PROVE UpdaterInv'
  BY <1>1 DEF ApiTypeOK, UpdaterInv, UpdaterTypeOK, JobSound, At, radarVars, redisKeys
<1>2. ASSUME NEW h \in Handlers, Announce(h) PROVE ApiTypeOK'
  <2>1. PICK t \in Stamps, skies \in [Airports -> Skies] : NewFrame(h, t, skies)
    BY <1>2 DEF Announce
  <2>2. UpdaterInv'
    BY <2>1, NewFrameType DEF ApiTypeOK
  <2>3. SocketsTypeOK'
    BY <1>2, SocketsType DEF Announce, ApiTypeOK
  <2> QED  BY <1>2, <2>2, <2>3 DEF Announce, ApiTypeOK
<1>3. ASSUME NEW h \in Handlers, UpdateStep(h) \/ Fault(h) PROVE ApiTypeOK'
  <2>1. UpdaterInv'
    BY <1>3, UpdateType DEF UpdateStep, Fault, ApiTypeOK
  <2>2. SocketsTypeOK'
    BY <1>3, SocketsType, TellSockets DEF UpdateStep, Fault, ApiTypeOK
  <2> QED  BY <1>3, <2>1, <2>2 DEF UpdateStep, Fault, historyVars, ApiTypeOK
<1>4. ASSUME NEW s \in Sockets, ClientSubscribes(s) PROVE ApiTypeOK'
  <2>1. SocketsTypeOK'
    BY <1>4, SocketsType DEF ClientSubscribes, ApiTypeOK
  <2> QED  BY <1>1, <1>4, <2>1 DEF ClientSubscribes, updaterVars, ApiTypeOK
<1>5. ASSUME NEW q \in Queries, AskCells(q) PROVE ApiTypeOK'
  <2>1. SocketsTypeOK'
    BY <1>5, SocketsType DEF AskCells, ApiTypeOK
  <2> QED  BY <1>1, <1>5, <2>1 DEF AskCells, updaterVars, historyVars, ApiTypeOK
<1>6. CASE SocketStep /\ UNCHANGED <<updaterVars, cellVars, historyVars>>
  <2>1. SocketsTypeOK'
    BY <1>6, SocketsType DEF ApiTypeOK
  <2> QED  BY <1>1, <1>6, <2>1 DEF updaterVars, historyVars, ApiTypeOK
<1>7. CASE UNCHANGED <<socketVars, updaterVars, historyVars>>
  <2>1. SocketsTypeOK'
    BY <1>7, SocketsType DEF ApiTypeOK
  <2> QED  BY <1>1, <1>7, <2>1 DEF updaterVars, historyVars, ApiTypeOK
<1>8. CASE TimePasses /\ UNCHANGED <<socketVars, cellVars, historyVars>>
  <2>1. SocketsTypeOK'
    BY <1>8, SocketsType DEF ApiTypeOK
  <2>2. UpdaterInv'
    BY <1>8, UpdaterAssumption
       DEF TimePasses, ApiTypeOK, UpdaterInv, UpdaterTypeOK, JobSound, At, redisKeys
  <2> QED  BY <1>8, <2>1, <2>2 DEF historyVars, ApiTypeOK
<1>9. CASE Restart
  <2>1. SocketsTypeOK'
    BY <1>9, SocketsType DEF Restart, ApiTypeOK
  <2>2. UpdaterInv'
    BY <1>9, IdleType, UpdaterAssumption
       DEF Restart, Fails, ApiTypeOK, UpdaterInv, UpdaterTypeOK, JobSound, At, radarVars,
           redisKeys, Idle, Sampling
  <2> QED  BY <1>9, <2>1, <2>2 DEF Restart, ApiTypeOK
<1> QED
  BY <1>2, <1>3, <1>4, <1>5, <1>6, <1>7, <1>8, <1>9 DEF Next, HandlersStep, ClientsStep, QueriesStep, vars

LEMMA ApiType == Spec => []ApiTypeOK
BY ApiInitType, ApiNextType, PTL DEF Spec

LEMMA PongNext == ApiTypeOK /\ PongInv /\ [Next]_vars => PongInv'
<1> SUFFICES ASSUME ApiTypeOK, PongInv, [Next]_vars PROVE PongInv'
  OBVIOUS
<1>1. ASSUME NEW s \in Sockets, ClientSubscribes(s) PROVE PongInv'
  BY <1>1, SubscribePong DEF ClientSubscribes, ApiTypeOK
<1>2. CASE SocketStep \/ Restart
  BY <1>2, SocketsPong DEF Restart, ApiTypeOK
<1>3. CASE UNCHANGED <<socket, clientId, clients, subscribes, usedIds, owesPong, cutOff>>
  BY <1>3, SocketsPong DEF ApiTypeOK
<1> QED
  BY <1>1, <1>2, <1>3 DEF Next, HandlersStep, ClientsStep, QueriesStep, vars, Announce, UpdateStep, Fault, AskCells, socketVars

\* The server cuts nobody off that has answered its pings, as long as the client
\* keeps to one id (handleConnection, pingAll): a socket that owes no pong is
\* only terminated for an entry under an id it no longer uses.
THEOREM PongersStayHolds == Spec => []PongersStay
<1>1. Init => PongInv
  BY InitPong DEF Init
<1>2. PongInv => PongersStay
  BY DEF PongInv
<1> QED  BY <1>1, <1>2, PongNext, ApiType, PTL DEF Spec

-----------------------------------------------------------------------------
(* Watched airports are sampled *)

\* What a client that has its id to itself has to itself: the one entry.
Alone(s) ==
  /\ usedIds[s] = {clientId[s]}
  /\ \A r \in Sockets \ {s} : clientId[s] \notin usedIds[r]

\* Its entry is in the table and its own, as long as it is connected.
Listed(s) ==
  /\ socket[s] = "new" => usedIds[s] = {}
  /\ usedIds[s] # {} => clientId[s] \in usedIds[s]
  /\ socket[s] = "open" /\ Alone(s) =>
       clientId[s] \in Ids /\ clients[clientId[s]].ws = s

TableInv == \A s \in Sockets : Listed(s)

LEMMA SubscribeTable ==
  ASSUME SocketsTypeOK, PongInv, TableInv, NEW s \in Sockets, NEW c \in ClientIds,
         NEW w \in SUBSET Airports, NEW d \in Thresholds, Subscribe(s, c, w, d)
  PROVE  TableInv'
<1> USE DEF SocketsTypeOK
<1>1. /\ clients'[c] = [ws |-> s, watchlist |-> w, dbz |-> d, alive |-> TRUE]
      /\ \A e \in ClientIds \ {c} : clients'[e] = clients[e]
      /\ clientId'[s] = c /\ usedIds'[s] = usedIds[s] \cup {c} /\ socket[s] = "open"
      /\ \A r \in Sockets \ {s} : clientId'[r] = clientId[r] /\ usedIds'[r] = usedIds[r]
      /\ UNCHANGED socket
  BY DEF Subscribe
<1>2. Listed(s)'
  <2>1. clients'[c] # NoEntry /\ clients'[c].ws = s
    <3>1. [ws |-> s, watchlist |-> w, dbz |-> d, alive |-> TRUE] \in Entry
      BY DEF Entry
    <3>2. [ws |-> s, watchlist |-> w, dbz |-> d, alive |-> TRUE] # NoEntry
      BY <3>1, SocketsAssumption DEF Entry
    <3> QED  BY <1>1, <3>2
  <2>2. clientId'[s] \in Ids' /\ clients'[clientId'[s]].ws = s
    BY <1>1, <2>1 DEF Ids
  <2>3. socket'[s] = "open" /\ clientId'[s] \in usedIds'[s]
    BY <1>1
  <2> QED  BY <2>2, <2>3 DEF Listed
<1>3. ASSUME NEW r \in Sockets \ {s} PROVE Listed(r)'
  <2>1. /\ clientId'[r] = clientId[r] /\ usedIds'[r] = usedIds[r] /\ socket'[r] = socket[r]
        /\ Listed(r)
    BY <1>1 DEF TableInv
  <2>2. Alone(r)' => Alone(r) /\ clientId[r] # c
    BY <1>1, <2>1 DEF Alone
  <2> QED  BY <1>1, <2>1, <2>2 DEF Listed, Ids
<1> QED  BY <1>2, <1>3 DEF TableInv

LEMMA SocketsTable ==
  ASSUME SocketsTypeOK, PongInv, TableInv,
         \/ SocketStep \/ ServerGone
         \/ UNCHANGED <<socket, clientId, clients, subscribes, usedIds, owesPong, cutOff>>
  PROVE  TableInv'
<1> USE DEF SocketsTypeOK
<1>1. CASE UNCHANGED <<socket, clientId, clients, subscribes, usedIds, owesPong, cutOff>>
  BY <1>1 DEF TableInv, Listed, Alone, Ids
<1>2. UNCHANGED <<clientId, usedIds>>
  BY <1>1 DEF SocketStep, Connect, Pong, Hangup, Close, PingAll, ServerGone
<1>3. ASSUME NEW r \in Sockets, Alone(r)' PROVE Alone(r) /\ usedIds[r] # {}
  BY <1>2, <1>3 DEF Alone
<1>4. CASE ServerGone
  BY <1>2, <1>3, <1>4 DEF ServerGone, TableInv, Listed
<1>5. ASSUME NEW s \in Sockets, Connect(s) PROVE TableInv'
  BY <1>2, <1>3, <1>5 DEF Connect, TableInv, Listed, Ids
<1>6. ASSUME NEW s \in Sockets, Hangup(s) PROVE TableInv'
  BY <1>2, <1>3, <1>6 DEF Hangup, TableInv, Listed, Ids
<1>7. ASSUME NEW s \in Sockets, Pong(s) PROVE TableInv'
  <2>1. \A c \in Ids : c \in Ids' /\ clients'[c].ws = clients[c].ws
    BY <1>7, SocketsAssumption DEF Pong, Ids, Entry
  <2> QED  BY <1>2, <1>3, <1>7, <2>1 DEF Pong, TableInv, Listed
<1>8. ASSUME NEW s \in Sockets, Close(s) PROVE TableInv'
  <2> SUFFICES ASSUME NEW r \in Sockets PROVE Listed(r)'
    BY DEF TableInv
  <2>1. CASE r = s
    BY <1>2, <1>8, <2>1 DEF Close, TableInv, Listed
  <2>2. CASE r # s
    <3>1. clientId[s] = NoId \/ clientId[s] \in usedIds[s]
      BY DEF PongInv
    <3>2. Alone(r) => clientId[s] = NoId \/ clientId[r] # clientId[s]
      BY <2>2, <3>1 DEF Alone
    <3> QED  BY <1>2, <1>3, <1>8, <2>2, <3>2 DEF Close, TableInv, Listed, Ids
  <2> QED  BY <2>1, <2>2
<1>9. CASE PingAll
  <2> SUFFICES ASSUME NEW r \in Sockets PROVE Listed(r)'
    BY DEF TableInv
  <2>1. socket'[r] = IF r \in Terminated /\ socket[r] = "open" THEN "closing" ELSE socket[r]
    BY <1>9 DEF PingAll
  <2>2. CASE socket'[r] = "open" /\ Alone(r)'
    <3> DEFINE c == clientId[r]
    <3>1. c \in Ids /\ clients[c].ws = r /\ r \notin Terminated /\ clients[c] \in Entry
      BY <1>3, <2>1, <2>2 DEF TableInv, Listed, Ids
    <3>2. c \in Ids \ Silent
      BY <3>1 DEF Terminated
    <3>3. clients'[c] = [clients[c] EXCEPT !.alive = FALSE]
      BY <1>9, <3>2 DEF PingAll, Ids
    <3>4. clients'[c] \in Entry /\ clients'[c].ws = r
      BY <3>1, <3>3 DEF Entry
    <3> QED  BY <1>2, <2>1, <2>2, <3>1, <3>4, SocketsAssumption DEF TableInv, Listed, Ids, Entry
  <2> QED  BY <1>2, <2>1, <2>2 DEF TableInv, Listed
<1> QED  BY <1>1, <1>4, <1>5, <1>6, <1>7, <1>8, <1>9 DEF SocketStep

\* With its id to itself, the one it has used is the one it uses.
LEMMA OwnsIsAlone ==
  ASSUME PongInv, TableInv, NEW s \in Sockets, OwnsItsId(s)
  PROVE  Alone(s)
<1>1. IsFiniteSet(usedIds[s]) /\ Cardinality(usedIds[s]) = 1
  BY DEF PongInv, OwnsItsId
<1>2. PICK c : usedIds[s] = {c}
  BY <1>1, FS_Singleton
<1>3. clientId[s] = c
  BY <1>2 DEF TableInv, Listed
<1> QED  BY <1>2, <1>3 DEF OwnsItsId, Alone

-----------------------------------------------------------------------------
(* Watched airports are sampled: the updates *)

\* The airport shows the latest composite.
Fresh(x) == situation[x] # NoValue /\ situation[x].stamp = latestComposite

\* A handler has every airport it saw watched still to do, in hand, or done.
Covers(h) ==
  /\ job[h].step \in {"add", "remove"} => job[h].stale \cap job[h].active = {}
  /\ job[h].step \in {"remove", "list"} => job[h].active \subseteq watchlist
  /\ job[h].step = "latest" => job[h].active \subseteq job[h].todo
  /\ job[h].step \in Sampling \cup {"sample"} =>
       /\ job[h].stamp = latestComposite
       /\ \A x \in job[h].active :
            \/ x \in job[h].todo
            \/ job[h].step \in {"previous", "compare", "store"} /\ x = job[h].subject
            \/ Fresh(x)
  /\ job[h].step = "tell" => \A x \in job[h].active : Fresh(x)

\* The watchlist of a settled client is what the handler saw, or sampled.
Served(s) ==
  s \in settled /\ socket[s] = "open" /\ Alone(s) =>
    /\ \A h \in Busy : clients[clientId[s]].watchlist \subseteq job[h].active
    /\ Quiet => \A x \in clients[clientId[s]].watchlist : Fresh(x)

OneBusy == \A g, h \in Busy : g = h

WatchInv ==
  ~tangled => /\ OneBusy
              /\ \A h \in Busy : Covers(h)
              /\ \A s \in Sockets : Served(s)

LEMMA WatchInit == Init => WatchInv
BY DEF Init, WatchInv, SocketsInit, UpdaterInit, OneBusy, Busy, Served, Idle

\* Only one is busy: it is the one that makes the step.
LEMMA BusyAfter ==
  ASSUME ApiTypeOK, OneBusy, NEW h \in Handlers, h \in Busy, Moves(h)
  PROVE  /\ \A g \in Handlers \ {h} : g \notin Busy /\ g \notin Busy' /\ At(g, "idle")
         /\ OneBusy'
         /\ h \in Busy' <=> job'[h].step # "idle"
         /\ Quiet' <=> job'[h].step = "idle"
BY DEF OneBusy, Busy, Moves, Quiet, At

LEMMA UpdateBusy ==
  ASSUME NEW h \in Handlers, HandlerStep(h) \/ HandlerFault(h) \/ Tell(h)
  PROVE  h \in Busy
BY DEF Busy, At, HandlerStep, SyncRead, SyncAdd, SyncRemove, ListWatched, ReadLatest,
       SampleAirport, ReadPrevious, CompareAirport, StoreSituation, StorePrevious,
       RecordHistory, Summarise, HandlerFault, AirportFails, SummariseFails, HandlerFails, Tell

\* No step of a handler but the storing of a situation changes one.
LEMMA SituationKept ==
  ASSUME NEW h \in Handlers, HandlerStep(h) \/ HandlerFault(h) \/ Tell(h),
         ~StoreSituation(h)
  PROVE  UNCHANGED situation
BY DEF redisKeys, HandlerStep, SyncRead, SyncAdd, SyncRemove, ListWatched, ReadLatest,
       SampleAirport, ReadPrevious, CompareAirport, StorePrevious, RecordHistory, Summarise,
       HandlerFault, AirportFails, SummariseFails, HandlerFails, Tell

LEMMA UpdateCovers ==
  ASSUME ApiTypeOK, NEW h \in Handlers, HandlerStep(h), Covers(h)
  PROVE  Covers(h)' /\ job'[h].active = job[h].active /\ job'[h].step # "idle"
<1>1. UpdaterInv /\ Moves(h) /\ UNCHANGED latestComposite
  BY UpdateSound DEF ApiTypeOK, radarVars
<1>2. ~StoreSituation(h) => UNCHANGED situation
  BY SituationKept
<1>3. CASE SyncRead(h)
  <2>1. job[h].step = "sync"
    BY <1>3 DEF SyncRead, At
  <2>2. UNCHANGED watchlist
    BY <1>3 DEF SyncRead, redisKeys
  <2> QED  BY <1>1, <1>3, <2>1, <2>2, SyncReadJob DEF Covers, Sampling
<1>4. CASE SyncAdd(h)
  <2>1. job[h].step = "add" /\ watchlist' = watchlist \cup job[h].active
    BY <1>4 DEF SyncAdd, At
  <2> QED  BY <1>1, <1>4, <2>1, SyncAddJob DEF Covers, Sampling, KeepsSync
<1>5. CASE SyncRemove(h)
  <2>1. job[h].step = "remove" /\ watchlist' = watchlist \ job[h].stale
    BY <1>5 DEF SyncRemove, At
  <2>2. job[h].stale \cap job[h].active = {} => job[h].active \cap watchlist \subseteq watchlist'
    BY <2>1
  <2>3. job'[h].step = "list" /\ KeepsSync(h)
    BY <1>1, <1>5, SyncRemoveJob
  <2> QED  BY <1>1, <2>1, <2>3 DEF Covers, Sampling, KeepsSync
<1>6. CASE ListWatched(h)
  <2>1. job[h].step = "list"
    BY <1>6 DEF ListWatched, At
  <2> QED  BY <1>1, <1>6, <2>1, ListWatchedJob DEF Covers, Sampling, KeepsSync
<1>7. CASE ReadLatest(h)
  <2>1. job[h].step = "latest"
    BY <1>7 DEF ReadLatest, At
  <2> QED  BY <1>1, <1>7, <2>1, ReadLatestJob DEF Covers, Sampling, KeepsSync, KeepsTodo
<1>8. ASSUME NEW x \in Airports, SampleAirport(h, x)
      PROVE  Covers(h)' /\ job'[h].active = job[h].active /\ job'[h].step # "idle"
  <2>1. job[h].step = "sample" /\ UNCHANGED situation
    BY <1>8 DEF SampleAirport, At, redisKeys
  <2> QED
    BY <1>1, <1>8, <2>1, SampleJob DEF Covers, Sampling, KeepsSync, KeepsFrame, Fresh
<1>9. CASE ReadPrevious(h)
  <2>1. job[h].step = "previous" /\ UNCHANGED situation
    BY <1>9 DEF ReadPrevious, At, redisKeys
  <2> QED
    BY <1>1, <1>9, <2>1, ReadPreviousJob
       DEF Covers, Sampling, KeepsSync, KeepsFrame, KeepsTodo, KeepsAirport, Fresh
<1>10. CASE CompareAirport(h)
  <2>1. job[h].step = "compare" /\ UNCHANGED situation
    BY <1>10 DEF CompareAirport, At, redisKeys
  <2> QED
    BY <1>1, <1>10, <2>1, CompareJob
       DEF Covers, Sampling, KeepsSync, KeepsFrame, KeepsTodo, KeepsAirport, Fresh
<1>11. CASE StoreSituation(h)
  <2>1. job[h].step = "store"
    BY <1>11 DEF StoreSituation, At
  <2>2. job[h].active \in SUBSET Airports
    BY DEF ApiTypeOK, UpdaterInv, UpdaterTypeOK, Job
  <2> QED
    BY <1>1, <1>11, <2>1, <2>2, Stored, StoreJob
       DEF Covers, Sampling, KeepsSync, KeepsFrame, KeepsTodo, KeepsAirport, Fresh
<1>12. CASE StorePrevious(h)
  <2>1. job[h].step = "storePrevious" /\ UNCHANGED situation
    BY <1>12 DEF StorePrevious, At
  <2> QED
    BY <1>1, <1>12, <2>1, StorePreviousJob
       DEF Covers, Sampling, KeepsSync, KeepsFrame, KeepsTodo, KeepsAirport, Fresh
<1>13. CASE RecordHistory(h)
  <2>1. job[h].step = "record" /\ UNCHANGED situation /\ NextAirport(h)
    BY <1>13 DEF RecordHistory, At
  <2> QED
    BY <1>1, <2>1, NextJob DEF Covers, Sampling, KeepsSync, KeepsFrame, KeepsTodo, Fresh
<1>14. CASE Summarise(h)
  <2>1. job[h].step = "sample" /\ job[h].todo = {} /\ UNCHANGED situation
    BY <1>14 DEF Summarise, At
  <2> QED
    BY <1>1, <1>14, <2>1, SummariseJob DEF Covers, Sampling, KeepsSync, Fresh
<1> QED
  BY <1>3, <1>4, <1>5, <1>6, <1>7, <1>8, <1>9, <1>10, <1>11, <1>12, <1>13, <1>14
     DEF HandlerStep

LEMMA AnnounceWatch ==
  ASSUME ApiTypeOK, TableInv, NEW h \in Handlers, Announce(h)
  PROVE  WatchInv'
<1> SUFFICES ASSUME ~tangled' PROVE OneBusy' /\ (\A g \in Busy' : Covers(g)') /\ \A s \in Sockets : Served(s)'
  BY DEF WatchInv
<1>1. PICK t \in Stamps, skies \in [Airports -> Skies] : NewFrame(h, t, skies)
  BY DEF Announce
<1>2. Busy = {}
  BY DEF Announce
<1>3. /\ \A g \in Handlers \ {h} : job'[g].step = "idle"
      /\ job'[h].step = "sync" /\ job'[h].active = getWatchedAirports
  BY <1>1, <1>2, IdleType DEF NewFrame, Busy, ApiTypeOK, UpdaterInv, UpdaterTypeOK, Job
<1>4. Busy' = {h} /\ ~Quiet'
  BY <1>3 DEF Busy, Quiet
<1>5. Covers(h)'
  BY <1>3 DEF Covers, Sampling
<1>6. ASSUME NEW s \in Sockets PROVE Served(s)'
  <2> SUFFICES ASSUME (s \in settled /\ socket[s] = "open" /\ Alone(s))'
               PROVE  (clients[clientId[s]].watchlist)' \subseteq job'[h].active
    BY <1>4 DEF Served
  <2>1. UNCHANGED <<socket, clientId, clients, usedIds>>
    BY DEF Announce, socketVars
  <2>2. socket[s] = "open" /\ Alone(s)
    BY <2>1 DEF Alone
  <2>3. clientId[s] \in Ids
    BY <2>2 DEF TableInv, Listed
  <2> QED  BY <1>3, <2>1, <2>3 DEF getWatchedAirports
<1> QED  BY <1>4, <1>5, <1>6 DEF OneBusy

LEMMA UpdateWatch ==
  ASSUME ApiTypeOK, TableInv, WatchInv, NEW h \in Handlers, UpdateStep(h)
  PROVE  WatchInv'
<1>1. UNCHANGED <<socket, clientId, clients, usedIds, tangled, settled>>
  BY DEF UpdateStep, socketVars, historyVars
<1> SUFFICES ASSUME ~tangled
             PROVE OneBusy' /\ (\A g \in Busy' : Covers(g)') /\ \A s \in Sockets : Served(s)'
  BY <1>1 DEF WatchInv
<1>2. h \in Busy /\ OneBusy /\ Covers(h) /\ \A s \in Sockets : Served(s)
  BY UpdateBusy DEF UpdateStep, WatchInv
<1>3. Moves(h)
  BY UpdateSound DEF UpdateStep, ApiTypeOK
<1>4. CASE HandlerStep(h)
  <2>1. Covers(h)' /\ job'[h].active = job[h].active /\ job'[h].step # "idle"
    BY <1>2, <1>4, UpdateCovers
  <2>2. OneBusy' /\ Busy' = {h} /\ ~Quiet'
    BY <1>2, <1>3, <2>1, BusyAfter DEF Busy
  <2>3. ASSUME NEW s \in Sockets PROVE Served(s)'
    BY <1>1, <1>2, <2>1, <2>2 DEF Served, Alone
  <2> QED  BY <2>1, <2>2, <2>3
<1>5. CASE Tell(h)
  <2>1. job'[h] = Idle /\ UNCHANGED <<situation, latestComposite>>
    BY <1>5, DoneJob DEF Tell, ApiTypeOK, redisKeys, radarVars
  <2>2. OneBusy' /\ Busy' = {} /\ Quiet'
    BY <1>2, <1>3, <2>1, BusyAfter DEF Busy, Idle
  <2>3. \A x \in job[h].active : Fresh(x)
    BY <1>2, <1>5 DEF Tell, At, Covers
  <2>4. ASSUME NEW s \in Sockets PROVE Served(s)'
    BY <1>1, <1>2, <2>1, <2>2, <2>3 DEF Served, Alone, Fresh
  <2> QED  BY <2>2, <2>4
<1> QED  BY <1>4, <1>5 DEF UpdateStep

\* A subscription unsettles its socket and leaves those with an id of their own
\* alone.
LEMMA SubscribeWatch ==
  ASSUME ApiTypeOK, WatchInv, NEW s \in Sockets, ClientSubscribes(s)
  PROVE  WatchInv'
<1>1. PICK c \in ClientIds, w \in SUBSET Airports, d \in Thresholds : Subscribe(s, c, w, d)
  BY DEF ClientSubscribes
<1>2. UNCHANGED <<updaterVars, tangled>> /\ settled' = settled \ {s}
  BY DEF ClientSubscribes
<1>3. /\ \A e \in ClientIds \ {c} : clients'[e] = clients[e]
      /\ \A r \in Sockets \ {s} : clientId'[r] = clientId[r] /\ usedIds'[r] = usedIds[r]
      /\ usedIds'[s] = usedIds[s] \cup {c} /\ UNCHANGED socket
  BY <1>1 DEF Subscribe, ApiTypeOK, SocketsTypeOK
<1>4. ASSUME NEW r \in Sockets, Served(r) PROVE Served(r)'
  <2> SUFFICES ASSUME r \in settled', socket'[r] = "open", Alone(r)' PROVE Served(r)'
    BY DEF Served
  <2>1. r # s /\ r \in settled /\ socket[r] = "open"
    BY <1>2, <1>3
  <2>2. Alone(r) /\ clientId[r] # c
    BY <1>3, <2>1 DEF Alone
  <2>3. clientId[r] \in ClientIds
    BY <2>2 DEF Alone, ApiTypeOK, SocketsTypeOK
  <2>4. clients'[clientId'[r]] = clients[clientId[r]]
    BY <1>3, <2>1, <2>2, <2>3
  <2> QED  BY <1>2, <1>4, <2>1, <2>2, <2>4
           DEF Served, updaterVars, radarVars, redisKeys, Busy, Quiet, Fresh
<1> QED
  BY <1>2, <1>4 DEF WatchInv, OneBusy, Busy, Covers, Fresh, updaterVars, radarVars, redisKeys

\* The sockets come, go and answer pings: no watchlist changes.
LEMMA SocketsWatch ==
  ASSUME ApiTypeOK, TableInv, TableInv', WatchInv, SocketStep,
         UNCHANGED <<updaterVars, historyVars>>
  PROVE  WatchInv'
<1>1. UNCHANGED <<clientId, usedIds>> /\ \A s \in Sockets : socket'[s] = "open" => socket[s] \in {"new", "open"}
  BY DEF SocketStep, Connect, Pong, Hangup, Close, PingAll, ApiTypeOK, SocketsTypeOK
<1>2. \A c \in Ids' : c \in Ids /\ clients'[c].watchlist = clients[c].watchlist
  <2>1. CASE PingAll
    <3>1. \A c \in Ids \ Silent : [clients[c] EXCEPT !.alive = FALSE].watchlist = clients[c].watchlist
      BY DEF Ids, Entry, ApiTypeOK, SocketsTypeOK
    <3> QED  BY <2>1, <3>1 DEF PingAll, Ids
  <2>2. ASSUME NEW s \in Sockets, Pong(s)
        PROVE  \A c \in Ids' : c \in Ids /\ clients'[c].watchlist = clients[c].watchlist
    BY <2>2 DEF Pong, Ids, Entry, ApiTypeOK, SocketsTypeOK
  <2>3. ASSUME NEW s \in Sockets, Connect(s) \/ Hangup(s) \/ Close(s)
        PROVE  \A c \in Ids' : c \in Ids /\ clients'[c].watchlist = clients[c].watchlist
    BY <2>3 DEF Connect, Hangup, Close, Ids, ApiTypeOK, SocketsTypeOK
  <2> QED  BY <2>1, <2>2, <2>3 DEF SocketStep
<1>3. ASSUME NEW r \in Sockets, Served(r) PROVE Served(r)'
  <2> SUFFICES ASSUME r \in settled', socket'[r] = "open", Alone(r)' PROVE Served(r)'
    BY DEF Served
  <2>1. Alone(r) /\ r \in settled
    BY <1>1 DEF Alone, historyVars
  <2>2. socket[r] = "open"
    BY <1>1, <2>1 DEF TableInv, Listed, Alone
  <2>3. clientId[r] \in Ids'
    BY <1>1 DEF TableInv, Listed
  <2> QED
    BY <1>1, <1>2, <1>3, <2>1, <2>2, <2>3
       DEF Served, updaterVars, radarVars, redisKeys, Busy, Quiet, Fresh
<1> QED
  BY <1>3
     DEF WatchInv, OneBusy, Busy, Covers, Fresh, updaterVars, historyVars, radarVars, redisKeys

LEMMA WatchNext ==
  ApiTypeOK /\ PongInv /\ TableInv /\ WatchInv /\ [Next]_vars => TableInv' /\ WatchInv'
<1> SUFFICES ASSUME ApiTypeOK, PongInv, TableInv, WatchInv, [Next]_vars
             PROVE  TableInv' /\ WatchInv'
  OBVIOUS
<1>1. TableInv'
  <2>1. ASSUME NEW s \in Sockets, ClientSubscribes(s) PROVE TableInv'
    BY <2>1, SubscribeTable DEF ClientSubscribes, ApiTypeOK
  <2>2. CASE SocketStep \/ Restart
    BY <2>2, SocketsTable DEF Restart, ApiTypeOK
  <2>3. CASE UNCHANGED <<socket, clientId, clients, subscribes, usedIds, owesPong, cutOff>>
    BY <2>3, SocketsTable DEF ApiTypeOK
  <2> QED
    BY <2>1, <2>2, <2>3
       DEF Next, HandlersStep, ClientsStep, QueriesStep, vars, Announce, UpdateStep, Fault, AskCells, socketVars
<1>2. ASSUME UNCHANGED <<socketVars, historyVars, latestComposite, redisKeys, job>>
      PROVE  WatchInv'
  BY <1>2 DEF WatchInv, OneBusy, Busy, Covers, Served, Alone, Quiet, Fresh, socketVars,
              historyVars, redisKeys
<1>3. ASSUME NEW h \in Handlers, Fault(h) PROVE WatchInv'
  BY <1>3 DEF Fault, WatchInv
<1>4. ASSUME Restart PROVE WatchInv'
  BY <1>4 DEF Restart, WatchInv
<1>5. CASE SocketStep /\ UNCHANGED <<updaterVars, cellVars, historyVars>>
  BY <1>1, <1>5, SocketsWatch
<1> QED
  BY <1>1, <1>2, <1>3, <1>4, <1>5, AnnounceWatch, UpdateWatch, SubscribeWatch
     DEF Next, HandlersStep, ClientsStep, QueriesStep, vars, updaterVars, radarVars, TimePasses, AskCells

\* A client that has its id to itself and subscribed before the last composite
\* is in the table, and when the update of that composite is over, alone and
\* without a failed call, each of its airports shows that composite
\* (ws/aviation.ts, syncWatchlist, processNewFrame).
THEOREM WatchedSampledHolds == Spec => []WatchedSampled
<1>1. Init => PongInv /\ TableInv /\ WatchInv
  BY InitPong, WatchInit, SocketsAssumption DEF Init, TableInv, Listed, SocketsInit
<1>2. ApiTypeOK /\ PongInv /\ [Next]_vars => PongInv'
  BY PongNext
<1>3. ApiTypeOK /\ PongInv /\ TableInv /\ WatchInv => WatchedSampled
  BY OwnsIsAlone DEF WatchedSampled, WatchInv, TableInv, Listed, Served, Fresh, ApiTypeOK
<1> QED  BY <1>1, <1>2, <1>3, WatchNext, ApiType, PTL DEF Spec

-----------------------------------------------------------------------------
(* The keys of an airport agree *)

Agreed(x) ==
  situation[x] # NoValue =>
    /\ previous[x] = situation[x].rings[50].maxDbz
    /\ situation[x].stamp > clock - HistoryHours =>
         [stamp |-> situation[x].stamp, rings |-> situation[x].rings] \in history[x]

InHand(h, x) == job[h].step \in Sampling /\ x = job[h].subject

\* What a handler has written of the airport in hand.
Written(h) ==
  /\ job[h].step \in {"storePrevious", "record"} =>
       /\ situation[job[h].subject] # NoValue
       /\ situation[job[h].subject].rings = job[h].rings
       /\ situation[job[h].subject].stamp = job[h].stamp
  /\ job[h].step = "record" => previous[job[h].subject] = job[h].rings[50].maxDbz

SummaryAgrees ==
  watchlist # {} => summary.affected = Affected

\* A handler has every airport of the watchlist still to do, in hand, or done.
Works(h) ==
  /\ job[h].step = "latest" => watchlist \subseteq job[h].todo
  /\ job[h].step \in Sampling \cup {"sample"} =>
       \A x \in watchlist : x \in job[h].todo \/ InHand(h, x) \/ Agreed(x)
  /\ Written(h)
  /\ job[h].step = "tell" => (\A x \in watchlist : Agreed(x)) /\ SummaryAgrees

AgreeInv ==
  ~tangled => /\ OneBusy
              /\ \A h \in Busy : Works(h)
              /\ Quiet => (\A x \in watchlist : Agreed(x)) /\ SummaryAgrees

LEMMA AgreeInit == Init => AgreeInv
BY DEF Init, AgreeInv, UpdaterInit, OneBusy, Busy, Idle, SummaryAgrees

\* What an airport says is still so when its keys are as they were and no more
\* of its history has expired than before.
LEMMA AgreedKept ==
  ASSUME ApiTypeOK, ApiTypeOK', NEW x \in Airports, Agreed(x),
         situation'[x] = situation[x], previous'[x] = previous[x],
         history'[x] = history[x], clock' >= clock
  PROVE  Agreed(x)'
<1>1. situation[x] # NoValue => situation[x].stamp \in Nat
  BY DEF ApiTypeOK, UpdaterInv, UpdaterTypeOK, Situation, Stamps
<1>2. clock \in Nat /\ clock' \in Nat /\ HistoryHours \in Nat
  BY UpdaterAssumption DEF ApiTypeOK, UpdaterInv, UpdaterTypeOK
<1>3. situation[x] # NoValue /\ situation[x].stamp > clock' - HistoryHours =>
        situation[x].stamp > clock - HistoryHours
  BY <1>1, <1>2
<1> QED  BY <1>3 DEF Agreed

LEMMA UpdateWorks ==
  ASSUME ApiTypeOK, ApiTypeOK', NEW h \in Handlers, HandlerStep(h), Works(h)
  PROVE  Works(h)' /\ job'[h].step # "idle"
<1>1. UpdaterInv /\ UpdaterInv' /\ UNCHANGED <<clock, latestComposite>>
  BY UpdateSound DEF ApiTypeOK, radarVars
<1>2. ASSUME UNCHANGED <<situation, previous, history>>
      PROVE  \A x \in Airports : Agreed(x) => Agreed(x)'
  BY <1>1, <1>2 DEF Agreed
<1>3. watchlist \in SUBSET Airports
  BY <1>1 DEF UpdaterInv, UpdaterTypeOK
<1>4. CASE SyncRead(h)
  BY <1>1, <1>4, SyncReadJob DEF Works, Written, Sampling
<1>5. CASE SyncAdd(h)
  BY <1>1, <1>5, SyncAddJob DEF Works, Written, Sampling
<1>6. CASE SyncRemove(h)
  BY <1>1, <1>6, SyncRemoveJob DEF Works, Written, Sampling
<1>7. CASE ListWatched(h)
  <2>1. UNCHANGED watchlist
    BY <1>7 DEF ListWatched, redisKeys
  <2> QED  BY <1>1, <1>7, <2>1, ListWatchedJob DEF Works, Written, Sampling, SummaryAgrees
<1>8. CASE ReadLatest(h)
  <2>1. job[h].step = "latest" /\ UNCHANGED watchlist
    BY <1>8 DEF ReadLatest, At, redisKeys
  <2> QED  BY <1>1, <1>8, <2>1, ReadLatestJob DEF Works, Written, Sampling, KeepsTodo
<1>9. ASSUME NEW x \in Airports, SampleAirport(h, x)
      PROVE  Works(h)' /\ job'[h].step # "idle"
  <2>1. job[h].step = "sample" /\ UNCHANGED <<watchlist, situation, previous, history>>
    BY <1>9 DEF SampleAirport, At, redisKeys
  <2> QED  BY <1>1, <1>2, <1>3, <1>9, <2>1, SampleJob DEF Works, Written, InHand, Sampling
<1>10. CASE ReadPrevious(h)
  <2>1. job[h].step = "previous" /\ UNCHANGED <<watchlist, situation, previous, history>>
    BY <1>10 DEF ReadPrevious, At, redisKeys
  <2> QED
    BY <1>1, <1>2, <1>3, <1>10, <2>1, ReadPreviousJob
       DEF Works, Written, InHand, Sampling, KeepsTodo, KeepsAirport
<1>11. CASE CompareAirport(h)
  <2>1. job[h].step = "compare" /\ UNCHANGED <<watchlist, situation, previous, history>>
    BY <1>11 DEF CompareAirport, At, redisKeys
  <2> QED
    BY <1>1, <1>2, <1>3, <1>11, <2>1, CompareJob
       DEF Works, Written, InHand, Sampling, KeepsTodo, KeepsAirport
<1>12. CASE StoreSituation(h)
  <2>1. job[h].step = "store" /\ UNCHANGED <<watchlist, previous, history>>
    BY <1>12 DEF StoreSituation, At
  <2>2. \A x \in Airports \ {job[h].subject} : Agreed(x) => Agreed(x)'
    BY <1>1, <1>12, <2>1, Stored DEF Agreed
  <2>3. Written(h)'
    BY <1>1, <1>12, Stored, StoreJob DEF Written, KeepsAirport, KeepsFrame
  <2> QED
    BY <1>1, <1>3, <1>12, <2>1, <2>2, <2>3, StoreJob
       DEF Works, InHand, Sampling, KeepsTodo, KeepsAirport
<1>13. CASE StorePrevious(h)
  <2>1. /\ job[h].step = "storePrevious" /\ UNCHANGED <<watchlist, situation, history>>
        /\ job[h].subject \in Airports
        /\ previous'[job[h].subject] = job[h].rings[50].maxDbz
        /\ \A x \in Airports \ {job[h].subject} : previous'[x] = previous[x]
    BY <1>1, <1>13
       DEF StorePrevious, At, UpdaterInv, UpdaterTypeOK, JobSound, Sampling
  <2>2. \A x \in Airports \ {job[h].subject} : Agreed(x) => Agreed(x)'
    BY <1>1, <2>1 DEF Agreed
  <2>3. Written(h)'
    BY <1>1, <1>13, <2>1, StorePreviousJob DEF Works, Written, KeepsAirport, KeepsFrame
  <2> QED
    BY <1>1, <1>3, <1>13, <2>1, <2>2, <2>3, StorePreviousJob
       DEF Works, InHand, Sampling, KeepsTodo, KeepsAirport
<1>14. CASE RecordHistory(h)
  <2> DEFINE entry == [stamp |-> job[h].stamp, rings |-> job[h].rings]
  <2>1. /\ job[h].step = "record" /\ UNCHANGED <<watchlist, situation, previous>>
        /\ job[h].subject \in Airports
        /\ history'[job[h].subject] =
             {e \in history[job[h].subject] \cup {entry} : e.stamp > clock - HistoryHours}
        /\ \A x \in Airports \ {job[h].subject} : history'[x] = history[x]
        /\ NextAirport(h)
    BY <1>1, <1>14
       DEF RecordHistory, At, UpdaterInv, UpdaterTypeOK, JobSound, Sampling
  <2>2. \A x \in Airports \ {job[h].subject} : Agreed(x) => Agreed(x)'
    BY <1>1, <2>1 DEF Agreed
  <2>3. PICK y \in Airports : y = job[h].subject
    BY <2>1
  <2>4. Agreed(y)'
    <3>1. /\ situation[y].rings = job[h].rings
          /\ situation[y].stamp = job[h].stamp
          /\ previous[y] = job[h].rings[50].maxDbz
      BY <2>1, <2>3 DEF Works, Written
    <3>2. entry.stamp = job[h].stamp
      OBVIOUS
    <3>3. job[h].stamp > clock - HistoryHours => entry \in history'[y]
      BY <2>1, <2>3, <3>2
    <3>4. [stamp |-> situation'[y].stamp,
           rings |-> situation'[y].rings] = entry
      BY <2>1, <2>3, <3>1
    <3>5. clock' = clock /\ situation'[y].stamp = job[h].stamp
          /\ previous'[y] = situation'[y].rings[50].maxDbz
      BY <1>1, <2>1, <2>3, <3>1
    <3> HIDE DEF entry
    <3> QED  BY <3>3, <3>4, <3>5 DEF Agreed
  <2>5. job'[h].step = "sample" /\ job'[h].todo = job[h].todo
    BY <1>1, <2>1, NextJob DEF KeepsTodo
  <2>6. \A x \in watchlist : x \in job[h].todo \/ x = job[h].subject \/ Agreed(x)
    BY <2>1 DEF Works, InHand, Sampling
  <2>7. \A x \in watchlist' : x \in job'[h].todo \/ Agreed(x)'
    BY <1>3, <2>1, <2>2, <2>3, <2>4, <2>5, <2>6
  <2> QED  BY <2>5, <2>7 DEF Works, Written
<1>15. CASE Summarise(h)
  <2>1. /\ job[h].step = "sample" /\ job[h].todo = {}
        /\ UNCHANGED <<watchlist, situation, previous, history>>
        /\ summary' = [stamp |-> job[h].stamp, affected |-> Affected, status |-> job[h].status]
    BY <1>15 DEF Summarise, At
  <2>2. summary'.affected = Affected'
    BY <2>1 DEF Affected
  <2>3. \A x \in watchlist : Agreed(x)'
    BY <1>2, <1>3, <2>1 DEF Works, Written, InHand, Sampling
  <2> QED
    BY <1>1, <1>15, <2>1, <2>2, <2>3, SummariseJob DEF Works, Written, Sampling, SummaryAgrees
<1> QED
  BY <1>4, <1>5, <1>6, <1>7, <1>8, <1>9, <1>10, <1>11, <1>12, <1>13, <1>14, <1>15
     DEF HandlerStep

LEMMA AgreeNext == ApiTypeOK /\ AgreeInv /\ [Next]_vars => AgreeInv'
<1> SUFFICES ASSUME ApiTypeOK, AgreeInv, [Next]_vars PROVE AgreeInv'
  OBVIOUS
<1>1. ApiTypeOK'
  BY ApiNextType
<1>2. ASSUME NEW h \in Handlers, Announce(h) PROVE AgreeInv'
  <2> SUFFICES ASSUME Busy = {}
               PROVE  OneBusy' /\ (\A g \in Busy' : Works(g)') /\ ~Quiet'
    BY <1>2 DEF AgreeInv, Announce
  <2>1. PICK t \in Stamps, skies \in [Airports -> Skies] : NewFrame(h, t, skies)
    BY <1>2 DEF Announce
  <2>2. job'[h].step = "sync" /\ \A g \in Handlers \ {h} : job'[g].step = "idle"
    BY <2>1, IdleType DEF NewFrame, Busy, ApiTypeOK, UpdaterInv, UpdaterTypeOK, Job
  <2> QED  BY <2>2 DEF OneBusy, Busy, Quiet, Works, Written, Sampling
<1>3. ASSUME NEW h \in Handlers, UpdateStep(h) PROVE AgreeInv'
  <2>1. UNCHANGED tangled
    BY <1>3 DEF UpdateStep, historyVars
  <2> SUFFICES ASSUME ~tangled
               PROVE  /\ OneBusy' /\ \A g \in Busy' : Works(g)'
                      /\ Quiet' => ((\A x \in watchlist : Agreed(x)) /\ SummaryAgrees)'
    BY <2>1 DEF AgreeInv
  <2>2. h \in Busy /\ OneBusy /\ Works(h)
    BY <1>3, UpdateBusy DEF UpdateStep, AgreeInv
  <2>3. Moves(h)
    BY <1>3, UpdateSound DEF UpdateStep, ApiTypeOK
  <2>4. CASE HandlerStep(h)
    <3>1. Works(h)' /\ job'[h].step # "idle"
      BY <1>1, <2>2, <2>4, UpdateWorks
    <3>2. OneBusy' /\ Busy' = {h} /\ ~Quiet'
      BY <2>2, <2>3, <3>1, BusyAfter DEF Busy
    <3> QED  BY <3>1, <3>2
  <2>5. CASE Tell(h)
    <3>1. job'[h] = Idle /\ UNCHANGED <<radarVars, redisKeys>>
      BY <2>5, DoneJob DEF Tell, ApiTypeOK
    <3>2. OneBusy' /\ Busy' = {}
      BY <2>2, <2>3, <3>1, BusyAfter DEF Busy, Idle
    <3>3. (\A x \in watchlist : Agreed(x)) /\ SummaryAgrees
      BY <2>2, <2>5 DEF Works, Tell, At
    <3>4. ((\A x \in watchlist : Agreed(x)) /\ SummaryAgrees)'
      BY <3>1, <3>3 DEF Agreed, SummaryAgrees, Affected, radarVars, redisKeys
    <3> QED  BY <3>2, <3>4
  <2> QED  BY <1>3, <2>4, <2>5 DEF UpdateStep
<1>4. ASSUME NEW h \in Handlers, Fault(h) PROVE AgreeInv'
  BY <1>4 DEF Fault, AgreeInv
<1>5. ASSUME Restart PROVE AgreeInv'
  BY <1>5 DEF Restart, AgreeInv
<1>6. ASSUME UNCHANGED <<redisKeys, job, tangled>>, clock' >= clock PROVE AgreeInv'
  <2>1. \A x \in watchlist : Agreed(x) => Agreed(x)'
    <3>1. UNCHANGED <<situation, previous, history>> /\ watchlist \in SUBSET Airports
      BY <1>6 DEF redisKeys, ApiTypeOK, UpdaterInv, UpdaterTypeOK
    <3> QED  BY <1>1, <1>6, <3>1, AgreedKept
  <2>2. UNCHANGED <<watchlist, situation, previous, summary, job, tangled, Busy>>
    BY <1>6 DEF redisKeys, Busy
  <2>3. SummaryAgrees => SummaryAgrees'
    BY <2>2 DEF SummaryAgrees, Affected
  <2>4. ASSUME NEW h \in Handlers, Works(h) PROVE Works(h)'
    BY <2>1, <2>2, <2>3, <2>4 DEF Works, Written, InHand
  <2>5. \A h \in Busy : h \in Handlers
    BY DEF Busy
  <2> QED  BY <2>1, <2>2, <2>3, <2>4, <2>5 DEF AgreeInv, OneBusy, Quiet
<1>7. clock \in Nat
  BY DEF ApiTypeOK, UpdaterInv, UpdaterTypeOK
<1>8. CASE TimePasses /\ UNCHANGED <<socketVars, cellVars, historyVars>>
  BY <1>6, <1>7, <1>8 DEF TimePasses, redisKeys, historyVars
<1>9. ASSUME UNCHANGED <<updaterVars, tangled>> PROVE AgreeInv'
  BY <1>6, <1>7, <1>9 DEF updaterVars, radarVars
<1> QED
  BY <1>2, <1>3, <1>4, <1>5, <1>8, <1>9
     DEF Next, HandlersStep, ClientsStep, QueriesStep, vars, ClientSubscribes, AskCells, historyVars

\* The three keys of an airport, written by separate commands, are of one frame
\* again as soon as an update ran alone and without a failed call, and the
\* summary lists exactly the airports of a region whose situation is not clear,
\* whichever airports the regions have and whatever else is watched
\* (processNewFrame, HistoryManager, REGIONS).
THEOREM KeysAgreeHolds == Spec => []KeysAgree
<1>1. ApiTypeOK /\ AgreeInv => KeysAgree
  <2> SUFFICES ASSUME ApiTypeOK, AgreeInv, Quiet, ~tangled, NEW x \in watchlist,
                      situation[x] # NoValue
               PROVE  /\ previous[x] = situation[x].rings[50].maxDbz
                      /\ situation[x].stamp > clock - HistoryHours =>
                           [stamp |-> situation[x].stamp, rings |-> situation[x].rings] \in history[x]
                      /\ x \in summary.affected <=>
                           x \in RegionAirports /\ situation[x].ramp # "clear"
    BY DEF KeysAgree
  <2>1. x \in Airports
    BY DEF ApiTypeOK, UpdaterInv, UpdaterTypeOK
  <2> QED  BY <2>1 DEF AgreeInv, Agreed, SummaryAgrees, Affected
<1> QED  BY <1>1, AgreeInit, AgreeNext, ApiType, PTL DEF Spec

-----------------------------------------------------------------------------
(* What subscribers are told is current *)

\* Nobody was told, and no handler is about to tell, of an airport that has
\* nothing stored.
Said(s, x) == told[s][x] # "none" => situation[x] # NoValue

SaidInv ==
  /\ \A s \in Sockets, x \in Airports : Said(s, x)
  /\ \A h \in Handlers : \A m \in job[h].messages : situation[m.airport] # NoValue

\* The messages a handler has gathered are of airports it is through with, or
\* of the one it is about to store.
Gathered(h) ==
  /\ job[h].step \in {"idle", "sync", "add", "remove", "list", "latest"} =>
       job[h].messages = {}
  /\ job[h].step \in Sampling => job[h].subject \notin job[h].todo
  /\ \A m \in job[h].messages :
       /\ m.airport \notin job[h].todo
       /\ job[h].step \in {"previous", "compare"} => m.airport # job[h].subject
       /\ m.ramp = IF job[h].step = "store" /\ m.airport = job[h].subject
                   THEN RampOf(job[h].rings) ELSE situation[m.airport].ramp

Announced(h, x) == \E m \in job[h].messages : m.airport = x

\* What the handler is about to store of the airport changes nothing.
Same(h, x) ==
  job[h].step = "store" /\ job[h].subject = x => RampOf(job[h].rings) = situation[x].ramp

Unfiltered(s, c, x) ==
  /\ c \in Ids /\ x \in clients[c].watchlist
  /\ clients[c].ws = s /\ clients[c].dbz = 0 /\ socket[s] = "open"

\* A socket that was told of an airport it watches knows its ramp status, or a
\* message about to go out says it; and what is about to be stored changes
\* nothing that is not announced.
Knows(s, c, x) ==
  Unfiltered(s, c, x) /\ told[s][x] # "none" =>
    \/ \E h \in Handlers : Announced(h, x)
    \/ told[s][x] = situation[x].ramp /\ \A h \in Handlers : Same(h, x)

CurrentInv ==
  ~scarred => /\ OneBusy
              /\ \A h \in Handlers : Gathered(h)
              /\ \A s \in Sockets, c \in ClientIds, x \in Airports : Knows(s, c, x)

LEMMA ToldInit == Init => SaidInv /\ CurrentInv
BY DEF Init, SocketsInit, UpdaterInit, SaidInv, Said, CurrentInv, OneBusy, Busy, Gathered, Idle,
       Sampling, Knows, Untold

LEMMA ChangeFacts ==
  ASSUME NEW x, NEW old, NEW rings
  PROVE  /\ \A m \in Change(x, old, rings) : m.airport = x /\ m.ramp = RampOf(rings)
         /\ Change(x, old, rings) = {} => RampOf(rings) = old.ramp
<1> DEFINE kind == IF RampOf(rings) = "clear" /\ old.ramp # "clear"
                   THEN "all-clear" ELSE "condition-change"
           new  == [kind |-> kind, airport |-> x, severity |-> rings[5].severity,
                    ramp |-> RampOf(rings)]
           same == RampOf(rings) = old.ramp /\ rings[5].severity = old.rings[5].severity
<1>1. Change(x, old, rings) = IF same THEN {} ELSE {new}
  BY DEF Change
<1>2. new.airport = x /\ new.ramp = RampOf(rings)
  OBVIOUS
<1>3. same => RampOf(rings) = old.ramp
  OBVIOUS
<1> HIDE DEF new, same
<1> QED  BY <1>1, <1>2, <1>3

\* An update never takes a situation away.
LEMMA SituationStays ==
  ASSUME UpdaterInv, NEW h \in Handlers, HandlerStep(h) \/ HandlerFault(h) \/ Tell(h),
         NEW x \in Airports, situation[x] # NoValue
  PROVE  situation'[x] # NoValue
BY SituationKept, Stored

\* Messages are only added by a comparison, and they stay until they are told.
LEMMA MessagesKept ==
  ASSUME UpdaterInv, NEW h \in Handlers, HandlerStep(h) \/ AirportFails(h) \/ SummariseFails(h),
         ~CompareAirport(h)
  PROVE  job'[h].messages = job[h].messages
<1>1. RecordHistory(h) \/ AirportFails(h) => KeepsNews(h)
  BY NextJob DEF RecordHistory, AirportFails
<1>2. ASSUME NEW x \in Airports, SampleAirport(h, x) PROVE KeepsNews(h)
  BY <1>2, SampleJob
<1>3. SyncRead(h) => KeepsNews(h)
  BY SyncReadJob
<1>4. SyncAdd(h) => KeepsNews(h)
  BY SyncAddJob
<1>5. SyncRemove(h) => KeepsNews(h)
  BY SyncRemoveJob
<1>6. ListWatched(h) => KeepsNews(h)
  BY ListWatchedJob
<1>7. ReadLatest(h) => KeepsNews(h)
  BY ReadLatestJob
<1>8. ReadPrevious(h) => KeepsNews(h)
  BY ReadPreviousJob
<1>9. StoreSituation(h) => KeepsNews(h)
  BY StoreJob
<1>10. StorePrevious(h) => KeepsNews(h)
  BY StorePreviousJob
<1>11. Summarise(h) \/ SummariseFails(h) => KeepsNews(h)
  BY SummariseJob
<1> QED
  BY <1>1, <1>2, <1>3, <1>4, <1>5, <1>6, <1>7, <1>8, <1>9, <1>10, <1>11
     DEF HandlerStep, KeepsNews

\* What a message says is a message's airport.
LEMMA MessageAirport ==
  ASSUME UpdaterInv, NEW h \in Handlers, NEW m \in job[h].messages
  PROVE  m \in Message /\ m.airport \in Airports
BY DEF UpdaterInv, UpdaterTypeOK, Job, Message

LEMMA UpdateSaid ==
  ASSUME ApiTypeOK, SaidInv, NEW h \in Handlers, HandlerStep(h) \/ HandlerFault(h) \/ Tell(h)
  PROVE  \A g \in Handlers : \A m \in job'[g].messages : situation'[m.airport] # NoValue
<1>1. UpdaterInv /\ Moves(h)
  BY UpdateSound DEF ApiTypeOK
<1>2. ASSUME NEW g \in Handlers, NEW m \in job[g].messages PROVE situation'[m.airport] # NoValue
  BY <1>1, SituationStays, MessageAirport DEF SaidInv
<1>3. CASE CompareAirport(h)
  <2>1. UNCHANGED situation /\ job[h].subject \in Airports
    BY <1>1, <1>3
       DEF CompareAirport, redisKeys, UpdaterInv, UpdaterTypeOK, JobSound, At, Sampling
  <2>2. \A m \in News(h) : situation[m.airport] # NoValue
    BY ChangeFacts DEF News
  <2> QED  BY <1>1, <1>2, <1>3, <2>1, <2>2, CompareJob DEF Moves
<1>4. CASE Tell(h) \/ HandlerFails(h)
  BY <1>1, <1>2, <1>4, DoneJob DEF Tell, HandlerFails, Moves, Idle
<1>5. CASE ~CompareAirport(h) /\ ~(Tell(h) \/ HandlerFails(h))
  BY <1>1, <1>2, <1>5, MessagesKept DEF Moves, HandlerFault
<1> QED  BY <1>3, <1>4, <1>5

\* What is told is one of the messages, and whoever wants one gets it.
LEMMA BroadcastFacts ==
  ASSUME SocketsTypeOK, NEW messages \in SUBSET Message, Broadcast(messages),
         NEW s \in Sockets, NEW x \in Airports
  PROVE  /\ \/ told'[s][x] = told[s][x]
            \/ \E m \in messages : m.airport = x /\ told'[s][x] = m.ramp
         /\ \A c \in Ids, m \in messages :
              m.airport = x /\ socket[s] = "open" /\ clients[c].ws = s /\ Wants(c, m)
                => \E n \in messages : n.airport = x /\ told'[s][x] = n.ramp
<1> DEFINE sent == {m \in messages : m.airport = x /\ socket[s] = "open" /\
                      \E c \in Ids : clients[c].ws = s /\ Wants(c, m)}
<1>1. told'[s][x] = IF sent = {} THEN told[s][x] ELSE (CHOOSE m \in sent : TRUE).ramp
  BY DEF Broadcast
<1>2. ASSUME sent # {}
      PROVE  \E m \in messages : m.airport = x /\ told'[s][x] = m.ramp
  <2>1. (CHOOSE m \in sent : TRUE) \in sent
    BY <1>2
  <2> QED  BY <1>1, <1>2, <2>1
<1> QED  BY <1>1, <1>2

LEMMA SaidNext == ApiTypeOK /\ SaidInv /\ [Next]_vars => SaidInv'
<1> SUFFICES ASSUME ApiTypeOK, SaidInv, [Next]_vars PROVE SaidInv'
  OBVIOUS
<1>1. ASSUME NEW h \in Handlers, Announce(h) PROVE SaidInv'
  <2>1. PICK t \in Stamps, skies \in [Airports -> Skies] : NewFrame(h, t, skies)
    BY <1>1 DEF Announce
  <2>2. /\ \A g \in Handlers \ {h} : job'[g] = job[g]
        /\ job'[h].messages = {}
    BY <2>1, IdleType DEF NewFrame, ApiTypeOK, UpdaterInv, UpdaterTypeOK, Job, Idle
  <2> QED  BY <1>1, <2>1, <2>2 DEF Announce, NewFrame, socketVars, redisKeys, SaidInv, Said
<1>2. ASSUME NEW h \in Handlers, UpdateStep(h) \/ Fault(h) PROVE SaidInv'
  <2>1. UpdaterInv /\ (HandlerStep(h) \/ HandlerFault(h) \/ Tell(h))
    BY <1>2 DEF UpdateStep, Fault, ApiTypeOK
  <2>2. ASSUME NEW s \in Sockets, NEW x \in Airports PROVE Said(s, x)'
    <3>1. situation[x] # NoValue => situation'[x] # NoValue
      BY <2>1, SituationStays
    <3>2. CASE UNCHANGED told
      BY <3>1, <3>2 DEF Said, SaidInv
    <3>3. CASE Tell(h)
      <4>1. job[h].messages \in SUBSET Message /\ Broadcast(job[h].messages)
        BY <3>3 DEF Tell, ApiTypeOK, UpdaterInv, UpdaterTypeOK, Job
      <4>2. \/ told'[s][x] = told[s][x]
            \/ \E m \in job[h].messages : m.airport = x
        BY <4>1, BroadcastFacts DEF ApiTypeOK
      <4> QED  BY <3>1, <4>2 DEF Said, SaidInv
    <3> QED  BY <1>2, <3>2, <3>3 DEF UpdateStep, Fault, socketVars
  <2> QED  BY <2>1, <2>2, UpdateSaid DEF SaidInv
<1>3. ASSUME NEW s \in Sockets, ClientSubscribes(s) PROVE SaidInv'
  <2>1. \A r \in Sockets, x \in Airports : told'[r][x] \in {"none", told[r][x]}
    BY <1>3 DEF ClientSubscribes, Subscribe, Untold, ApiTypeOK, SocketsTypeOK
  <2> QED  BY <1>3, <2>1 DEF ClientSubscribes, SaidInv, Said, updaterVars, redisKeys
<1>4. ASSUME UNCHANGED <<told, situation, job>> PROVE SaidInv'
  BY <1>4 DEF SaidInv, Said
<1>5. ASSUME Restart PROVE SaidInv'
  BY <1>5 DEF Restart, ServerGone, SaidInv, Said, redisKeys, Idle
<1>6. SocketStep => UNCHANGED told
  BY DEF SocketStep, Connect, Pong, Hangup, Close, PingAll
<1> QED
  BY <1>1, <1>2, <1>3, <1>4, <1>5, <1>6
     DEF Next, HandlersStep, ClientsStep, QueriesStep, vars, AskCells, TimePasses, socketVars, updaterVars, redisKeys

LEMMA UpdateGathered ==
  ASSUME ApiTypeOK, SaidInv, NEW h \in Handlers, HandlerStep(h), Gathered(h)
  PROVE  Gathered(h)'
<1>1. UpdaterInv
  BY DEF ApiTypeOK
<1>2. ASSUME job[h].messages = {}, ~CompareAirport(h), job'[h].step \notin Sampling
      PROVE  Gathered(h)'
  BY <1>1, <1>2, MessagesKept DEF Gathered
<1>3. CASE SyncRead(h) \/ SyncAdd(h) \/ SyncRemove(h) \/ ListWatched(h) \/ ReadLatest(h)
  <2>1. job[h].messages = {} /\ ~CompareAirport(h)
    BY <1>3
       DEF SyncRead, SyncAdd, SyncRemove, ListWatched, ReadLatest, CompareAirport, At, Gathered
  <2>2. job'[h].step \notin Sampling
    BY <1>1, <1>3, SyncReadJob, SyncAddJob, SyncRemoveJob, ListWatchedJob, ReadLatestJob
       DEF Sampling
  <2> QED  BY <1>2, <2>1, <2>2
<1>4. ASSUME NEW x \in Airports, SampleAirport(h, x) PROVE Gathered(h)'
  <2>1. job[h].step = "sample" /\ x \in job[h].todo /\ UNCHANGED situation
    BY <1>4 DEF SampleAirport, At, redisKeys
  <2>2. /\ job'[h].step = "previous" /\ job'[h].subject = x
        /\ job'[h].todo = job[h].todo \ {x} /\ job'[h].messages = job[h].messages
    BY <1>1, <1>4, SampleJob DEF KeepsNews
  <2> QED  BY <2>1, <2>2 DEF Gathered, Sampling
<1>5. CASE ReadPrevious(h)
  <2>1. job[h].step = "previous" /\ UNCHANGED situation
    BY <1>5 DEF ReadPrevious, At, redisKeys
  <2>2. /\ job'[h].step = "compare" /\ job'[h].subject = job[h].subject
        /\ job'[h].todo = job[h].todo /\ job'[h].messages = job[h].messages
    BY <1>1, <1>5, ReadPreviousJob DEF KeepsAirport, KeepsTodo, KeepsNews
  <2> QED  BY <2>1, <2>2 DEF Gathered, Sampling
<1>6. CASE CompareAirport(h)
  <2>1. job[h].step = "compare" /\ UNCHANGED situation
    BY <1>6 DEF CompareAirport, At, redisKeys
  <2>2. /\ job'[h].step = "store" /\ job'[h].subject = job[h].subject
        /\ job'[h].rings = job[h].rings
        /\ job'[h].todo = job[h].todo /\ job'[h].messages = job[h].messages \cup News(h)
    BY <1>1, <1>6, CompareJob DEF KeepsAirport, KeepsTodo
  <2>3. \A m \in News(h) : m.airport = job[h].subject /\ m.ramp = RampOf(job[h].rings)
    BY ChangeFacts DEF News
  <2> QED  BY <2>1, <2>2, <2>3 DEF Gathered, Sampling
<1>7. CASE StoreSituation(h)
  <2>1. job[h].step = "store"
    BY <1>7 DEF StoreSituation, At
  <2>2. /\ job'[h].step = "storePrevious" /\ job'[h].subject = job[h].subject
        /\ job'[h].todo = job[h].todo /\ job'[h].messages = job[h].messages
    BY <1>1, <1>7, StoreJob DEF KeepsAirport, KeepsTodo, KeepsNews
  <2>3. /\ \A x \in Airports \ {job[h].subject} : situation'[x] = situation[x]
        /\ situation'[job[h].subject].ramp = RampOf(job[h].rings)
    BY <1>1, <1>7, Stored
  <2> QED  BY <1>1, <2>1, <2>2, <2>3, MessageAirport DEF Gathered, Sampling
<1>8. CASE StorePrevious(h)
  <2>1. job[h].step = "storePrevious" /\ UNCHANGED situation
    BY <1>8 DEF StorePrevious, At
  <2>2. /\ job'[h].step = "record" /\ job'[h].subject = job[h].subject
        /\ job'[h].todo = job[h].todo /\ job'[h].messages = job[h].messages
    BY <1>1, <1>8, StorePreviousJob DEF KeepsAirport, KeepsTodo, KeepsNews
  <2> QED  BY <2>1, <2>2 DEF Gathered, Sampling
<1>9. CASE RecordHistory(h)
  <2>1. job[h].step = "record" /\ UNCHANGED situation /\ NextAirport(h)
    BY <1>9 DEF RecordHistory, At
  <2>2. /\ job'[h].step = "sample"
        /\ job'[h].todo = job[h].todo /\ job'[h].messages = job[h].messages
    BY <1>1, <2>1, NextJob DEF KeepsTodo, KeepsNews
  <2> QED  BY <2>1, <2>2 DEF Gathered, Sampling
<1>10. CASE Summarise(h)
  <2>1. job[h].step = "sample" /\ UNCHANGED situation
    BY <1>10 DEF Summarise, At
  <2>2. /\ job'[h].step = "tell"
        /\ job'[h].todo = job[h].todo /\ job'[h].messages = job[h].messages
    BY <1>1, <1>10, SummariseJob DEF KeepsTodo, KeepsNews
  <2> QED  BY <2>1, <2>2 DEF Gathered, Sampling
<1> QED  BY <1>3, <1>4, <1>5, <1>6, <1>7, <1>8, <1>9, <1>10 DEF HandlerStep

\* That somebody was told the status r of the airport is current still, or will
\* be mended by a message.
Heard(h, x, r) == Announced(h, x) \/ (r = situation[x].ramp /\ Same(h, x))

LEMMA UpdateHeard ==
  ASSUME ApiTypeOK, NEW h \in Handlers, HandlerStep(h), Gathered(h),
         NEW x \in Airports, NEW r, situation[x] # NoValue, Heard(h, x, r)
  PROVE  Heard(h, x, r)'
<1>1. UpdaterInv
  BY DEF ApiTypeOK
<1>2. CASE CompareAirport(h)
  <2>1. UNCHANGED situation
    BY <1>2 DEF CompareAirport, redisKeys
  <2>2. /\ job'[h].step = "store" /\ job'[h].subject = job[h].subject
        /\ job'[h].rings = job[h].rings
        /\ job'[h].messages = job[h].messages \cup News(h)
    BY <1>1, <1>2, CompareJob DEF KeepsAirport
  <2>3. CASE x = job[h].subject
    <3>1. \A m \in News(h) : m.airport = x
      BY <2>3, ChangeFacts DEF News
    <3>2. News(h) = {} => RampOf(job[h].rings) = situation[x].ramp
      BY <2>3, ChangeFacts DEF News
    <3>3. CASE News(h) = {}
      BY <2>1, <2>2, <3>2, <3>3 DEF Heard, Announced, Same
    <3>4. CASE News(h) # {}
      BY <2>2, <3>1, <3>4 DEF Heard, Announced
    <3> QED  BY <3>3, <3>4
  <2>4. CASE x # job[h].subject
    BY <2>1, <2>2, <2>4 DEF Heard, Announced, Same
  <2> QED  BY <2>3, <2>4
<1>3. CASE StoreSituation(h)
  <2>1. job[h].step = "store"
    BY <1>3 DEF StoreSituation, At
  <2>2. job'[h].step = "storePrevious" /\ job'[h].messages = job[h].messages
    BY <1>1, <1>3, StoreJob DEF KeepsNews
  <2>3. CASE x = job[h].subject
    BY <1>1, <1>3, <2>1, <2>2, <2>3, Stored DEF Heard, Announced, Same
  <2>4. CASE x # job[h].subject
    BY <1>1, <1>3, <2>2, <2>4, Stored DEF Heard, Announced, Same
  <2> QED  BY <2>3, <2>4
<1>4. CASE ~CompareAirport(h) /\ ~StoreSituation(h)
  <2>1. UNCHANGED situation /\ job'[h].step # "store"
    <3>1. UNCHANGED situation
      BY <1>4, SituationKept
    <3>2. RecordHistory(h) => job'[h].step # "store"
      BY <1>1, NextJob DEF RecordHistory
    <3>3. ASSUME NEW y \in Airports, SampleAirport(h, y) PROVE job'[h].step # "store"
      BY <1>1, <3>3, SampleJob
    <3>4. SyncRead(h) \/ SyncAdd(h) \/ SyncRemove(h) \/ ListWatched(h) \/ ReadLatest(h) =>
            job'[h].step # "store"
      BY <1>1, SyncReadJob, SyncAddJob, SyncRemoveJob, ListWatchedJob, ReadLatestJob
    <3>5. ReadPrevious(h) \/ StorePrevious(h) \/ Summarise(h) => job'[h].step # "store"
      BY <1>1, ReadPreviousJob, StorePreviousJob, SummariseJob
    <3> QED  BY <1>4, <3>1, <3>2, <3>3, <3>4, <3>5 DEF HandlerStep
  <2>2. job'[h].messages = job[h].messages
    BY <1>1, <1>4, MessagesKept
  <2> QED  BY <2>1, <2>2 DEF Heard, Announced, Same
<1> QED  BY <1>2, <1>3, <1>4

\* Every handler but h is idle: only h has anything to say.
LEMMA KnowsHeard ==
  ASSUME NEW h \in Handlers, NEW s \in Sockets, NEW c \in ClientIds, NEW x \in Airports,
         \A g \in Handlers \ {h} : job[g].messages = {} /\ At(g, "idle")
  PROVE  Knows(s, c, x) <=> (Unfiltered(s, c, x) /\ told[s][x] # "none" => Heard(h, x, told[s][x]))
BY DEF Knows, Heard, Announced, Same, At

LEMMA AnnounceCurrent ==
  ASSUME ApiTypeOK, CurrentInv, NEW h \in Handlers, Announce(h)
  PROVE  CurrentInv'
<1> SUFFICES ASSUME ~scarred, Busy = {}
             PROVE  /\ OneBusy' /\ \A g \in Handlers : Gathered(g)'
                    /\ \A s \in Sockets, c \in ClientIds, x \in Airports : Knows(s, c, x)'
  BY DEF CurrentInv, Announce
<1>1. PICK t \in Stamps, skies \in [Airports -> Skies] : NewFrame(h, t, skies)
  BY DEF Announce
<1>2. /\ \A g \in Handlers \ {h} : job'[g] = job[g]
      /\ job'[h].messages = {} /\ job'[h].step = "sync"
  BY <1>1, IdleType DEF NewFrame, ApiTypeOK, UpdaterInv, UpdaterTypeOK, Job, Idle
<1>3. \A g \in Handlers : job[g].step = "idle" /\ job[g].messages = {}
  BY DEF Busy, CurrentInv, Gathered
<1>4. \A g \in Handlers : Gathered(g)'
  BY <1>2, <1>3 DEF Gathered, Sampling
<1>5. OneBusy'
  BY <1>2, <1>3 DEF OneBusy, Busy
<1>6. UNCHANGED <<situation, told, socket, clients>>
  BY <1>1 DEF NewFrame, redisKeys, Announce, socketVars
<1>7. ASSUME NEW s \in Sockets, NEW c \in ClientIds, NEW x \in Airports PROVE Knows(s, c, x)'
  BY <1>2, <1>3, <1>6 DEF CurrentInv, Knows, Unfiltered, Ids, Announced, Same
<1> QED  BY <1>4, <1>5, <1>7

LEMMA TellCurrent ==
  ASSUME ApiTypeOK, NEW h \in Handlers, Tell(h), Gathered(h), UNCHANGED <<socket, clients>>,
         NEW s \in Sockets, NEW c \in ClientIds, NEW x \in Airports,
         Unfiltered(s, c, x), told'[s][x] # "none",
         told[s][x] # "none" => Heard(h, x, told[s][x])
  PROVE  told'[s][x] = situation[x].ramp
<1>1. job[h].messages \in SUBSET Message /\ Broadcast(job[h].messages) /\ job[h].step = "tell"
  BY DEF Tell, At, ApiTypeOK, UpdaterInv, UpdaterTypeOK, Job
<1>2. \A m \in job[h].messages : m.ramp = situation[m.airport].ramp
  BY <1>1 DEF Gathered
<1>3. SocketsTypeOK
  BY DEF ApiTypeOK
<1>4. CASE \E m \in job[h].messages : m.airport = x /\ told'[s][x] = m.ramp
  BY <1>2, <1>4
<1>5. CASE told'[s][x] = told[s][x] /\ ~\E m \in job[h].messages : m.airport = x /\ told'[s][x] = m.ramp
  <2>1. ~Announced(h, x)
    <3> SUFFICES ASSUME NEW m \in job[h].messages, m.airport = x PROVE FALSE
      BY DEF Announced
    <3>1. SeverityDbz(m.severity) >= 0
      <4>1. m.severity \in Severity
        BY <1>1 DEF Message
      <4> QED  BY <4>1 DEF Severity, SeverityDbz
    <3>2. Wants(c, m)
      BY <3>1 DEF Wants, Unfiltered
    <3> QED  BY <1>1, <1>3, <1>5, <3>2, BroadcastFacts DEF Unfiltered
  <2> QED  BY <1>5, <2>1 DEF Heard
<1> QED  BY <1>1, <1>3, <1>4, <1>5, BroadcastFacts

LEMMA UpdateCurrent ==
  ASSUME ApiTypeOK, SaidInv, CurrentInv, NEW h \in Handlers, UpdateStep(h)
  PROVE  CurrentInv'
<1>1. UNCHANGED <<socket, clients, scarred>>
  BY DEF UpdateStep, socketVars, historyVars
<1> SUFFICES ASSUME ~scarred
             PROVE  /\ OneBusy' /\ \A g \in Handlers : Gathered(g)'
                    /\ \A s \in Sockets, c \in ClientIds, x \in Airports : Knows(s, c, x)'
  BY <1>1 DEF CurrentInv
<1>2. /\ h \in Busy /\ OneBusy /\ Moves(h) /\ \A g \in Handlers : Gathered(g)
      /\ \A s \in Sockets, c \in ClientIds, x \in Airports : Knows(s, c, x)
  BY UpdateBusy, UpdateSound DEF UpdateStep, CurrentInv, ApiTypeOK
<1>3. OneBusy' /\ \A g \in Handlers \ {h} : job[g].messages = {} /\ At(g, "idle") /\ job'[g] = job[g]
  BY <1>2, BusyAfter DEF Gathered, At, Moves
<1>4. \A g \in Handlers \ {h} : Gathered(g)' /\ job'[g].messages = {} /\ At(g, "idle")'
  BY <1>3 DEF Gathered, At, Sampling
<1>5. ASSUME NEW s \in Sockets, NEW c \in ClientIds, NEW x \in Airports,
             Unfiltered(s, c, x), told[s][x] # "none"
      PROVE  Heard(h, x, told[s][x])
  BY <1>2, <1>3, <1>5, KnowsHeard
<1>6. \A s \in Sockets, c \in ClientIds, x \in Airports : Unfiltered(s, c, x)' <=> Unfiltered(s, c, x)
  BY <1>1 DEF Unfiltered, Ids
<1>7. CASE HandlerStep(h) /\ UNCHANGED socketVars
  <2>1. Gathered(h)'
    BY <1>2, <1>7, UpdateGathered
  <2>2. ASSUME NEW s \in Sockets, NEW c \in ClientIds, NEW x \in Airports
        PROVE  Knows(s, c, x)'
    <3>1. PICK r : r = told[s][x]
      OBVIOUS
    <3>2. UNCHANGED told
      BY <1>7 DEF socketVars
    <3>3. CASE Unfiltered(s, c, x) /\ r # "none"
      <4>1. situation[x] # NoValue
        BY <3>1, <3>3 DEF SaidInv, Said
      <4>2. Heard(h, x, r)
        BY <1>5, <3>1, <3>3
      <4>3. Heard(h, x, r)'
        BY <1>2, <1>7, <4>1, <4>2, UpdateHeard
      <4> QED  BY <1>4, <3>1, <3>2, <4>3 DEF Knows, Heard, Announced, Same, At
    <3>4. CASE ~(Unfiltered(s, c, x) /\ r # "none")
      BY <1>6, <3>1, <3>2, <3>4 DEF Knows
    <3> QED  BY <3>3, <3>4
  <2> QED  BY <1>3, <1>4, <2>1, <2>2
<1>8. CASE Tell(h)
  <2>1. job'[h] = Idle /\ UNCHANGED situation
    BY <1>8, DoneJob DEF Tell, ApiTypeOK, redisKeys
  <2>2. Gathered(h)'
    BY <2>1 DEF Gathered, Idle, Sampling
  <2>3. ASSUME NEW s \in Sockets, NEW c \in ClientIds, NEW x \in Airports
        PROVE  Knows(s, c, x)'
    <3>1. Unfiltered(s, c, x) /\ told'[s][x] # "none" => told'[s][x] = situation[x].ramp
      BY <1>1, <1>2, <1>5, <1>8, TellCurrent
    <3>2. \A g \in Handlers : Same(g, x)'
      BY <1>4, <2>1 DEF Same, At, Idle
    <3> QED  BY <1>6, <2>1, <3>1, <3>2 DEF Knows
  <2> QED  BY <1>3, <1>4, <2>2, <2>3
<1> QED  BY <1>7, <1>8 DEF UpdateStep

\* A client that subscribes has been told nothing; for the others nothing has
\* changed, but that they may have lost an entry.
LEMMA SubscribeCurrent ==
  ASSUME ApiTypeOK, CurrentInv, NEW s \in Sockets, ClientSubscribes(s)
  PROVE  CurrentInv'
<1>1. PICK e \in ClientIds, w \in SUBSET Airports, d \in Thresholds : Subscribe(s, e, w, d)
  BY DEF ClientSubscribes
<1>2. UNCHANGED <<situation, job, scarred>>
  BY DEF ClientSubscribes, updaterVars, redisKeys
<1>3. /\ \A c \in ClientIds \ {e} : clients'[c] = clients[c]
      /\ clients'[e].ws = s /\ UNCHANGED socket
      /\ \A x \in Airports : told'[s][x] = "none"
      /\ \A r \in Sockets \ {s} : told'[r] = told[r]
  BY <1>1 DEF Subscribe, Untold, ApiTypeOK, SocketsTypeOK
<1>4. ASSUME NEW r \in Sockets, NEW c \in ClientIds, NEW x \in Airports, Knows(r, c, x)
      PROVE  Knows(r, c, x)'
  <2>1. CASE r = s
    BY <1>3, <2>1 DEF Knows
  <2>2. CASE r # s /\ c = e
    BY <1>3, <2>2 DEF Knows, Unfiltered
  <2>3. CASE r # s /\ c # e
    BY <1>2, <1>3, <1>4, <2>3 DEF Knows, Unfiltered, Ids, Announced, Same
  <2> QED  BY <2>1, <2>2, <2>3
<1> QED  BY <1>2, <1>4 DEF CurrentInv, OneBusy, Busy, Gathered

\* An entry of a socket that is open was one of an open socket.
LEMMA SocketsCurrent ==
  ASSUME ApiTypeOK, PongInv, CurrentInv, SocketStep, UNCHANGED <<updaterVars, historyVars>>
  PROVE  CurrentInv'
<1>1. UNCHANGED <<situation, job, scarred>>
  BY DEF updaterVars, redisKeys, historyVars
<1>2. UNCHANGED told
  BY DEF SocketStep, Connect, Pong, Hangup, Close, PingAll
<1>3. \A r \in Sockets : socket'[r] = "open" => socket[r] \in {"new", "open"}
  BY DEF SocketStep, Connect, Pong, Hangup, Close, PingAll, ApiTypeOK, SocketsTypeOK
<1>4. \A c \in Ids' : /\ c \in Ids /\ clients'[c].watchlist = clients[c].watchlist
                      /\ clients'[c].ws = clients[c].ws /\ clients'[c].dbz = clients[c].dbz
  <2>1. CASE PingAll
    <3>1. \A c \in Ids \ Silent :
            /\ [clients[c] EXCEPT !.alive = FALSE].watchlist = clients[c].watchlist
            /\ [clients[c] EXCEPT !.alive = FALSE].ws = clients[c].ws
            /\ [clients[c] EXCEPT !.alive = FALSE].dbz = clients[c].dbz
      BY DEF Ids, Entry, ApiTypeOK, SocketsTypeOK
    <3> QED  BY <2>1, <3>1 DEF PingAll, Ids
  <2>2. ASSUME NEW s \in Sockets, Pong(s)
        PROVE  \A c \in Ids' : /\ c \in Ids /\ clients'[c].watchlist = clients[c].watchlist
                               /\ clients'[c].ws = clients[c].ws /\ clients'[c].dbz = clients[c].dbz
    BY <2>2 DEF Pong, Ids, Entry, ApiTypeOK, SocketsTypeOK
  <2>3. ASSUME NEW s \in Sockets, Connect(s) \/ Hangup(s) \/ Close(s)
        PROVE  \A c \in Ids' : c \in Ids /\ clients'[c] = clients[c]
    BY <2>3 DEF Connect, Hangup, Close, Ids, ApiTypeOK, SocketsTypeOK
  <2> QED  BY <2>1, <2>2, <2>3 DEF SocketStep
<1>5. \A s \in Sockets, c \in ClientIds, x \in Airports :
        Unfiltered(s, c, x)' => Unfiltered(s, c, x)
  BY <1>3, <1>4 DEF Unfiltered, PongInv, Vouched
<1>6. ASSUME NEW s \in Sockets, NEW c \in ClientIds, NEW x \in Airports, Knows(s, c, x)
      PROVE  Knows(s, c, x)'
  BY <1>1, <1>2, <1>5, <1>6 DEF Knows, Announced, Same
<1> QED  BY <1>1, <1>6 DEF CurrentInv, OneBusy, Busy, Gathered

LEMMA CurrentNext ==
  ApiTypeOK /\ PongInv /\ SaidInv /\ CurrentInv /\ [Next]_vars => CurrentInv'
<1> SUFFICES ASSUME ApiTypeOK, PongInv, SaidInv, CurrentInv, [Next]_vars PROVE CurrentInv'
  OBVIOUS
<1>1. ASSUME NEW h \in Handlers, Fault(h) PROVE CurrentInv'
  BY <1>1 DEF Fault, CurrentInv
<1>2. ASSUME Restart PROVE CurrentInv'
  BY <1>2 DEF Restart, CurrentInv
<1>3. ASSUME UNCHANGED <<socketVars, situation, job, scarred>> PROVE CurrentInv'
  BY <1>3 DEF CurrentInv, OneBusy, Busy, Gathered, Knows, Unfiltered, Ids, Announced, Same,
              socketVars
<1> QED
  BY <1>1, <1>2, <1>3, AnnounceCurrent, UpdateCurrent, SubscribeCurrent, SocketsCurrent
     DEF Next, HandlersStep, ClientsStep, QueriesStep, vars, AskCells, TimePasses, updaterVars, historyVars, redisKeys

\* What an unfiltered subscriber was last told of an airport is what the
\* situation key shows, if handlers never overlapped and no call ever failed
\* (processNewFrame, broadcastMessages).
THEOREM ToldIsCurrentHolds == Spec => []ToldIsCurrent
<1>1. ApiTypeOK /\ CurrentInv => ToldIsCurrent
  <2> SUFFICES ASSUME ApiTypeOK, CurrentInv, Quiet, ~scarred, NEW s \in Sockets, NEW c \in Ids,
                      NEW x \in clients[c].watchlist, clients[c].ws = s, clients[c].dbz = 0,
                      socket[s] = "open", told[s][x] \in RampStatus
               PROVE  told[s][x] = situation[x].ramp
    BY DEF ToldIsCurrent
  <2>1. x \in Airports /\ c \in ClientIds
    BY DEF ApiTypeOK, SocketsTypeOK, Ids, Entry
  <2>2. Unfiltered(s, c, x) /\ told[s][x] # "none" /\ Knows(s, c, x)
    BY <2>1 DEF Unfiltered, RampStatus, CurrentInv
  <2>3. \A h \in Handlers : job[h].messages = {}
    BY DEF CurrentInv, Gathered, Quiet, Busy
  <2> QED  BY <2>2, <2>3 DEF Knows, Announced
<1> QED
  BY <1>1, ToldInit, InitPong, PongNext, SaidNext, CurrentNext, ApiType, PTL DEF Spec, Init
-----------------------------------------------------------------------------
(* Rasters *)

\* The image of a finite set under a function is finite.
LEMMA ImageFinite ==
  ASSUME NEW S, IsFiniteSet(S), NEW f, f = [x \in S |-> f[x]]
  PROVE  IsFiniteSet({f[x] : x \in S})
<1> DEFINE T == {f[x] : x \in S}
<1>1. f \in [S -> T]
  OBVIOUS
<1>2. \A t \in T : \E x \in S : f[x] = t
  OBVIOUS
<1>3. f \in Surjection(S, T)
  BY <1>1, <1>2 DEF Surjection
<1>4. IsFiniteSet(T)
  <2> HIDE DEF T
  <2> QED  BY <1>3, FS_Surjection
<1> QED  BY <1>4

\* A finite set of integers that is not empty has a minimum.
LEMMA MinFacts ==
  ASSUME NEW S \in SUBSET Int, IsFiniteSet(S), S # {}
  PROVE  Min(S) \in S /\ \A y \in S : Min(S) <= y
<1> DEFINE neg == [x \in S |-> 0 - x]
           T   == {neg[x] : x \in S}
<1>1. \A x \in S : neg[x] \in Int /\ neg[x] = 0 - x
  OBVIOUS
<1>2. IsFiniteSet(T)
  BY ImageFinite
<1> HIDE DEF neg
<1>3. T \in SUBSET Int /\ T # {}
  BY <1>1
<1>4. \E m \in T : \A y \in T : m >= y
  <2> HIDE DEF T
  <2> QED  BY <1>2, <1>3, MaxExists
<1>5. PICK x \in S : \A y \in S : neg[x] >= neg[y]
  BY <1>4
<1>6. \A y \in S : x <= y
  BY <1>1, <1>5
<1> QED  BY <1>6 DEF Min

LEMMA Grid ==
  ASSUME NEW W \in Nat \ {0}, NEW T \in Nat \ {0}, NEW i \in 0..(W * T - 1)
  PROVE  i % W \in 0..(W - 1) /\ i \div W \in 0..(T - 1)
<1> DEFINE d == i \div W
           m == i % W
<1>1. d \in Int /\ m \in 0..(W - 1) /\ i = W * d + m
  OBVIOUS
<1>2. i \in Nat /\ i < W * T
  OBVIOUS
<1> HIDE DEF d, m
<1>3. d >= 0
  BY <1>1, <1>2
<1>4. d < T
  <2> SUFFICES ASSUME d >= T PROVE FALSE
    BY <1>1
  <2>1. W * d >= W * T
    BY <1>1
  <2> QED  BY <1>1, <1>2, <2>1
<1> QED  BY <1>1, <1>3, <1>4 DEF d, m

LEMMA AreaFacts ==
  ASSUME NEW a \in Areas
  PROVE  /\ a[1] \in Nat /\ a[2] \in Nat /\ a[1] <= a[2]
         /\ Tiles(a) \in Nat \ {0} /\ Width(a) = Tiles(a) * TileSize
         /\ West(a) \in Nat /\ East(a) \in Nat /\ Width(a) \in Nat \ {0}
         /\ East(a) = West(a) + 2 * Width(a) /\ West(a) = 2 * (a[1] * TileSize)
<1>1. a[1] \in Nat /\ a[2] \in Nat /\ a[1] <= a[2]
  BY CellAssumption
<1>2. TileSize \in Nat \ {0}
  BY CellAssumption
<1>3. Tiles(a) \in Nat \ {0}
  BY <1>1 DEF Tiles
<1>4. Width(a) \in Nat \ {0} /\ Width(a) = Tiles(a) * TileSize
  BY <1>2, <1>3 DEF Width
<1>5. West(a) = 2 * (a[1] * TileSize) /\ West(a) \in Nat
  BY <1>1, <1>2 DEF West, TileUnits
<1>6. East(a) = West(a) + 2 * Width(a)
  BY <1>1, <1>2 DEF West, East, Width, Tiles, TileUnits
<1> QED  BY <1>1, <1>3, <1>4, <1>5, <1>6

LEMMA PrintFacts ==
  ASSUME NEW print \in Prints
  PROVE  /\ print.area \in Areas /\ print.threshold \in Nat
         /\ print.seen \in [1..Tiles(print.area) -> Contents]
<1>1. PICK a \in Areas :
        print \in [threshold : CellThresholds, area : {a}, seen : [1..Tiles(a) -> Contents]]
  BY DEF Prints
<1>2. /\ print.area = a /\ print.threshold \in CellThresholds
      /\ print.seen \in [1..Tiles(a) -> Contents]
  BY <1>1
<1> QED  BY <1>2, CellAssumption

\* The reflectivity of a pixel of a raster.
LEMMA EchoFacts ==
  ASSUME NEW print \in Prints, NEW p \in PixelsOf(print.area)
  PROVE  EchoAt(print, p) \in Nat
<1> DEFINE a    == print.area
           n    == Tiles(a)
           tile == p[1] \div TileSize
           x    == a[1] * TileSize + p[1]
<1>1. a \in Areas /\ print.threshold \in Nat /\ print.seen \in [1..n -> Contents]
  BY PrintFacts
<1>2. p[1] \in 0..(Width(a) - 1) /\ p[2] \in 0..(TileSize - 1)
  BY DEF PixelsOf
<1>3. /\ n \in Nat \ {0} /\ TileSize \in Nat \ {0} /\ Width(a) = TileSize * n
      /\ a[1] \in Nat /\ a[2] \in Nat /\ n = a[2] - a[1] + 1
  <2>1. /\ n \in Nat \ {0} /\ TileSize \in Nat \ {0} /\ Width(a) = n * TileSize
        /\ a[1] \in Nat /\ a[2] \in Nat
    BY <1>1, AreaFacts, CellAssumption
  <2> QED  BY <2>1 DEF Tiles
<1> HIDE DEF n, a
<1>4. tile \in 0..(n - 1)
  <2> DEFINE i == p[1]
  <2>1. i \in 0..(TileSize * n - 1)
    BY <1>2, <1>3
  <2> HIDE DEF i
  <2>2. i \div TileSize \in 0..(n - 1)
    BY <1>3, <2>1, Grid
  <2> QED  BY <2>2 DEF i
<1> HIDE DEF tile
<1>5. print.seen[tile + 1] \in DOMAIN Echo
  <2>1. tile + 1 \in 1..n
    BY <1>3, <1>4
  <2> QED  BY <1>1, <2>1 DEF Contents
<1>6. x \in (a[1] * TileSize)..((a[2] + 1) * TileSize - 1)
  <2>1. Width(a) = (a[2] + 1) * TileSize - a[1] * TileSize
    BY <1>3
  <2>2. a[1] * TileSize \in Nat /\ (a[2] + 1) * TileSize \in Nat
    BY <1>3
  <2> QED  BY <1>2, <2>1, <2>2
<1>7. Echo[print.seen[tile + 1]][<<x, p[2]>>] \in Nat
  BY <1>1, <1>2, <1>5, <1>6, CellAssumption
<1> QED  BY <1>7 DEF EchoAt, tile, a

LEMMA BufferFacts ==
  ASSUME NEW print \in Prints
  PROVE  /\ DOMAIN Buffer[print] = 0..(Width(print.area) * TileSize - 1)
         /\ \A i \in DOMAIN Buffer[print] :
              /\ Buffer[print][i] \in Nat
              /\ Buffer[print][i] = EchoAt(print, <<i % Width(print.area), i \div Width(print.area)>>)
         /\ IsFiniteSet(DOMAIN Buffer[print])
<1> DEFINE W == Width(print.area)
<1>1. W \in Nat \ {0} /\ TileSize \in Nat \ {0}
  BY PrintFacts, AreaFacts, CellAssumption
<1>2. Buffer[print] = [i \in 0..(W * TileSize - 1) |-> EchoAt(print, <<i % W, i \div W>>)]
  BY DEF Buffer
<1>3. ASSUME NEW i \in 0..(W * TileSize - 1)
      PROVE  EchoAt(print, <<i % W, i \div W>>) \in Nat
  <2>1. <<i % W, i \div W>> \in PixelsOf(print.area)
    BY <1>1, Grid DEF PixelsOf
  <2> QED  BY <2>1, EchoFacts
<1>4. IsFiniteSet(0..(W * TileSize - 1))
  <2>1. 0 \in Int /\ W * TileSize - 1 \in Int
    BY <1>1
  <2> QED  BY <2>1, FS_Interval
<1> QED  BY <1>2, <1>3, <1>4

\* The strongest echo seen in a bounding box is a number.
LEMMA MaxInBboxType ==
  ASSUME raster.dbz \in Prints, NEW footprint
  PROVE  MaxInBbox(footprint) \in Nat
<1> DEFINE column(x) == (x - raster.west) * raster.width
           span  == raster.east - raster.west
           minPx == Max({0, column(Min({f[1] : f \in footprint})) \div span})
           maxPx == Min({raster.width - 1,
                      -((-column(Max({f[1] + f[2] : f \in footprint}))) \div span)})
           minPy == Min({f[3] : f \in footprint})
           maxPy == Min({TileSize - 1, Max({f[3] : f \in footprint}) + 1})
           seen  == {py * raster.width + px : px \in minPx..maxPx, py \in minPy..maxPy}
           B     == Buffer[raster.dbz]
           I     == seen \cap DOMAIN B
           all   == {0} \cup {B[i] : i \in I}
<1>1. MaxInBbox(footprint) = Max(all)
  BY DEF MaxInBbox
<1>2. IsFiniteSet(I) /\ \A i \in I : B[i] \in Nat
  <2>1. IsFiniteSet(DOMAIN B) /\ \A i \in DOMAIN B : B[i] \in Nat
    BY BufferFacts
  <2> HIDE DEF seen, B
  <2>2. I \subseteq DOMAIN B
    OBVIOUS
  <2>3. IsFiniteSet(I)
    BY <2>1, <2>2, FS_Subset
  <2> QED  BY <2>1, <2>2, <2>3
<1> HIDE DEF I, B
<1>3. IsFiniteSet({B[i] : i \in I})
  <2> DEFINE g == [i \in I |-> B[i]]
  <2>1. IsFiniteSet({g[i] : i \in I})
    BY <1>2, ImageFinite
  <2>2. {g[i] : i \in I} = {B[i] : i \in I}
    OBVIOUS
  <2> QED  BY <2>1, <2>2
<1>4. IsFiniteSet({B[i] : i \in I} \cup {0}) /\ all = {B[i] : i \in I} \cup {0}
  BY <1>3, FS_AddElement
<1>5. all \in SUBSET Nat /\ all \in SUBSET Int /\ all # {}
  BY <1>2
<1>6. Max(all) \in all
  <2>1. IsFiniteSet(all)
    BY <1>4
  <2> HIDE DEF all
  <2> QED  BY <1>5, <2>1, MaxFacts
<1>7. Max(all) \in Nat
  BY <1>5, <1>6
<1> QED  BY <1>1, <1>7

LEMMA MeasuredType ==
  ASSUME raster.dbz \in Prints, NEW footprint \in SUBSET (Nat \X Nat \X Nat)
  PROVE  Measured(footprint) \in Feature
<1>1. MaxInBbox(footprint) \in Nat
  BY MaxInBboxType
<1>2. Rounded(MaxInBbox(footprint)) \in Nat
  BY <1>1 DEF Rounded
<1>3. dbzToSeverity(MaxInBbox(footprint)) \in Severity
  BY DEF dbzToSeverity, Severity
<1> QED  BY <1>2, <1>3 DEF Measured, Feature

LEMMA CellsInMask ==
  ASSUME NEW mask, NEW cell \in CellsOf(mask)
  PROVE  cell \subseteq mask
BY DEF CellsOf

LEMMA FootprintType ==
  ASSUME NEW print \in Prints, NEW cell \in Traced[print], NEW place \in Nat \X Nat,
         place[1] <= place[2]
  PROVE  Footprint(cell, Width(print.area), place) \in SUBSET (Nat \X Nat \X Nat)
<1> DEFINE W    == Width(print.area)
           part == (place[2] - place[1]) \div W
<1>1. W \in Nat \ {0}
  BY PrintFacts, AreaFacts
<1>2. cell \subseteq PixelsOf(print.area)
  BY CellsInMask DEF Traced, Mask
<1>3. \A p \in cell : p[1] \in Nat /\ p[2] \in Nat
  BY <1>1, <1>2, CellAssumption DEF PixelsOf
<1>4. part \in Nat
  BY <1>1
<1> HIDE DEF part, W
<1>5. \A p \in cell : place[1] + p[1] * part \in Nat
  BY <1>3, <1>4
<1>6. Footprint(cell, W, place) = {<<place[1] + p[1] * part, part, p[2]>> : p \in cell}
  BY DEF Footprint, part
<1>7. Footprint(cell, W, place) \in SUBSET (Nat \X Nat \X Nat)
  BY <1>3, <1>4, <1>5, <1>6
<1> QED  BY <1>7 DEF W

-----------------------------------------------------------------------------
(* Queries *)

Query == [step : {"idle", "lookup", "stitch", "trace", "measure", "answered"},
          key : Keys \cup {NoKey}, seen : Seq(Contents), place : Nat \X Nat,
          answer : SUBSET Feature, clashed : BOOLEAN]

Raster == [west : Nat, east : Nat, width : Nat, dbz : Prints \cup {NoKey}]

EchoType == shows \in [Frames -> Contents] /\ writings \in [Frames -> SUBSET Contents]

\* A query has a key; one that has stitched has read all its tiles and leaves
\* reflectivities to measure, and one that has traced a place to measure them at.
QuerySound(q) ==
  /\ query[q].step # "idle" => query[q].key \in Keys
  /\ query[q].step \in {"trace", "measure"} => PrintOf(q) \in Prints /\ raster.dbz \in Prints
  /\ query[q].step = "measure" => query[q].place[1] <= query[q].place[2]

CellInv ==
  /\ raster \in Raster /\ raster.west <= raster.east
  /\ query \in [Queries -> Query]
  /\ asked \in 0..MaxQueries
  /\ DOMAIN cellCache \subseteq Keys
  /\ \A k \in DOMAIN cellCache : cellCache[k] \in SUBSET Feature
  /\ tainted \in SUBSET Keys
  /\ \A q \in Queries : QuerySound(q)

LEMMA CellInvType == CellInv /\ EchoType => CellTypeOK
BY DEF CellInv, EchoType, CellTypeOK, Query, Raster

LEMMA NoQueryType == NoQuery \in Query /\ NoRaster \in Raster /\ NoRaster.west <= NoRaster.east
<1>1. TileUnits \in Nat
  BY CellAssumption DEF TileUnits
<1>2. << >> \in Seq(Contents)
  BY EmptySeq
<1> QED  BY <1>1, <1>2 DEF NoQuery, Query, NoRaster, Raster

LEMMA CellInitType == CellInit => CellInv /\ EchoType
<1> SUFFICES ASSUME CellInit PROVE CellInv /\ EchoType
  OBVIOUS
<1>1. raster \in Raster /\ raster.west <= raster.east /\ query \in [Queries -> Query]
  BY NoQueryType DEF CellInit
<1>2. DOMAIN cellCache = {}
  BY DEF CellInit
<1>3. \A q \in Queries : QuerySound(q)
  BY DEF CellInit, QuerySound, NoQuery
<1>4. CellInv
  BY <1>1, <1>2, <1>3, CellAssumption DEF CellInit, CellInv
<1>5. EchoType
  <2>1. (CHOOSE c \in Contents : TRUE) \in Contents
    BY CellAssumption DEF Contents
  <2> QED  BY <2>1 DEF CellInit, EchoType
<1> QED  BY <1>4, <1>5

\* The locals of a query after one of its steps.
Turns(q) == query' \in [Queries -> Query] /\ \A r \in Queries \ {q} : query'[r] = query[r]

LEMMA QuerySet ==
  ASSUME query \in [Queries -> Query], NEW q \in Queries, NEW k \in Query,
         query' = [query EXCEPT ![q] = k]
  PROVE  query'[q] = k /\ Turns(q)
BY DEF Turns

LEMMA AnsweredFacts ==
  ASSUME query \in [Queries -> Query], NEW q \in Queries, NEW features \in SUBSET Feature,
         Answered(q, features)
  PROVE  /\ Turns(q)
         /\ query'[q].step = "answered" /\ query'[q].answer = features
         /\ query'[q].key = query[q].key /\ query'[q].clashed = query[q].clashed
         /\ query'[q].seen = << >>
<1> DEFINE k == [[[[query[q] EXCEPT !.step = "answered"] EXCEPT !.answer = features]
                   EXCEPT !.seen = << >>] EXCEPT !.place = <<0, 0>>]
<1>1. query[q] \in Query /\ << >> \in Seq(Contents)
  BY EmptySeq
<1>2. k \in Query
  BY <1>1 DEF Query
<1>3. query' = [query EXCEPT ![q] = k]
  BY DEF Answered
<1>4. /\ k.step = "answered" /\ k.answer = features
      /\ k.key = query[q].key /\ k.clashed = query[q].clashed /\ k.seen = << >>
  BY <1>1 DEF Query
<1> HIDE DEF k
<1> QED  BY <1>2, <1>3, <1>4, QuerySet

\* What keeps the invariant when query q alone moves: the raster only gains
\* reflectivities, and the features kept stay features.
LEMMA CellTurn ==
  ASSUME CellInv, NEW q \in Queries, Turns(q), QuerySound(q)',
         raster' \in Raster, raster'.west <= raster'.east,
         raster.dbz \in Prints => raster'.dbz \in Prints,
         asked' \in 0..MaxQueries, DOMAIN cellCache' \subseteq Keys,
         \A k \in DOMAIN cellCache' : cellCache'[k] \in SUBSET Feature,
         tainted' \in SUBSET Keys
  PROVE  CellInv'
<1>1. ASSUME NEW r \in Queries PROVE QuerySound(r)'
  <2>1. CASE r = q
    BY <2>1
  <2>2. CASE r # q
    BY <2>2 DEF CellInv, Turns, QuerySound, PrintOf
  <2> QED  BY <2>1, <2>2
<1> QED  BY <1>1 DEF CellInv, Turns, Queries

LEMMA DetectCells ==
  ASSUME CellInv, NEW q \in Queries, NEW frame \in Frames,
         NEW threshold \in CellThresholds, NEW area \in Areas,
         Detect(q, frame, threshold, area)
  PROVE  CellInv'
<1> DEFINE key == [frame |-> frame, threshold |-> threshold, area |-> area]
           k   == [NoQuery EXCEPT !.step = "lookup", !.key = key]
<1>1. key \in Keys
  BY DEF Keys
<1>2. k \in Query /\ k.step = "lookup" /\ k.key = key
  BY <1>1, NoQueryType DEF NoQuery, Query
<1>3. query' = [query EXCEPT ![q] = k]
  BY DEF Detect
<1>4. query \in [Queries -> Query]
  BY DEF CellInv
<1> HIDE DEF k, key
<1>5. query'[q] = k /\ Turns(q)
  BY <1>2, <1>3, <1>4, QuerySet
<1>6. QuerySound(q)'
  BY <1>1, <1>2, <1>5 DEF QuerySound
<1>7. asked' \in 0..MaxQueries
  BY CellAssumption DEF Detect, CellInv
<1> QED  BY <1>5, <1>6, <1>7, CellTurn DEF Detect, CellInv

LEMMA HitCells ==
  ASSUME CellInv, NEW q \in Queries, Hit(q)
  PROVE  CellInv'
<1> DEFINE found == cellCache[CacheKey(q)]
           b     == CacheKey(q) \in tainted
           k     == [query[q] EXCEPT !.step = "answered", !.answer = found, !.clashed = b]
<1>1. query \in [Queries -> Query] /\ query[q] \in Query /\ found \in SUBSET Feature
  BY DEF CellInv, Hit
<1>2. k \in Query /\ k.step = "answered" /\ k.key = query[q].key
  <2>1. b \in BOOLEAN
    OBVIOUS
  <2> HIDE DEF found, b
  <2> QED  BY <1>1, <2>1 DEF Query
<1>3. query' = [query EXCEPT ![q] = k]
  BY DEF Hit
<1> HIDE DEF k, found, b
<1>4. query'[q] = k /\ Turns(q)
  BY <1>1, <1>2, <1>3, QuerySet
<1>5. QuerySound(q)'
  <2>1. query[q].key \in Keys
    BY DEF CellInv, Hit, QuerySound
  <2> QED  BY <1>2, <1>4, <2>1 DEF QuerySound
<1> QED  BY <1>4, <1>5, CellTurn DEF Hit, CellInv

\* The composite has something to read.
LEMMA SeesType ==
  ASSUME CellInv, EchoType, NEW q \in Queries, query[q].step # "idle"
  PROVE  SeesNext(q) \in Seq(Contents) /\ shows[query[q].key.frame] \in Contents
<1>1. query[q].key.frame \in Frames /\ query[q].seen \in Seq(Contents)
  BY DEF CellInv, QuerySound, Keys, Query
<1>2. shows[query[q].key.frame] \in Contents
  BY <1>1 DEF EchoType
<1> QED  BY <1>1, <1>2, AppendProperties DEF SeesNext

\* What a miss does to the queries: to the one that sets the fields, and to
\* those it clashes with.
LEMMA MissQueries ==
  ASSUME CellInv, EchoType, NEW q \in Queries, Miss(q)
  PROVE  LET others == {r \in InFlight : query[r].key # query[q].key}
         IN  /\ query' \in [Queries -> Query]
             /\ \A r \in Queries :
                  /\ query'[r].step = IF r = q THEN "stitch" ELSE query[r].step
                  /\ query'[r].seen = IF r = q THEN SeesNext(q) ELSE query[r].seen
                  /\ query'[r].clashed = IF r = q THEN others # {}
                                         ELSE IF r \in others THEN TRUE ELSE query[r].clashed
                  /\ query'[r].key = query[r].key /\ query'[r].place = query[r].place
                  /\ query'[r].answer = query[r].answer
<1> DEFINE others == {r \in InFlight : query[r].key # query[q].key}
           b      == others # {}
           seen   == SeesNext(q)
<1>1. query \in [Queries -> Query]
  BY DEF CellInv
<1>2. seen \in Seq(Contents) /\ b \in BOOLEAN
  BY SeesType DEF Miss
<1>3. query' = [r \in Queries |->
        IF r = q THEN [query[q] EXCEPT !.step = "stitch", !.seen = seen, !.clashed = b]
        ELSE IF r \in others THEN [query[r] EXCEPT !.clashed = TRUE] ELSE query[r]]
  BY DEF Miss
<1> HIDE DEF others, b, seen
<1>4. ASSUME NEW r \in Queries
      PROVE  /\ query'[r] \in Query
             /\ query'[r].step = IF r = q THEN "stitch" ELSE query[r].step
             /\ query'[r].seen = IF r = q THEN seen ELSE query[r].seen
             /\ query'[r].clashed = IF r = q THEN b
                                    ELSE IF r \in others THEN TRUE ELSE query[r].clashed
             /\ query'[r].key = query[r].key /\ query'[r].place = query[r].place
             /\ query'[r].answer = query[r].answer
  <2>1. query[r] \in Query
    BY <1>1
  <2>2. CASE r = q
    <3> DEFINE old == query[q]
               k   == [old EXCEPT !.step = "stitch", !.seen = seen, !.clashed = b]
    <3>1. query'[r] = k /\ old \in Query
      BY <1>1, <1>3, <2>2
    <3>2. old.key = query[r].key /\ old.place = query[r].place /\ old.answer = query[r].answer
      BY <2>2
    <3> HIDE DEF old
    <3>3. /\ k \in Query /\ k.step = "stitch" /\ k.seen = seen /\ k.clashed = b
          /\ k.key = old.key /\ k.place = old.place /\ k.answer = old.answer
      <4>1. b \in BOOLEAN /\ seen \in Seq(Contents) /\ old \in Query
        BY <1>2, <3>1
      <4> QED  BY ONLY <4>1 DEF Query
    <3> HIDE DEF k
    <3> QED  BY <2>2, <3>1, <3>2, <3>3
  <2>3. CASE r # q /\ r \in others
    <3> DEFINE old == query[r]
               k   == [old EXCEPT !.clashed = TRUE]
    <3>1. query'[r] = k /\ old \in Query
      BY <1>3, <2>1, <2>3
    <3> HIDE DEF old
    <3>2. /\ k \in Query /\ k.step = old.step /\ k.seen = old.seen /\ k.clashed = TRUE
          /\ k.key = old.key /\ k.place = old.place /\ k.answer = old.answer
      <4>1. old \in Query
        BY <3>1
      <4> QED  BY ONLY <4>1 DEF Query
    <3> HIDE DEF k
    <3> QED  BY <2>3, <3>1, <3>2 DEF old
  <2>4. CASE r # q /\ r \notin others
    BY <1>3, <2>1, <2>4
  <2> QED  BY <2>2, <2>3, <2>4
<1>5. query' \in [Queries -> Query]
  BY <1>3, <1>4
<1> QED  BY <1>4, <1>5 DEF others, b, seen

LEMMA MissCells ==
  ASSUME CellInv, EchoType, NEW q \in Queries, Miss(q)
  PROVE  CellInv'
<1> DEFINE area == query[q].key.area
<1>1. query[q].step = "lookup" /\ query[q].key \in Keys /\ area \in Areas
  BY DEF CellInv, Miss, QuerySound, Keys
<1>2. /\ raster' \in Raster /\ raster'.west <= raster'.east
      /\ raster'.dbz = raster.dbz
  <2>1. West(area) \in Nat /\ East(area) \in Nat /\ Width(area) \in Nat /\ West(area) <= East(area)
    BY <1>1, AreaFacts
  <2>2. raster' = [raster EXCEPT !.west = West(area), !.east = East(area), !.width = Width(area)]
    BY DEF Miss
  <2>3. raster \in Raster
    BY DEF CellInv
  <2> HIDE DEF area
  <2> QED  BY <2>1, <2>2, <2>3 DEF Raster
<1>3. query' \in [Queries -> Query]
  BY MissQueries
<1>4. ASSUME NEW r \in Queries
      PROVE  /\ query'[r].step = IF r = q THEN "stitch" ELSE query[r].step
             /\ r # q => query'[r].seen = query[r].seen
             /\ query'[r].key = query[r].key /\ query'[r].place = query[r].place
  BY MissQueries
<1>5. ASSUME NEW r \in Queries PROVE QuerySound(r)'
  <2>1. QuerySound(r)
    BY DEF CellInv
  <2>2. CASE r = q
    BY <1>1, <1>4, <2>2 DEF QuerySound
  <2>3. CASE r # q
    <3>1. PrintOf(r)' = PrintOf(r)
      BY <1>4, <2>3 DEF PrintOf
    <3> QED  BY <1>2, <1>4, <2>1, <2>3, <3>1 DEF QuerySound
  <2> QED  BY <2>2, <2>3
<1> QED  BY <1>2, <1>3, <1>5 DEF Miss, CellInv, Queries

LEMMA ReadTileCells ==
  ASSUME CellInv, EchoType, NEW q \in Queries, ReadTile(q)
  PROVE  CellInv'
<1> DEFINE seen == SeesNext(q)
           k    == [query[q] EXCEPT !.seen = seen]
<1>1. query \in [Queries -> Query] /\ query[q] \in Query /\ query[q].step = "stitch"
  BY DEF CellInv, ReadTile
<1>2. seen \in Seq(Contents)
  BY <1>1, SeesType
<1>3. query' = [query EXCEPT ![q] = k]
  BY DEF ReadTile
<1> HIDE DEF seen
<1>4. k \in Query /\ k.step = "stitch" /\ k.key = query[q].key
  BY <1>1, <1>2 DEF Query
<1> HIDE DEF k
<1>5. query'[q] = k /\ Turns(q)
  BY <1>1, <1>3, <1>4, QuerySet
<1>6. QuerySound(q)'
  <2>1. query[q].key \in Keys
    BY <1>1 DEF CellInv, QuerySound
  <2> QED  BY <1>4, <1>5, <2>1 DEF QuerySound
<1> QED  BY <1>5, <1>6, CellTurn DEF ReadTile, CellInv

\* When all the tiles are read, they make a raster.
LEMMA WholePrint ==
  ASSUME CellInv, NEW q \in Queries, Stitch(q)
  PROVE  PrintOf(q) \in Prints
<1>1. query[q].seen \in Seq(Contents) /\ query[q].key \in Keys
  BY DEF CellInv, Stitch, QuerySound, Query
<1>2. Len(query[q].seen) = Tiles(query[q].key.area)
  BY DEF Stitch
<1>3. query[q].seen \in [1..Tiles(query[q].key.area) -> Contents]
  BY <1>1, <1>2, LenProperties
<1> QED  BY <1>1, <1>3 DEF PrintOf, Prints, Keys

LEMMA StitchCells ==
  ASSUME CellInv, NEW q \in Queries, Stitch(q)
  PROVE  CellInv'
<1> DEFINE k == [query[q] EXCEPT !.step = "trace"]
<1>1. query \in [Queries -> Query] /\ query[q] \in Query
  BY DEF CellInv
<1>2. query[q].key \in Keys /\ PrintOf(q) \in Prints
  BY WholePrint DEF CellInv, Stitch, QuerySound
<1>3. raster' \in Raster /\ raster'.west <= raster'.east /\ raster'.dbz \in Prints
  BY <1>2 DEF Stitch, CellInv, Raster
<1>4. Turns(q) /\ QuerySound(q)'
  <2>1. CASE Mask[PrintOf(q)] = {}
    <3>1. Answered(q, {}) /\ {} \in SUBSET Feature
      BY <2>1 DEF Stitch
    <3>2. Turns(q) /\ query'[q].step = "answered" /\ query'[q].key = query[q].key
      BY <1>1, <3>1, AnsweredFacts
    <3> QED  BY <1>2, <3>2 DEF QuerySound
  <2>2. CASE Mask[PrintOf(q)] # {}
    <3>1. k \in Query /\ k.step = "trace" /\ k.key = query[q].key /\ k.seen = query[q].seen
      BY <1>1 DEF Query
    <3>2. query' = [query EXCEPT ![q] = k]
      BY <2>2 DEF Stitch
    <3> HIDE DEF k
    <3>3. query'[q] = k /\ Turns(q)
      BY <1>1, <3>1, <3>2, QuerySet
    <3>4. PrintOf(q)' = PrintOf(q)
      BY <3>1, <3>3 DEF PrintOf
    <3> QED  BY <1>2, <1>3, <3>1, <3>3, <3>4 DEF QuerySound
  <2> QED  BY <2>1, <2>2
<1> QED  BY <1>3, <1>4, CellTurn DEF Stitch, CellInv

LEMMA TraceCells ==
  ASSUME CellInv, NEW q \in Queries, Trace(q)
  PROVE  CellInv'
<1> DEFINE place == <<raster.west, raster.east>>
           k     == [query[q] EXCEPT !.step = "measure", !.place = place]
<1>1. query \in [Queries -> Query] /\ query[q] \in Query
  BY DEF CellInv
<1>2. query[q].key \in Keys /\ PrintOf(q) \in Prints /\ raster.dbz \in Prints
  BY DEF CellInv, Trace, QuerySound
<1>3. place \in Nat \X Nat /\ place[1] <= place[2]
  BY DEF CellInv, Raster
<1> HIDE DEF place
<1>4. /\ k \in Query /\ k.step = "measure" /\ k.key = query[q].key /\ k.place = place
      /\ k.seen = query[q].seen
  BY <1>1, <1>3 DEF Query
<1>5. query' = [query EXCEPT ![q] = k]
  BY DEF Trace, place
<1> HIDE DEF k
<1>6. query'[q] = k /\ Turns(q)
  BY <1>1, <1>4, <1>5, QuerySet
<1>7. QuerySound(q)'
  <2>1. PrintOf(q)' = PrintOf(q)
    BY <1>4, <1>6 DEF PrintOf
  <2> QED  BY <1>2, <1>3, <1>4, <1>6, <2>1 DEF QuerySound, Trace
<1> QED  BY <1>6, <1>7, CellTurn DEF Trace, CellInv

LEMMA TraceFailsCells ==
  ASSUME CellInv, NEW q \in Queries, TraceFails(q)
  PROVE  CellInv'
<1>1. query \in [Queries -> Query] /\ {} \in SUBSET Feature
  BY DEF CellInv
<1>2. Turns(q) /\ query'[q].step = "answered" /\ query'[q].key = query[q].key
  BY <1>1, AnsweredFacts DEF TraceFails
<1>3. QuerySound(q)'
  <2>1. query[q].key \in Keys
    BY DEF CellInv, TraceFails, QuerySound
  <2> QED  BY <1>2, <2>1 DEF QuerySound
<1> QED  BY <1>2, <1>3, CellTurn DEF TraceFails, CellInv

\* What is found is what Measure answers.
Found(q) == {Measured(Footprint(c, Width(query[q].key.area), query[q].place)) :
               c \in Traced[PrintOf(q)]}

LEMMA FoundType ==
  ASSUME CellInv, NEW q \in Queries, Measure(q)
  PROVE  Found(q) \in SUBSET Feature /\ Answered(q, Found(q))
<1> DEFINE key   == query[q].key
           print == PrintOf(q)
<1>1. query[q] \in Query
  BY DEF CellInv
<1>2. /\ raster.dbz \in Prints /\ print \in Prints /\ print.area = key.area
      /\ query[q].place \in Nat \X Nat /\ query[q].place[1] <= query[q].place[2]
  BY <1>1 DEF CellInv, Measure, QuerySound, Query, PrintOf
<1>3. Answered(q, Found(q))
  BY DEF Measure, Found
<1>4. Found(q) = {Measured(Footprint(c, Width(key.area), query[q].place)) : c \in Traced[print]}
  BY DEF Found
<1> HIDE DEF print, key
<1>5. ASSUME NEW c \in Traced[print]
      PROVE  Measured(Footprint(c, Width(key.area), query[q].place)) \in Feature
  <2>1. Footprint(c, Width(key.area), query[q].place) \in SUBSET (Nat \X Nat \X Nat)
    BY <1>2, FootprintType
  <2> QED  BY <1>2, <2>1, MeasuredType
<1> QED  BY <1>3, <1>4, <1>5

LEMMA MeasureCells ==
  ASSUME CellInv, NEW q \in Queries, Measure(q)
  PROVE  CellInv'
<1> DEFINE key   == query[q].key
           found == Found(q)
<1>1. query \in [Queries -> Query] /\ key \in Keys
  BY DEF CellInv, Measure, QuerySound
<1>2. found \in SUBSET Feature /\ Answered(q, found)
  BY FoundType
<1>3. /\ cellCache' = [k \in DOMAIN cellCache \cup {key} |->
                         IF k = key THEN found ELSE cellCache[k]]
      /\ tainted' \in {tainted \cup {key}, tainted \ {key}}
  BY DEF Measure, CacheKey, Found
<1> HIDE DEF found
<1>4. Turns(q) /\ query'[q].step = "answered" /\ query'[q].key = key
  BY <1>1, <1>2, AnsweredFacts
<1> HIDE DEF key
<1>5. QuerySound(q)'
  BY <1>1, <1>4 DEF QuerySound
<1>6. /\ DOMAIN cellCache' \subseteq Keys /\ tainted' \in SUBSET Keys
      /\ \A k \in DOMAIN cellCache' : cellCache'[k] \in SUBSET Feature
  BY <1>1, <1>2, <1>3 DEF CellInv
<1> QED  BY <1>4, <1>5, <1>6, CellTurn DEF Measure, CellInv

LEMMA ExpireCells ==
  ASSUME CellInv, NEW k \in Keys, CellsExpire(k)
  PROVE  CellInv'
BY DEF CellInv, CellsExpire, QuerySound, PrintOf, Queries

LEMMA EchoNextType == ApiTypeOK /\ EchoType /\ [Next]_vars => EchoType'
<1> SUFFICES ASSUME ApiTypeOK, EchoType, [Next]_vars PROVE EchoType'
  OBVIOUS
<1>1. ASSUME UNCHANGED echoVars PROVE EchoType'
  BY <1>1 DEF EchoType, echoVars
<1>2. ASSUME NEW h \in Handlers, Announce(h) PROVE EchoType'
  BY <1>2, EventsAssumption DEF Announce, Drawn, EchoType
<1> QED
  BY <1>1, <1>2
     DEF Next, HandlersStep, ClientsStep, QueriesStep, vars, UpdateStep, Fault, ClientSubscribes, AskCells, CellStep, Restart

LEMMA CellNextType == ApiTypeOK /\ CellInv /\ EchoType /\ [Next]_vars => CellInv'
<1> SUFFICES ASSUME ApiTypeOK, CellInv, EchoType, [Next]_vars PROVE CellInv'
  OBVIOUS
<1>1. ASSUME UNCHANGED cellVars PROVE CellInv'
  BY <1>1 DEF CellInv, cellVars, QuerySound, PrintOf, Queries
<1>2. ASSUME NEW q \in Queries, AskCells(q) PROVE CellInv'
  <2>1. latestComposite \in Frames
    BY <1>2, EventsAssumption DEF AskCells, ApiTypeOK, UpdaterInv, UpdaterTypeOK
  <2>2. PICK t \in CellThresholds, a \in Areas : Detect(q, latestComposite, t, a)
    BY <1>2 DEF AskCells
  <2> QED  BY <2>1, <2>2, DetectCells
<1>3. ASSUME CellStep PROVE CellInv'
  BY <1>3, HitCells, MissCells, ReadTileCells, StitchCells, TraceCells, TraceFailsCells,
     MeasureCells, ExpireCells DEF CellStep
<1>4. ASSUME Restart PROVE CellInv'
  <2>1. \A q \in Queries : query'[q] = NoQuery
    BY <1>4 DEF Restart
  <2>2. \A q \in Queries : QuerySound(q)'
    BY <2>1 DEF QuerySound, NoQuery
  <2> QED  BY <1>4, <2>1, <2>2, NoQueryType DEF Restart, CellInv, Queries
<1> QED
  BY <1>1, <1>2, <1>3, <1>4
     DEF Next, HandlersStep, ClientsStep, QueriesStep, vars, Announce, UpdateStep, Fault, ClientSubscribes

\* Everything the API keeps has its type, and every situation and cell that is
\* stored, sent or answered is one the code can build: each raster, footprint
\* and maximum included (the stores and locals of src/situation).
THEOREM TypeOKHolds == Spec => []TypeOK
<1>1. Init => CellInv /\ EchoType
  BY CellInitType DEF Init
<1>2. ApiTypeOK /\ CellInv /\ EchoType => TypeOK
  BY CellInvType DEF ApiTypeOK, UpdaterInv, TypeOK
<1> QED  BY <1>1, <1>2, ApiType, CellNextType, EchoNextType, PTL DEF Spec

-----------------------------------------------------------------------------
(* Cells of a mask *)

\* The pixels that no part of the mask separates from p.
CellAt(mask, p) == {r \in mask : \A part \in Parts(mask) : p \in part => r \in part}

LEMMA CellsAt ==
  ASSUME NEW mask
  PROVE  CellsOf(mask) = {CellAt(mask, p) : p \in mask}
BY DEF CellsOf, CellAt

LEMMA BesideBoth ==
  ASSUME NEW p \in Nat \X Nat, NEW r \in Nat \X Nat, Beside(p, r)
  PROVE  Beside(r, p)
BY DEF Beside

\* What is left of the mask without a part is a part, so that no part separates
\* the pixels of one cell from one another in either direction.
LEMMA OneCell ==
  ASSUME NEW mask \in SUBSET (Nat \X Nat), NEW p \in mask, NEW r \in CellAt(mask, p)
  PROVE  CellAt(mask, r) = CellAt(mask, p)
<1>1. r \in mask
  BY DEF CellAt
<1>2. ASSUME NEW part \in Parts(mask), r \in part, p \notin part PROVE FALSE
  <2> DEFINE rest == mask \ part
  <2>1. rest \in SUBSET mask
    OBVIOUS
  <2>2. ASSUME NEW x \in rest, NEW y \in mask, Beside(x, y) PROVE y \in rest
    <3>1. ASSUME y \in part PROVE FALSE
      <4>1. Beside(y, x)
        BY <2>2, BesideBoth
      <4>2. x \in part
        BY <3>1, <4>1 DEF Parts
      <4> QED  BY <4>2
    <3> QED  BY <3>1
  <2>3. rest \in Parts(mask)
    BY <2>1, <2>2 DEF Parts
  <2>4. r \in rest
    BY <1>2, <2>3 DEF CellAt
  <2> QED  BY <1>2, <2>4
<1>3. \A part \in Parts(mask) : p \in part <=> r \in part
  BY <1>2 DEF CellAt
<1> QED  BY <1>3 DEF CellAt

LEMMA CellsCover ==
  ASSUME NEW mask
  PROVE  UNION CellsOf(mask) = mask /\ \A c \in CellsOf(mask) : c # {}
<1>1. \A p \in mask : p \in CellAt(mask, p) /\ CellAt(mask, p) \subseteq mask
  BY DEF CellAt
<1> QED  BY <1>1, CellsAt

\* Neighbours are in one cell.
LEMMA CellsApart ==
  ASSUME NEW mask \in SUBSET (Nat \X Nat), NEW c \in CellsOf(mask), NEW d \in CellsOf(mask),
         NEW p \in c, NEW r \in d, Beside(p, r)
  PROVE  c = d
<1>1. PICK x \in mask : c = CellAt(mask, x)
  BY CellsAt
<1>2. PICK y \in mask : d = CellAt(mask, y)
  BY CellsAt
<1>3. p \in mask /\ r \in mask
  BY <1>1, <1>2 DEF CellAt
<1>4. CellAt(mask, p) = c /\ CellAt(mask, r) = d
  BY <1>1, <1>2, OneCell
<1>5. r \in CellAt(mask, p)
  BY <1>3 DEF CellAt, Parts
<1> QED  BY <1>3, <1>4, <1>5, OneCell

-----------------------------------------------------------------------------
(* A raster in its own place *)

\* The fields describe the place of an area.
InOwnPlace(area) ==
  /\ raster.west = West(area) /\ raster.east = East(area)
  /\ raster.width = Width(area)

Under(area, p) == <<2 * (area[1] * TileSize + p[1]), 2, p[2]>>

LEMMA FootprintUnder ==
  ASSUME NEW a \in Areas, NEW cell \in SUBSET PixelsOf(a)
  PROVE  Footprint(cell, Width(a), <<West(a), East(a)>>)
           = {Under(a, p) : p \in cell}
<1> DEFINE W == Width(a)
<1>1. /\ W \in Nat \ {0} /\ a[1] \in Nat /\ TileSize \in Nat \ {0}
      /\ West(a) = 2 * (a[1] * TileSize) /\ East(a) = West(a) + 2 * W /\ West(a) \in Nat
  BY AreaFacts, CellAssumption
<1>2. East(a) - West(a) = 2 * W
  BY <1>1
<1>3. (2 * W) \div W = 2
  BY <1>1
<1>4. ASSUME NEW p \in cell
      PROVE  <<West(a) + p[1] * 2, 2, p[2]>> = Under(a, p)
  <2>1. p[1] \in Nat
    BY <1>1 DEF PixelsOf
  <2>2. West(a) + p[1] * 2 = 2 * (a[1] * TileSize + p[1])
    BY <1>1, <2>1
  <2> QED  BY <2>2 DEF Under
<1>5. Footprint(cell, W, <<West(a), East(a)>>) = {<<West(a) + p[1] * 2, 2, p[2]>> : p \in cell}
  BY <1>2, <1>3 DEF Footprint
<1> QED  BY <1>4, <1>5

LEMMA DivBound ==
  ASSUME NEW w \in Nat \ {0}, NEW u \in Int, NEW q \in Int, u <= 2 * q
  PROVE  (u * w) \div (2 * w) \in Int /\ (u * w) \div (2 * w) <= q
<1> DEFINE v == 2 * w
           d == (u * w) \div v
<1>1. v \in Nat \ {0} /\ u * w \in Int
  OBVIOUS
<1>2. d \in Int /\ v * d <= u * w
  <2> HIDE DEF v
  <2> QED  BY <1>1
<1>3. u * w <= (2 * q) * w
  OBVIOUS
<1>4. (2 * q) * w = v * q
  OBVIOUS
<1> HIDE DEF d, v
<1>5. ASSUME d >= q + 1 PROVE FALSE
  <2>1. v * d >= v * (q + 1)
    BY <1>1, <1>2, <1>5
  <2>2. v * (q + 1) = v * q + v
    BY <1>1
  <2>3. v * q \in Int
    BY <1>1
  <2> QED  BY <1>1, <1>2, <1>3, <1>4, <2>1, <2>2, <2>3
<1> QED  BY <1>2, <1>5 DEF d, v

LEMMA CeilBound ==
  ASSUME NEW w \in Nat \ {0}, NEW u \in Int, NEW q \in Int, u >= 2 * q
  PROVE  -((-(u * w)) \div (2 * w)) \in Int /\ -((-(u * w)) \div (2 * w)) >= q
<1>1. -u \in Int /\ -q \in Int /\ -u <= 2 * (-q)
  OBVIOUS
<1>2. -(u * w) = (-u) * w
  OBVIOUS
<1> DEFINE d == ((-u) * w) \div (2 * w)
<1>3. d \in Int /\ d <= -q
  BY <1>1, DivBound
<1> HIDE DEF d
<1>4. -d \in Int /\ -d >= q
  BY <1>3
<1> QED  BY <1>2, <1>4 DEF d

LEMMA Cell ==
  ASSUME NEW W \in Nat \ {0}, NEW T \in Nat \ {0}, NEW x \in 0..(W - 1), NEW y \in 0..(T - 1)
  PROVE  /\ y * W + x \in 0..(W * T - 1)
         /\ (y * W + x) % W = x /\ (y * W + x) \div W = y
<1> DEFINE i == y * W + x
           d == i \div W
           m == i % W
<1>1. y * W <= (T - 1) * W /\ (T - 1) * W = W * T - W /\ y * W \in Nat
  OBVIOUS
<1>2. i \in 0..(W * T - 1)
  BY <1>1
<1>3. d \in Int /\ m \in 0..(W - 1) /\ i = W * d + m
  <2>1. i \in Int
    BY <1>2
  <2> HIDE DEF i
  <2> QED  BY <2>1
<1> HIDE DEF d, m
<1>4. W * d + m = W * y + x
  BY <1>3
<1>5. d = y
  <2>1. ASSUME d >= y + 1 PROVE FALSE
    <3>1. W * d >= W * (y + 1) /\ W * (y + 1) = W * y + W
      BY <1>3, <2>1
    <3>2. W * d \in Int /\ W * y \in Int
      BY <1>3
    <3> QED  BY <1>3, <1>4, <3>1, <3>2
  <2>2. ASSUME y >= d + 1 PROVE FALSE
    <3>1. W * y >= W * (d + 1) /\ W * (d + 1) = W * d + W
      BY <1>3, <2>2
    <3>2. W * d \in Int /\ W * y \in Int
      BY <1>3
    <3> QED  BY <1>3, <1>4, <3>1, <3>2
  <2> QED  BY <1>3, <2>1, <2>2
<1>6. m = x
  <2>1. W * d = W * y /\ W * y \in Int
    BY <1>5
  <2> QED  BY <1>3, <1>4, <2>1
<1> QED  BY <1>2, <1>5, <1>6 DEF d, m

LEMMA PairFacts ==
  ASSUME NEW a \in Int, NEW b \in Int
  PROVE  /\ Min({a, b}) \in {a, b} /\ Max({a, b}) \in {a, b}
<1>1. \E m \in {a, b} : \A y \in {a, b} : m <= y
  <2>1. CASE a <= b
    BY <2>1
  <2>2. CASE b <= a
    BY <2>2
  <2> QED  BY <2>1, <2>2
<1>2. \E m \in {a, b} : \A y \in {a, b} : m >= y
  <2>1. CASE a <= b
    BY <2>1
  <2>2. CASE b <= a
    BY <2>2
  <2> QED  BY <2>1, <2>2
<1> QED  BY <1>1, <1>2 DEF Min, Max

LEMMA PixelsFinite ==
  ASSUME NEW a \in Areas, NEW cell \in SUBSET PixelsOf(a)
  PROVE  IsFiniteSet(cell) /\ cell \in SUBSET (Nat \X Nat)
<1>1. Width(a) \in Nat \ {0} /\ TileSize \in Nat \ {0}
  BY AreaFacts, CellAssumption
<1>2. IsFiniteSet(0..(Width(a) - 1)) /\ IsFiniteSet(0..(TileSize - 1))
  BY <1>1, FS_Interval
<1>3. IsFiniteSet(PixelsOf(a))
  BY <1>2, FS_Product DEF PixelsOf
<1>4. IsFiniteSet(cell)
  BY <1>3, FS_Subset
<1> QED  BY <1>1, <1>4 DEF PixelsOf

\* A bound of one coordinate over the pixels of a cell.
LEMMA SpreadFacts ==
  ASSUME NEW cell, IsFiniteSet(cell), NEW f, f \in [cell -> Int], NEW p \in cell
  PROVE  LET all == {f[q] : q \in cell}
         IN  /\ Min(all) \in Int /\ Min(all) <= f[p]
             /\ Max(all) \in Int /\ Max(all) >= f[p]
<1> DEFINE all == {f[q] : q \in cell}
<1>1. IsFiniteSet(all) /\ all \in SUBSET Int /\ f[p] \in all
  BY ImageFinite
<1> HIDE DEF all
<1>2. /\ Min(all) \in Int /\ Min(all) <= f[p]
      /\ Max(all) \in Int /\ Max(all) >= f[p]
  BY <1>1, MinFacts, MaxFacts
<1> QED  BY <1>2 DEF all

\* What is seen in the bounding box of a cell is no weaker than any of its
\* pixels, if the raster is in
\* its own place.
LEMMA PeakSeen ==
  ASSUME NEW print \in Prints, InOwnPlace(print.area), raster.dbz = print,
         NEW cell \in SUBSET PixelsOf(print.area), NEW p \in cell
  PROVE  /\ MaxInBbox({Under(print.area, q) : q \in cell}) \in Nat
         /\ EchoAt(print, p) <= MaxInBbox({Under(print.area, q) : q \in cell})
<1> DEFINE fp == {Under(print.area, q) : q \in cell}
           W  == Width(print.area)
           x0 == print.area[1] * TileSize
           column(x) == (x - raster.west) * raster.width
           span  == raster.east - raster.west
           lefts  == {f[1] : f \in fp}
           rights == {f[1] + f[2] : f \in fp}
           rows   == {f[3] : f \in fp}
           minPx == Max({0, column(Min(lefts)) \div span})
           maxPx == Min({raster.width - 1, -((-column(Max(rights))) \div span)})
           minPy == Min(rows)
           maxPy == Min({TileSize - 1, Max(rows) + 1})
           seen  == {py * raster.width + px : px \in minPx..maxPx, py \in minPy..maxPy}
           B     == Buffer[raster.dbz]
           all   == {0} \cup {B[i] : i \in seen \cap DOMAIN B}
<1>1. MaxInBbox(fp) = Max(all)
  BY DEF MaxInBbox
<1>2. /\ W \in Nat \ {0} /\ TileSize \in Nat \ {0} /\ x0 \in Nat
      /\ raster.width = W /\ raster.west = 2 * x0 /\ span = 2 * W
  <2>1. print.area \in Areas /\ print.area[1] \in Nat
    BY PrintFacts, AreaFacts
  <2> QED  BY <2>1, AreaFacts, CellAssumption DEF InOwnPlace
<1>3. IsFiniteSet(cell) /\ \A q \in cell : q[1] \in Nat /\ q[2] \in Nat
  BY PrintFacts, PixelsFinite
<1>4. p[1] \in 0..(W - 1) /\ p[2] \in 0..(TileSize - 1)
  BY DEF PixelsOf
<1> HIDE DEF W, span
<1>5. Min(lefts) \in Int /\ Min(lefts) <= 2 * (x0 + p[1])
  <2> DEFINE f == [q \in cell |-> 2 * (x0 + q[1])]
  <2>1. lefts = {f[q] : q \in cell}
    <3>1. \A q \in cell : Under(print.area, q)[1] = f[q]
      BY DEF Under
    <3> HIDE DEF f
    <3>2. lefts = {Under(print.area, q)[1] : q \in cell}
      OBVIOUS
    <3> QED  BY <3>1, <3>2
  <2>2. f \in [cell -> Int] /\ f[p] = 2 * (x0 + p[1])
    BY <1>2, <1>3
  <2> HIDE DEF f, lefts
  <2> QED  BY <1>3, <2>1, <2>2, SpreadFacts
<1>6. Max(rights) \in Int /\ Max(rights) >= 2 * (x0 + p[1]) + 2
  <2> DEFINE f == [q \in cell |-> 2 * (x0 + q[1]) + 2]
  <2>1. rights = {f[q] : q \in cell}
    <3>1. \A q \in cell : Under(print.area, q)[1] + Under(print.area, q)[2] = f[q]
      BY DEF Under
    <3> HIDE DEF f
    <3>2. rights = {Under(print.area, q)[1] + Under(print.area, q)[2] : q \in cell}
      OBVIOUS
    <3> QED  BY <3>1, <3>2
  <2>2. f \in [cell -> Int] /\ f[p] = 2 * (x0 + p[1]) + 2
    BY <1>2, <1>3
  <2> HIDE DEF f, rights
  <2> QED  BY <1>3, <2>1, <2>2, SpreadFacts
<1>7. /\ Min(rows) \in Int /\ Min(rows) <= p[2]
      /\ Max(rows) \in Int /\ Max(rows) >= p[2]
  <2> DEFINE f == [q \in cell |-> q[2]]
  <2>1. rows = {f[q] : q \in cell}
    <3>1. \A q \in cell : Under(print.area, q)[3] = f[q]
      BY DEF Under
    <3> HIDE DEF f
    <3>2. rows = {Under(print.area, q)[3] : q \in cell}
      OBVIOUS
    <3> QED  BY <3>1, <3>2
  <2>2. f \in [cell -> Int] /\ f[p] = p[2]
    BY <1>3
  <2> HIDE DEF f, rows
  <2> QED  BY <1>3, <2>1, <2>2, SpreadFacts
<1> HIDE DEF lefts, rights, rows
<1>8. minPx \in Int /\ minPx <= p[1]
  <2> DEFINE u == Min(lefts) - 2 * x0
             d == (u * W) \div (2 * W)
  <2>1. u \in Int /\ p[1] \in Int /\ u <= 2 * p[1]
    BY <1>2, <1>4, <1>5
  <2> HIDE DEF u
  <2>2. d \in Int /\ d <= p[1]
    BY <1>2, <2>1, DivBound
  <2>3. minPx = Max({0, d})
    BY <1>2 DEF u
  <2> HIDE DEF d
  <2>4. Max({0, d}) \in {0, d}
    <3>1. d \in Int
      BY <2>2
    <3> QED  BY ONLY <3>1, PairFacts
  <2> QED  BY <1>4, <2>2, <2>3, <2>4
<1>9. maxPx \in Int /\ p[1] <= maxPx
  <2> DEFINE u == Max(rights) - 2 * x0
             d == -((-(u * W)) \div (2 * W))
  <2>1. u \in Int /\ p[1] \in Int /\ u >= 2 * p[1]
    BY <1>2, <1>4, <1>6
  <2> HIDE DEF u
  <2>2. d \in Int /\ d >= p[1]
    BY <1>2, <2>1, CeilBound
  <2>3. maxPx = Min({W - 1, d})
    BY <1>2 DEF u
  <2> HIDE DEF d
  <2>4. Min({W - 1, d}) \in {W - 1, d}
    BY <1>2, <2>2, PairFacts
  <2> QED  BY <1>2, <1>4, <2>2, <2>3, <2>4
<1>10. maxPy \in Int /\ p[2] <= maxPy
  <2>1. Min({TileSize - 1, Max(rows) + 1}) \in {TileSize - 1, Max(rows) + 1}
    BY <1>2, <1>7, PairFacts
  <2> QED  BY <1>2, <1>4, <1>7, <2>1
<1> DEFINE i == p[2] * W + p[1]
<1>11. i \in 0..(W * TileSize - 1) /\ i % W = p[1] /\ i \div W = p[2]
  <2> DEFINE x == p[1]
             y == p[2]
  <2>1. W \in Nat \ {0} /\ TileSize \in Nat \ {0}
    BY <1>2
  <2>2. x \in 0..(W - 1) /\ y \in 0..(TileSize - 1)
    BY <1>4
  <2> HIDE DEF x, y
  <2>3. y * W + x \in 0..(W * TileSize - 1) /\ (y * W + x) % W = x /\ (y * W + x) \div W = y
    BY ONLY <2>1, <2>2, Cell
  <2> QED  BY <2>3 DEF x, y
<1>12. i \in seen
  <2>1. p[1] \in minPx..maxPx /\ p[2] \in minPy..maxPy
    <3> HIDE DEF minPx, maxPx, maxPy
    <3> QED  BY <1>4, <1>7, <1>8, <1>9, <1>10
  <2> HIDE DEF minPx, maxPx, minPy, maxPy
  <2> QED  BY <1>2, <2>1
<1> HIDE DEF i, seen
<1>13. i \in DOMAIN B /\ B[i] = EchoAt(print, p)
  <2>1. DOMAIN B = 0..(W * TileSize - 1) /\ \A j \in DOMAIN B : B[j] = EchoAt(print, <<j % W, j \div W>>)
    BY BufferFacts DEF W
  <2>2. p = <<p[1], p[2]>>
    BY DEF PixelsOf
  <2> QED  BY <1>11, <2>1, <2>2
<1>14. IsFiniteSet(DOMAIN B) /\ \A j \in DOMAIN B : B[j] \in Nat
  BY BufferFacts
<1> HIDE DEF B
<1>15. /\ IsFiniteSet(all) /\ all \in SUBSET Nat /\ all \in SUBSET Int
       /\ EchoAt(print, p) \in all
  <2> DEFINE J == seen \cap DOMAIN B
             f == [j \in J |-> B[j]]
  <2>1. IsFiniteSet(J) /\ J \in SUBSET DOMAIN B
    BY <1>14, FS_Subset
  <2>2. IsFiniteSet({f[j] : j \in J})
    <3> HIDE DEF J
    <3> QED  BY <2>1, ImageFinite
  <2>3. {f[j] : j \in J} = {B[j] : j \in J}
    OBVIOUS
  <2>4. IsFiniteSet({B[j] : j \in J} \cup {0}) /\ all = {B[j] : j \in J} \cup {0}
    BY <2>2, <2>3, FS_AddElement
  <2> QED  BY <1>12, <1>13, <1>14, <2>4
<1>16. Max(all) \in all /\ Max(all) >= EchoAt(print, p)
  <2> HIDE DEF all
  <2> QED  BY <1>15, MaxFacts
<1>17. Max(all) \in Nat /\ EchoAt(print, p) \in Nat /\ EchoAt(print, p) <= Max(all)
  BY <1>15, <1>16
<1> HIDE DEF all
<1> QED  BY <1>1, <1>17

\* What CellsInPlace says of an answer, for what a raster of its key can be made
\* of.
InPlace(prints, area, features) ==
  LET shown == {f.footprint : f \in features}
  IN  /\ \E drawn \in prints : UNION shown = {Under(area, p) : p \in Mask[drawn]}
      /\ \A f, g \in shown : f # g => \A p \in f, r \in g :
            ~Beside(<<p[1] \div 2, p[3]>>, <<r[1] \div 2, r[3]>>)
      /\ \E measured \in prints : \A f \in features :
            f.maxDbz >= Rounded(Max(EchoUnder(measured, f.footprint)))

\* Two units of the place are a pixel.
LEMMA UnderPixel ==
  ASSUME NEW a \in Areas, NEW p \in PixelsOf(a)
  PROVE  /\ Under(a, p)[1] \div 2 = a[1] * TileSize + p[1]
         /\ Under(a, p)[3] = p[2]
         /\ p \in Nat \X Nat /\ a[1] * TileSize \in Nat
<1>1. a[1] * TileSize \in Nat
  <2>1. a[1] \in Nat /\ TileSize \in Nat
    BY AreaFacts, CellAssumption
  <2> QED  BY <2>1
<1>2. p \in Nat \X Nat
  BY PixelsFinite
<1> DEFINE x == a[1] * TileSize + p[1]
<1>3. x \in Nat
  BY <1>1, <1>2
<1>4. (2 * x) \div 2 = x
  <2> HIDE DEF x
  <2> QED  BY <1>3
<1> QED  BY <1>1, <1>2, <1>4 DEF Under

\* The peak that is answered for a cell is no weaker than the raster under it.
LEMMA PeakKept ==
  ASSUME NEW print \in Prints, InOwnPlace(print.area), raster.dbz = print,
         NEW cell \in SUBSET PixelsOf(print.area), cell # {}
  PROVE  LET fp == {Under(print.area, q) : q \in cell}
         IN  Rounded(MaxInBbox(fp)) >= Rounded(Max(EchoUnder(print, fp)))
<1> DEFINE a     == print.area
           fp    == {Under(a, q) : q \in cell}
           at(f) == EchoAt(print, <<f[1] \div 2 - a[1] * TileSize, f[3]>>)
           peak  == MaxInBbox(fp)
           echo  == EchoUnder(print, fp)
<1>1. a \in Areas /\ IsFiniteSet(cell)
  BY PrintFacts, PixelsFinite
<1>2. ASSUME NEW q \in cell
      PROVE  EchoAt(print, q) \in Nat /\ EchoAt(print, q) <= peak /\ peak \in Nat
  BY EchoFacts, PeakSeen
<1>3. ASSUME NEW q \in cell
      PROVE  at(Under(a, q)) = EchoAt(print, q)
  <2> DEFINE x0 == a[1] * TileSize
             u  == Under(a, q)
  <2>1. /\ u[1] \div 2 = x0 + q[1] /\ u[3] = q[2] /\ q \in Nat \X Nat /\ x0 \in Nat
    BY <1>1, UnderPixel
  <2> HIDE DEF x0, u
  <2>2. u[1] \div 2 - x0 = q[1] /\ q = <<q[1], q[2]>>
    BY <2>1
  <2>3. EchoAt(print, <<u[1] \div 2 - x0, u[3]>>) = EchoAt(print, q)
    BY <2>1, <2>2
  <2> QED  BY <2>3 DEF x0, u
<1>4. echo = {at(f) : f \in fp}
  BY DEF EchoUnder
<1> HIDE DEF peak, echo, at
<1>5. echo = {EchoAt(print, q) : q \in cell}
  <2>1. echo = {at(Under(a, q)) : q \in cell}
    BY <1>4, Zenon
  <2> QED  BY <1>3, <2>1, Zenon
<1>6. Max(echo) \in echo
  <2> DEFINE f == [q \in cell |-> EchoAt(print, q)]
  <2>1. IsFiniteSet({f[q] : q \in cell}) /\ {f[q] : q \in cell} = echo
    BY <1>1, <1>5, ImageFinite
  <2>2. echo \in SUBSET Int /\ echo # {} /\ IsFiniteSet(echo)
    BY <1>2, <1>5, <2>1
  <2> QED  BY <2>2, MaxFacts
<1>7. Max(echo) \in Nat /\ peak \in Nat /\ Max(echo) <= peak
  BY <1>2, <1>5, <1>6
<1>8. \A x, y \in Nat : x <= y => Rounded(x) <= Rounded(y) /\ Rounded(x) \in Int /\ Rounded(y) \in Int
  BY DEF Rounded
<1>9. Rounded(peak) >= Rounded(Max(echo))
  BY <1>7, <1>8
<1> QED  BY <1>9 DEF peak, echo, fp, a

\* What is traced from one raster and, in the same place, measured from another
\* is answered where it is.
LEMMA FoundInPlace ==
  ASSUME NEW prints, prints \subseteq Prints, NEW a \in Areas, \A print \in prints : print.area = a,
         NEW drawn \in prints, NEW measured \in prints, InOwnPlace(a), raster.dbz = measured
  PROVE  InPlace(prints, a, {Measured(Footprint(c, Width(a), <<West(a), East(a)>>))
                               : c \in Traced[drawn]})
<1> DEFINE fp(c) == {Under(a, p) : p \in c}
           found == {Measured(Footprint(c, Width(a), <<West(a), East(a)>>)) : c \in Traced[drawn]}
           shown == {f.footprint : f \in found}
<1>1. Traced[drawn] = CellsOf(Mask[drawn]) /\ Mask[drawn] \in SUBSET PixelsOf(a)
  <2>1. drawn \in Prints /\ drawn.area = a
    OBVIOUS
  <2> QED  BY <2>1 DEF Traced, Mask
<1>2. ASSUME NEW c \in Traced[drawn]
      PROVE  /\ c \in SUBSET Mask[drawn] /\ c # {} /\ c \in SUBSET PixelsOf(a)
             /\ Footprint(c, Width(a), <<West(a), East(a)>>) = fp(c)
  <2>1. c \in SUBSET Mask[drawn] /\ c # {}
    BY <1>1, CellsInMask, CellsCover
  <2> QED  BY <1>1, <2>1, FootprintUnder
<1>3. found = {Measured(fp(c)) : c \in Traced[drawn]}
  BY <1>2
<1>4. ASSUME NEW c \in Traced[drawn]
      PROVE  Measured(fp(c)).footprint = fp(c) /\ Measured(fp(c)).maxDbz = Rounded(MaxInBbox(fp(c)))
  BY DEF Measured
<1> HIDE DEF fp, found
<1>5. shown = {fp(c) : c \in Traced[drawn]}
  <2> DEFINE m(c) == Measured(fp(c))
  <2>1. \A c \in Traced[drawn] : m(c).footprint = fp(c)
    BY <1>4
  <2>2. found = {m(c) : c \in Traced[drawn]}
    BY <1>3
  <2> HIDE DEF m
  <2>3. {f.footprint : f \in found} = {m(c).footprint : c \in Traced[drawn]}
    BY <2>2, Zenon
  <2> QED  BY <2>1, <2>3, Zenon
<1>6. UNION shown = {Under(a, p) : p \in Mask[drawn]}
  <2>1. UNION Traced[drawn] = Mask[drawn]
    BY <1>1, CellsCover
  <2>2. \A c : fp(c) = {Under(a, p) : p \in c}
    BY DEF fp
  <2>3. ASSUME NEW x \in UNION shown PROVE x \in {Under(a, p) : p \in Mask[drawn]}
    <3>1. PICK c \in Traced[drawn] : x \in fp(c)
      BY <1>5, <2>3
    <3> QED  BY <2>1, <2>2, <3>1
  <2>4. ASSUME NEW p \in Mask[drawn] PROVE Under(a, p) \in UNION shown
    <3>1. PICK c \in Traced[drawn] : p \in c
      BY <2>1
    <3>2. fp(c) \in shown /\ Under(a, p) \in fp(c)
      BY <1>5, <2>2, <3>1
    <3> QED  BY <3>2
  <2> HIDE DEF shown
  <2> QED  BY <2>3, <2>4
<1>7. ASSUME NEW f \in shown, NEW g \in shown, f # g, NEW p \in f, NEW r \in g,
             Beside(<<p[1] \div 2, p[3]>>, <<r[1] \div 2, r[3]>>)
      PROVE  FALSE
  <2>1. PICK c \in Traced[drawn] : f = fp(c)
    BY <1>5
  <2>2. PICK d \in Traced[drawn] : g = fp(d)
    BY <1>5
  <2>3. PICK x \in c : p = Under(a, x)
    BY <2>1 DEF fp
  <2>4. PICK y \in d : r = Under(a, y)
    BY <2>2 DEF fp
  <2>5. x \in PixelsOf(a) /\ y \in PixelsOf(a)
    BY <1>2
  <2> DEFINE x0 == a[1] * TileSize
  <2>6. /\ p[1] \div 2 = x0 + x[1] /\ p[3] = x[2] /\ x0 \in Nat /\ x \in Nat \X Nat
        /\ r[1] \div 2 = x0 + y[1] /\ r[3] = y[2] /\ y \in Nat \X Nat
    BY <2>3, <2>4, <2>5, UnderPixel
  <2> HIDE DEF x0
  <2>7. Beside(<<x0 + x[1], x[2]>>, <<x0 + y[1], y[2]>>)
    BY <1>7, <2>6
  <2>8. Beside(x, y)
    BY <2>6, <2>7 DEF Beside
  <2>9. Mask[drawn] \in SUBSET (Nat \X Nat)
    BY <1>1, PixelsFinite
  <2>10. c = d
    BY <1>1, <2>8, <2>9, CellsApart
  <2> QED  BY <1>7, <2>1, <2>2, <2>10
<1>8. ASSUME NEW f \in found PROVE f.maxDbz >= Rounded(Max(EchoUnder(measured, f.footprint)))
  <2>1. PICK c \in Traced[drawn] : f = Measured(fp(c))
    BY <1>3
  <2>2. measured \in Prints /\ measured.area = a
    OBVIOUS
  <2>3. c \in SUBSET PixelsOf(measured.area) /\ c # {}
    BY <1>2, <2>2
  <2>4. Rounded(MaxInBbox(fp(c))) >= Rounded(Max(EchoUnder(measured, fp(c))))
    BY <2>2, <2>3, PeakKept DEF fp
  <2> QED  BY <1>4, <2>1, <2>4
<1>9. InPlace(prints, a, found)
  <2>1. \A f, g \in shown : f # g => \A p \in f, r \in g :
          ~Beside(<<p[1] \div 2, p[3]>>, <<r[1] \div 2, r[3]>>)
    BY <1>7
  <2> QED  BY <1>6, <1>8, <2>1 DEF InPlace
<1> QED  BY <1>9 DEF found

-----------------------------------------------------------------------------
(* What a query has read *)

\* The composite of f shows one of its writings.
Shown(f) == shows[f] \in writings[f]

\* The latest composite has been written, and so has what a query has read and
\* what it reads next.
SeenInv ==
  /\ latestComposite # NoValue => Shown(latestComposite)
  /\ \A q \in Queries : query[q].step # "idle" =>
       Shown(query[q].key.frame) /\ query[q].seen \in Seq(writings[query[q].key.frame])

\* A step of a query keeps its key and what it has read, lets it go, or reads.
Reads(r) ==
  /\ query[r].step # "idle" /\ query'[r].key = query[r].key
  /\ query'[r].seen \in {query[r].seen, << >>, SeesNext(r)}

LEMMA SeenTurn ==
  ASSUME SeenInv, UNCHANGED <<shows, writings, latestComposite>>,
         \A r \in Queries : query'[r] = query[r] \/ Reads(r)
  PROVE  SeenInv'
<1>1. ASSUME NEW r \in Queries, query'[r].step # "idle"
      PROVE  /\ Shown(query'[r].key.frame)
             /\ query'[r].seen \in Seq(writings[query'[r].key.frame])
  <2>1. CASE query'[r] = query[r]
    BY <1>1, <2>1 DEF SeenInv
  <2>2. CASE Reads(r)
    <3> DEFINE f    == query[r].key.frame
               seen == query[r].seen
    <3>1. shows[f] \in writings[f] /\ seen \in Seq(writings[f]) /\ query'[r].key.frame = f
      BY <2>2 DEF SeenInv, Reads, Shown
    <3>2. query'[r].seen \in {seen, << >>, Append(seen, shows[f])}
      BY <2>2 DEF Reads, SeesNext
    <3> HIDE DEF f, seen
    <3>3. Append(seen, shows[f]) \in Seq(writings[f]) /\ << >> \in Seq(writings[f])
      BY <3>1, AppendProperties, EmptySeq
    <3> QED  BY <3>1, <3>2, <3>3 DEF Shown
  <2> QED  BY <1>1, <2>1, <2>2
<1>2. latestComposite' # NoValue => Shown(latestComposite)'
  BY DEF SeenInv, Shown
<1>3. \A f : Shown(f)' = Shown(f)
  BY DEF Shown
<1> QED  BY <1>1, <1>2, <1>3 DEF SeenInv, Queries, Shown

LEMMA OneReads ==
  ASSUME query \in [Queries -> Query], NEW q \in Queries, NEW k \in Query,
         query' = [query EXCEPT ![q] = k], query[q].step # "idle", k.key = query[q].key,
         k.seen \in {query[q].seen, << >>, SeesNext(q)}
  PROVE  \A r \in Queries : query'[r] = query[r] \/ Reads(r)
BY QuerySet DEF Turns, Reads

LEMMA AnswerReads ==
  ASSUME query \in [Queries -> Query], NEW q \in Queries, NEW features \in SUBSET Feature,
         Answered(q, features), query[q].step # "idle"
  PROVE  \A r \in Queries : query'[r] = query[r] \/ Reads(r)
BY AnsweredFacts DEF Turns, Reads

LEMMA CellReads ==
  ASSUME CellInv, EchoType, CellStep
  PROVE  \A r \in Queries : query'[r] = query[r] \/ Reads(r)
<1>0. query \in [Queries -> Query] /\ {} \in SUBSET Feature
  BY DEF CellInv
<1>1. ASSUME NEW q \in Queries, Hit(q) PROVE \A r \in Queries : query'[r] = query[r] \/ Reads(r)
  <2> DEFINE found == cellCache[CacheKey(q)]
             b     == CacheKey(q) \in tainted
             k     == [query[q] EXCEPT !.step = "answered", !.answer = found, !.clashed = b]
  <2>1. query[q] \in Query /\ found \in SUBSET Feature /\ b \in BOOLEAN /\ query[q].step # "idle"
    BY <1>1 DEF CellInv, Hit
  <2>2. query' = [query EXCEPT ![q] = k]
    BY <1>1 DEF Hit
  <2> HIDE DEF found, b
  <2>3. k \in Query /\ k.key = query[q].key /\ k.seen = query[q].seen
    BY <2>1 DEF Query
  <2> HIDE DEF k
  <2> QED  BY <1>0, <2>1, <2>2, <2>3, OneReads
<1>2. ASSUME NEW q \in Queries, Miss(q) PROVE \A r \in Queries : query'[r] = query[r] \/ Reads(r)
  <2> SUFFICES ASSUME NEW r \in Queries PROVE query'[r] = query[r] \/ Reads(r)
    OBVIOUS
  <2>1. CASE r = q
    <3>1. query'[q].key = query[q].key /\ query'[q].seen = SeesNext(q)
      BY <1>2, MissQueries
    <3>2. query[q].step # "idle"
      BY <1>2 DEF Miss
    <3> QED  BY <2>1, <3>1, <3>2 DEF Reads
  <2>2. CASE r # q
    <3> DEFINE others == {x \in InFlight : query[x].key # query[q].key}
    <3>1. query'[r] = query[r] \/ r \in others
      BY <1>2, <2>2 DEF Miss
    <3>2. r \in others => query[r].step # "idle"
      BY DEF InFlight
    <3>3. query'[r].key = query[r].key /\ query'[r].seen = query[r].seen
      BY <1>2, <2>2, MissQueries
    <3> QED  BY <3>1, <3>2, <3>3 DEF Reads
  <2> QED  BY <2>1, <2>2
<1>3. ASSUME NEW q \in Queries, ReadTile(q)
      PROVE  \A r \in Queries : query'[r] = query[r] \/ Reads(r)
  <2> DEFINE seen == SeesNext(q)
             k    == [query[q] EXCEPT !.seen = seen]
  <2>1. query[q].step # "idle" /\ query[q] \in Query
    BY <1>0, <1>3 DEF ReadTile
  <2>2. seen \in Seq(Contents)
    BY <2>1, SeesType
  <2>3. query' = [query EXCEPT ![q] = k]
    BY <1>3 DEF ReadTile
  <2> HIDE DEF seen
  <2>4. k \in Query /\ k.key = query[q].key /\ k.seen = seen
    BY <2>1, <2>2 DEF Query
  <2> HIDE DEF k
  <2> QED  BY <1>0, <2>1, <2>3, <2>4, OneReads DEF seen
<1>4. ASSUME NEW q \in Queries, Stitch(q)
      PROVE  \A r \in Queries : query'[r] = query[r] \/ Reads(r)
  <2>1. CASE Mask[PrintOf(q)] = {}
    <3>1. Answered(q, {}) /\ query[q].step # "idle"
      BY <1>4, <2>1 DEF Stitch
    <3> QED  BY <1>0, <3>1, AnswerReads
  <2>2. CASE Mask[PrintOf(q)] # {}
    <3> DEFINE k == [query[q] EXCEPT !.step = "trace"]
    <3>1. query[q].step # "idle" /\ query[q] \in Query /\ query' = [query EXCEPT ![q] = k]
      BY <1>0, <1>4, <2>2 DEF Stitch
    <3>2. k \in Query /\ k.key = query[q].key /\ k.seen = query[q].seen
      BY <3>1 DEF Query
    <3> HIDE DEF k
    <3> QED  BY <1>0, <3>1, <3>2, OneReads
  <2> QED  BY <2>1, <2>2
<1>5. ASSUME NEW q \in Queries, Trace(q)
      PROVE  \A r \in Queries : query'[r] = query[r] \/ Reads(r)
  <2> DEFINE place == <<raster.west, raster.east>>
             k     == [query[q] EXCEPT !.step = "measure", !.place = place]
  <2>1. query[q].step # "idle" /\ query[q] \in Query /\ place \in Nat \X Nat
    BY <1>0, <1>5 DEF Trace, CellInv, Raster
  <2>2. query' = [query EXCEPT ![q] = k]
    BY <1>5 DEF Trace
  <2> HIDE DEF place
  <2>3. k \in Query /\ k.key = query[q].key /\ k.seen = query[q].seen
    BY <2>1 DEF Query
  <2> HIDE DEF k
  <2> QED  BY <1>0, <2>1, <2>2, <2>3, OneReads
<1>6. ASSUME NEW q \in Queries, TraceFails(q)
      PROVE  \A r \in Queries : query'[r] = query[r] \/ Reads(r)
  BY <1>0, <1>6, AnswerReads DEF TraceFails
<1>7. ASSUME NEW q \in Queries, Measure(q)
      PROVE  \A r \in Queries : query'[r] = query[r] \/ Reads(r)
  <2>1. PICK found \in SUBSET Feature : Answered(q, found)
    BY <1>7, FoundType DEF Measure
  <2>2. query[q].step # "idle"
    BY <1>7 DEF Measure
  <2> QED  BY <1>0, <2>1, <2>2, AnswerReads
<1>8. ASSUME NEW k \in Keys, CellsExpire(k)
      PROVE  \A r \in Queries : query'[r] = query[r] \/ Reads(r)
  BY <1>8 DEF CellsExpire
<1> QED  BY <1>1, <1>2, <1>3, <1>4, <1>5, <1>6, <1>7, <1>8 DEF CellStep

\* What has been written stays written.
LEMMA DrawnKeeps ==
  ASSUME EchoType, NEW t \in Frames, NEW c, Drawn(t, c), NEW f \in Frames
  PROVE  /\ writings[f] \subseteq writings'[f]
         /\ Shown(f) => Shown(f)'
         /\ Shown(t)'
BY DEF EchoType, Drawn, Shown

LEMMA SeenNext == ApiTypeOK /\ CellInv /\ EchoType /\ SeenInv /\ [Next]_vars => SeenInv'
<1> SUFFICES ASSUME ApiTypeOK, CellInv, EchoType, SeenInv, [Next]_vars PROVE SeenInv'
  OBVIOUS
<1>1. ASSUME NEW h \in Handlers, UpdateStep(h) \/ Fault(h) PROVE UNCHANGED latestComposite
  BY <1>1 DEF UpdateStep, Fault, HandlerStep, HandlerFault, SyncRead, SyncAdd, SyncRemove,
     ListWatched, ReadLatest, SampleAirport, ReadPrevious, CompareAirport, StoreSituation,
     StorePrevious, RecordHistory, Summarise, Tell, AirportFails, SummariseFails, HandlerFails,
     radarVars
<1>2. ASSUME UNCHANGED <<latestComposite, echoVars, cellVars>> PROVE SeenInv'
  BY <1>2 DEF SeenInv, Shown, echoVars, cellVars, Queries
<1>3. ASSUME NEW h \in Handlers, Announce(h) PROVE SeenInv'
  <2>1. PICK t \in Stamps, skies \in [Airports -> Skies], c \in Contents :
          NewFrame(h, t, skies) /\ Drawn(t, c)
    BY <1>3 DEF Announce
  <2>2. t \in Frames /\ latestComposite' = t /\ UNCHANGED query
    BY <1>3, <2>1, EventsAssumption DEF Announce, NewFrame, cellVars
  <2>3. Shown(latestComposite)'
    BY <2>1, <2>2, DrawnKeeps DEF Shown
  <2>4. ASSUME NEW q \in Queries, query[q].step # "idle"
        PROVE  /\ Shown(query[q].key.frame)'
               /\ query[q].seen \in Seq(writings'[query[q].key.frame])
    <3> DEFINE f == query[q].key.frame
    <3>1. f \in Frames /\ Shown(f) /\ query[q].seen \in Seq(writings[f])
      BY <2>4 DEF CellInv, QuerySound, Keys, SeenInv
    <3> HIDE DEF f
    <3>2. writings[f] \subseteq writings'[f] /\ shows'[f] \in writings'[f]
      BY <2>1, <2>2, <3>1 DEF Drawn, EchoType, Shown
    <3>3. query[q].seen \in Seq(writings'[f])
      BY <3>1, <3>2, SeqMonotonic
    <3>4. (query[q].key.frame)' = f
      BY <2>2 DEF f
    <3> HIDE DEF f
    <3>5. Shown(query[q].key.frame)' <=> shows'[f] \in writings'[f]
      BY <3>4 DEF Shown
    <3> QED  BY <3>2, <3>3, <3>5 DEF f
  <2> QED  BY <2>2, <2>3, <2>4 DEF SeenInv, Shown, Queries
<1>4. ASSUME NEW q \in Queries, AskCells(q) PROVE SeenInv'
  <2>1. latestComposite # NoValue /\ UNCHANGED <<shows, writings, latestComposite>>
    BY <1>4 DEF AskCells, echoVars, updaterVars, radarVars
  <2>2. PICK t \in CellThresholds, a \in Areas : Detect(q, latestComposite, t, a)
    BY <1>4 DEF AskCells
  <2> DEFINE key == [frame |-> latestComposite, threshold |-> t, area |-> a]
             k   == [NoQuery EXCEPT !.step = "lookup", !.key = key]
  <2>3. k.key = key /\ k.seen = << >>
    BY DEF NoQuery
  <2>4. query' = [query EXCEPT ![q] = k] /\ key.frame = latestComposite
    BY <2>2 DEF Detect
  <2>5. query'[q] = k /\ \A r \in Queries \ {q} : query'[r] = query[r]
    <3> HIDE DEF k
    <3> QED  BY <2>4 DEF CellInv
  <2> HIDE DEF k, key
  <2>6. << >> \in Seq(writings[latestComposite])
    BY EmptySeq
  <2>7. ASSUME NEW r \in Queries, query'[r].step # "idle"
        PROVE  /\ Shown(query'[r].key.frame)
               /\ query'[r].seen \in Seq(writings[query'[r].key.frame])
    <3>1. CASE r = q
      <4>1. query'[r].key.frame = latestComposite /\ query'[r].seen = << >>
        BY <2>3, <2>4, <2>5, <3>1
      <4>2. Shown(latestComposite)
        BY <2>1 DEF SeenInv
      <4> QED  BY <2>6, <4>1, <4>2
    <3>2. CASE r # q
      BY <2>5, <2>7, <3>2 DEF SeenInv
    <3> QED  BY <3>1, <3>2
  <2>8. \A f : Shown(f)' = Shown(f)
    BY <2>1 DEF Shown
  <2> QED  BY <2>1, <2>7, <2>8 DEF SeenInv, Shown, Queries
<1>5. ASSUME CellStep, UNCHANGED latestComposite PROVE SeenInv'
  BY <1>5, CellReads, SeenTurn DEF CellStep, echoVars
<1>6. ASSUME Restart PROVE SeenInv'
  <2>1. \A q \in Queries : query'[q].step = "idle"
    BY <1>6 DEF Restart, NoQuery
  <2> QED  BY <1>6, <2>1 DEF Restart, echoVars, radarVars, SeenInv, Shown, Queries
<1> QED
  BY <1>1, <1>2, <1>3, <1>4, <1>5, <1>6
     DEF Next, HandlersStep, ClientsStep, QueriesStep, vars, UpdateStep, Fault, ClientSubscribes, updaterVars, radarVars,
         TimePasses

\* A raster made of what a query of that key has read is one of its key.
LEMMA KeyPrints ==
  ASSUME EchoType, NEW key \in Keys
  PROVE  PrintsOf(key) \subseteq Prints /\ \A print \in PrintsOf(key) : print.area = key.area
<1>1. key.frame \in Frames /\ key.area \in Areas /\ key.threshold \in CellThresholds
  BY DEF Keys
<1>2. writings[key.frame] \subseteq Contents
  BY <1>1 DEF EchoType
<1> QED  BY <1>1, <1>2 DEF PrintsOf, Prints

LEMMA OwnPrint ==
  ASSUME CellInv, SeenInv, NEW q \in Queries, query[q].step # "idle", PrintOf(q) \in Prints
  PROVE  PrintOf(q) \in PrintsOf(query[q].key)
<1> DEFINE seen == query[q].seen
           n    == Tiles(query[q].key.area)
           W    == writings[query[q].key.frame]
<1>1. seen \in [1..n -> Contents]
  BY PrintFacts DEF PrintOf
<1>2. seen \in Seq(W)
  BY DEF SeenInv
<1> HIDE DEF seen, n, W
<1>3. seen \in [1..Len(seen) -> W] /\ DOMAIN seen = 1..Len(seen)
  BY <1>2, LenProperties
<1>4. seen \in [1..n -> W]
  BY <1>1, <1>3
<1> QED  BY <1>4 DEF seen, n, W, PrintOf, PrintsOf

-----------------------------------------------------------------------------
(* The detector's fields, from await to await *)

\* A query that clashed with no other finds the fields as it set them, and
\* reflectivities that it or one with its key has read.
Placed(q) ==
  query[q].step \in {"stitch", "trace", "measure"} /\ ~query[q].clashed =>
    LET key == query[q].key
    IN  /\ InOwnPlace(key.area)
        /\ query[q].step \in {"trace", "measure"} => raster.dbz \in PrintsOf(key)
        /\ query[q].step = "measure" => query[q].place = <<West(key.area), East(key.area)>>

AnsweredInPlace(q) ==
  query[q].step = "answered" /\ ~query[q].clashed /\ query[q].answer # {} =>
    InPlace(PrintsOf(query[q].key), query[q].key.area, query[q].answer)

StoredInPlace ==
  \A k \in DOMAIN cellCache \ tainted : InPlace(PrintsOf(k), k.area, cellCache[k])

\* Of two queries in flight with two keys both know that they have clashed: the
\* later one looked when it set the fields, and marked the earlier one.
Clashing == \A q, r \in InFlight : query[q].key # query[r].key => query[q].clashed

PlaceInv ==
  /\ Clashing
  /\ StoredInPlace
  /\ \A q \in Queries : Placed(q) /\ AnsweredInPlace(q)

LEMMA PlaceInit == CellInit => PlaceInv
<1> SUFFICES ASSUME CellInit PROVE PlaceInv
  OBVIOUS
<1>1. \A q \in Queries : query[q].step = "idle"
  BY DEF CellInit, NoQuery
<1>2. DOMAIN cellCache = {}
  BY DEF CellInit
<1> QED  BY <1>1, <1>2 DEF PlaceInv, Clashing, StoredInPlace, Placed, AnsweredInPlace, InFlight

\* The fields show the same place, and reflectivities of another key only if
\* query q, in flight with that key, has put them there.
FieldsOf(q) ==
  /\ raster'.west = raster.west /\ raster'.east = raster.east /\ raster'.width = raster.width
  /\ raster'.dbz # raster.dbz => q \in InFlight /\ raster'.dbz \in PrintsOf(query[q].key)

\* What keeps the invariant when query q alone moves: the queries beside it that
\* it could disturb have clashed.
LEMMA PlaceTurn ==
  ASSUME PlaceInv, NEW q \in Queries, Turns(q), FieldsOf(q), UNCHANGED writings,
         q \in InFlight' => /\ q \in InFlight
                            /\ query'[q].key = query[q].key
                            /\ query'[q].clashed = query[q].clashed,
         Placed(q)', AnsweredInPlace(q)', StoredInPlace'
  PROVE  PlaceInv'
<1>1. ASSUME NEW r \in Queries, r # q PROVE Placed(r)' /\ AnsweredInPlace(r)'
  <2>1. query'[r] = query[r] /\ Placed(r) /\ AnsweredInPlace(r)
    BY <1>1 DEF Turns, PlaceInv
  <2>2. ASSUME query[r].step \in {"stitch", "trace", "measure"}, ~query[r].clashed
        PROVE  raster'.dbz # raster.dbz => raster'.dbz \in PrintsOf(query[r].key)
    <3>1. r \in InFlight
      BY <2>2 DEF InFlight
    <3>2. q \in InFlight => query[q].key = query[r].key
      BY <2>2, <3>1 DEF PlaceInv, Clashing
    <3> QED  BY <3>2 DEF FieldsOf
  <2>3. Placed(r)'
    BY <2>1, <2>2 DEF Placed, InOwnPlace, FieldsOf, PrintsOf
  <2>4. AnsweredInPlace(r)'
    BY <2>1 DEF AnsweredInPlace, PrintsOf
  <2> QED  BY <2>3, <2>4
<1>2. Clashing'
  <2>1. \A r \in InFlight' : /\ r \in InFlight /\ query'[r].key = query[r].key
                             /\ query'[r].clashed = query[r].clashed
    BY DEF InFlight, Turns
  <2> QED  BY <2>1 DEF Clashing, PlaceInv
<1> QED  BY <1>1, <1>2 DEF PlaceInv, Queries

\* An answer with no raster changed and nothing stored.
LEMMA AnswerPlace ==
  ASSUME PlaceInv, NEW q \in Queries, Turns(q), query'[q].step = "answered",
         UNCHANGED <<raster, cellCache, tainted, writings>>, AnsweredInPlace(q)'
  PROVE  PlaceInv'
<1>1. Placed(q)' /\ q \notin InFlight'
  BY DEF Placed, InFlight
<1>2. StoredInPlace' /\ FieldsOf(q)
  BY DEF PlaceInv, StoredInPlace, FieldsOf, PrintsOf
<1> QED  BY <1>1, <1>2, PlaceTurn

LEMMA DetectPlace ==
  ASSUME CellInv, PlaceInv, NEW q \in Queries, NEW frame \in Frames,
         NEW threshold \in CellThresholds, NEW area \in Areas,
         Detect(q, frame, threshold, area), UNCHANGED writings
  PROVE  PlaceInv'
<1> DEFINE key == [frame |-> frame, threshold |-> threshold, area |-> area]
           k   == [NoQuery EXCEPT !.step = "lookup", !.key = key]
<1>1. key \in Keys
  BY DEF Keys
<1>2. k \in Query /\ k.step = "lookup"
  BY <1>1, NoQueryType DEF NoQuery, Query
<1>3. query' = [query EXCEPT ![q] = k]
  BY DEF Detect
<1>4. query \in [Queries -> Query]
  BY DEF CellInv
<1> HIDE DEF k, key
<1>5. query'[q].step = "lookup" /\ Turns(q)
  BY <1>2, <1>3, <1>4, QuerySet
<1>6. Placed(q)' /\ AnsweredInPlace(q)' /\ q \notin InFlight'
  BY <1>5 DEF Placed, AnsweredInPlace, InFlight
<1>7. FieldsOf(q) /\ StoredInPlace'
  BY DEF Detect, FieldsOf, PlaceInv, StoredInPlace, PrintsOf
<1> QED  BY <1>5, <1>6, <1>7, PlaceTurn

LEMMA HitPlace ==
  ASSUME CellInv, PlaceInv, NEW q \in Queries, Hit(q), UNCHANGED writings
  PROVE  PlaceInv'
<1> DEFINE key   == query[q].key
           found == cellCache[key]
           b     == key \in tainted
           k     == [query[q] EXCEPT !.step = "answered", !.answer = found, !.clashed = b]
<1>1. query \in [Queries -> Query] /\ query[q] \in Query /\ found \in SUBSET Feature
  BY DEF CellInv, Hit, CacheKey
<1>2. k \in Query /\ k.step = "answered" /\ k.answer = found /\ k.key = key /\ k.clashed = b
  <2>1. b \in BOOLEAN
    OBVIOUS
  <2> HIDE DEF found, b
  <2> QED  BY <1>1, <2>1 DEF Query
<1>3. query' = [query EXCEPT ![q] = k]
  BY DEF Hit, CacheKey
<1> HIDE DEF k
<1>4. query'[q] = k /\ Turns(q)
  BY <1>1, <1>2, <1>3, QuerySet
<1>5. ~b => InPlace(PrintsOf(key), key.area, found)
  BY DEF Hit, CacheKey, PlaceInv, StoredInPlace
<1> HIDE DEF found, b, key
<1>6. AnsweredInPlace(q)'
  BY <1>2, <1>4, <1>5 DEF AnsweredInPlace, PrintsOf
<1> QED  BY <1>2, <1>4, <1>6, AnswerPlace DEF Hit

LEMMA ReadTilePlace ==
  ASSUME CellInv, EchoType, PlaceInv, NEW q \in Queries, ReadTile(q), UNCHANGED writings
  PROVE  PlaceInv'
<1> DEFINE seen == SeesNext(q)
           k    == [query[q] EXCEPT !.seen = seen]
<1>1. query \in [Queries -> Query] /\ query[q] \in Query /\ query[q].step = "stitch"
  BY DEF CellInv, ReadTile
<1>2. seen \in Seq(Contents)
  BY <1>1, SeesType
<1>3. query' = [query EXCEPT ![q] = k]
  BY DEF ReadTile
<1> HIDE DEF seen
<1>4. k \in Query /\ k.step = "stitch" /\ k.key = query[q].key /\ k.clashed = query[q].clashed
  BY <1>1, <1>2 DEF Query
<1> HIDE DEF k
<1>5. query'[q] = k /\ Turns(q)
  BY <1>1, <1>3, <1>4, QuerySet
<1>6. q \in InFlight /\ FieldsOf(q) /\ UNCHANGED <<raster, cellCache, tainted>>
  BY <1>1 DEF InFlight, FieldsOf, ReadTile
<1>7. Placed(q) /\ AnsweredInPlace(q)' /\ StoredInPlace'
  BY <1>4, <1>5, <1>6 DEF PlaceInv, StoredInPlace, AnsweredInPlace, PrintsOf
<1>8. Placed(q)'
  BY <1>1, <1>4, <1>5, <1>6, <1>7 DEF Placed, InOwnPlace
<1> QED  BY <1>4, <1>5, <1>6, <1>7, <1>8, PlaceTurn

LEMMA StitchPlace ==
  ASSUME CellInv, SeenInv, PlaceInv, NEW q \in Queries, Stitch(q), UNCHANGED writings
  PROVE  PlaceInv'
<1> DEFINE key == query[q].key
           k   == [query[q] EXCEPT !.step = "trace"]
<1>1. query \in [Queries -> Query] /\ query[q] \in Query /\ key \in Keys /\ raster \in Raster
  BY DEF CellInv, Stitch, QuerySound
<1>2. /\ raster'.west = raster.west /\ raster'.east = raster.east /\ raster'.width = raster.width
      /\ raster'.dbz \in PrintsOf(key)
  <2>1. PrintOf(q) \in PrintsOf(key)
    BY WholePrint, OwnPrint DEF Stitch
  <2> QED  BY <1>1, <2>1 DEF Stitch, Raster
<1>3. q \in InFlight
  BY DEF Stitch, InFlight
<1>4. FieldsOf(q) /\ StoredInPlace'
  BY <1>2, <1>3 DEF FieldsOf, Stitch, PlaceInv, StoredInPlace, PrintsOf
<1>5. ~query[q].clashed => InOwnPlace(key.area)
  BY DEF PlaceInv, Placed, Stitch
<1>6. CASE Mask[PrintOf(q)] = {}
  <2>1. Answered(q, {}) /\ {} \in SUBSET Feature
    BY <1>6 DEF Stitch
  <2>2. Turns(q) /\ query'[q].step = "answered" /\ query'[q].answer = {}
    BY <1>1, <2>1, AnsweredFacts
  <2>3. Placed(q)' /\ AnsweredInPlace(q)' /\ q \notin InFlight'
    BY <2>2 DEF Placed, AnsweredInPlace, InFlight
  <2> QED  BY <1>4, <2>2, <2>3, PlaceTurn
<1>7. CASE Mask[PrintOf(q)] # {}
  <2>1. /\ k \in Query /\ k.step = "trace" /\ k.key = key
        /\ k.clashed = query[q].clashed
    BY <1>1 DEF Query
  <2>2. query' = [query EXCEPT ![q] = k]
    BY <1>7 DEF Stitch
  <2> HIDE DEF k
  <2>3. query'[q] = k /\ Turns(q)
    BY <1>1, <2>1, <2>2, QuerySet
  <2>4. AnsweredInPlace(q)'
    BY <2>1, <2>3 DEF AnsweredInPlace
  <2>5. Placed(q)'
    BY <1>2, <1>5, <2>1, <2>3 DEF Placed, InOwnPlace, PrintsOf
  <2> QED  BY <1>3, <1>4, <2>1, <2>3, <2>4, <2>5, PlaceTurn
<1> QED  BY <1>6, <1>7

LEMMA TracePlace ==
  ASSUME CellInv, PlaceInv, NEW q \in Queries, Trace(q), UNCHANGED writings
  PROVE  PlaceInv'
<1> DEFINE key   == query[q].key
           place == <<raster.west, raster.east>>
           k     == [query[q] EXCEPT !.step = "measure", !.place = place]
<1>1. query \in [Queries -> Query] /\ query[q] \in Query
  BY DEF CellInv
<1>2. place \in Nat \X Nat
  BY DEF CellInv, Raster
<1>3. ~query[q].clashed =>
        /\ InOwnPlace(key.area) /\ raster.dbz \in PrintsOf(key)
        /\ place = <<West(key.area), East(key.area)>>
  BY DEF PlaceInv, Placed, Trace, InOwnPlace
<1> HIDE DEF place
<1>4. /\ k \in Query /\ k.step = "measure" /\ k.key = key /\ k.place = place
      /\ k.clashed = query[q].clashed
  BY <1>1, <1>2 DEF Query
<1>5. query' = [query EXCEPT ![q] = k]
  BY DEF Trace, place
<1> HIDE DEF k
<1>6. query'[q] = k /\ Turns(q)
  BY <1>1, <1>4, <1>5, QuerySet
<1>7. AnsweredInPlace(q)'
  BY <1>4, <1>6 DEF AnsweredInPlace
<1>8. Placed(q)'
  BY <1>3, <1>4, <1>6 DEF Placed, InOwnPlace, Trace, PrintsOf
<1>9. q \in InFlight /\ FieldsOf(q) /\ StoredInPlace'
  BY DEF InFlight, Trace, FieldsOf, PlaceInv, StoredInPlace, PrintsOf
<1> QED  BY <1>4, <1>6, <1>7, <1>8, <1>9, PlaceTurn

LEMMA TraceFailsPlace ==
  ASSUME CellInv, PlaceInv, NEW q \in Queries, TraceFails(q), UNCHANGED writings
  PROVE  PlaceInv'
<1>1. query \in [Queries -> Query] /\ {} \in SUBSET Feature
  BY DEF CellInv
<1>2. Turns(q) /\ query'[q].step = "answered" /\ query'[q].answer = {}
  BY <1>1, AnsweredFacts DEF TraceFails
<1>3. AnsweredInPlace(q)'
  BY <1>2 DEF AnsweredInPlace
<1> QED  BY <1>2, <1>3, AnswerPlace DEF TraceFails

LEMMA MeasurePlace ==
  ASSUME CellInv, EchoType, SeenInv, PlaceInv, NEW q \in Queries, Measure(q), UNCHANGED writings
  PROVE  PlaceInv'
<1> DEFINE key   == query[q].key
           found == Found(q)
<1>1. query \in [Queries -> Query] /\ key \in Keys
  BY DEF CellInv, Measure, QuerySound
<1>2. found \in SUBSET Feature /\ Answered(q, found)
  BY FoundType
<1>3. ~query[q].clashed => InPlace(PrintsOf(key), key.area, found)
  <2> SUFFICES ASSUME ~query[q].clashed PROVE InPlace(PrintsOf(key), key.area, found)
    OBVIOUS
  <2> DEFINE a      == key.area
             prints == PrintsOf(key)
             drawn  == PrintOf(q)
  <2>1. /\ InOwnPlace(a) /\ raster.dbz \in prints
        /\ query[q].place = <<West(a), East(a)>>
    BY DEF PlaceInv, Placed, Measure
  <2>2. drawn \in prints
    BY OwnPrint DEF CellInv, QuerySound, Measure
  <2>3. found = {Measured(Footprint(c, Width(a), <<West(a), East(a)>>)) : c \in Traced[drawn]}
    BY <2>1 DEF Found
  <2>4. prints \subseteq Prints /\ \A print \in prints : print.area = a
    BY <1>1, KeyPrints
  <2>5. a \in Areas
    BY <1>1 DEF Keys
  <2> HIDE DEF a, prints, drawn, found
  <2>6. InPlace(prints, a, found)
    BY <2>1, <2>2, <2>3, <2>4, <2>5, FoundInPlace
  <2> QED  BY <2>6 DEF a, prints
<1>4. /\ cellCache' = [k \in DOMAIN cellCache \cup {key} |->
                         IF k = key THEN found ELSE cellCache[k]]
      /\ tainted' = IF query[q].clashed THEN tainted \cup {key} ELSE tainted \ {key}
      /\ raster' = raster
  BY DEF Measure, CacheKey, Found
<1> HIDE DEF found
<1>5. /\ Turns(q) /\ query'[q].step = "answered" /\ query'[q].answer = found
      /\ query'[q].key = key /\ query'[q].clashed = query[q].clashed
  BY <1>1, <1>2, AnsweredFacts
<1>6. AnsweredInPlace(q)' /\ Placed(q)' /\ q \notin InFlight'
  BY <1>3, <1>5 DEF AnsweredInPlace, Placed, InFlight, PrintsOf
<1>7. FieldsOf(q)
  BY <1>4 DEF FieldsOf
<1> HIDE DEF key
<1>8. StoredInPlace'
  <2> SUFFICES ASSUME NEW k \in (DOMAIN cellCache \ tainted)'
               PROVE  InPlace(PrintsOf(k), k.area, cellCache'[k])
    BY DEF StoredInPlace, PrintsOf
  <2>1. CASE k = key
    BY <1>3, <1>4, <2>1
  <2>2. CASE k # key
    BY <1>4, <2>2 DEF PlaceInv, StoredInPlace
  <2> QED  BY <2>1, <2>2
<1> QED  BY <1>5, <1>6, <1>7, <1>8, PlaceTurn

LEMMA ExpirePlace ==
  ASSUME PlaceInv, NEW k \in Keys, CellsExpire(k), UNCHANGED writings
  PROVE  PlaceInv'
<1>1. UNCHANGED <<raster, query>>
  BY DEF CellsExpire
<1>2. StoredInPlace'
  BY DEF CellsExpire, PlaceInv, StoredInPlace, PrintsOf
<1> QED
  BY <1>1, <1>2 DEF PlaceInv, Clashing, InFlight, Placed, InOwnPlace, AnsweredInPlace, Queries,
                    PrintsOf

LEMMA MissPlace ==
  ASSUME CellInv, EchoType, PlaceInv, NEW q \in Queries, Miss(q), UNCHANGED writings
  PROVE  PlaceInv'
<1> DEFINE key    == query[q].key
           area   == key.area
           others == {r \in InFlight : query[r].key # key}
           b      == others # {}
<1>1. query \in [Queries -> Query] /\ raster \in Raster /\ query[q].step = "lookup"
  BY DEF CellInv, Miss
<1>2. raster'.west = West(area) /\ raster'.east = East(area) /\ raster'.width = Width(area)
  <2>1. raster' = [raster EXCEPT !.west = West(area), !.east = East(area), !.width = Width(area)]
    BY DEF Miss
  <2> HIDE DEF area
  <2> QED  BY <1>1, <2>1 DEF Raster
<1>3. raster'.dbz = raster.dbz
  BY <1>1 DEF Miss, Raster
<1>4. ASSUME NEW r \in Queries
      PROVE  /\ query'[r].step = IF r = q THEN "stitch" ELSE query[r].step
             /\ query'[r].key = query[r].key /\ query'[r].place = query[r].place
             /\ query'[r].answer = query[r].answer
             /\ query'[r].clashed = IF r = q THEN b
                                    ELSE IF r \in others THEN TRUE ELSE query[r].clashed
  BY MissQueries
<1>5. InFlight' = InFlight \cup {q} /\ q \notin InFlight
  <2>1. \A r \in Queries : r \in InFlight' <=> r = q \/ r \in InFlight
    BY <1>4 DEF InFlight
  <2>2. InFlight \subseteq Queries /\ InFlight' \subseteq Queries
    BY DEF InFlight, Queries
  <2> QED  BY <1>1, <2>1, <2>2 DEF InFlight
<1> HIDE DEF b
<1>6. ASSUME NEW r \in InFlight, query[r].key # key
      PROVE  query'[r].clashed /\ query'[q].clashed
  <2>1. r \in others /\ r \in Queries /\ r # q
    BY <1>5, <1>6 DEF InFlight
  <2>2. b
    BY <2>1 DEF b
  <2> HIDE DEF others
  <2> QED  BY <1>4, <2>1, <2>2
<1>7. ASSUME NEW r \in InFlight, query[r].clashed PROVE query'[r].clashed
  <2>1. r \in Queries /\ r # q
    BY <1>5 DEF InFlight
  <2> QED  BY <1>4, <1>7, <2>1
<1>8. Clashing'
  <2> SUFFICES ASSUME NEW r \in InFlight', NEW s \in InFlight', query'[r].key # query'[s].key
               PROVE  query'[r].clashed
    BY DEF Clashing
  <2>1. r \in Queries /\ s \in Queries /\ query[r].key # query[s].key
    <3>1. r \in Queries /\ s \in Queries
      BY <1>5 DEF InFlight
    <3> QED  BY <1>4, <3>1
  <2>2. CASE r = q
    BY <1>5, <1>6, <2>1, <2>2
  <2>3. CASE r # q /\ s = q
    BY <1>5, <1>6, <2>1, <2>3
  <2>4. CASE r # q /\ s # q
    BY <1>5, <1>7, <2>1, <2>4 DEF PlaceInv, Clashing
  <2> QED  BY <2>2, <2>3, <2>4
<1>9. ASSUME NEW r \in Queries PROVE Placed(r)'
  <2> SUFFICES ASSUME r \in InFlight', ~query'[r].clashed PROVE Placed(r)'
    BY DEF Placed, InFlight
  <2>1. CASE r = q
    BY <1>2, <1>4, <2>1 DEF Placed, InOwnPlace, PrintsOf
  <2>2. CASE r # q
    <3>1. r \in InFlight /\ query[r].key = key /\ ~query[r].clashed
      BY <1>5, <1>6, <1>7, <2>2
    <3>2. Placed(r)
      BY DEF PlaceInv
    <3>3. query'[r].step = query[r].step /\ query'[r].key = key /\ query'[r].place = query[r].place
      BY <1>4, <2>2, <3>1
    <3> QED  BY <1>2, <1>3, <3>1, <3>2, <3>3 DEF Placed, InOwnPlace, PrintsOf
  <2> QED  BY <2>1, <2>2
<1>10. ASSUME NEW r \in Queries PROVE AnsweredInPlace(r)'
  <2> SUFFICES ASSUME query'[r].step = "answered", ~query'[r].clashed PROVE AnsweredInPlace(r)'
    BY DEF AnsweredInPlace
  <2>1. r # q /\ r \notin InFlight /\ query[r].step = "answered"
    BY <1>4 DEF InFlight
  <2>2. query'[r].clashed = query[r].clashed
    BY <1>4, <2>1
  <2> QED  BY <1>4, <2>1, <2>2 DEF AnsweredInPlace, PlaceInv, PrintsOf
<1>11. StoredInPlace'
  BY DEF Miss, PlaceInv, StoredInPlace, PrintsOf
<1> QED  BY <1>8, <1>9, <1>10, <1>11 DEF PlaceInv, Queries

\* The more writings, the more an answer may show.
LEMMA InPlaceGrows ==
  ASSUME NEW prints, NEW more, prints \subseteq more, NEW area, NEW features,
         InPlace(prints, area, features)
  PROVE  InPlace(more, area, features)
BY DEF InPlace

LEMMA AnnouncePlace ==
  ASSUME ApiTypeOK, CellInv, EchoType, PlaceInv, NEW h \in Handlers, Announce(h)
  PROVE  PlaceInv'
<1>1. UNCHANGED <<raster, query, cellCache, tainted>>
  BY DEF Announce, cellVars
<1>2. PICK t \in Frames, c \in Contents : Drawn(t, c)
  BY EventsAssumption DEF Announce
<1>3. ASSUME NEW key \in Keys PROVE PrintsOf(key) \subseteq PrintsOf(key)'
  <2> DEFINE W == writings[key.frame]
             V == writings'[key.frame]
             n == Tiles(key.area)
  <2>1. key.frame \in Frames
    BY DEF Keys
  <2>2. W \subseteq V
    BY <1>2, <2>1, DrawnKeeps
  <2>3. /\ PrintsOf(key)  = [threshold : {key.threshold}, area : {key.area}, seen : [1..n -> W]]
        /\ PrintsOf(key)' = [threshold : {key.threshold}, area : {key.area}, seen : [1..n -> V]]
    BY DEF PrintsOf
  <2> HIDE DEF W, V, n
  <2>4. [1..n -> W] \subseteq [1..n -> V]
    BY <2>2
  <2> QED  BY <2>3, <2>4
<1>4. ASSUME NEW q \in Queries PROVE Placed(q)' /\ AnsweredInPlace(q)'
  <2>1. Placed(q) /\ AnsweredInPlace(q) /\ UNCHANGED <<raster, query[q]>>
    BY <1>1 DEF PlaceInv
  <2>2. query[q].step # "idle" => PrintsOf(query[q].key) \subseteq PrintsOf(query[q].key)'
    BY <1>1, <1>3 DEF CellInv, QuerySound, PrintsOf
  <2>3. Placed(q)'
    BY <2>1, <2>2 DEF Placed, InOwnPlace
  <2>4. AnsweredInPlace(q)'
    BY <2>1, <2>2, InPlaceGrows DEF AnsweredInPlace
  <2> QED  BY <2>3, <2>4
<1>5. StoredInPlace'
  <2> SUFFICES ASSUME NEW k \in DOMAIN cellCache \ tainted
               PROVE  InPlace(PrintsOf(k)', k.area, cellCache[k])
    BY <1>1 DEF StoredInPlace
  <2>1. k \in Keys /\ InPlace(PrintsOf(k), k.area, cellCache[k])
    BY DEF CellInv, PlaceInv, StoredInPlace
  <2> QED  BY <1>3, <2>1, InPlaceGrows
<1>6. Clashing'
  BY <1>1 DEF PlaceInv, Clashing, InFlight, Queries
<1> QED  BY <1>4, <1>5, <1>6 DEF PlaceInv, Queries

LEMMA PlaceNext ==
  ApiTypeOK /\ CellInv /\ EchoType /\ SeenInv /\ PlaceInv /\ [Next]_vars => PlaceInv'
<1> SUFFICES ASSUME ApiTypeOK, CellInv, EchoType, SeenInv, PlaceInv, [Next]_vars PROVE PlaceInv'
  OBVIOUS
<1>1. ASSUME UNCHANGED <<echoVars, cellVars>> PROVE PlaceInv'
  BY <1>1 DEF PlaceInv, Clashing, StoredInPlace, Placed, InOwnPlace, AnsweredInPlace,
              InFlight, echoVars, cellVars, Queries, PrintsOf
<1>2. ASSUME NEW q \in Queries, AskCells(q) PROVE PlaceInv'
  <2>1. latestComposite \in Frames /\ UNCHANGED writings
    BY <1>2, EventsAssumption DEF AskCells, ApiTypeOK, UpdaterInv, UpdaterTypeOK, echoVars
  <2>2. PICK t \in CellThresholds, a \in Areas : Detect(q, latestComposite, t, a)
    BY <1>2 DEF AskCells
  <2> QED  BY <2>1, <2>2, DetectPlace
<1>3. ASSUME CellStep PROVE PlaceInv'
  <2>1. UNCHANGED writings
    BY <1>3 DEF CellStep, echoVars
  <2> QED
    BY <1>3, <2>1, HitPlace, MissPlace, ReadTilePlace, StitchPlace, TracePlace, TraceFailsPlace,
       MeasurePlace, ExpirePlace DEF CellStep
<1>4. ASSUME Restart PROVE PlaceInv'
  <2>1. \A q \in Queries : query'[q].step = "idle"
    BY <1>4 DEF Restart, NoQuery
  <2>2. StoredInPlace'
    BY <1>4 DEF Restart, PlaceInv, StoredInPlace, echoVars, PrintsOf
  <2> QED
    BY <2>1, <2>2 DEF PlaceInv, Clashing, Placed, AnsweredInPlace, InFlight, Queries
<1> QED
  BY <1>1, <1>2, <1>3, <1>4, AnnouncePlace
     DEF Next, HandlersStep, ClientsStep, QueriesStep, vars, UpdateStep, Fault, ClientSubscribes

\* Whatever the composites show and however often they are written again, for
\* any areas asked for and any number of queries that overlap: cells are answered
\* where writings of the composite have them, none left out, and no weaker than
\* their peak, as long as the queries in flight at the same time had the same
\* key (detectCells and the fields its queries share).
THEOREM CellsInPlaceHolds == Spec => []CellsInPlace
<1>1. Init => CellInv /\ EchoType /\ SeenInv /\ PlaceInv
  <2>1. Init => CellInv /\ EchoType /\ PlaceInv
    BY CellInitType, PlaceInit DEF Init
  <2>2. Init => SeenInv
    BY DEF Init, UpdaterInit, CellInit, NoQuery, SeenInv
  <2> QED  BY <2>1, <2>2
<1>2. ApiTypeOK /\ CellInv /\ EchoType /\ SeenInv /\ PlaceInv /\ [Next]_vars
        => CellInv' /\ EchoType' /\ SeenInv' /\ PlaceInv'
  BY CellNextType, EchoNextType, SeenNext, PlaceNext
<1>3. PlaceInv => CellsInPlace
  BY DEF PlaceInv, AnsweredInPlace, InPlace, CellsInPlace, Under
<1> QED  BY <1>1, <1>2, <1>3, ApiType, PTL DEF Spec
====
