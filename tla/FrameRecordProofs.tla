------------------------- MODULE FrameRecordProofs -------------------------
(***************************************************************************)
(* TLAPS proofs about the order in which FramePipeline records a frame:    *)
(* GeoTIFF before mark, index before pointer, pointer before trigger.      *)
(***************************************************************************)
EXTENDS FramePipelineProofs

-----------------------------------------------------------------------------
(* Index before pointer, pointer before trigger *)

\* Cleanup removes only what the retention has overtaken.
PurgesExpired == \A t \in ktodo : Expired(t)

\* A tiler past ZADD has its frame in the index.
TilersRecorded ==
  \A w \in Tilers : tpc[w] \in {"latest", "push", "discard"} => Recorded(tjob[w])

\* The compositor has one target in hand, and past ZADD it is in the index.
TargetRecorded ==
  /\ \A m, n \in ctarget : m = n
  /\ cpc = "latest" => \A n \in ctarget : Recorded(<<n, cmsg[2]>>)

\* The EC ingester past either ZADD has that frame in the index.
PastZadd     == {"latest", "zaddType", "latestType", "mark", "push", "pushType"}
PastZaddType == {"latestType", "mark", "push", "pushType"}

WmsRecorded ==
  \A w \in WmsSources : \A t \in wtodo[w] : IsNewest(t, wtodo[w]) =>
    /\ wpc[w] \in PastZadd => Recorded(<<w, t>>)
    /\ wpc[w] \in PastZaddType => Recorded(<<TypeTwin[w], t>>)

RecordInv ==
  /\ LatestRecorded
  /\ TriggersRecorded
  /\ PurgesExpired
  /\ TilersRecorded
  /\ TargetRecorded
  /\ WmsRecorded

\* What is recorded, or overtaken by the retention, stays so.
StillRecorded ==
  /\ \A t \in Times : Expired(t) => Expired(t)'
  /\ \A n \in Names : \A t \in Times :
       t \in frames[n] \/ Expired(t) => t \in frames'[n] \/ Expired(t)'

LEMMA RecordInit == Init => RecordInv
BY NamesFacts
   DEF Init, IndexInit, TilerInit, WmsInit, CompInit, CleanInit, RecordInv, LatestRecorded,
       TriggersRecorded, PurgesExpired, TilersRecorded, TargetRecorded, WmsRecorded

\* The clock only moves forward, and only cleanup takes anything out of the index.
LEMMA ClockForward ==
  ASSUME TypeOK, [Next]_vars
  PROVE  now' = now \/ now' = now + 1
<1> USE DEF envVars
<1>1. EnvStep => now' = now + 1
  BY DEF EnvStep, Tick
<1>2. \A s \in RasterSources : IngesterStep(s) => now' = now
  BY DEF IngesterStep, IngesterNext, IngesterWork, IngestList, IngestNormalize, IngestMark,
         IngestSkip, IngestPush, IngestAbort
<1>3. \A w \in WmsSources : WmsIngesterStep(w) => now' = now
  BY DEF WmsIngesterStep, WmsNext, WmsWork, WmsStep, WmsList, WmsWrite, WmsWritePartial,
         WmsZadd, WmsLatest, WmsZaddType, WmsLatestType, WmsMark, WmsPush, WmsPushType,
         WmsAbort
<1>4. \A w \in Tilers : TilerStep(w) => now' = now
  BY DEF TilerStep, TilerNext, TilerWork, TilerStart, SweepCheck, SweepDelete, SweepDone,
         TilerPop, TileZoom, TileZoomSkipped, NextZoom, TilerZadd, TilerLatest, TilerPush,
         TilerDiscard, TilerFail, TilerCrash, SweepAbort, TilerRest
<1>5. CompositorStep => now' = now
  BY DEF CompositorStep, CompNext, CompWork, CompPop, CompDrain, CompDrained, CompGet,
         CompGot, CompList, CompListed, CompSkip, CompWrite, CompZadd, CompLatest,
         CompPublish, CompAbort, CompCrash
<1>6. CleanupStep => now' = now
  BY DEF CleanupStep, CleanNext, CleanWork, CleanScan, CleanDelete, CleanZrem, CleanPrune,
         CleanAbort
<1> QED  BY <1>1, <1>2, <1>3, <1>4, <1>5, <1>6 DEF Next, vars

LEMMA ExpiredForward ==
  ASSUME TypeOK, [Next]_vars, NEW t \in Times, Expired(t)
  PROVE  Expired(t)'
<1>1. now \in Int /\ Retention \in Int /\ t \in Int
  BY ConstantsAssumption DEF TypeOK, IndexTypeOK, Times
<1> QED  BY <1>1, ClockForward DEF Expired

\* How each worker changes the index: the tilers, the ingesters and the
\* compositor add to it.
LEMMA IndexGrows ==
  ASSUME TypeOK, [Next]_vars, ~CleanupStep
  PROVE  \A n \in Names : frames[n] \subseteq frames'[n]
<1> USE DEF redisVars, Zadd, TypeOK, IndexTypeOK
<1>1. EnvStep => UNCHANGED frames
  BY DEF EnvStep, Tick
<1>2. \A s \in RasterSources : IngesterStep(s) => UNCHANGED frames
  BY DEF IngesterStep, IngesterNext, IngesterWork, IngestList, IngestNormalize, IngestMark,
         IngestSkip, IngestPush, IngestAbort
<1>3. \A w \in WmsSources : WmsIngesterStep(w) =>
        UNCHANGED frames \/ \E n, t : frames' = [frames EXCEPT ![n] = @ \cup {t}]
  BY DEF WmsIngesterStep, WmsNext, WmsWork, WmsList, WmsWrite, WmsWritePartial,
         WmsZadd, WmsLatest, WmsZaddType, WmsLatestType, WmsMark, WmsPush, WmsPushType,
         WmsAbort
<1>4. \A w \in Tilers : TilerStep(w) =>
        UNCHANGED frames \/ \E n, t : frames' = [frames EXCEPT ![n] = @ \cup {t}]
  BY DEF TilerStep, TilerNext, TilerWork, TilerStart, SweepCheck, SweepDelete, SweepDone,
         TilerPop, TileZoom, TileZoomSkipped, NextZoom, TilerZadd, TilerLatest, TilerPush,
         TilerDiscard, TilerFail, TilerCrash, SweepAbort, TilerRest
<1>5. CompositorStep =>
        UNCHANGED frames \/ \E n, t : frames' = [frames EXCEPT ![n] = @ \cup {t}]
  BY DEF CompositorStep, CompNext, CompWork, CompPop, CompDrain, CompDrained, CompGet,
         CompGot, CompList, CompListed, CompSkip, CompWrite, CompZadd, CompLatest,
         CompPublish, CompAbort, CompCrash
<1>6. UNCHANGED frames \/ \E n, t : frames' = [frames EXCEPT ![n] = @ \cup {t}]
  BY <1>1, <1>2, <1>3, <1>4, <1>5 DEF Next, vars
<1> QED  BY <1>6

LEMMA RecordedStable ==
  ASSUME TypeOK, PurgesExpired, [Next]_vars
  PROVE  StillRecorded
<1>1. \A t \in Times : Expired(t) => Expired(t)'
  BY ExpiredForward
<1>2. ASSUME NEW n \in Names, NEW t \in frames[n], t \notin frames'[n], t \in Times
      PROVE  Expired(t)
  <2>1. CleanupStep
    BY <1>2, IndexGrows
  <2>2. frames' = frames \/ \E m, u : u \in ktodo /\ frames' = [frames EXCEPT ![m] = @ \ {u}]
    BY <2>1 DEF CleanupStep, CleanNext, CleanWork, CleanScan, CleanDelete, CleanZrem,
                CleanPrune, CleanAbort, redisVars
  <2>3. t \in ktodo
    BY <1>2, <2>2 DEF TypeOK, IndexTypeOK
  <2> QED  BY <2>3 DEF PurgesExpired
<1> QED  BY <1>1, <1>2 DEF StillRecorded

\* What a step does not touch stays recorded.
LEMMA RecordKept ==
  ASSUME TypeOK, RecordInv, StillRecorded
  PROVE  /\ UNCHANGED latest => LatestRecorded'
         /\ UNCHANGED <<queueComposite, cmsg>> => TriggersRecorded'
         /\ UNCHANGED ktodo => PurgesExpired'
         /\ UNCHANGED <<tpc, tjob>> => TilersRecorded'
         /\ UNCHANGED <<cpc, cmsg, ctarget>> => TargetRecorded'
         /\ UNCHANGED <<wpc, wtodo>> => WmsRecorded'
<1> USE NamesFacts DEF RecordInv, StillRecorded, TypeOK
<1>1. UNCHANGED latest => LatestRecorded'
  BY DEF LatestRecorded, IndexTypeOK
<1>2. UNCHANGED <<queueComposite, cmsg>> => TriggersRecorded'
  BY DEF TriggersRecorded, Recorded, IndexTypeOK, CompTypeOK
<1>3. UNCHANGED ktodo => PurgesExpired'
  BY DEF PurgesExpired, CleanTypeOK
<1>4. UNCHANGED <<tpc, tjob>> => TilersRecorded'
  BY DEF TilersRecorded, Recorded, TilerTypeOK, Tiling
<1>5. UNCHANGED <<cpc, cmsg, ctarget>> => TargetRecorded'
  BY DEF TargetRecorded, Recorded, CompTypeOK
<1>6. UNCHANGED <<wpc, wtodo>> => WmsRecorded'
  BY DEF WmsRecorded, Recorded, WmsTypeOK
<1> QED  BY <1>1, <1>2, <1>3, <1>4, <1>5, <1>6

\* A message taken off or put on queue:composite.
LEMMA TriggerPushed ==
  ASSUME TypeOK, RecordInv, StillRecorded, NEW f \in Frame, Recorded(f)',
         queueComposite' = Append(queueComposite, f), UNCHANGED cmsg
  PROVE  TriggersRecorded'
<1>1. \A g \in Frame : Recorded(g) => Recorded(g)'
  BY NamesFacts DEF StillRecorded, Recorded
<1>2. \A i \in DOMAIN queueComposite' :
        queueComposite'[i] = f \/ \E j \in DOMAIN queueComposite : queueComposite'[i] = queueComposite[j]
  BY DEF TypeOK, IndexTypeOK
<1>3. \A j \in DOMAIN queueComposite : queueComposite[j] \in Frame /\ Recorded(queueComposite[j])
  BY DEF RecordInv, TriggersRecorded, TypeOK, IndexTypeOK
<1>4. cmsg # NoFrame => cmsg \in Frame /\ Recorded(cmsg)
  BY DEF RecordInv, TriggersRecorded, TypeOK, CompTypeOK
<1> QED  BY <1>1, <1>2, <1>3, <1>4 DEF TriggersRecorded, Recorded

LEMMA TriggerPopped ==
  ASSUME TypeOK, RecordInv, StillRecorded, queueComposite # <<>>,
         cmsg' = Head(queueComposite), queueComposite' = Tail(queueComposite)
  PROVE  TriggersRecorded'
<1>1. \A g \in Frame : Recorded(g) => Recorded(g)'
  BY NamesFacts DEF StillRecorded, Recorded
<1>2. /\ \A i \in DOMAIN queueComposite' :
           \E j \in DOMAIN queueComposite : queueComposite'[i] = queueComposite[j]
      /\ \E j \in DOMAIN queueComposite : cmsg' = queueComposite[j]
  BY DEF TypeOK, IndexTypeOK
<1>3. \A j \in DOMAIN queueComposite : queueComposite[j] \in Frame /\ Recorded(queueComposite[j])
  BY DEF RecordInv, TriggersRecorded, TypeOK, IndexTypeOK
<1> QED  BY <1>1, <1>2, <1>3 DEF TriggersRecorded, Recorded

LEMMA RecordWms ==
  ASSUME TypeOK, RecordInv, StillRecorded, NEW w \in WmsSources, WmsIngesterStep(w)
  PROVE  RecordInv'
<1> USE DEF redisVars, tilerVars, compVars, cleanVars
<1>0. /\ UNCHANGED <<tpc, tjob, cpc, cmsg, ctarget, ktodo>>
      /\ PurgesExpired' /\ TilersRecorded' /\ TargetRecorded'
  BY RecordKept DEF WmsIngesterStep
<1>n. /\ w \in Names /\ TypeTwin[w] \in Names /\ wtodo[w] \subseteq Times
      /\ \A t \in Times : <<w, t>> \in Frame /\ <<TypeTwin[w], t>> \in Frame
  BY NamesFacts DEF TypeOK, WmsTypeOK, Frame
<1> DEFINE Gained(t) ==
      /\ wpc'[w] \in PastZadd => t \in frames'[w] \/ Expired(t)'
      /\ wpc'[w] \in PastZaddType => t \in frames'[TypeTwin[w]] \/ Expired(t)'
<1>1. ASSUME \A t \in wtodo'[w] : IsNewest(t, wtodo'[w]) => Gained(t),
             \A v \in WmsSources \ {w} : wpc'[v] = wpc[v] /\ wtodo'[v] = wtodo[v]
      PROVE  WmsRecorded'
  BY <1>1, NamesFacts
     DEF WmsRecorded, RecordInv, StillRecorded, Recorded, IsNewest, TypeOK, WmsTypeOK
<1>2. \A v \in WmsSources \ {w} : wpc'[v] = wpc[v] /\ wtodo'[v] = wtodo[v]
  BY DEF WmsIngesterStep, WmsNext, WmsWork, WmsStep, WmsList, WmsWrite, WmsWritePartial,
         WmsZadd, WmsLatest, WmsZaddType, WmsLatestType, WmsMark, WmsPush, WmsPushType,
         WmsAbort, TypeOK, WmsTypeOK
<1>3. ASSUME NEW t \in wtodo[w], IsNewest(t, wtodo[w])
      PROVE  /\ wpc[w] \in PastZadd => t \in frames'[w] \/ Expired(t)'
             /\ wpc[w] \in PastZaddType => t \in frames'[TypeTwin[w]] \/ Expired(t)'
  BY <1>3, <1>n DEF RecordInv, WmsRecorded, StillRecorded, Recorded
<1>4. \A t, u \in wtodo[w] : IsNewest(t, wtodo[w]) /\ IsNewest(u, wtodo[w]) => t = u
  BY <1>n DEF IsNewest, Times
<1>5. CASE WmsList(w) \/ WmsAbort(w)
  <2>1. wpc'[w] \in {"fetch", "idle"} /\ UNCHANGED <<latest, queueComposite>>
    BY <1>5 DEF WmsList, WmsAbort, TypeOK, WmsTypeOK
  <2>2. WmsRecorded'
    BY <2>1, <1>1, <1>2 DEF PastZadd, PastZaddType
  <2> QED  BY <1>0, <2>1, <2>2, RecordKept DEF RecordInv
<1>6. CASE WmsWrite(w) \/ WmsWritePartial(w)
  <2>1. wpc'[w] = "zadd" /\ UNCHANGED <<latest, queueComposite>>
    BY <1>6 DEF WmsWrite, WmsWritePartial, WmsStep, TypeOK, WmsTypeOK
  <2>2. WmsRecorded'
    BY <2>1, <1>1, <1>2 DEF PastZadd, PastZaddType
  <2> QED  BY <1>0, <2>1, <2>2, RecordKept DEF RecordInv
<1>7. CASE WmsZadd(w)
  <2> PICK t \in wtodo[w] : WmsStep(w, t, "zadd", "latest") /\ Zadd(w, t)
    BY <1>7 DEF WmsZadd
  <2>1. UNCHANGED <<latest, queueComposite, wtodo>> /\ wpc'[w] = "latest" /\ t \in frames'[w]
    BY <1>7, <1>n DEF WmsZadd, WmsStep, Zadd, TypeOK, WmsTypeOK, IndexTypeOK
  <2>2. WmsRecorded'
    BY <2>1, <1>1, <1>2, <1>4 DEF WmsStep, PastZadd, PastZaddType
  <2> QED  BY <1>0, <2>1, <2>2, RecordKept DEF RecordInv
<1>8. CASE WmsLatest(w)
  <2> PICK t \in wtodo[w] : WmsStep(w, t, "latest", "zaddType") /\ SetLatest(w, t)
    BY <1>8 DEF WmsLatest
  <2>1. UNCHANGED <<queueComposite, wtodo>> /\ wpc'[w] = "zaddType"
    BY <1>8 DEF WmsLatest, WmsStep, TypeOK, WmsTypeOK
  <2>2. t \in frames'[w] \/ Expired(t)'
    BY <1>3 DEF WmsStep, PastZadd
  <2>3. WmsRecorded'
    BY <2>1, <2>2, <1>1, <1>2, <1>4 DEF WmsStep, PastZadd, PastZaddType
  <2>4. LatestRecorded'
    BY <2>2, <1>n DEF SetLatest, RecordInv, LatestRecorded, StillRecorded, TypeOK, IndexTypeOK
  <2> QED  BY <1>0, <2>1, <2>3, <2>4, RecordKept DEF RecordInv
<1>9. CASE WmsZaddType(w)
  <2> PICK t \in wtodo[w] : WmsStep(w, t, "zaddType", "latestType") /\ Zadd(TypeTwin[w], t)
    BY <1>9 DEF WmsZaddType
  <2>1. /\ UNCHANGED <<latest, queueComposite, wtodo>> /\ wpc'[w] = "latestType"
        /\ t \in frames'[TypeTwin[w]]
    BY <1>9, <1>n DEF WmsZaddType, WmsStep, Zadd, TypeOK, WmsTypeOK, IndexTypeOK
  <2>2. t \in frames'[w] \/ Expired(t)'
    BY <1>3 DEF WmsStep, PastZadd
  <2>3. WmsRecorded'
    BY <2>1, <2>2, <1>1, <1>2, <1>4 DEF WmsStep, PastZadd, PastZaddType
  <2> QED  BY <1>0, <2>1, <2>3, RecordKept DEF RecordInv
<1>10. CASE WmsLatestType(w)
  <2> PICK t \in wtodo[w] :
        WmsStep(w, t, "latestType", "mark") /\ SetLatest(TypeTwin[w], t)
    BY <1>10 DEF WmsLatestType
  <2>1. UNCHANGED <<queueComposite, wtodo>> /\ wpc'[w] = "mark"
    BY <1>10 DEF WmsLatestType, WmsStep, TypeOK, WmsTypeOK
  <2>2. /\ t \in frames'[w] \/ Expired(t)'
        /\ t \in frames'[TypeTwin[w]] \/ Expired(t)'
    BY <1>3 DEF WmsStep, PastZadd, PastZaddType
  <2>3. WmsRecorded'
    BY <2>1, <2>2, <1>1, <1>2, <1>4 DEF WmsStep
  <2>4. LatestRecorded'
    BY <2>2, <1>n DEF SetLatest, RecordInv, LatestRecorded, StillRecorded, TypeOK, IndexTypeOK
  <2> QED  BY <1>0, <2>1, <2>3, <2>4, RecordKept DEF RecordInv
<1>11. CASE WmsMark(w)
  <2> PICK t \in wtodo[w] : WmsStep(w, t, "mark", "push")
    BY <1>11 DEF WmsMark
  <2>1. UNCHANGED <<latest, queueComposite, wtodo>>
    BY <1>11 DEF WmsMark
  <2>2. /\ t \in frames'[w] \/ Expired(t)'
        /\ t \in frames'[TypeTwin[w]] \/ Expired(t)'
    BY <1>3 DEF WmsStep, PastZadd, PastZaddType
  <2>3. WmsRecorded'
    BY <2>1, <2>2, <1>1, <1>2, <1>4 DEF WmsStep
  <2> QED  BY <1>0, <2>1, <2>3, RecordKept DEF RecordInv
<1>12. CASE WmsPush(w)
  <2> PICK t \in wtodo[w] :
        /\ WmsStep(w, t, "push", "pushType")
        /\ queueComposite' = Append(queueComposite, <<w, t>>)
    BY <1>12 DEF WmsPush
  <2>1. UNCHANGED <<latest, wtodo>>
    BY <1>12 DEF WmsPush
  <2>2. /\ t \in frames'[w] \/ Expired(t)'
        /\ t \in frames'[TypeTwin[w]] \/ Expired(t)'
    BY <1>3 DEF WmsStep, PastZadd, PastZaddType
  <2>3. WmsRecorded'
    BY <2>1, <2>2, <1>1, <1>2, <1>4 DEF WmsStep
  <2>4. Recorded(<<w, t>>)' /\ <<w, t>> \in Frame
    BY <2>2, <1>n DEF Recorded
  <2>5. TriggersRecorded'
    BY <1>0, <2>4, TriggerPushed
  <2> QED  BY <1>0, <2>1, <2>3, <2>5, RecordKept DEF RecordInv
<1>13. CASE WmsPushType(w)
  <2> PICK t \in wtodo[w] :
        /\ WmsStep(w, t, "pushType", IF wtodo[w] = {t} THEN "idle" ELSE "fetch")
        /\ queueComposite' = Append(queueComposite, <<TypeTwin[w], t>>)
    BY <1>13 DEF WmsPushType
  <2>1. UNCHANGED latest /\ wpc'[w] \in {"idle", "fetch"}
    BY <1>13 DEF WmsPushType, WmsStep, TypeOK, WmsTypeOK
  <2>2. t \in frames'[TypeTwin[w]] \/ Expired(t)'
    BY <1>3 DEF WmsStep, PastZadd, PastZaddType
  <2>3. WmsRecorded'
    BY <2>1, <1>1, <1>2 DEF PastZadd, PastZaddType
  <2>4. Recorded(<<TypeTwin[w], t>>)' /\ <<TypeTwin[w], t>> \in Frame
    BY <2>2, <1>n DEF Recorded
  <2>5. TriggersRecorded'
    BY <1>0, <2>4, TriggerPushed
  <2> QED  BY <1>0, <2>1, <2>3, <2>5, RecordKept DEF RecordInv
<1> QED
  BY <1>5, <1>6, <1>7, <1>8, <1>9, <1>10, <1>11, <1>12, <1>13
     DEF WmsIngesterStep, WmsNext, WmsWork

\* A frame that is recorded stays so, whoever names it.
LEMMA RecordedForward ==
  ASSUME StillRecorded, NEW g \in Frame, Recorded(g)
  PROVE  Recorded(g)'
BY NamesFacts DEF StillRecorded, Recorded

LEMMA RecordTiler ==
  ASSUME TypeOK, RecordInv, StillRecorded, NEW w \in Tilers, TilerStep(w)
  PROVE  RecordInv'
<1> USE DEF redisVars, wmsVars, compVars, cleanVars, TilerGoto, TilerRest
<1>0. /\ UNCHANGED <<wpc, wtodo, cpc, cmsg, ctarget, ktodo>>
      /\ PurgesExpired' /\ WmsRecorded' /\ TargetRecorded'
  BY RecordKept DEF TilerStep
<1>1. ASSUME tpc[w] \in Tiling
      PROVE  /\ tjob[w] \in Frame /\ tjob[w][1] \in Names /\ tjob[w][2] \in Times
             /\ tpc[w] # "tile" => Recorded(tjob[w])
  BY <1>1, NamesFacts DEF RecordInv, TilersRecorded, Tiling, TypeOK, TilerTypeOK
<1>2. ASSUME \A v \in Tilers \ {w} : tpc'[v] = tpc[v] /\ tjob'[v] = tjob[v],
             tpc'[w] \in {"latest", "push", "discard"} =>
               tjob'[w] \in Frame /\ Recorded(tjob[w])'
      PROVE  TilersRecorded'
  <2> SUFFICES ASSUME NEW v \in Tilers, tpc'[v] \in {"latest", "push", "discard"}, v # w
               PROVE  Recorded(tjob[v])'
    BY <1>2 DEF TilersRecorded, Recorded
  <2> DEFINE g == tjob[v]
  <2>1. g \in Frame /\ Recorded(g) /\ tjob'[v] = g
    BY <1>2 DEF RecordInv, TilersRecorded, TypeOK, TilerTypeOK, Tiling
  <2> HIDE DEF g
  <2>2. ASSUME NEW h, h = g PROVE h[2] \in frames'[h[1]] \/ Expired(h[2])'
    BY <2>1, <2>2, NamesFacts DEF StillRecorded, Recorded
  <2> QED  BY <2>1, <2>2 DEF Recorded
<1>3. \A v \in Tilers \ {w} : tpc'[v] = tpc[v] /\ tjob'[v] = tjob[v]
  BY DEF TilerStep, TilerNext, TilerWork, TilerStart, SweepCheck, SweepDelete, SweepDone,
         TilerPop, TileZoom, TileZoomSkipped, NextZoom, TilerZadd, TilerLatest, TilerPush,
         TilerDiscard, TilerFail, TilerCrash, SweepAbort, TypeOK, TilerTypeOK
<1>4. CASE TilerZadd(w)
  <2>1. UNCHANGED <<latest, queueComposite, tjob>>
    BY <1>4 DEF TilerZadd
  <2>2. tpc[w] \in Tiling /\ frames' = [frames EXCEPT ![tjob[w][1]] = @ \cup {tjob[w][2]}]
    BY <1>4 DEF TilerZadd, Zadd, Tiling
  <2>3. tjob'[w] \in Frame /\ Recorded(tjob[w])'
    BY <1>1, <2>1, <2>2 DEF Recorded, TypeOK, IndexTypeOK
  <2> QED  BY <1>0, <1>2, <1>3, <2>1, <2>3, RecordKept DEF RecordInv
<1>5. CASE TilerLatest(w)
  <2>1. UNCHANGED <<queueComposite, tjob>> /\ latest' = [latest EXCEPT ![tjob[w][1]] = tjob[w][2]]
    BY <1>5 DEF TilerLatest, SetLatest
  <2>2. tpc[w] \in Tiling \ {"tile"}
    BY <1>5 DEF TilerLatest, Tiling
  <2>3. tjob'[w] \in Frame /\ Recorded(tjob[w])'
    BY <1>1, <2>1, <2>2, NamesFacts DEF Recorded, StillRecorded
  <2>4. LatestRecorded'
    BY <1>1, <2>1, <2>2, <2>3
       DEF Recorded, RecordInv, LatestRecorded, StillRecorded, TypeOK, IndexTypeOK
  <2> QED  BY <1>0, <1>2, <1>3, <2>1, <2>3, <2>4, RecordKept DEF RecordInv
<1>6. CASE TilerPush(w)
  <2>1. UNCHANGED <<latest, tjob>> /\ queueComposite' = Append(queueComposite, tjob[w])
    BY <1>6 DEF TilerPush
  <2>2. tpc[w] \in Tiling \ {"tile"}
    BY <1>6 DEF TilerPush, Tiling
  <2>3. tjob'[w] \in Frame /\ Recorded(tjob[w])'
    BY <1>1, <2>1, <2>2, NamesFacts DEF Recorded, StillRecorded
  <2>4. PICK f \in Frame : f = tjob[w]
    BY <1>1, <2>2
  <2>5. TriggersRecorded'
    BY <1>0, <2>1, <2>3, <2>4, TriggerPushed DEF Recorded
  <2> QED  BY <1>0, <1>2, <1>3, <2>1, <2>3, <2>5, RecordKept DEF RecordInv
<1>7. ASSUME TilerNext(w), ~TilerZadd(w), ~TilerLatest(w), ~TilerPush(w)
      PROVE  /\ UNCHANGED <<latest, queueComposite>>
             /\ tpc'[w] \notin {"latest", "push", "discard"}
  BY <1>7
     DEF TilerNext, TilerWork, TilerStart, SweepCheck, SweepDelete, SweepDone,
         TilerPop, TileZoom, TileZoomSkipped, NextZoom, TilerDiscard, TilerFail, TilerCrash,
         SweepAbort, TypeOK, TilerTypeOK
<1>8. CASE ~TilerZadd(w) /\ ~TilerLatest(w) /\ ~TilerPush(w)
  <2>1. UNCHANGED <<latest, queueComposite>> /\ TilersRecorded'
    BY <1>2, <1>3, <1>7, <1>8 DEF TilerStep
  <2> QED  BY <1>0, <2>1, RecordKept DEF RecordInv
<1> QED  BY <1>4, <1>5, <1>6, <1>8

LEMMA RecordCompositor ==
  ASSUME TypeOK, RecordInv, StillRecorded, CompositorStep
  PROVE  RecordInv'
<1> USE DEF redisVars, wmsVars, tilerVars, cleanVars
<1>0. /\ UNCHANGED <<wpc, wtodo, tpc, tjob, ktodo>>
      /\ PurgesExpired' /\ WmsRecorded' /\ TilersRecorded'
  BY RecordKept DEF CompositorStep
<1>1. CASE CompPop \/ CompDrain
  <2>1. /\ UNCHANGED <<latest, ctarget>> /\ cpc' = "drain"
        /\ queueComposite # <<>>
        /\ cmsg' = Head(queueComposite) /\ queueComposite' = Tail(queueComposite)
    BY <1>1 DEF CompPop, CompDrain
  <2>2. TriggersRecorded'
    BY <2>1, TriggerPopped
  <2> QED  BY <1>0, <2>1, <2>2, RecordKept DEF RecordInv, TargetRecorded
<1>2. ASSUME NEW n \in Composites, CompZadd(n)
      PROVE  RecordInv'
  <2>1. /\ UNCHANGED <<latest, queueComposite, cmsg, ctarget>>
        /\ frames' = [frames EXCEPT ![n] = @ \cup {cmsg[2]}]
    BY <1>2 DEF CompZadd, Zadd
  <2>2. ctarget = {n} /\ n \in Names
    BY <1>2, NamesFacts DEF CompZadd, RecordInv, TargetRecorded
  <2>3. TargetRecorded'
    BY <2>1, <2>2 DEF TargetRecorded, Recorded, TypeOK, IndexTypeOK
  <2> QED  BY <1>0, <2>1, <2>3, RecordKept DEF RecordInv
<1>3. ASSUME NEW n \in Composites, CompLatest(n)
      PROVE  RecordInv'
  <2>1. /\ UNCHANGED <<queueComposite, cmsg>> /\ cpc' = "write" /\ ctarget' = {}
        /\ cpc = "latest" /\ n \in ctarget
        /\ latest' = [latest EXCEPT ![n] = cmsg[2]]
    BY <1>3 DEF CompLatest, SetLatest
  <2>2. cmsg[2] \in Times /\ n \in Names
    BY <2>1, NamesFacts DEF TypeOK, CompTypeOK
  <2>3. cmsg[2] \in frames'[n] \/ Expired(cmsg[2])'
    BY <2>1, <2>2 DEF RecordInv, TargetRecorded, Recorded, StillRecorded
  <2>4. LatestRecorded'
    BY <2>1, <2>2, <2>3 DEF RecordInv, LatestRecorded, StillRecorded, TypeOK, IndexTypeOK
  <2> QED  BY <1>0, <2>1, <2>4, RecordKept DEF RecordInv, TargetRecorded
<1>4. ASSUME CompNext, ~CompPop, ~CompDrain, \A n \in Composites : ~CompZadd(n) /\ ~CompLatest(n)
      PROVE  /\ UNCHANGED <<latest, queueComposite>>
             /\ cmsg' = cmsg \/ cmsg' = NoFrame
             /\ cpc' # "latest"
             /\ ctarget' \subseteq ctarget \/ \E n : ctarget' = {n}
  BY <1>4
     DEF CompNext, CompWork, CompDrained, CompGet, CompGot, CompList, CompListed, CompSkip,
         CompWrite, CompPublish, CompAbort, CompCrash, CompReset
<1>5. CASE ~CompPop /\ ~CompDrain /\ \A n \in Composites : ~CompZadd(n) /\ ~CompLatest(n)
  <2>1. /\ UNCHANGED <<latest, queueComposite>>
        /\ cmsg' = cmsg \/ cmsg' = NoFrame
        /\ TargetRecorded'
    BY <1>4, <1>5 DEF CompositorStep, RecordInv, TargetRecorded
  <2>2. TriggersRecorded'
    <3>1. CASE cmsg' = cmsg
      BY <2>1, <3>1, RecordKept
    <3>2. CASE cmsg' = NoFrame
      <4>1. \A j \in DOMAIN queueComposite :
              queueComposite[j] \in Frame /\ Recorded(queueComposite[j])
        BY DEF RecordInv, TriggersRecorded, TypeOK, IndexTypeOK
      <4>2. \A g \in Frame : Recorded(g) => Recorded(g)'
        BY RecordedForward
      <4> QED  BY <2>1, <3>2, <4>1, <4>2 DEF TriggersRecorded, Recorded
    <3> QED  BY <2>1, <3>1, <3>2
  <2> QED  BY <1>0, <2>1, <2>2, RecordKept DEF RecordInv
<1> QED  BY <1>1, <1>2, <1>3, <1>5

LEMMA RecordCleanup ==
  ASSUME TypeOK, RecordInv, StillRecorded, CleanupStep
  PROVE  RecordInv'
<1>1. /\ UNCHANGED <<latest, queueComposite, cmsg, tpc, tjob, cpc, ctarget, wpc, wtodo, now>>
      /\ ktodo' \subseteq ktodo \/ \E n \in Names : ktodo' = Outdated(n)
  BY DEF CleanupStep, CleanNext, CleanWork, CleanScan, CleanDelete, CleanZrem, CleanPrune,
         CleanAbort, envVars, redisVars, wmsVars, tilerVars, compVars
<1>2. PurgesExpired'
  BY <1>1 DEF RecordInv, PurgesExpired, Outdated, Expired
<1> QED  BY <1>1, <1>2, RecordKept DEF RecordInv

LEMMA RecordStep == TypeOK /\ RecordInv /\ [Next]_vars => RecordInv'
<1> SUFFICES ASSUME TypeOK, RecordInv, [Next]_vars PROVE RecordInv'
  OBVIOUS
<1>0. StillRecorded
  BY RecordedStable DEF RecordInv
<1>1. CASE EnvStep
  BY <1>0, <1>1, RecordKept
     DEF EnvStep, Tick, RecordInv, redisVars, wmsVars, tilerVars, compVars, cleanVars
<1>2. ASSUME NEW s \in RasterSources, IngesterStep(s) PROVE RecordInv'
  <2>1. UNCHANGED <<latest, queueComposite, cmsg, tpc, tjob, cpc, ctarget, wpc, wtodo, ktodo>>
    BY <1>2
       DEF IngesterStep, IngesterNext, IngesterWork, IngestList, IngestNormalize, IngestMark,
           IngestSkip, IngestPush, IngestAbort, redisVars, wmsVars, tilerVars, compVars,
           cleanVars
  <2> QED  BY <1>0, <2>1, RecordKept DEF RecordInv
<1>3. ASSUME NEW w \in WmsSources, WmsIngesterStep(w) PROVE RecordInv'
  BY <1>0, <1>3, RecordWms
<1>4. ASSUME NEW w \in Tilers, TilerStep(w) PROVE RecordInv'
  BY <1>0, <1>4, RecordTiler
<1>5. CASE CompositorStep
  BY <1>0, <1>5, RecordCompositor
<1>6. CASE CleanupStep
  BY <1>0, <1>6, RecordCleanup
<1>7. CASE UNCHANGED vars
  BY <1>0, <1>7, RecordKept
     DEF vars, redisVars, wmsVars, tilerVars, compVars, cleanVars, RecordInv
<1> QED  BY <1>1, <1>2, <1>3, <1>4, <1>5, <1>6, <1>7 DEF Next

\* latest:{name} never outruns frames:{name}: whichever workers crash between
\* the two Redis commands, the pointer names a recorded frame or one that the
\* retention has overtaken.
THEOREM LatestRecordedHolds == Spec => []LatestRecorded
<1>1. Init => TypeOK /\ RecordInv  BY InitType, RecordInit
<1>2. TypeOK /\ RecordInv /\ [Next]_vars => TypeOK' /\ RecordInv'
  BY TypeStep, RecordStep
<1>3. RecordInv => LatestRecorded  BY DEF RecordInv
<1> QED  BY <1>1, <1>2, <1>3, PTL DEF Spec

\* No trigger outruns its frame: what queue:composite holds, and what the
\* compositor has taken off it, is in the index or past the retention.
THEOREM TriggersRecordedHolds == Spec => []TriggersRecorded
<1>1. Init => TypeOK /\ RecordInv  BY InitType, RecordInit
<1>2. TypeOK /\ RecordInv /\ [Next]_vars => TypeOK' /\ RecordInv'
  BY TypeStep, RecordStep
<1>3. RecordInv => TriggersRecorded  BY DEF RecordInv
<1> QED  BY <1>1, <1>2, <1>3, PTL DEF Spec

-----------------------------------------------------------------------------
(* GeoTIFF before mark, and gone with the job *)

\* Every GeoTIFF is of a raster feed, and the one a poll is about to mark is
\* on disk.
MarkHasRaster ==
  /\ rasters \subseteq RasterSources \X Times
  /\ \A s \in RasterSources : \A t \in todo[s] :
       ipc[s] = "mark" /\ IsNewest(t, todo[s]) => <<s, t>> \in rasters

RasterInv == RasterForWork /\ RastersUsed /\ MarkHasRaster

LEMMA RasterInit == Init => RasterInv
<1> SUFFICES ASSUME Init PROVE RasterInv
  OBVIOUS
<1>1. \A s \in RasterSources : \A t \in Times : ~PastMark(s, t)
  BY NamesFacts DEF Init, IndexInit, IngestInit, TilerInit, PastMark, InQueue, Popped, Frame
<1> QED
  BY <1>1
     DEF Init, IndexInit, IngestInit, RasterInv, RasterForWork, RastersUsed, MarkHasRaster

\* A step that moves no frame of a raster feed and writes no GeoTIFF.
LEMMA RasterKept ==
  ASSUME TypeOK, RasterInv, faults' = 0 => faults = 0,
         UNCHANGED <<rasters, ipc, todo, results, queueNormalize, tjob>>
  PROVE  RasterInv'
BY DEF RasterInv, RasterForWork, RastersUsed, MarkHasRaster, PastMark, InQueue, Popped, IsNewest

\* What is on a queue after RPUSH, and before BLPOP.
LEMMA QueueAppend ==
  ASSUME NEW q \in Seq(Frame), NEW f \in Frame
  PROVE  \A g : InQueue(g, Append(q, f)) <=> InQueue(g, q) \/ g = f
<1>1. /\ DOMAIN Append(q, f) = 1..(Len(q) + 1) /\ DOMAIN q = 1..Len(q) /\ Len(q) \in Nat
      /\ \A i \in 1..Len(q) : Append(q, f)[i] = q[i]
      /\ Append(q, f)[Len(q) + 1] = f
  OBVIOUS
<1> QED  BY <1>1 DEF InQueue

LEMMA QueueTail ==
  ASSUME NEW q \in Seq(Frame), q # <<>>
  PROVE  \A g : InQueue(g, q) <=> InQueue(g, Tail(q)) \/ g = Head(q)
<1>1. /\ DOMAIN Tail(q) = 1..(Len(q) - 1) /\ DOMAIN q = 1..Len(q) /\ Len(q) \in Nat \ {0}
      /\ \A i \in 1..(Len(q) - 1) : Tail(q)[i] = q[i + 1]
      /\ Head(q) = q[1]
  OBVIOUS
<1> SUFFICES ASSUME NEW g PROVE InQueue(g, q) <=> InQueue(g, Tail(q)) \/ g = Head(q)
  OBVIOUS
<1>2. ASSUME NEW i \in DOMAIN q, q[i] = g, i # 1 PROVE InQueue(g, Tail(q))
  <2>1. i - 1 \in DOMAIN Tail(q) /\ Tail(q)[i - 1] = g
    BY <1>1, <1>2
  <2> QED  BY <2>1 DEF InQueue
<1>3. ASSUME NEW i \in DOMAIN Tail(q), Tail(q)[i] = g PROVE InQueue(g, q)
  <2>1. i + 1 \in DOMAIN q /\ q[i + 1] = g
    BY <1>1, <1>3
  <2> QED  BY <2>1 DEF InQueue
<1>4. g = Head(q) => InQueue(g, q)
  BY <1>1 DEF InQueue
<1> QED  BY <1>1, <1>2, <1>3, <1>4 DEF InQueue

LEMMA FaultCounts == ASSUME TypeOK, Fault PROVE faults' # 0
BY DEF Fault, TypeOK, IndexTypeOK

LEMMA RasterIngester ==
  ASSUME TypeOK, RasterInv, NEW s \in RasterSources, IngesterStep(s)
  PROVE  RasterInv'
<1> USE DEF envVars, redisVars, fileVars, storeVars, tilerVars
<1>0. UNCHANGED tjob /\ rasters \subseteq RasterSources \X Times
  BY DEF IngesterStep, RasterInv, MarkHasRaster
<1>1. CASE IngestList(s)
  <2>1. /\ UNCHANGED <<results, queueNormalize, rasters, faults>>
        /\ todo' = [todo EXCEPT ![s] = NewKeys(s)] /\ ipc' = [ipc EXCEPT ![s] = "fetch"]
        /\ ipc[s] = "idle"
    BY <1>1 DEF IngestList
  <2>2. \A r \in RasterSources : \A t \in Times : PastMark(r, t)' <=> PastMark(r, t)
    BY <1>0, <2>1 DEF PastMark, InQueue, Popped
  <2>3. \A r \in RasterSources : ipc'[r] = "mark" =>
          r # s /\ ipc[r] = "mark" /\ todo'[r] = todo[r]
    BY <2>1 DEF TypeOK, IngestTypeOK
  <2>4. \A r \in RasterSources : ipc[r] = "mark" => ipc'[r] = "mark" /\ todo'[r] = todo[r]
    BY <2>1 DEF TypeOK, IngestTypeOK
  <2> QED
    BY <1>0, <2>1, <2>2, <2>3, <2>4
       DEF RasterInv, RasterForWork, RastersUsed, MarkHasRaster, IsNewest
<1>2. CASE IngestNormalize(s)
  <2> PICK t \in todo[s] : IsNewest(t, todo[s]) /\ rasters' = rasters \cup {<<s, t>>}
    BY <1>2 DEF IngestNormalize
  <2>1. /\ UNCHANGED <<todo, results, queueNormalize, faults>>
        /\ ipc' = [ipc EXCEPT ![s] = "mark"] /\ ipc[s] = "fetch"
        /\ t \in Times
    BY <1>2 DEF IngestNormalize, TypeOK, IngestTypeOK
  <2>2. \A r \in RasterSources : \A u \in Times : PastMark(r, u)' <=> PastMark(r, u)
    BY <1>0, <2>1 DEF PastMark, InQueue, Popped
  <2>3. \A r \in RasterSources : ipc'[r] = IF r = s THEN "mark" ELSE ipc[r]
    BY <2>1 DEF TypeOK, IngestTypeOK
  <2>4. \A u \in todo[s] : IsNewest(u, todo[s]) => u = t
    BY DEF IsNewest, TypeOK, IngestTypeOK, Times
  <2>5. RasterForWork'
    BY <2>2 DEF RasterInv, RasterForWork
  <2>6. MarkHasRaster'
    BY <1>0, <2>1, <2>3, <2>4 DEF RasterInv, MarkHasRaster, IsNewest
  <2>7. RastersUsed'
    BY <1>0, <2>1, <2>2, <2>3 DEF RasterInv, RastersUsed, IsNewest
  <2> QED  BY <2>5, <2>6, <2>7 DEF RasterInv
<1>3. CASE IngestMark(s)
  <2> PICK t \in todo[s] :
        /\ IsNewest(t, todo[s])
        /\ todo' = [todo EXCEPT ![s] = @ \ {t}]
        /\ results' = [results EXCEPT ![s] = @ \cup {t}]
        /\ ipc' = [ipc EXCEPT ![s] = AfterKey(todo[s] \ {t}, results[s] \cup {t})]
    BY <1>3 DEF IngestMark
  <2>1. UNCHANGED <<queueNormalize, rasters, faults>> /\ ipc[s] = "mark" /\ t \in Times
    BY <1>3 DEF IngestMark, TypeOK, IngestTypeOK
  <2>2. \A r \in RasterSources : \A u \in Times :
          PastMark(r, u)' <=> PastMark(r, u) \/ (r = s /\ u = t)
    BY <1>0, <2>1 DEF PastMark, InQueue, Popped, TypeOK, IngestTypeOK
  <2>3. \A r \in RasterSources \ {s} : ipc'[r] = ipc[r] /\ todo'[r] = todo[r]
    BY DEF TypeOK, IngestTypeOK
  <2>4. ipc'[s] # "mark"
    BY DEF AfterKey, TypeOK, IngestTypeOK
  <2>5. <<s, t>> \in rasters
    BY <2>1 DEF RasterInv, MarkHasRaster
  <2>6. \A u \in todo[s] : IsNewest(u, todo[s]) => u = t
    BY DEF IsNewest, TypeOK, IngestTypeOK, Times
  <2>7. RasterForWork'
    BY <2>1, <2>2, <2>5 DEF RasterInv, RasterForWork
  <2>8. MarkHasRaster'
    BY <1>0, <2>1, <2>3, <2>4 DEF RasterInv, MarkHasRaster, IsNewest
  <2>9. RastersUsed'
    BY <1>0, <2>1, <2>2, <2>3, <2>6 DEF RasterInv, RastersUsed, IsNewest
  <2> QED  BY <2>7, <2>8, <2>9 DEF RasterInv
<1>4. CASE IngestSkip(s) \/ IngestAbort(s)
  <2>1. /\ UNCHANGED <<queueNormalize, rasters>> /\ Fault
        /\ \A r \in RasterSources : results'[r] \subseteq results[r]
        /\ \A r \in RasterSources \ {s} : ipc'[r] = ipc[r] /\ todo'[r] = todo[r]
        /\ ipc'[s] # "mark"
    BY <1>4 DEF IngestSkip, IngestAbort, AfterKey, TypeOK, IngestTypeOK
  <2>2. \A r \in RasterSources : \A u \in Times : PastMark(r, u)' => PastMark(r, u)
    BY <1>0, <2>1 DEF PastMark, InQueue, Popped
  <2>3. RasterForWork'
    BY <2>1, <2>2 DEF RasterInv, RasterForWork
  <2>4. MarkHasRaster'
    BY <1>0, <2>1 DEF RasterInv, MarkHasRaster, IsNewest
  <2> QED  BY <2>1, <2>3, <2>4, FaultCounts DEF RasterInv, RastersUsed
<1>5. CASE IngestPush(s)
  <2> PICK t \in results[s] :
        /\ queueNormalize' = Append(queueNormalize, <<s, t>>)
        /\ results' = [results EXCEPT ![s] = @ \ {t}]
        /\ ipc' = [ipc EXCEPT ![s] = IF results[s] = {t} THEN "idle" ELSE "push"]
    BY <1>5 DEF IngestPush
  <2>1. UNCHANGED <<todo, rasters, faults>> /\ ipc[s] = "push" /\ <<s, t>> \in Frame
    BY <1>5, NamesFacts DEF IngestPush, TypeOK, IngestTypeOK, Frame
  <2>2. \A f : InQueue(f, queueNormalize)' <=> InQueue(f, queueNormalize) \/ f = <<s, t>>
    BY <2>1, QueueAppend DEF TypeOK, IndexTypeOK
  <2>3. \A r \in RasterSources : \A u \in Times : PastMark(r, u)' <=> PastMark(r, u)
    BY <1>0, <2>1, <2>2 DEF PastMark, Popped, TypeOK, IngestTypeOK
  <2>4. \A r \in RasterSources : ipc'[r] = "mark" <=> ipc[r] = "mark"
    BY <2>1 DEF TypeOK, IngestTypeOK
  <2> QED
    BY <1>0, <2>1, <2>3, <2>4
       DEF RasterInv, RasterForWork, RastersUsed, MarkHasRaster, IsNewest
<1> QED
  BY <1>1, <1>2, <1>3, <1>4, <1>5 DEF IngesterStep, IngesterNext, IngesterWork

\* The GeoTIFF goes when its job goes, and the job was the only place of its frame.
LEMMA RasterTiler ==
  ASSUME TypeOK, Placement, RasterInv, NEW w \in Tilers, TilerStep(w)
  PROVE  RasterInv'
<1> USE DEF envVars, redisVars, fileVars, storeVars, ingestVars, TilerRest
<1>0. UNCHANGED <<ipc, todo, results>> /\ rasters \subseteq RasterSources \X Times
  BY DEF TilerStep, RasterInv, MarkHasRaster
<1>1. CASE TilerPop(w)
  <2>1. /\ UNCHANGED <<rasters, faults>>
        /\ tjob' = [tjob EXCEPT ![w] = Head(queueNormalize)] /\ tjob[w] = NoFrame
        /\ queueNormalize # <<>> /\ queueNormalize' = Tail(queueNormalize)
    BY <1>1 DEF TilerPop, TypeOK, TilerTypeOK, Tiling
  <2>2. \A f : InQueue(f, queueNormalize) <=>
               InQueue(f, queueNormalize)' \/ f = Head(queueNormalize)
    BY <2>1, QueueTail DEF TypeOK, IndexTypeOK
  <2>3. \A v \in Tilers : tjob'[v] = IF v = w THEN Head(queueNormalize) ELSE tjob[v]
    BY <2>1 DEF TypeOK, TilerTypeOK
  <2>4. \A f \in Frame : Popped(f)' <=> Popped(f) \/ f = Head(queueNormalize)
    BY <2>1, <2>3, NamesFacts DEF Popped
  <2>5. \A r \in RasterSources : \A u \in Times : <<r, u>> \in Frame
    BY NamesFacts DEF Frame
  <2>6. \A r \in RasterSources : \A u \in Times : PastMark(r, u)' <=> PastMark(r, u)
    BY <1>0, <2>2, <2>4, <2>5 DEF PastMark
  <2> QED
    BY <1>0, <2>1, <2>6
       DEF RasterInv, RasterForWork, RastersUsed, MarkHasRaster, IsNewest
<1>2. CASE TilerDiscard(w)
  <2> PICK f \in Frame : f = tjob[w]
    BY <1>2 DEF TilerDiscard, TypeOK, TilerTypeOK, Tiling
  <2>1. /\ UNCHANGED <<queueNormalize, faults>>
        /\ rasters' = rasters \ {f} /\ tjob' = [tjob EXCEPT ![w] = NoFrame]
    BY <1>2 DEF TilerDiscard
  <2>2. Popped(f) /\ f # NoFrame /\ f = <<f[1], f[2]>>
    BY NamesFacts DEF Popped
  <2>3. \A v \in Tilers : tjob'[v] = IF v = w THEN NoFrame ELSE tjob[v]
    BY <2>1 DEF TypeOK, TilerTypeOK
  <2>4. \A v \in Tilers \ {w} : tjob[v] # f
    BY <2>2 DEF Placement, SinglePlacement
  <2>5. \A g \in Frame : Popped(g)' <=> Popped(g) /\ g # f
    BY <2>3, <2>4, NamesFacts DEF Popped
  <2>6. ~InQueue(f, queueNormalize)
    BY <2>2 DEF Placement, SinglePlacement, InQueue
  <2>7. \A r \in RasterSources : \A u \in results[r] : <<r, u>> # f
    BY <2>2 DEF Placement, SinglePlacement
  <2>8. \A r \in RasterSources : \A u \in Times :
          PastMark(r, u)' <=> PastMark(r, u) /\ <<r, u>> # f
    <3> SUFFICES ASSUME NEW r \in RasterSources, NEW u \in Times
                 PROVE  PastMark(r, u)' <=> PastMark(r, u) /\ <<r, u>> # f
      OBVIOUS
    <3>1. <<r, u>> \in Frame
      BY NamesFacts DEF Frame
    <3> QED  BY <1>0, <2>1, <2>5, <2>6, <2>7, <3>1 DEF PastMark, InQueue
  <2>9. \A r \in RasterSources : \A u \in todo[r] : <<r, u>> # f
    BY <2>2 DEF Placement, SinglePlacement, PastMark
  <2>10. RasterForWork'
    BY <2>1, <2>8 DEF RasterInv, RasterForWork
  <2>11. MarkHasRaster'
    BY <1>0, <2>1, <2>9 DEF RasterInv, MarkHasRaster, IsNewest
  <2>12. RastersUsed'
    BY <1>0, <2>1, <2>8 DEF RasterInv, RastersUsed, IsNewest
  <2> QED  BY <2>10, <2>11, <2>12 DEF RasterInv
<1>3. CASE TilerFail(w) \/ TilerCrash(w)
  <2>1. /\ UNCHANGED <<queueNormalize, rasters>> /\ Fault
        /\ tjob' = [tjob EXCEPT ![w] = NoFrame]
    BY <1>3 DEF TilerFail, TilerCrash
  <2>2. \A f \in Frame : Popped(f)' => Popped(f)
    BY <2>1, NamesFacts DEF Popped, TypeOK, TilerTypeOK
  <2>3. \A r \in RasterSources : \A u \in Times : <<r, u>> \in Frame
    BY NamesFacts DEF Frame
  <2>4. \A r \in RasterSources : \A u \in Times : PastMark(r, u)' => PastMark(r, u)
    BY <1>0, <2>1, <2>2, <2>3 DEF PastMark, InQueue
  <2>5. RasterForWork'
    BY <2>1, <2>4 DEF RasterInv, RasterForWork
  <2>6. MarkHasRaster'
    BY <1>0, <2>1 DEF RasterInv, MarkHasRaster, IsNewest
  <2> QED  BY <2>1, <2>5, <2>6, FaultCounts DEF RasterInv, RastersUsed
<1>4. ASSUME TilerNext(w), ~TilerPop(w), ~TilerDiscard(w), ~TilerFail(w), ~TilerCrash(w)
      PROVE  /\ UNCHANGED <<queueNormalize, rasters, tjob>>
             /\ UNCHANGED faults \/ Fault
  BY <1>4
     DEF TilerNext, TilerWork, TilerStart, SweepCheck, SweepDelete, SweepDone, TileZoom,
         TileZoomSkipped, NextZoom, TilerZadd, TilerLatest, TilerPush, SweepAbort
<1>5. CASE ~TilerPop(w) /\ ~TilerDiscard(w) /\ ~TilerFail(w) /\ ~TilerCrash(w)
  BY <1>0, <1>4, <1>5, RasterKept, FaultCounts DEF TilerStep
<1> QED  BY <1>1, <1>2, <1>3, <1>5

LEMMA RasterStep == TypeOK /\ Placement /\ RasterInv /\ [Next]_vars => RasterInv'
<1> SUFFICES ASSUME TypeOK, Placement, RasterInv, [Next]_vars PROVE RasterInv'
  OBVIOUS
<1> USE DEF envVars, redisVars, storeVars, ingestVars, tilerVars
<1>1. CASE EnvStep
  BY <1>1, RasterKept DEF EnvStep, Tick
<1>2. ASSUME NEW s \in RasterSources, IngesterStep(s) PROVE RasterInv'
  BY <1>2, RasterIngester
<1>3. ASSUME NEW w \in WmsSources, WmsIngesterStep(w) PROVE RasterInv'
  <2>1. /\ UNCHANGED <<rasters, ipc, todo, results, queueNormalize, tjob>>
        /\ UNCHANGED faults \/ Fault
    BY <1>3
       DEF WmsIngesterStep, WmsNext, WmsWork, WmsStep, WmsList, WmsWrite, WmsWritePartial,
           WmsZadd, WmsLatest, WmsZaddType, WmsLatestType, WmsMark, WmsPush, WmsPushType,
           WmsAbort
  <2> QED  BY <2>1, RasterKept, FaultCounts
<1>4. ASSUME NEW w \in Tilers, TilerStep(w) PROVE RasterInv'
  BY <1>4, RasterTiler
<1>5. CASE CompositorStep
  <2>1. /\ UNCHANGED <<rasters, ipc, todo, results, queueNormalize, tjob>>
        /\ UNCHANGED faults \/ Fault
    BY <1>5
       DEF CompositorStep, CompNext, CompWork, CompPop, CompDrain, CompDrained, CompGet,
           CompGot, CompList, CompListed, CompSkip, CompWrite, CompZadd, CompLatest,
           CompPublish, CompAbort, CompCrash
  <2> QED  BY <2>1, RasterKept, FaultCounts
<1>6. CASE CleanupStep
  <2>1. /\ UNCHANGED <<rasters, ipc, todo, results, queueNormalize, tjob>>
        /\ UNCHANGED faults \/ Fault
    BY <1>6
       DEF CleanupStep, CleanNext, CleanWork, CleanScan, CleanDelete, CleanZrem, CleanPrune,
           CleanAbort
  <2> QED  BY <2>1, RasterKept, FaultCounts
<1>7. CASE UNCHANGED vars
  BY <1>7, RasterKept DEF vars
<1> QED  BY <1>1, <1>2, <1>3, <1>4, <1>5, <1>6, <1>7 DEF Next

\* Whoever still has to read a GeoTIFF finds it on disk: the one tiler that may
\* unlink it is the one that popped the frame, and it is the frame's only place.
THEOREM RasterForWorkHolds == Spec => []RasterForWork
<1>1. Init => TypeOK /\ Placement /\ RasterInv  BY InitType, PlacementInit, RasterInit
<1>2. TypeOK /\ Placement /\ RasterInv /\ [Next]_vars => TypeOK' /\ Placement' /\ RasterInv'
  BY TypeStep, PlacementStep, RasterStep
<1>3. RasterInv => RasterForWork  BY DEF RasterInv
<1> QED  BY <1>1, <1>2, <1>3, PTL DEF Spec

\* Without a fault no GeoTIFF is left behind: each one on disk is of a frame
\* about to be marked or still on its way through the queue and a tiler.
THEOREM RastersUsedHolds == Spec => []RastersUsed
<1>1. Init => TypeOK /\ Placement /\ RasterInv  BY InitType, PlacementInit, RasterInit
<1>2. TypeOK /\ Placement /\ RasterInv /\ [Next]_vars => TypeOK' /\ Placement' /\ RasterInv'
  BY TypeStep, PlacementStep, RasterStep
<1>3. RasterInv => RastersUsed  BY DEF RasterInv
<1> QED  BY <1>1, <1>2, <1>3, PTL DEF Spec

=============================================================================
