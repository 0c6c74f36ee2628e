-------------------------- MODULE FrameTilesProofs --------------------------
(***************************************************************************)
(* TLAPS proofs about the tiles themselves: without a fault, a recorded    *)
(* frame has every tile its data calls for, and the compositor draws whole *)
(* frames only, although it reads files that tilers write and cleanup      *)
(* deletes.                                                                *)
(***************************************************************************)
EXTENDS FrameLedgerProofs

\* The sources cleanupPartialDirs does not look at.
Unswept == Sources \ {SweptSource}

\* Nobody writes a tile where the frame has no data.
WithinEcho == \A s \in Sources : \A t \in Times : tiles[s][t] \subseteq Echo[<<s, t>>]

\* Only frames of raster feeds are queued and tiled.
RasterJobs ==
  /\ \A i \in DOMAIN queueNormalize : queueNormalize[i][1] \in RasterSources
  /\ \A w \in Tilers : tjob[w] # NoFrame => tjob[w][1] \in RasterSources

\* A tiler has written every zoom level below the one it is at.
TilersAhead ==
  \A w \in Tilers : tpc[w] = "tile" /\ tjob[w][1] # SweptSource =>
    \A z \in Echo[tjob[w]] : z < tzoom[w] => z \in tiles[tjob[w][1]][tjob[w][2]]

\* A frame that no tiler is at has all of its tiles or none.
BeingTiled(s, t) == \E w \in Tilers : tpc[w] = "tile" /\ tjob[w] = <<s, t>>

FramesWhole ==
  \A s \in Unswept : \A t \in Times :
    tiles[s][t] = {} \/ tiles[s][t] = Echo[<<s, t>>] \/ BeingTiled(s, t)

\* What the EC ingester is about to record it has written, twin included.
WmsWritten ==
  \A w \in WmsSources : \A t \in wtodo[w] :
    wpc[w] \in {"zadd", "latest", "zaddType"} /\ IsNewest(t, wtodo[w]) =>
      \A s \in {w, TypeTwin[w]} \ {SweptSource} : Expired(t) \/ tiles[s][t] = Echo[<<s, t>>]

\* An open file that was unlinked held a whole frame.
HandlesWhole ==
  \A f \in DOMAIN readCache :
    f[1] # SweptSource => readCache[f] = {} \/ readCache[f] = Echo[f]

TilesNow ==
  /\ TilersAhead
  /\ FramesWhole
  /\ WmsWritten
  /\ HandlesWhole
  /\ UnsweptComplete
  /\ DrawnWhole

TilesInv == faults = 0 => TilesNow

-----------------------------------------------------------------------------
(* Where tiles are written and which frames are tiled *)

LEMMA EchoFacts ==
  /\ \A f \in Frame : Echo[f] \subseteq Zooms
  /\ \A w \in WmsSources : \A t \in Times :
       \A s \in {w, TypeTwin[w]} : s \in Sources /\ Echo[<<s, t>>] = Echo[<<w, t>>]
  /\ \A w \in WmsSources : w \notin RasterSources /\ TypeTwin[w] \notin RasterSources
  /\ \A s \in Sources : s \in Names /\ s \notin Composites
BY ConstantsAssumption, TwinAssumption, NamesFacts

\* What each kind of access does to every tile set of the store.
LEMMA WriteCells ==
  ASSUME TypeOK, NEW n, NEW t, NEW zs, WriteBatch(n, t, zs), NEW m \in Names, NEW u \in Times
  PROVE  tiles'[m][u] = IF m = n /\ u = t THEN tiles[m][u] \cup zs ELSE tiles[m][u]
<1>1. tiles \in [Names -> [Times -> SUBSET Zooms]]
  BY DEF TypeOK, IndexTypeOK, FilesTypeOK
<1> QED  BY <1>1 DEF WriteBatch

LEMMA DeleteCells ==
  ASSUME TypeOK, NEW n, NEW t, DeleteFrame(n, t), NEW m \in Names, NEW u \in Times
  PROVE  tiles'[m][u] = IF m = n /\ u = t THEN {} ELSE tiles[m][u]
<1>1. tiles \in [Names -> [Times -> SUBSET Zooms]]
  BY DEF TypeOK, IndexTypeOK, FilesTypeOK
<1> QED  BY <1>1 DEF DeleteFrame

LEMMA WmsCells ==
  ASSUME TypeOK, NEW w \in WmsSources, NEW t, NEW zs, WmsTiles(w, t, zs),
         NEW m \in Names, NEW u \in Times
  PROVE  tiles'[m][u] = IF m \in {w, TypeTwin[w]} /\ u = t THEN tiles[m][u] \cup zs
                        ELSE tiles[m][u]
<1>1. tiles \in [Names -> [Times -> SUBSET Zooms]]
  BY DEF TypeOK, IndexTypeOK, FilesTypeOK
<1> QED  BY <1>1 DEF WmsTiles

LEMMA EchoInit == Init => WithinEcho /\ RasterJobs
BY NamesFacts
   DEF Init, IndexInit, TilerInit, WithinEcho, RasterJobs

LEMMA WithinStep == ASSUME TypeOK, WithinEcho, [Next]_vars PROVE WithinEcho'
<1> USE DEF redisVars, fileVars, storeVars
<1> SUFFICES ASSUME NEW m \in Sources, NEW u \in Times PROVE tiles'[m][u] \subseteq Echo[<<m, u>>]
  BY DEF WithinEcho
<1>0. m \in Names /\ tiles[m][u] \subseteq Echo[<<m, u>>]
  BY EchoFacts DEF WithinEcho
<1>1. CASE EnvStep \/ UNCHANGED vars
  BY <1>0, <1>1 DEF EnvStep, Tick, vars
<1>2. ASSUME NEW s \in RasterSources, IngesterStep(s) PROVE tiles'[m][u] \subseteq Echo[<<m, u>>]
  BY <1>0, <1>2
     DEF IngesterStep, IngesterNext, IngesterWork, IngestList, IngestNormalize,
         IngestMark, IngestSkip, IngestPush, IngestAbort
<1>3. ASSUME NEW w \in WmsSources, WmsIngesterStep(w)
      PROVE  tiles'[m][u] \subseteq Echo[<<m, u>>]
  <2>1. ASSUME NEW t \in wtodo[w], NEW zs \in SUBSET Echo[<<w, t>>], WmsTiles(w, t, zs)
        PROVE  tiles'[m][u] \subseteq Echo[<<m, u>>]
    <3>1. t \in Times
      BY DEF TypeOK, WmsTypeOK
    <3>2. m \in {w, TypeTwin[w]} /\ u = t => Echo[<<m, u>>] = Echo[<<w, t>>]
      BY <3>1, EchoFacts
    <3>3. tiles'[m][u] = IF m \in {w, TypeTwin[w]} /\ u = t THEN tiles[m][u] \cup zs
                         ELSE tiles[m][u]
      BY <1>0, <2>1, WmsCells
    <3> QED  BY <1>0, <3>2, <3>3
  <2>2. UNCHANGED tiles \/ WmsWrite(w) \/ WmsWritePartial(w)
    BY <1>3
       DEF WmsIngesterStep, WmsNext, WmsWork, WmsStep, WmsList, WmsZadd, WmsLatest,
           WmsZaddType, WmsLatestType, WmsMark, WmsPush, WmsPushType, WmsAbort
  <2> QED  BY <1>0, <2>1, <2>2 DEF WmsWrite, WmsWritePartial
<1>4. ASSUME NEW n, NEW t, DeleteFrame(n, t) PROVE tiles'[m][u] \subseteq Echo[<<m, u>>]
  BY <1>0, <1>4, DeleteCells
<1>5. ASSUME NEW w \in Tilers, TilerStep(w) PROVE tiles'[m][u] \subseteq Echo[<<m, u>>]
  <2>1. CASE TileZoom(w)
    <3> PICK f \in Frame : f = tjob[w]
      BY <2>1 DEF TileZoom, NextZoom, TypeOK, TilerTypeOK, Tiling
    <3> PICK n, t, zs :
          /\ n = f[1] /\ t = f[2] /\ zs \subseteq Echo[f]
          /\ WriteBatch(n, t, zs)
      BY <2>1 DEF TileZoom
    <3>2. m = n /\ u = t => Echo[<<m, u>>] = Echo[f]
      BY NamesFacts
    <3>3. tiles'[m][u] = IF m = n /\ u = t THEN tiles[m][u] \cup zs ELSE tiles[m][u]
      BY <1>0, WriteCells
    <3> QED  BY <1>0, <3>2, <3>3
  <2>2. UNCHANGED tiles \/ TileZoom(w) \/ SweepDelete(w) \/ TilerFail(w)
    BY <1>5
       DEF TilerStep, TilerNext, TilerWork, TilerStart, SweepCheck, SweepDone, TilerPop,
           TileZoomSkipped, NextZoom, TilerZadd, TilerLatest, TilerPush, TilerDiscard,
           TilerCrash, SweepAbort, TilerRest
  <2> QED  BY <1>0, <1>4, <2>1, <2>2 DEF SweepDelete, TilerFail
<1>6. CASE CompositorStep
  <2>1. UNCHANGED tiles \/ \E n \in Composites : CompWrite(n)
    BY <1>6
       DEF CompositorStep, CompNext, CompWork, CompPop, CompDrain, CompDrained, CompGet,
           CompGot, CompList, CompListed, CompSkip, CompZadd, CompLatest, CompPublish,
           CompAbort, CompCrash
  <2>2. ASSUME NEW n \in Composites, CompWrite(n) PROVE tiles'[m][u] = tiles[m][u]
    <3> PICK t, zs : WriteBatch(n, t, zs)
      BY <2>2 DEF CompWrite
    <3>1. m # n
      BY EchoFacts
    <3>2. tiles'[m][u] = IF m = n /\ u = t THEN tiles[m][u] \cup zs ELSE tiles[m][u]
      BY <1>0, WriteCells
    <3> QED  BY <3>1, <3>2
  <2> QED  BY <1>0, <2>1, <2>2
<1>7. CASE CleanupStep
  <2>1. UNCHANGED tiles \/ \E n, t : DeleteFrame(n, t)
    BY <1>7
       DEF CleanupStep, CleanNext, CleanWork, CleanScan, CleanDelete, CleanZrem, CleanPrune,
           CleanAbort
  <2> QED  BY <1>0, <1>4, <2>1
<1> QED  BY <1>1, <1>2, <1>3, <1>5, <1>6, <1>7 DEF Next

LEMMA JobsStep == ASSUME TypeOK, RasterJobs, [Next]_vars PROVE RasterJobs'
<1> USE DEF redisVars, tilerVars
<1>1. CASE EnvStep \/ UNCHANGED vars \/ CompositorStep \/ CleanupStep
  BY <1>1
     DEF RasterJobs, EnvStep, Tick, vars, CompositorStep, CompNext, CompWork, CompPop,
         CompDrain, CompDrained, CompGet, CompGot, CompList, CompListed, CompSkip,
         CompWrite, CompZadd, CompLatest, CompPublish, CompAbort, CompCrash, CleanupStep,
         CleanNext, CleanWork, CleanScan, CleanDelete, CleanZrem, CleanPrune, CleanAbort
<1>2. ASSUME NEW s \in RasterSources, IngesterStep(s) PROVE RasterJobs'
  <2>1. CASE IngestPush(s)
    <3> PICK t \in Times : queueNormalize' = Append(queueNormalize, <<s, t>>)
      BY <2>1 DEF IngestPush, TypeOK, IngestTypeOK
    <3>1. <<s, t>> \in Frame
      BY NamesFacts DEF Frame
    <3>2. \A i \in DOMAIN queueNormalize' :
            queueNormalize'[i] = <<s, t>>
              \/ \E j \in DOMAIN queueNormalize : queueNormalize'[i] = queueNormalize[j]
      BY <3>1 DEF TypeOK, IndexTypeOK
    <3> QED  BY <1>2, <3>2 DEF IngesterStep, RasterJobs
  <2>2. CASE ~IngestPush(s)
    BY <1>2, <2>2
       DEF RasterJobs, IngesterStep, IngesterNext, IngesterWork, IngestList, IngestNormalize,
           IngestMark, IngestSkip, IngestAbort
  <2> QED  BY <2>1, <2>2
<1>3. ASSUME NEW w \in WmsSources, WmsIngesterStep(w) PROVE RasterJobs'
  BY <1>3
     DEF RasterJobs, WmsIngesterStep, WmsNext, WmsWork, WmsStep, WmsList, WmsWrite,
         WmsWritePartial, WmsZadd, WmsLatest, WmsZaddType, WmsLatestType, WmsMark, WmsPush,
         WmsPushType, WmsAbort
<1>4. ASSUME NEW w \in Tilers, TilerStep(w) PROVE RasterJobs'
  <2>1. CASE TilerPop(w)
    <3>1. /\ tjob' = [tjob EXCEPT ![w] = Head(queueNormalize)]
          /\ queueNormalize # <<>> /\ queueNormalize' = Tail(queueNormalize)
      BY <2>1 DEF TilerPop
    <3>2. /\ \A i \in DOMAIN queueNormalize' :
               \E j \in DOMAIN queueNormalize : queueNormalize'[i] = queueNormalize[j]
          /\ \E j \in DOMAIN queueNormalize : Head(queueNormalize) = queueNormalize[j]
      BY <3>1 DEF TypeOK, IndexTypeOK
    <3> QED  BY <3>1, <3>2 DEF RasterJobs, TypeOK, TilerTypeOK
  <2>2. CASE ~TilerPop(w)
    <3>1. /\ UNCHANGED queueNormalize
          /\ tjob' = tjob \/ tjob' = [tjob EXCEPT ![w] = NoFrame]
      BY <1>4, <2>2
         DEF TilerStep, TilerNext, TilerWork, TilerStart, SweepCheck, SweepDelete, SweepDone,
             TileZoom, TileZoomSkipped, NextZoom, TilerZadd, TilerLatest, TilerPush,
             TilerDiscard, TilerFail, TilerCrash, SweepAbort, TilerRest
    <3> QED  BY <3>1 DEF RasterJobs, TypeOK, TilerTypeOK
  <2> QED  BY <2>1, <2>2
<1> QED  BY <1>1, <1>2, <1>3, <1>4 DEF Next

-----------------------------------------------------------------------------
(* Whole frames *)

LEMMA TilesInit == Init => TilesInv
BY NamesFacts
   DEF Init, IndexInit, TilerInit, WmsInit, CompInit, TilesInv, TilesNow, TilersAhead,
       FramesWhole, WmsWritten, HandlesWhole, UnsweptComplete, DrawnWhole, Unswept

\* What a step does not touch stays whole.
LEMMA TilesKept ==
  ASSUME TypeOK, StillRecorded, faults = 0, TilesNow
  PROVE  /\ UNCHANGED <<tiles, tpc, tjob, tzoom>> => TilersAhead'
         /\ UNCHANGED <<tiles, tpc, tjob>> => FramesWhole'
         /\ UNCHANGED <<tiles, wpc, wtodo>> => WmsWritten'
         /\ UNCHANGED readCache => HandlesWhole'
         /\ UNCHANGED tiles /\ (\A s \in Unswept : frames'[s] \subseteq frames[s])
              => UnsweptComplete'
         /\ UNCHANGED <<ccells, cpick>> => DrawnWhole'
<1>1. \A t \in Times : Expired(t) => Expired(t)'
  BY DEF StillRecorded
<1>2. UNCHANGED <<tiles, tpc, tjob, tzoom>> => TilersAhead'
  BY DEF TilesNow, TilersAhead
<1>3. UNCHANGED <<tiles, tpc, tjob>> => FramesWhole'
  BY DEF TilesNow, FramesWhole, BeingTiled
<1>4. UNCHANGED <<tiles, wpc, wtodo>> => WmsWritten'
  BY <1>1 DEF TilesNow, WmsWritten, IsNewest, TypeOK, WmsTypeOK
<1>5. UNCHANGED readCache => HandlesWhole'
  BY DEF TilesNow, HandlesWhole
<1>6. UNCHANGED tiles /\ (\A s \in Unswept : frames'[s] \subseteq frames[s])
        => UnsweptComplete'
  BY <1>1, NamesFacts DEF TilesNow, UnsweptComplete, Unswept, TypeOK, IndexTypeOK
<1>7. UNCHANGED <<ccells, cpick>> => DrawnWhole'
  BY DEF TilesNow, DrawnWhole
<1> QED  BY <1>2, <1>3, <1>4, <1>5, <1>6, <1>7

\* Tiles that are only added, where there is data, spoil nothing that is whole.
LEMMA TilesGrow ==
  ASSUME TypeOK, StillRecorded, faults = 0, TilesNow, WithinEcho',
         \A s \in Sources : \A t \in Times : tiles[s][t] \subseteq tiles'[s][t]
  PROVE  /\ UNCHANGED <<tpc, tjob, tzoom>> => TilersAhead'
         /\ UNCHANGED <<wpc, wtodo>> => WmsWritten'
         /\ UNCHANGED frames => UnsweptComplete'
<1>1. \A t \in Times : Expired(t) => Expired(t)'
  BY DEF StillRecorded
<1>2. \A s \in Sources : \A t \in Times :
        tiles[s][t] = Echo[<<s, t>>] => tiles'[s][t] = Echo[<<s, t>>]
  BY DEF WithinEcho
<1>3. UNCHANGED <<tpc, tjob, tzoom>> => TilersAhead'
  <2> SUFFICES ASSUME UNCHANGED <<tpc, tjob, tzoom>>, NEW w \in Tilers, tpc[w] = "tile",
                      tjob[w][1] # SweptSource, NEW z \in Echo[tjob[w]], z < tzoom[w]
               PROVE  z \in tiles'[tjob[w][1]][tjob[w][2]]
    BY DEF TilersAhead
  <2>1. z \in tiles[tjob[w][1]][tjob[w][2]]
    BY DEF TilesNow, TilersAhead
  <2>2. tjob[w] \in Frame
    BY DEF TypeOK, TilerTypeOK, Tiling
  <2> QED  BY <2>1, <2>2, NamesFacts
<1>4. UNCHANGED <<wpc, wtodo>> => WmsWritten'
  <2> SUFFICES ASSUME UNCHANGED <<wpc, wtodo>>, NEW w \in WmsSources, NEW t \in wtodo[w],
                      wpc[w] \in {"zadd", "latest", "zaddType"}, IsNewest(t, wtodo[w]),
                      NEW s \in {w, TypeTwin[w]} \ {SweptSource}
               PROVE  Expired(t)' \/ tiles'[s][t] = Echo[<<s, t>>]
    BY DEF WmsWritten, IsNewest
  <2>1. Expired(t) \/ tiles[s][t] = Echo[<<s, t>>]
    BY DEF TilesNow, WmsWritten
  <2>2. s \in Sources /\ t \in Times
    BY NamesFacts DEF TypeOK, WmsTypeOK
  <2> QED  BY <1>1, <1>2, <2>1, <2>2
<1>5. UNCHANGED frames => UnsweptComplete'
  <2> SUFFICES ASSUME UNCHANGED frames, NEW s \in Sources \ {SweptSource}, NEW t \in frames[s]
               PROVE  Expired(t)' \/ tiles'[s][t] = Echo[<<s, t>>]
    BY DEF UnsweptComplete
  <2>1. Expired(t) \/ tiles[s][t] = Echo[<<s, t>>]
    BY DEF TilesNow, UnsweptComplete
  <2>2. t \in Times
    BY NamesFacts DEF TypeOK, IndexTypeOK
  <2> QED  BY <1>1, <1>2, <2>1, <2>2
<1> QED  BY <1>3, <1>4, <1>5

LEMMA TilesIngester ==
  ASSUME TypeOK, StillRecorded, faults = 0, TilesNow,
         EnvStep \/ (\E s \in RasterSources : IngesterStep(s)) \/ UNCHANGED vars
  PROVE  TilesNow'
<1>1. UNCHANGED <<tiles, readCache, frames, tpc, tjob, tzoom, wpc, wtodo, ccells, cpick>>
  BY DEF EnvStep, Tick, vars, IngesterStep, IngesterNext, IngesterWork, IngestList,
         IngestNormalize, IngestMark, IngestSkip, IngestPush, IngestAbort, redisVars,
         fileVars, storeVars, wmsVars, tilerVars, compVars
<1> QED  BY <1>1, TilesKept DEF TilesNow

LEMMA TilesTiler ==
  ASSUME TypeOK, TypeOK', StillRecorded, WithinEcho, WithinEcho', faults = 0, faults' = 0, TilesNow,
         NEW w \in Tilers, TilerStep(w)
  PROVE  TilesNow'
<1> USE DEF redisVars, fileVars, storeVars, wmsVars, compVars, TilerRest, TilerGoto
<1>0. /\ UNCHANGED <<wpc, wtodo, ccells, cpick>> /\ DrawnWhole'
      /\ \A v \in Tilers \ {w} : tpc'[v] = tpc[v] /\ tjob'[v] = tjob[v] /\ tzoom'[v] = tzoom[v]
  <2>1. UNCHANGED <<wpc, wtodo, ccells, cpick>>
    BY DEF TilerStep
  <2>2. \A v \in Tilers \ {w} : tpc'[v] = tpc[v] /\ tjob'[v] = tjob[v] /\ tzoom'[v] = tzoom[v]
    BY DEF TilerStep, TilerNext, TilerWork, TilerStart, SweepCheck, SweepDelete, SweepDone,
           TilerPop, TileZoom, TileZoomSkipped, NextZoom, TilerZadd, TilerLatest, TilerPush,
           TilerDiscard, TilerFail, TilerCrash, SweepAbort, TypeOK, TilerTypeOK
  <2> QED  BY <2>1, <2>2, TilesKept
<1>n. ~Fault
  BY FaultCounts
<1>1. CASE TilerPop(w)
  <2>1. /\ UNCHANGED <<tiles, readCache, frames>>
        /\ tpc[w] = "idle" /\ tzoom'[w] = ZoomMin
    BY <1>1 DEF TilerPop, TypeOK, TilerTypeOK
  <2>2. tpc'[w] = "tile" => tjob'[w] \in Frame
    BY DEF TypeOK, TilerTypeOK, Tiling
  <2>3. \A z \in Zooms : ~(z < ZoomMin)
    BY ConstantsAssumption DEF Zooms
  <2>4. TilersAhead'
    BY <1>0, <2>1, <2>2, <2>3, EchoFacts DEF TilesNow, TilersAhead
  <2>5. FramesWhole'
    BY <1>0, <2>1, ZenonT(60) DEF TilesNow, FramesWhole, BeingTiled
  <2> QED  BY <1>0, <2>1, <2>4, <2>5, TilesKept DEF TilesNow
<1>2. CASE TileZoom(w)
  <2> PICK f \in Frame : f = tjob[w]
    BY <1>2 DEF TileZoom, NextZoom, TypeOK, TilerTypeOK, Tiling
  <2> PICK n, t, zs :
        /\ n = f[1] /\ t = f[2] /\ zs = Echo[f] \cap {tzoom[w]}
        /\ WriteBatch(n, t, zs)
    BY <1>2 DEF TileZoom
  <2>1. /\ UNCHANGED <<readCache, frames, tpc, tjob>> /\ tpc[w] = "tile"
        /\ tzoom[w] \in Int /\ tzoom'[w] = tzoom[w] + 1
    BY <1>2, ConstantsAssumption
       DEF TileZoom, NextZoom, WriteBatch, TypeOK, TilerTypeOK
  <2>2. \A m \in Names : \A u \in Times :
          tiles'[m][u] = IF m = n /\ u = t THEN tiles[m][u] \cup zs ELSE tiles[m][u]
    BY WriteCells
  <2>3. n \in Names /\ t \in Times /\ f = <<n, t>>
    BY NamesFacts
  <2>4. \A m \in Sources : \A u \in Times : tiles[m][u] \subseteq tiles'[m][u]
    BY <2>2, NamesFacts
  <2>5. WmsWritten' /\ UnsweptComplete'
    BY <1>0, <2>1, <2>4, TilesGrow
  <2>6. TilersAhead'
    <3> SUFFICES ASSUME NEW v \in Tilers, tpc[v] = "tile", tjob[v][1] # SweptSource,
                        NEW z \in Echo[tjob[v]], z < tzoom'[v]
                 PROVE  z \in tiles'[tjob[v][1]][tjob[v][2]]
      BY <2>1 DEF TilersAhead
    <3>1. tjob[v] \in Frame /\ tjob[v][1] \in Sources /\ tjob[v][2] \in Times /\ z \in Int
      BY NamesFacts, EchoFacts, ConstantsAssumption DEF TypeOK, TilerTypeOK, Tiling, Zooms
    <3>2. CASE z < tzoom[v]
      <4>1. z \in tiles[tjob[v][1]][tjob[v][2]]
        BY <3>2 DEF TilesNow, TilersAhead
      <4> QED  BY <2>4, <3>1, <4>1
    <3>3. CASE ~(z < tzoom[v])
      <4>1. v = w
        BY <1>0, <3>3
      <4>2. z = tzoom[w] /\ z \in Echo[f]
        BY <2>1, <3>1, <3>3, <4>1
      <4> QED  BY <2>2, <2>3, <4>1, <4>2
    <3> QED  BY <3>2, <3>3
  <2>7. FramesWhole'
    <3> SUFFICES ASSUME NEW m \in Unswept, NEW u \in Times, ~BeingTiled(m, u)'
                 PROVE  tiles'[m][u] = {} \/ tiles'[m][u] = Echo[<<m, u>>]
      BY DEF FramesWhole
    <3>1. ~BeingTiled(m, u)
      BY <2>1 DEF BeingTiled
    <3>2. ~(m = n /\ u = t) /\ m \in Names
      BY <2>1, <2>3, <3>1, NamesFacts DEF BeingTiled, Unswept
    <3> QED  BY <2>2, <3>1, <3>2 DEF TilesNow, FramesWhole
  <2> QED  BY <1>0, <2>1, <2>5, <2>6, <2>7, TilesKept DEF TilesNow
<1>3. CASE TilerZadd(w)
  <2> PICK f \in Frame : f = tjob[w]
    BY <1>3 DEF TilerZadd, TypeOK, TilerTypeOK, Tiling
  <2>1. /\ UNCHANGED <<tiles, readCache, tjob, tzoom>>
        /\ tpc[w] = "tile" /\ tpc' = [tpc EXCEPT ![w] = "latest"] /\ tzoom[w] > ZoomMax
        /\ frames' = [frames EXCEPT ![f[1]] = @ \cup {f[2]}]
    BY <1>3 DEF TilerZadd, Zadd
  <2>2. \A v \in Tilers : tpc'[v] = IF v = w THEN "latest" ELSE tpc[v]
    BY <2>1 DEF TypeOK, TilerTypeOK
  <2>3. f[1] \in Sources /\ f[2] \in Times /\ f = <<f[1], f[2]>>
    BY NamesFacts
  <2>4. f[1] # SweptSource => tiles[f[1]][f[2]] = Echo[f]
    <3>1. \A z \in Echo[f] : z < tzoom[w]
      BY <2>1, EchoFacts, ConstantsAssumption DEF Zooms, TypeOK, TilerTypeOK
    <3> QED  BY <2>1, <2>3, <3>1 DEF TilesNow, TilersAhead, WithinEcho
  <2>5. TilersAhead'
    BY <2>1, <2>2 DEF TilesNow, TilersAhead
  <2>6. FramesWhole'
    <3> SUFFICES ASSUME NEW m \in Unswept, NEW u \in Times, ~BeingTiled(m, u)'
                 PROVE  tiles[m][u] = {} \/ tiles[m][u] = Echo[<<m, u>>]
      BY <2>1 DEF FramesWhole
    <3>1. CASE f = <<m, u>>
      BY <2>3, <2>4, <3>1 DEF Unswept
    <3>2. CASE f # <<m, u>>
      <4>1. ~BeingTiled(m, u)
        BY <2>1, <2>2, <3>2 DEF BeingTiled
      <4> QED  BY <4>1 DEF TilesNow, FramesWhole
    <3> QED  BY <3>1, <3>2
  <2>7. UnsweptComplete'
    <3> SUFFICES ASSUME NEW s \in Sources \ {SweptSource}, NEW t \in frames'[s]
                 PROVE  Expired(t)' \/ tiles[s][t] = Echo[<<s, t>>]
      BY <2>1 DEF UnsweptComplete
    <3>1. t \in Times /\ (t \in frames[s] \/ <<s, t>> = f)
      BY <2>1, <2>3, NamesFacts DEF TypeOK, IndexTypeOK
    <3> QED  BY <2>4, <3>1 DEF TilesNow, UnsweptComplete, StillRecorded
  <2> QED  BY <1>0, <2>1, <2>5, <2>6, <2>7, TilesKept DEF TilesNow
<1>4. CASE SweepDelete(w)
  <2>1. /\ UNCHANGED <<frames, tjob, tzoom>>
        /\ DeleteFrame(SweptSource, tdoomed[w])
        /\ tpc[w] = "unlink" /\ tpc' = [tpc EXCEPT ![w] = "sweep"]
    BY <1>4 DEF SweepDelete
  <2>2. \A v \in Tilers : tpc'[v] = "tile" <=> tpc[v] = "tile"
    BY <2>1 DEF TypeOK, TilerTypeOK
  <2>3. \A s \in Names \ {SweptSource} : \A t \in Times : tiles'[s][t] = tiles[s][t]
    BY <2>1, DeleteCells
  <2>4. \A v \in Tilers : tpc[v] = "tile" => tjob[v] \in Frame
    BY DEF TypeOK, TilerTypeOK, Tiling
  <2>5. TilersAhead'
    BY <2>1, <2>2, <2>3, <2>4, NamesFacts DEF TilesNow, TilersAhead
  <2>6. FramesWhole'
    <3> SUFFICES ASSUME NEW m \in Unswept, NEW u \in Times, ~BeingTiled(m, u)'
                 PROVE  tiles'[m][u] = {} \/ tiles'[m][u] = Echo[<<m, u>>]
      BY DEF FramesWhole
    <3>1. ~BeingTiled(m, u)
      BY <2>1, <2>2 DEF BeingTiled
    <3>2. tiles'[m][u] = tiles[m][u]
      BY <2>3, NamesFacts DEF Unswept
    <3> QED  BY <3>1, <3>2 DEF TilesNow, FramesWhole
  <2>7. WmsWritten'
    <3>1. \A v \in WmsSources : \A t \in wtodo[v] : \A s \in {v, TypeTwin[v]} \ {SweptSource} :
            tiles'[s][t] = tiles[s][t] /\ (Expired(t) => Expired(t)')
      BY <2>3, NamesFacts DEF StillRecorded, TypeOK, WmsTypeOK
    <3> QED  BY <1>0, <3>1 DEF TilesNow, WmsWritten, IsNewest
  <2>8. UnsweptComplete'
    <3>1. \A s \in Sources \ {SweptSource} : \A t \in frames[s] :
            tiles'[s][t] = tiles[s][t] /\ (Expired(t) => Expired(t)')
      BY <2>3, NamesFacts DEF StillRecorded, TypeOK, IndexTypeOK
    <3> QED  BY <2>1, <3>1 DEF TilesNow, UnsweptComplete
  <2>9. HandlesWhole'
    <3>1. /\ DOMAIN readCache' = DOMAIN readCache
          /\ \A f \in DOMAIN readCache : f[1] # SweptSource => readCache'[f] = readCache[f]
      BY <2>1 DEF DeleteFrame
    <3> QED  BY <3>1 DEF TilesNow, HandlesWhole
  <2> QED  BY <1>0, <2>5, <2>6, <2>7, <2>8, <2>9 DEF TilesNow
<1>5. ASSUME TilerWork(w), ~TilerPop(w), ~TileZoom(w), ~TilerZadd(w), ~SweepDelete(w)
      PROVE  /\ UNCHANGED <<tiles, readCache, frames>>
             /\ \A v \in Tilers : /\ tpc'[v] = "tile" <=> tpc[v] = "tile"
                                  /\ tpc[v] = "tile" => tjob'[v] = tjob[v] /\ tzoom'[v] = tzoom[v]
  BY <1>5
     DEF TilerWork, TilerStart, SweepCheck, SweepDone, TilerLatest, TilerPush, TilerDiscard,
         TypeOK, TilerTypeOK
<1>6. CASE TilerWork(w) /\ ~TilerPop(w) /\ ~TileZoom(w) /\ ~TilerZadd(w) /\ ~SweepDelete(w)
  <2>1. TilersAhead'
    BY <1>5, <1>6 DEF TilesNow, TilersAhead
  <2>2. FramesWhole'
    BY <1>5, <1>6 DEF TilesNow, FramesWhole, BeingTiled
  <2> QED  BY <1>0, <1>5, <1>6, <2>1, <2>2, TilesKept DEF TilesNow
<1> QED
  BY <1>n, <1>1, <1>2, <1>3, <1>4, <1>6
     DEF TilerStep, TilerNext, SweepAbort, TileZoomSkipped, TilerFail, TilerCrash

LEMMA TilesWms ==
  ASSUME TypeOK, TypeOK', StillRecorded, WithinEcho, WithinEcho', RasterJobs, faults = 0,
         faults' = 0, TilesNow, NEW w \in WmsSources, WmsIngesterStep(w)
  PROVE  TilesNow'
<1> USE DEF redisVars, fileVars, storeVars, tilerVars, compVars, WmsStep
<1>0. /\ UNCHANGED <<tpc, tjob, tzoom, ccells, cpick, readCache>>
      /\ DrawnWhole' /\ HandlesWhole'
      /\ \A v \in WmsSources \ {w} : wpc'[v] = wpc[v] /\ wtodo'[v] = wtodo[v]
  <2>1. UNCHANGED <<tpc, tjob, tzoom, ccells, cpick, readCache>>
    BY DEF WmsIngesterStep, WmsNext, WmsWork, WmsList, WmsWrite, WmsWritePartial, WmsTiles,
           WmsZadd, WmsLatest, WmsZaddType, WmsLatestType, WmsMark, WmsPush, WmsPushType,
           WmsAbort
  <2>2. \A v \in WmsSources \ {w} : wpc'[v] = wpc[v] /\ wtodo'[v] = wtodo[v]
    BY DEF WmsIngesterStep, WmsNext, WmsWork, WmsList, WmsWrite, WmsWritePartial,
           WmsZadd, WmsLatest, WmsZaddType, WmsLatestType, WmsMark, WmsPush, WmsPushType,
           WmsAbort, TypeOK, WmsTypeOK
  <2> QED  BY <2>1, <2>2, TilesKept
<1>n. ~Fault
  BY FaultCounts
<1>1. \A t \in Times : Expired(t) => Expired(t)'
  BY DEF StillRecorded
<1>2. \A v \in WmsSources : wtodo[v] \subseteq Times
  BY DEF TypeOK, WmsTypeOK
<1>3. CASE WmsWrite(w)
  <2> PICK t \in wtodo[w] : WmsStep(w, t, "fetch", "zadd") /\ WmsTiles(w, t, Echo[<<w, t>>])
    BY <1>3 DEF WmsWrite
  <2>1. UNCHANGED <<frames, wtodo>> /\ t \in Times /\ IsNewest(t, wtodo[w])
    BY <1>2, <1>3 DEF WmsWrite
  <2>2. \A m \in Names : \A u \in Times :
          tiles'[m][u] = IF m \in {w, TypeTwin[w]} /\ u = t THEN tiles[m][u] \cup Echo[<<w, t>>]
                         ELSE tiles[m][u]
    BY WmsCells
  <2>3. \A m \in Sources : \A u \in Times : tiles[m][u] \subseteq tiles'[m][u]
    BY <2>2, NamesFacts
  <2>4. \A m \in {w, TypeTwin[w]} : tiles'[m][t] = Echo[<<m, t>>]
    <3> SUFFICES ASSUME NEW m \in {w, TypeTwin[w]} PROVE tiles'[m][t] = Echo[<<m, t>>]
      OBVIOUS
    <3>1. m \in Sources /\ m \in Names /\ Echo[<<m, t>>] = Echo[<<w, t>>]
      BY <2>1, EchoFacts
    <3>2. tiles[m][t] \subseteq Echo[<<m, t>>]
      BY <2>1, <3>1 DEF WithinEcho
    <3>3. tiles'[m][t] = tiles[m][t] \cup Echo[<<w, t>>]
      BY <2>1, <2>2, <3>1
    <3> QED  BY <3>1, <3>2, <3>3
  <2>5. TilersAhead' /\ UnsweptComplete'
    BY <1>0, <2>1, <2>3, TilesGrow
  <2>6. FramesWhole'
    <3> SUFFICES ASSUME NEW m \in Unswept, NEW u \in Times, ~BeingTiled(m, u)'
                 PROVE  tiles'[m][u] = {} \/ tiles'[m][u] = Echo[<<m, u>>]
      BY DEF FramesWhole
    <3>1. ~BeingTiled(m, u) /\ m \in Names
      BY <1>0, NamesFacts DEF BeingTiled, Unswept
    <3> QED  BY <2>2, <2>4, <3>1, ZenonT(60) DEF TilesNow, FramesWhole
  <2>7. WmsWritten'
    <3> SUFFICES ASSUME NEW v \in WmsSources, NEW u \in wtodo[v],
                        wpc'[v] \in {"zadd", "latest", "zaddType"}, IsNewest(u, wtodo[v]),
                        NEW s \in {v, TypeTwin[v]} \ {SweptSource}
                 PROVE  Expired(u)' \/ tiles'[s][u] = Echo[<<s, u>>]
      BY <2>1 DEF WmsWritten, IsNewest
    <3>1. CASE v = w
      <4>1. u = t
        BY <1>2, <2>1, <3>1 DEF IsNewest, Times
      <4> QED  BY <2>4, <3>1, <4>1
    <3>2. CASE v # w
      <4>1. Expired(u) \/ tiles[s][u] = Echo[<<s, u>>]
        BY <1>0, <3>2 DEF TilesNow, WmsWritten
      <4>2. u \in Times /\ s \in Sources
        BY <1>2, EchoFacts
      <4> QED  BY <1>1, <2>3, <4>1, <4>2 DEF WithinEcho
    <3> QED  BY <3>1, <3>2
  <2> QED  BY <1>0, <2>5, <2>6, <2>7 DEF TilesNow
<1>4. ASSUME UNCHANGED tiles, UnsweptComplete', UNCHANGED wtodo,
             wpc'[w] \in {"zadd", "latest", "zaddType"} => wpc[w] \in {"zadd", "latest", "zaddType"}
      PROVE  TilesNow'
  <2>1. WmsWritten'
    BY <1>0, <1>1, <1>2, <1>4 DEF TilesNow, WmsWritten, IsNewest
  <2> QED  BY <1>0, <1>4, <2>1, TilesKept DEF TilesNow
<1>5. ASSUME NEW n \in {w, TypeTwin[w]}, NEW t \in wtodo[w], IsNewest(t, wtodo[w]),
             wpc[w] \in {"zadd", "zaddType"}, Zadd(n, t), UNCHANGED tiles
      PROVE  UnsweptComplete'
  <2> SUFFICES ASSUME NEW s \in Sources \ {SweptSource}, NEW u \in frames'[s]
               PROVE  Expired(u)' \/ tiles[s][u] = Echo[<<s, u>>]
    BY <1>5 DEF UnsweptComplete
  <2>1. u \in frames[s] \/ (s = n /\ u = t)
    BY <1>5, NamesFacts DEF Zadd, TypeOK, IndexTypeOK
  <2>2. Expired(u) \/ tiles[s][u] = Echo[<<s, u>>]
    BY <1>5, <2>1 DEF TilesNow, WmsWritten, UnsweptComplete
  <2>3. u \in Times
    BY <1>2, <2>1, NamesFacts DEF TypeOK, IndexTypeOK
  <2> QED  BY <1>1, <2>2, <2>3
<1>6. CASE WmsZadd(w)
  <2>1. UNCHANGED <<tiles, wtodo>> /\ UnsweptComplete' /\ wpc[w] = "zadd"
    BY <1>5, <1>6 DEF WmsZadd
  <2> QED  BY <1>4, <2>1
<1>7. CASE WmsZaddType(w)
  <2>1. UNCHANGED <<tiles, wtodo>> /\ UnsweptComplete' /\ wpc[w] = "zaddType"
    BY <1>5, <1>7 DEF WmsZaddType
  <2> QED  BY <1>4, <2>1
<1>8. CASE WmsLatest(w) \/ WmsLatestType(w) \/ WmsMark(w) \/ WmsPush(w)
  <2>1. /\ UNCHANGED <<tiles, wtodo, frames>>
        /\ wpc'[w] \in {"zadd", "latest", "zaddType"} => wpc[w] \in {"zadd", "latest", "zaddType"}
    BY <1>8 DEF WmsLatest, WmsLatestType, WmsMark, WmsPush, TypeOK, WmsTypeOK
  <2>2. UnsweptComplete'
    BY <2>1, TilesKept
  <2> QED  BY <1>4, <2>1, <2>2
<1>9. CASE WmsList(w) \/ WmsPushType(w)
  <2>1. /\ UNCHANGED <<tiles, frames>>
        /\ wpc'[w] \in {"fetch", "idle"}
    BY <1>9 DEF WmsList, WmsPushType, TypeOK, WmsTypeOK
  <2>2. WmsWritten'
    BY <1>0, <1>1, <1>2, <2>1 DEF TilesNow, WmsWritten, IsNewest
  <2> QED  BY <1>0, <2>1, <2>2, TilesKept DEF TilesNow
<1> QED
  BY <1>n, <1>3, <1>6, <1>7, <1>8, <1>9
     DEF WmsIngesterStep, WmsNext, WmsWork, WmsWritePartial, WmsAbort

\* No tiler is at a frame that has a name, so a file that is opened or unlinked
\* by name is whole.
LEMMA NamedWhole ==
  ASSUME NamedSettled, RasterJobs, TypeOK, TilesNow, NEW s \in Unswept, NEW t \in Times,
         s \in RasterSources => Named(s, t)
  PROVE  ~BeingTiled(s, t) /\ (tiles[s][t] = {} \/ tiles[s][t] = Echo[<<s, t>>])
<1>1. ~BeingTiled(s, t)
  <2> SUFFICES ASSUME NEW w \in Tilers, tpc[w] = "tile", tjob[w] = <<s, t>> PROVE FALSE
    BY DEF BeingTiled
  <2>1. s \in RasterSources
    BY DEF RasterJobs, TypeOK, TilerTypeOK, Tiling
  <2>2. Settled(s, t)
    BY <2>1 DEF NamedSettled
  <2> QED  BY <2>2 DEF Settled, Held
<1> QED  BY <1>1 DEF TilesNow, FramesWhole

LEMMA TilesCompositor ==
  ASSUME TypeOK, TypeOK', StillRecorded, NamedSettled, RasterJobs, faults = 0, faults' = 0,
         TilesNow, CompositorStep
  PROVE  TilesNow'
<1> USE DEF redisVars, fileVars, storeVars, tilerVars, wmsVars
<1>0. /\ UNCHANGED <<tpc, tjob, tzoom, wpc, wtodo>>
      /\ \A s \in Sources : frames'[s] = frames[s]
  BY EchoFacts, ZenonT(60)
     DEF CompositorStep, CompNext, CompWork, CompPop, CompDrain, CompDrained, CompGet,
         CompGot, CompList, CompListed, CompSkip, CompWrite, CompZadd, CompLatest,
         CompPublish, CompAbort, CompCrash, Zadd, TypeOK, IndexTypeOK
<1>n. ~Fault
  BY FaultCounts
<1>1. ASSUME NEW n \in Composites, CompWrite(n) PROVE TilesNow'
  <2> PICK t, zs : WriteBatch(n, t, zs)
    BY <1>1 DEF CompWrite
  <2>1. UNCHANGED <<readCache, ccells, cpick, frames>>
    BY <1>1 DEF CompWrite, WriteBatch
  <2>2. \A m \in Names : \A u \in Times :
          tiles'[m][u] = IF m = n /\ u = t THEN tiles[m][u] \cup zs ELSE tiles[m][u]
    BY WriteCells
  <2>3. \A m \in Sources : \A u \in Times : tiles'[m][u] = tiles[m][u]
    BY <2>2, EchoFacts
  <2>4. TilersAhead'
    <3>1. \A v \in Tilers : tpc[v] = "tile" => tjob[v] \in Frame
      BY DEF TypeOK, TilerTypeOK, Tiling
    <3> QED  BY <1>0, <2>3, <3>1, NamesFacts DEF TilesNow, TilersAhead
  <2>5. FramesWhole'
    BY <1>0, <2>3 DEF TilesNow, FramesWhole, BeingTiled, Unswept
  <2>6. WmsWritten'
    <3>1. \A v \in WmsSources : \A u \in wtodo[v] : \A s \in {v, TypeTwin[v]} :
            tiles'[s][u] = tiles[s][u] /\ (Expired(u) => Expired(u)')
      BY <2>3, EchoFacts, ZenonT(60) DEF StillRecorded, TypeOK, WmsTypeOK
    <3> QED  BY <1>0, <3>1 DEF TilesNow, WmsWritten, IsNewest
  <2>7. UnsweptComplete'
    <3>1. \A s \in Sources : \A u \in frames[s] :
            tiles'[s][u] = tiles[s][u] /\ (Expired(u) => Expired(u)')
      BY <2>3, NamesFacts DEF StillRecorded, TypeOK, IndexTypeOK
    <3> QED  BY <2>1, <3>1 DEF TilesNow, UnsweptComplete
  <2> QED  BY <2>1, <2>4, <2>5, <2>6, <2>7, TilesKept DEF TilesNow
<1>2. ASSUME UNCHANGED tiles, HandlesWhole', DrawnWhole' PROVE TilesNow'
  BY <1>0, <1>2, TilesKept DEF TilesNow, Unswept
<1>3. ASSUME NEW r \in Sources, CompList(r) PROVE TilesNow'
  <2> DEFINE f == <<r, cpick[r]>>
  <2>1. /\ UNCHANGED <<tiles, cpick>> /\ cpick[r] \in Times /\ f \in Frame
        /\ ccells' = [ccells EXCEPT ![r] = Readable(f)] /\ readCache' = Opened(f)
    BY <1>3 DEF CompList, TypeOK, CompTypeOK, Frame
  <2>2. r # SweptSource => tiles[r][cpick[r]] = {} \/ tiles[r][cpick[r]] = Echo[f]
    BY <2>1, NamedWhole DEF Named, Unswept
  <2>3. HandlesWhole'
    <3> HIDE DEF f
    <3>1. \A g \in DOMAIN readCache' :
            \/ readCache'[g] = {}
            \/ g \in DOMAIN readCache /\ readCache'[g] = readCache[g]
      BY <2>1 DEF Opened
    <3> QED  BY <3>1 DEF TilesNow, HandlesWhole
  <2>4. r # SweptSource => Readable(f) = {} \/ Readable(f) = Echo[f]
    BY <2>2 DEF Readable, TilesNow, HandlesWhole
  <2>5. DrawnWhole'
    <3> SUFFICES ASSUME NEW s \in Sources \ {SweptSource}, ccells'[s] # {}
                 PROVE  ccells'[s] = Echo[<<s, cpick[s]>>]
      BY <2>1 DEF DrawnWhole
    <3>1. CASE s = r
      BY <2>1, <2>4, <3>1 DEF TypeOK, CompTypeOK
    <3>2. CASE s # r
      BY <2>1, <3>2 DEF TilesNow, DrawnWhole, TypeOK, CompTypeOK
    <3> QED  BY <3>1, <3>2
  <2> QED  BY <1>2, <2>1, <2>3, <2>5
<1>4. ASSUME CompNext, ~Fault, \A n \in Composites : ~CompWrite(n), \A s \in Sources : ~CompList(s)
      PROVE  /\ UNCHANGED <<tiles, readCache>>
             /\ \/ UNCHANGED <<ccells, cpick>>
                \/ \A s \in Sources : ccells'[s] = {}
  BY <1>4
     DEF CompNext, CompWork, CompPop, CompDrain, CompDrained, CompGet, CompGot, CompListed,
         CompSkip, CompZadd, CompLatest, CompPublish, CompReset, CompAbort, CompCrash,
         TypeOK, CompTypeOK
<1>5. CASE (\A n \in Composites : ~CompWrite(n)) /\ (\A s \in Sources : ~CompList(s))
  <2>1. /\ UNCHANGED <<tiles, readCache>>
        /\ UNCHANGED <<ccells, cpick>> \/ \A s \in Sources : ccells'[s] = {}
    BY <1>n, <1>4, <1>5 DEF CompositorStep
  <2>2. HandlesWhole' /\ DrawnWhole'
    BY <2>1, TilesKept DEF DrawnWhole
  <2> QED  BY <1>2, <2>1, <2>2
<1> QED  BY <1>1, <1>3, <1>5

LEMMA TilesCleanup ==
  ASSUME TypeOK, TypeOK', StillRecorded, PurgesExpired, NamedSettled, RasterJobs, faults = 0,
         faults' = 0, TilesNow, CleanupStep
  PROVE  TilesNow'
<1> USE DEF redisVars, fileVars, storeVars, tilerVars, wmsVars, compVars
<1>0. /\ UNCHANGED <<tpc, tjob, tzoom, wpc, wtodo, ccells, cpick>>
      /\ \A s \in Sources : frames'[s] \subseteq frames[s]
  BY EchoFacts
     DEF CleanupStep, CleanNext, CleanWork, CleanScan, CleanDelete, CleanZrem, CleanPrune,
         CleanAbort, TypeOK, IndexTypeOK
<1>1. ASSUME NEW n \in Names, CleanDelete(n) PROVE TilesNow'
  <2> PICK t \in ktodo : DeleteFrame(n, t)
    BY <1>1 DEF CleanDelete
  <2>1. t \in Times /\ Expired(t)' /\ n \in kname /\ UNCHANGED frames
    BY <1>1 DEF CleanDelete, PurgesExpired, StillRecorded, TypeOK, CleanTypeOK
  <2>2. \A m \in Names : \A u \in Times :
          tiles'[m][u] = IF m = n /\ u = t THEN {} ELSE tiles[m][u]
    BY DeleteCells
  <2>3. n \in Unswept => ~BeingTiled(n, t) /\ (tiles[n][t] = {} \/ tiles[n][t] = Echo[<<n, t>>])
    BY <2>1, NamedWhole DEF Named
  <2>4. TilersAhead'
    <3> SUFFICES ASSUME NEW v \in Tilers, tpc[v] = "tile", tjob[v][1] # SweptSource,
                        NEW z \in Echo[tjob[v]], z < tzoom[v]
                 PROVE  z \in tiles'[tjob[v][1]][tjob[v][2]]
      BY <1>0 DEF TilersAhead
    <3>1. tjob[v] = <<tjob[v][1], tjob[v][2]>> /\ tjob[v][1] \in Unswept /\ tjob[v][2] \in Times
      BY NamesFacts DEF TypeOK, TilerTypeOK, Tiling, Unswept
    <3>2. ~(tjob[v][1] = n /\ tjob[v][2] = t)
      BY <2>3, <3>1 DEF BeingTiled
    <3> QED  BY <2>2, <3>1, <3>2, NamesFacts DEF TilesNow, TilersAhead, Unswept
  <2>5. FramesWhole'
    <3>1. \A m \in Unswept : \A u \in Times : tiles'[m][u] = {} \/ tiles'[m][u] = tiles[m][u]
      BY <2>2, NamesFacts DEF Unswept
    <3> QED  BY <1>0, <3>1 DEF TilesNow, FramesWhole, BeingTiled
  <2>6. WmsWritten'
    <3>1. \A v \in WmsSources : \A u \in wtodo[v] : \A s \in {v, TypeTwin[v]} :
            Expired(u)' \/ (tiles'[s][u] = tiles[s][u] /\ ~Expired(u))
      BY <2>1, <2>2, EchoFacts, ZenonT(60) DEF StillRecorded, TypeOK, WmsTypeOK
    <3> QED  BY <1>0, <3>1 DEF TilesNow, WmsWritten, IsNewest
  <2>7. UnsweptComplete'
    <3>1. \A s \in Sources : \A u \in frames[s] :
            Expired(u)' \/ (tiles'[s][u] = tiles[s][u] /\ ~Expired(u))
      BY <2>1, <2>2, NamesFacts DEF StillRecorded, TypeOK, IndexTypeOK
    <3> QED  BY <2>1, <3>1 DEF TilesNow, UnsweptComplete
  <2>8. HandlesWhole'
    <3> SUFFICES ASSUME NEW f \in DOMAIN readCache, f[1] # SweptSource
                 PROVE  readCache'[f] = {} \/ readCache'[f] = Echo[f]
      BY DEF DeleteFrame, HandlesWhole
    <3>1. f \in Frame /\ f[1] \in Unswept
      BY NamesFacts DEF TypeOK, IndexTypeOK, FilesTypeOK, Unswept
    <3>2. readCache'[f] = IF f = <<n, t>> /\ readCache[f] = {} THEN tiles[n][t] ELSE readCache[f]
      BY DEF DeleteFrame
    <3>3. CASE f = <<n, t>>
      BY <2>3, <3>1, <3>2, <3>3 DEF TilesNow, HandlesWhole
    <3>4. CASE f # <<n, t>>
      BY <3>2, <3>4 DEF TilesNow, HandlesWhole
    <3> QED  BY <3>3, <3>4
  <2> QED  BY <1>0, <2>4, <2>5, <2>6, <2>7, <2>8, TilesKept DEF TilesNow
<1>2. CASE \A n \in Names : ~CleanDelete(n)
  <2>1. UNCHANGED <<tiles, readCache>>
    BY <1>2
       DEF CleanupStep, CleanNext, CleanWork, CleanScan, CleanZrem, CleanPrune, CleanAbort
  <2> QED  BY <1>0, <2>1, TilesKept DEF TilesNow, Unswept
<1> QED  BY <1>1, <1>2

\* A fault is never taken back.
LEMMA FaultsStay == ASSUME TypeOK, [Next]_vars, faults' = 0 PROVE faults = 0
BY FlowKept, FaultCounts
   DEF Next, vars, EnvStep, Tick, IngesterStep, IngesterNext, IngesterWork, IngestList,
       IngestNormalize, IngestMark, IngestSkip, IngestPush, IngestAbort, WmsIngesterStep,
       WmsNext, WmsWork, WmsList, WmsWrite, WmsWritePartial, WmsZadd, WmsLatest,
       WmsZaddType, WmsLatestType, WmsMark, WmsPush, WmsPushType, WmsAbort, TilerStep,
       TilerNext, TilerWork, TilerStart, SweepCheck, SweepDelete, SweepDone, TilerPop,
       TileZoom, TileZoomSkipped, NextZoom, TilerZadd, TilerLatest, TilerPush, TilerDiscard,
       TilerFail, TilerCrash, SweepAbort, TilerRest, CompositorStep, CompNext, CompWork,
       CompPop, CompDrain, CompDrained, CompGet, CompGot, CompList, CompListed, CompSkip,
       CompWrite, CompZadd, CompLatest, CompPublish, CompAbort, CompCrash, CleanupStep,
       CleanNext, CleanWork, CleanScan, CleanDelete, CleanZrem, CleanPrune, CleanAbort

WholeInv ==
  /\ TypeOK
  /\ Placement
  /\ RecordInv
  /\ NamedSettled
  /\ WithinEcho
  /\ RasterJobs
  /\ TilesInv

LEMMA WholeStep == WholeInv /\ [Next]_vars => WholeInv'
<1> SUFFICES ASSUME WholeInv, [Next]_vars PROVE WholeInv'
  OBVIOUS
<1>1. TypeOK' /\ Placement' /\ RecordInv'
  BY TypeStep, PlacementStep, RecordStep DEF WholeInv
<1>2. NamedSettled' /\ WithinEcho' /\ RasterJobs'
  BY NamedStep, WithinStep, JobsStep DEF WholeInv
<1>3. StillRecorded
  BY RecordedStable DEF WholeInv, RecordInv
<1>4. ASSUME faults' = 0 PROVE TilesNow'
  <2>1. faults = 0 /\ TilesNow
    BY <1>4, FaultsStay DEF WholeInv, TilesInv
  <2> QED
    BY <1>1, <1>2, <1>3, <1>4, <2>1, TilesIngester, TilesWms, TilesTiler, TilesCompositor,
       TilesCleanup
       DEF WholeInv, RecordInv, Next
<1> QED  BY <1>1, <1>2, <1>4 DEF WholeInv, TilesInv

LEMMA WholeInit == Init => WholeInv
BY InitType, PlacementInit, RecordInit, NamedInit, EchoInit, TilesInit DEF WholeInv

\* A recorded frame has all of its tiles, although other workers write, sweep
\* and delete files of the same store: the index entry comes after the last
\* zoom level, and cleanup deletes only what the retention has overtaken.
THEOREM UnsweptCompleteHolds == Spec => []UnsweptComplete
<1>1. WholeInv => UnsweptComplete
  BY DEF WholeInv, TilesInv, TilesNow, UnsweptComplete
<1> QED  BY <1>1, WholeInit, WholeStep, PTL DEF Spec

\* The compositor draws whole frames only: it opens a frame by its name, no
\* tiler is at a frame that has a name, and an open file survives its deletion.
THEOREM DrawnWholeHolds == Spec => []DrawnWhole
<1>1. WholeInv => DrawnWhole
  BY DEF WholeInv, TilesInv, TilesNow, DrawnWhole
<1> QED  BY <1>1, WholeInit, WholeStep, PTL DEF Spec

=============================================================================
