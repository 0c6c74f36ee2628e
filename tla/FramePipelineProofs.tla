------------------------ MODULE FramePipelineProofs ------------------------
(***************************************************************************)
(* TLAPS proofs about FramePipeline, for every value of its constants.     *)
(***************************************************************************)
EXTENDS FramePipeline, TLAPS

-----------------------------------------------------------------------------
(* Type correctness *)

\* A write, a deletion and an index update keep the shared state well typed.
LEMMA StoreOps ==
  ASSUME IndexTypeOK, NEW n \in Names, NEW t \in Times, NEW zs \in SUBSET Zooms
  PROVE  /\ WriteBatch(n, t, zs) => FilesTypeOK'
         /\ DeleteFrame(n, t) => FilesTypeOK'
         /\ Zadd(n, t) => frames' \in [Names -> SUBSET Times]
         /\ SetLatest(n, t) => latest' \in [Names -> Times \cup {0}]
<1>1. /\ tiles \in [Names -> [Times -> SUBSET Zooms]]
      /\ DOMAIN readCache \in SUBSET Frame
      /\ \A f \in DOMAIN readCache : readCache[f] \in SUBSET Zooms
  BY DEF IndexTypeOK, FilesTypeOK
<1>2. WriteBatch(n, t, zs) => FilesTypeOK'
  BY <1>1 DEF WriteBatch, FilesTypeOK
<1>3. ASSUME DeleteFrame(n, t) PROVE FilesTypeOK'
  <2>1. tiles' \in [Names -> [Times -> SUBSET Zooms]]
    BY <1>1, <1>3 DEF DeleteFrame
  <2>2. tiles[n][t] \in SUBSET Zooms
    BY <1>1
  <2>3. DOMAIN readCache' = DOMAIN readCache
    BY <1>3 DEF DeleteFrame
  <2>4. \A f \in DOMAIN readCache' : readCache'[f] \in SUBSET Zooms
    BY <1>1, <1>3, <2>2 DEF DeleteFrame
  <2> QED  BY <1>1, <2>1, <2>3, <2>4 DEF FilesTypeOK
<1>4. Zadd(n, t) => frames' \in [Names -> SUBSET Times]
  BY DEF Zadd, IndexTypeOK
<1>5. SetLatest(n, t) => latest' \in [Names -> Times \cup {0}]
  BY DEF SetLatest, IndexTypeOK
<1> QED  BY <1>2, <1>3, <1>4, <1>5

\* An operation that opens, writes and deletes no frame file.
LEMMA FilesKept ==
  ASSUME FilesTypeOK, UNCHANGED fileVars
  PROVE  FilesTypeOK'
BY DEF FilesTypeOK, fileVars

\* A deletion keeps the files well typed whatever it names: only a file that
\* exists can be open.
LEMMA DeleteType ==
  ASSUME IndexTypeOK, NEW n, NEW t, DeleteFrame(n, t)
  PROVE  FilesTypeOK'
<1>1. /\ tiles \in [Names -> [Times -> SUBSET Zooms]]
      /\ DOMAIN readCache \in SUBSET Frame
      /\ \A f \in DOMAIN readCache : readCache[f] \in SUBSET Zooms
  BY DEF IndexTypeOK, FilesTypeOK
<1>2. CASE n \in Names /\ t \in Times
  BY <1>2, StoreOps
<1>3. CASE ~(n \in Names /\ t \in Times)
  <2>1. \A f \in DOMAIN readCache : f # <<n, t>>
    BY <1>1, <1>3 DEF Frame, Names
  <2>2. readCache' = [f \in DOMAIN readCache |-> readCache[f]]
    BY <2>1 DEF DeleteFrame
  <2>3. tiles' \in [Names -> [Times -> SUBSET Zooms]]
    BY <1>1 DEF DeleteFrame
  <2> QED  BY <1>1, <2>2, <2>3 DEF FilesTypeOK
<1> QED  BY <1>2, <1>3

\* A fault stays within its budget.
LEMMA FaultType ==
  ASSUME IndexTypeOK, Fault
  PROVE  faults' \in 0..MaxFaults
BY ConstantsAssumption DEF Fault, IndexTypeOK

\* The sources and their members sit where the index has entries for them.
LEMMA NamesFacts ==
  /\ RasterSources \subseteq Sources /\ WmsSources \subseteq Sources
  /\ Sources \subseteq Names /\ Composites \subseteq Names
  /\ \A w \in WmsSources : TypeTwin[w] \in Sources
  /\ \A f \in Frame : f[1] \in Sources /\ f[2] \in Times /\ f = <<f[1], f[2]>>
                      /\ f # NoFrame
BY ConstantsAssumption DEF Names, Sources, Frame

LEMMA InitType == Init => TypeOK
BY ConstantsAssumption, NamesFacts
   DEF Init, TypeOK, IndexInit, IngestInit, WmsInit, TilerInit, CompInit, CleanInit,
       IndexTypeOK, FilesTypeOK, IngestTypeOK, WmsTypeOK, TilerTypeOK, CompTypeOK, CleanTypeOK,
       Times, Zooms, Tiling, CompStage, WmsStage, Names

LEMMA TickType == ASSUME TypeOK, Tick PROVE IndexTypeOK'
BY ConstantsAssumption DEF TypeOK, IndexTypeOK, FilesTypeOK, Tick, redisVars, fileVars, storeVars, Times

LEMMA IngesterType ==
  ASSUME TypeOK, NEW s \in RasterSources, IngesterNext(s)
  PROVE  IndexTypeOK' /\ IngestTypeOK'
<1> USE DEF TypeOK, IndexTypeOK, IngestTypeOK, envVars, redisVars, fileVars, storeVars
<1>0. s \in Sources /\ \A t \in Times : <<s, t>> \in Frame
  BY NamesFacts DEF Frame
<1>1. ASSUME IngestList(s) PROVE IndexTypeOK' /\ IngestTypeOK'
  <2>1. NewKeys(s) \subseteq Times
    BY <1>0 DEF NewKeys, NewestOf, Listing
  <2> QED  BY <1>1, <2>1, FilesKept DEF IngestList
<1>2. ASSUME IngestNormalize(s) PROVE IndexTypeOK' /\ IngestTypeOK'
  BY <1>0, <1>2, FilesKept DEF IngestNormalize
<1>3. ASSUME IngestMark(s) PROVE IndexTypeOK' /\ IngestTypeOK'
  BY <1>0, <1>3, FilesKept DEF IngestMark, MarkProcessed, AfterKey
<1>4. ASSUME IngestSkip(s) PROVE IndexTypeOK' /\ IngestTypeOK'
  BY <1>4, FaultType, FilesKept DEF IngestSkip, AfterKey
<1>5. ASSUME IngestPush(s) PROVE IndexTypeOK' /\ IngestTypeOK'
  BY <1>0, <1>5, FilesKept DEF IngestPush
<1>6. ASSUME IngestAbort(s) PROVE IndexTypeOK' /\ IngestTypeOK'
  BY <1>6, FaultType, FilesKept DEF IngestAbort
<1> QED  BY <1>1, <1>2, <1>3, <1>4, <1>5, <1>6 DEF IngesterNext, IngesterWork

LEMMA WmsIngesterType ==
  ASSUME TypeOK, NEW w \in WmsSources, WmsNext(w)
  PROVE  IndexTypeOK' /\ WmsTypeOK'
<1> USE DEF TypeOK, IndexTypeOK, WmsTypeOK, WmsStage, envVars, redisVars, fileVars, storeVars,
            WmsStep
<1>0. /\ w \in Names /\ TypeTwin[w] \in Names /\ w \in Sources
      /\ \A t \in Times : <<w, t>> \in Frame /\ <<TypeTwin[w], t>> \in Frame
      /\ \A t \in Times : Echo[<<w, t>>] \in SUBSET Zooms
  BY NamesFacts, ConstantsAssumption DEF Frame
<1>1. ASSUME WmsList(w) PROVE IndexTypeOK' /\ WmsTypeOK'
  <2>1. WmsNew(w) \subseteq Times
    BY <1>0 DEF WmsNew, NewestOf
  <2> QED  BY <1>1, <2>1, FilesKept DEF WmsList
<1>2. ASSUME NEW t \in Times, NEW zs \in SUBSET Zooms, WmsTiles(w, t, zs)
      PROVE  FilesTypeOK'
  BY <1>0, <1>2 DEF WmsTiles, FilesTypeOK
<1>3. ASSUME WmsWrite(w) PROVE IndexTypeOK' /\ WmsTypeOK'
  BY <1>0, <1>2, <1>3 DEF WmsWrite
<1>4. ASSUME WmsWritePartial(w) PROVE IndexTypeOK' /\ WmsTypeOK'
  BY <1>0, <1>2, <1>4, FaultType DEF WmsWritePartial
<1>5. ASSUME WmsZadd(w) PROVE IndexTypeOK' /\ WmsTypeOK'
  BY <1>0, <1>5, FilesKept DEF WmsZadd, Zadd
<1>6. ASSUME WmsLatest(w) PROVE IndexTypeOK' /\ WmsTypeOK'
  BY <1>0, <1>6, FilesKept DEF WmsLatest, SetLatest
<1>7. ASSUME WmsZaddType(w) PROVE IndexTypeOK' /\ WmsTypeOK'
  BY <1>0, <1>7, FilesKept DEF WmsZaddType, Zadd
<1>8. ASSUME WmsLatestType(w) PROVE IndexTypeOK' /\ WmsTypeOK'
  BY <1>0, <1>8, FilesKept DEF WmsLatestType, SetLatest
<1>9. ASSUME WmsMark(w) PROVE IndexTypeOK' /\ WmsTypeOK'
  BY <1>0, <1>9, FilesKept DEF WmsMark, MarkProcessed
<1>10. ASSUME WmsPush(w) PROVE IndexTypeOK' /\ WmsTypeOK'
  <2> PICK t \in wtodo[w] : queueComposite' = Append(queueComposite, <<w, t>>)
    BY <1>10, FilesKept DEF WmsPush
  <2>1. <<w, t>> \in Frame
    BY <1>0
  <2>2. queueComposite' \in Seq(Frame)
    BY <2>1
  <2> QED  BY <1>10, <2>2, FilesKept DEF WmsPush
<1>11. ASSUME WmsPushType(w) PROVE IndexTypeOK' /\ WmsTypeOK'
  <2> PICK t \in wtodo[w] : queueComposite' = Append(queueComposite, <<TypeTwin[w], t>>)
    BY <1>11, FilesKept DEF WmsPushType
  <2>1. <<TypeTwin[w], t>> \in Frame
    BY <1>0
  <2>2. queueComposite' \in Seq(Frame)
    BY <2>1
  <2> QED  BY <1>11, <2>2, FilesKept DEF WmsPushType
<1>12. ASSUME WmsAbort(w) PROVE IndexTypeOK' /\ WmsTypeOK'
  BY <1>12, FaultType, FilesKept DEF WmsAbort
<1> QED
  BY <1>1, <1>3, <1>4, <1>5, <1>6, <1>7, <1>8, <1>9, <1>10, <1>11, <1>12
     DEF WmsNext, WmsWork

LEMMA TilerType ==
  ASSUME TypeOK, NEW w \in Tilers, TilerNext(w)
  PROVE  IndexTypeOK' /\ TilerTypeOK'
<1> USE DEF TypeOK, IndexTypeOK, TilerTypeOK, Tiling, envVars, redisVars, fileVars, storeVars,
            TilerGoto, TilerRest
<1> USE NamesFacts
<1>1. ASSUME TilerStart(w) PROVE IndexTypeOK' /\ TilerTypeOK'
  BY <1>1, FilesKept DEF TilerStart, SweptFiles
<1>2. ASSUME SweepCheck(w) PROVE IndexTypeOK' /\ TilerTypeOK'
  <2> PICK t \in tsweep[w] :
        /\ tsweep' = [tsweep EXCEPT ![w] = @ \ {t}]
        /\ \/ UNCHANGED <<tpc, tdoomed>>
           \/ TilerGoto(w, "unlink") /\ tdoomed' = [tdoomed EXCEPT ![w] = t]
    BY <1>2 DEF SweepCheck
  <2>1. tsweep' \in [Tilers -> SUBSET Times] /\ tdoomed' \in [Tilers -> Times \cup {0}]
    OBVIOUS
  <2>2. tjob[w] = NoFrame /\ UNCHANGED <<tjob, tzoom, envVars, faults, redisVars, fileVars, storeVars>>
    BY <1>2 DEF SweepCheck
  <2>3. CASE UNCHANGED tpc
    BY <2>1, <2>2, <2>3, FilesKept
  <2>4. CASE TilerGoto(w, "unlink")
    BY <2>1, <2>2, <2>4, FilesKept
  <2> QED  BY <2>3, <2>4
<1>3. ASSUME SweepDelete(w) PROVE IndexTypeOK' /\ TilerTypeOK'
  BY <1>3, DeleteType DEF SweepDelete
<1>4. ASSUME SweepDone(w) PROVE IndexTypeOK' /\ TilerTypeOK'
  BY <1>4, FilesKept DEF SweepDone
<1>5. ASSUME TilerPop(w) PROVE IndexTypeOK' /\ TilerTypeOK'
  <2>1. /\ Head(queueNormalize) \in Frame /\ Tail(queueNormalize) \in Seq(Frame)
        /\ Head(queueNormalize) # NoFrame
    BY <1>5 DEF TilerPop
  <2>2. IndexTypeOK'
    BY <1>5, <2>1, FilesKept DEF TilerPop
  <2>3. ZoomMin \in ZoomMin..(ZoomMax + 1)
    BY ConstantsAssumption
  <2>4. TilerTypeOK'
    BY <1>5, <2>1, <2>3 DEF TilerPop
  <2> QED  BY <2>2, <2>4
<1>6. ASSUME TileZoom(w) PROVE IndexTypeOK' /\ TilerTypeOK'
  BY <1>6, ConstantsAssumption, SMTT(30) DEF TileZoom, NextZoom, WriteBatch, FilesTypeOK, Zooms
<1>7. ASSUME TileZoomSkipped(w) PROVE IndexTypeOK' /\ TilerTypeOK'
  BY <1>7, ConstantsAssumption, FaultType, FilesKept, SMTT(30) DEF TileZoomSkipped, NextZoom
<1>8. ASSUME TilerZadd(w) PROVE IndexTypeOK' /\ TilerTypeOK'
  BY <1>8, FilesKept DEF TilerZadd, Zadd
<1>9. ASSUME TilerLatest(w) PROVE IndexTypeOK' /\ TilerTypeOK'
  BY <1>9, FilesKept DEF TilerLatest, SetLatest
<1>10. ASSUME TilerPush(w) PROVE IndexTypeOK' /\ TilerTypeOK'
  BY <1>10, FilesKept DEF TilerPush
<1>11. ASSUME TilerDiscard(w) PROVE IndexTypeOK' /\ TilerTypeOK'
  BY <1>11, FilesKept DEF TilerDiscard
<1>12. ASSUME TilerFail(w) PROVE IndexTypeOK' /\ TilerTypeOK'
  BY <1>12, FaultType, StoreOps DEF TilerFail
<1>13. ASSUME TilerCrash(w) PROVE IndexTypeOK' /\ TilerTypeOK'
  BY <1>13, FaultType, FilesKept DEF TilerCrash
<1>14. ASSUME SweepAbort(w) PROVE IndexTypeOK' /\ TilerTypeOK'
  BY <1>14, FaultType, FilesKept DEF SweepAbort
<1> QED
  BY <1>1, <1>2, <1>3, <1>4, <1>5, <1>6, <1>7, <1>8, <1>9, <1>10, <1>11, <1>12, <1>13,
     <1>14
     DEF TilerNext, TilerWork

LEMMA CompositorType ==
  ASSUME TypeOK, CompNext
  PROVE  IndexTypeOK' /\ CompTypeOK'
<1> USE DEF TypeOK, IndexTypeOK, CompTypeOK, CompStage, envVars, redisVars, fileVars, storeVars
<1> USE NamesFacts
<1>1. CASE CompPop
  BY <1>1, FilesKept DEF CompPop
<1>2. CASE CompDrain
  BY <1>2, FilesKept DEF CompDrain
<1>3. CASE CompDrained
  BY <1>3, FilesKept DEF CompDrained, PoolOf
<1>4. ASSUME NEW s \in Sources, CompGet(s) PROVE IndexTypeOK' /\ CompTypeOK'
  BY <1>4, FilesKept DEF CompGet
<1>5. CASE CompGot
  BY <1>5, FilesKept DEF CompGot
<1>6. ASSUME NEW s \in Sources, CompList(s) PROVE IndexTypeOK' /\ CompTypeOK'
  <2>1. CASE s \in ctodo /\ cpc = "list"
    <3>1. cpick[s] \in Times /\ <<s, cpick[s]>> \in Frame /\ tiles[s][cpick[s]] \in SUBSET Zooms
      BY <2>1 DEF Frame, FilesTypeOK
    <3> DEFINE f == <<s, cpick[s]>>
    <3>2. Readable(f) \in SUBSET Zooms
      BY <3>1 DEF Readable, FilesTypeOK
    <3>3. /\ DOMAIN Opened(f) \in SUBSET Frame
          /\ \A g \in DOMAIN Opened(f) : Opened(f)[g] \in SUBSET Zooms
      BY <3>1 DEF Opened, FilesTypeOK
    <3>4. FilesTypeOK'
      BY <1>6, <3>3 DEF CompList, FilesTypeOK
    <3> QED  BY <1>6, <2>1, <3>2, <3>4 DEF CompList
  <2> QED  BY <1>6, <2>1 DEF CompList
<1>7. CASE CompListed
  BY <1>7, FilesKept DEF CompListed, TargetsOf
<1>8. ASSUME NEW n \in Composites, CompSkip(n) PROVE IndexTypeOK' /\ CompTypeOK'
  BY <1>8, FilesKept DEF CompSkip
<1>9. ASSUME NEW n \in Composites, CompWrite(n) PROVE IndexTypeOK' /\ CompTypeOK'
  <2>1. n \in Names /\ cmsg[2] \in Times /\ CellsFor(n) \in SUBSET Zooms
    BY <1>9, ConstantsAssumption DEF CompWrite, CellsFor
  <2>2. FilesTypeOK'
    BY <1>9, <2>1, StoreOps DEF CompWrite
  <2>3. ASSUME NEW s \in Members[n], ccells[s] # {}
        PROVE  <<s, cpick[s]>> \in Frame
    BY <2>3, ConstantsAssumption DEF Frame
  <2>4. merged' \in SUBSET Frame
    BY <1>9, <2>3 DEF CompWrite
  <2> QED  BY <1>9, <2>2, <2>4 DEF CompWrite
<1>10. ASSUME NEW n \in Composites, CompZadd(n) PROVE IndexTypeOK' /\ CompTypeOK'
  BY <1>10, FilesKept DEF CompZadd, Zadd
<1>11. ASSUME NEW n \in Composites, CompLatest(n) PROVE IndexTypeOK' /\ CompTypeOK'
  BY <1>11, FilesKept DEF CompLatest, SetLatest
<1>12. CASE CompPublish
  BY <1>12, FilesKept DEF CompPublish, CompReset
<1>13. CASE CompAbort
  BY <1>13, FaultType, FilesKept DEF CompAbort, CompReset
<1>14. CASE CompCrash
  <2>1. FilesTypeOK'
    BY <1>14 DEF CompCrash, FilesTypeOK
  <2> QED  BY <1>14, <2>1, FaultType DEF CompCrash, CompReset
<1> QED
  BY <1>1, <1>2, <1>3, <1>4, <1>5, <1>6, <1>7, <1>8, <1>9, <1>10, <1>11, <1>12, <1>13,
     <1>14
     DEF CompNext, CompWork

LEMMA CleanupType ==
  ASSUME TypeOK, CleanNext
  PROVE  IndexTypeOK' /\ CleanTypeOK'
<1> USE DEF TypeOK, IndexTypeOK, CleanTypeOK, envVars, redisVars, fileVars, storeVars
<1> USE NamesFacts
<1>1. ASSUME NEW n \in Names, CleanScan(n) PROVE IndexTypeOK' /\ CleanTypeOK'
  BY <1>1, FilesKept DEF CleanScan, Outdated
<1>2. ASSUME NEW n \in Names, CleanDelete(n) PROVE IndexTypeOK' /\ CleanTypeOK'
  BY <1>2, StoreOps DEF CleanDelete
<1>3. ASSUME NEW n \in Names, CleanZrem(n) PROVE IndexTypeOK' /\ CleanTypeOK'
  BY <1>3, FilesKept DEF CleanZrem
<1>4. ASSUME NEW n \in Names, CleanPrune(n) PROVE IndexTypeOK' /\ CleanTypeOK'
  BY <1>4, FilesKept DEF CleanPrune, Prunable
<1>5. CASE CleanAbort
  BY <1>5, FaultType, FilesKept DEF CleanAbort
<1> QED  BY <1>1, <1>2, <1>3, <1>4, <1>5 DEF CleanNext, CleanWork

LEMMA TypeStep == TypeOK /\ [Next]_vars => TypeOK'
<1> SUFFICES ASSUME TypeOK, [Next]_vars PROVE TypeOK'
  OBVIOUS
<1>1. CASE EnvStep
  BY <1>1, TickType
     DEF EnvStep, TypeOK, IngestTypeOK, WmsTypeOK, TilerTypeOK, CompTypeOK, CleanTypeOK,
         ingestVars, wmsVars, tilerVars, compVars, cleanVars
<1>2. ASSUME NEW s \in RasterSources, IngesterStep(s) PROVE TypeOK'
  BY <1>2, IngesterType
     DEF IngesterStep, TypeOK, WmsTypeOK, TilerTypeOK, CompTypeOK, CleanTypeOK,
         wmsVars, tilerVars, compVars, cleanVars
<1>3. ASSUME NEW w \in WmsSources, WmsIngesterStep(w) PROVE TypeOK'
  BY <1>3, WmsIngesterType
     DEF WmsIngesterStep, TypeOK, IngestTypeOK, TilerTypeOK, CompTypeOK, CleanTypeOK,
         ingestVars, tilerVars, compVars, cleanVars
<1>4. ASSUME NEW w \in Tilers, TilerStep(w) PROVE TypeOK'
  BY <1>4, TilerType
     DEF TilerStep, TypeOK, IngestTypeOK, WmsTypeOK, CompTypeOK, CleanTypeOK,
         ingestVars, wmsVars, compVars, cleanVars
<1>5. CASE CompositorStep
  BY <1>5, CompositorType
     DEF CompositorStep, TypeOK, IngestTypeOK, WmsTypeOK, TilerTypeOK, CleanTypeOK,
         ingestVars, wmsVars, tilerVars, cleanVars
<1>6. CASE CleanupStep
  BY <1>6, CleanupType
     DEF CleanupStep, TypeOK, IngestTypeOK, WmsTypeOK, TilerTypeOK, CompTypeOK,
         ingestVars, wmsVars, tilerVars, compVars
<1>7. CASE UNCHANGED vars
  BY <1>7
     DEF vars, FilesTypeOK, envVars, redisVars, fileVars, storeVars, ingestVars, wmsVars, tilerVars, compVars,
         cleanVars, TypeOK, IndexTypeOK, IngestTypeOK, WmsTypeOK, TilerTypeOK,
         CompTypeOK, CleanTypeOK
<1> QED  BY <1>1, <1>2, <1>3, <1>4, <1>5, <1>6, <1>7 DEF Next

\* Every reachable state is well typed: no worker ever holds a job outside the
\* stages that have one, and every index and file entry is about a frame.
THEOREM TypeCorrect == Spec => []TypeOK
<1>1. Init => TypeOK  BY InitType
<1>2. TypeOK /\ [Next]_vars => TypeOK'  BY TypeStep
<1> QED  BY <1>1, <1>2, PTL DEF Spec

-----------------------------------------------------------------------------
(* Single placement *)

\* What the argument rests on: a frame past markProcessed is in one place, and
\* processed:{source} or the listing window keeps it from being fetched again.
Placement == SinglePlacement /\ Remembered

LEMMA PlacementInit == Init => Placement
<1> SUFFICES ASSUME Init PROVE Placement
  OBVIOUS
<1>1. /\ queueNormalize = <<>> /\ DOMAIN queueNormalize = {}
      /\ \A s \in RasterSources : todo[s] = {} /\ results[s] = {}
      /\ \A w \in Tilers : tjob[w] = NoFrame
  BY DEF Init, IndexInit, IngestInit, TilerInit
<1>2. \A s \in RasterSources : \A t \in Times : ~PastMark(s, t)
  BY <1>1, NamesFacts DEF PastMark, InQueue, Popped, Frame
<1> QED  BY <1>1, <1>2 DEF Placement, SinglePlacement, Remembered

\* A step that leaves the places of the frames and their memory alone.
LEMMA PlacementKept ==
  ASSUME Placement, UNCHANGED <<todo, results, queueNormalize, tjob, processed, now>>
  PROVE  Placement'
BY DEF Placement, SinglePlacement, Remembered, PastMark, InQueue, Popped, Forgotten

\* The pruning horizon only moves forward.
LEMMA PlacementTick ==
  ASSUME TypeOK, Placement, EnvStep
  PROVE  Placement'
<1>1. /\ UNCHANGED <<todo, results, queueNormalize, tjob, processed>>
      /\ now' = now + 1
  BY DEF EnvStep, Tick, redisVars, ingestVars, tilerVars
<1>2. now \in Int /\ Retention \in Nat /\ Times \subseteq Int
  BY ConstantsAssumption DEF TypeOK, IndexTypeOK, Times
<1>3. \A t \in Times : Forgotten(t) => Forgotten(t)'
  BY <1>1, <1>2 DEF Forgotten
<1> QED
  BY <1>1, <1>3 DEF Placement, SinglePlacement, Remembered, PastMark, InQueue, Popped

\* A listing never returns a frame that is already past markProcessed.
LEMMA ListingIsFresh ==
  ASSUME TypeOK, Placement, NEW s \in RasterSources, NEW t \in NewKeys(s)
  PROVE  t \in Times /\ t \notin processed[s] /\ ~PastMark(s, t)
<1>1. /\ t \in upstream[s] /\ t > now - ListWindow
      /\ t \notin processed[s]
  BY DEF NewKeys, NewestOf, Listing
<1>2. t \in Times /\ t \in Int /\ now \in Int
  BY <1>1, NamesFacts DEF TypeOK, IndexTypeOK, Times
<1>3. ~Forgotten(t)
  BY <1>1, <1>2, ConstantsAssumption, RetentionAssumption DEF Forgotten
<1> QED  BY <1>1, <1>2, <1>3 DEF Placement, Remembered

LEMMA PlacementIngester ==
  ASSUME TypeOK, Placement, NEW s \in RasterSources, IngesterStep(s)
  PROVE  Placement'
<1> USE DEF envVars, redisVars, fileVars, storeVars, tilerVars
<1>0. UNCHANGED tjob /\ s \in Sources
  BY NamesFacts DEF IngesterStep
<1>1. CASE IngestList(s)
  <2>1. /\ UNCHANGED <<results, queueNormalize, processed, now>>
        /\ todo' = [todo EXCEPT ![s] = NewKeys(s)]
    BY <1>1 DEF IngestList
  <2>2. \A r \in RasterSources : \A t \in todo'[r] :
          ~PastMark(r, t) /\ t \notin processed[r]
    BY <2>1, ListingIsFresh
       DEF Placement, SinglePlacement, Remembered, TypeOK, IngestTypeOK
  <2> QED
    BY <1>0, <2>1, <2>2
       DEF Placement, SinglePlacement, Remembered, PastMark, InQueue, Popped, Forgotten
<1>2. CASE IngestNormalize(s)
  BY <1>0, <1>2, PlacementKept DEF IngestNormalize
<1>3. CASE IngestMark(s)
  <2> PICK t \in todo[s] :
        /\ todo' = [todo EXCEPT ![s] = @ \ {t}]
        /\ results' = [results EXCEPT ![s] = @ \cup {t}]
        /\ processed' = [processed EXCEPT ![s] = @ \cup {t}]
    BY <1>3 DEF IngestMark, MarkProcessed
  <2>1. UNCHANGED <<queueNormalize, tjob, now>>
    BY <1>0, <1>3 DEF IngestMark
  <2>2. ~PastMark(s, t)
    BY DEF Placement, SinglePlacement
  <2>3. \A r \in RasterSources : \A u \in Times :
          PastMark(r, u)' <=> PastMark(r, u) \/ (r = s /\ u = t)
    BY <1>0, <2>1 DEF PastMark, InQueue, Popped, TypeOK, IngestTypeOK
  <2>4. \A r \in RasterSources : \A u \in todo'[r] :
          u \in todo[r] /\ ~(r = s /\ u = t) /\ u \in Times
    BY DEF TypeOK, IngestTypeOK
  <2>5. \A r \in RasterSources : processed'[r] = processed[r] \cup (IF r = s THEN {t} ELSE {})
    BY <1>0, NamesFacts DEF TypeOK, IndexTypeOK
  <2>6. Remembered'
    BY <2>1, <2>3, <2>4, <2>5 DEF Placement, Remembered, Forgotten
  <2>7. SinglePlacement'
    <3>1. \A r \in RasterSources : \A u \in todo'[r] : ~PastMark(r, u)'
      BY <2>3, <2>4 DEF Placement, SinglePlacement
    <3>2. \A r \in RasterSources : \A u \in results'[r] :
            ~InQueue(<<r, u>>, queueNormalize) /\ ~Popped(<<r, u>>)
      BY <2>2 DEF Placement, SinglePlacement, PastMark, TypeOK, IngestTypeOK
    <3> QED  BY <2>1, <3>1, <3>2 DEF Placement, SinglePlacement, InQueue, Popped
  <2> QED  BY <2>6, <2>7 DEF Placement
<1>4. CASE IngestSkip(s)
  <2>1. /\ UNCHANGED <<results, queueNormalize, tjob, processed, now>>
        /\ \A r \in RasterSources : todo'[r] \subseteq todo[r]
    BY <1>0, <1>4 DEF IngestSkip, TypeOK, IngestTypeOK
  <2> QED
    BY <2>1
       DEF Placement, SinglePlacement, Remembered, PastMark, InQueue, Popped, Forgotten
<1>5. CASE IngestPush(s)
  <2> PICK t \in results[s] :
        /\ queueNormalize' = Append(queueNormalize, <<s, t>>)
        /\ results' = [results EXCEPT ![s] = @ \ {t}]
    BY <1>5 DEF IngestPush
  <2>1. UNCHANGED <<todo, tjob, processed, now>>
    BY <1>0, <1>5 DEF IngestPush
  <2>2. /\ ~InQueue(<<s, t>>, queueNormalize) /\ ~Popped(<<s, t>>)
        /\ t \in Times /\ <<s, t>> \in Frame
    BY <1>0 DEF Placement, SinglePlacement, TypeOK, IngestTypeOK, Frame
  <2>3. /\ DOMAIN queueNormalize' = DOMAIN queueNormalize \cup {Len(queueNormalize) + 1}
        /\ DOMAIN queueNormalize = 1..Len(queueNormalize) /\ Len(queueNormalize) \in Nat
        /\ \A i \in DOMAIN queueNormalize : queueNormalize'[i] = queueNormalize[i]
        /\ queueNormalize'[Len(queueNormalize) + 1] = <<s, t>>
    BY <2>2 DEF TypeOK, IndexTypeOK
  <2>4. \A f : InQueue(f, queueNormalize)' <=> InQueue(f, queueNormalize) \/ f = <<s, t>>
    BY <2>3 DEF InQueue
  <2>5. \A r \in RasterSources : \A u \in Times : PastMark(r, u)' <=> PastMark(r, u)
    BY <2>1, <2>4 DEF PastMark, Popped, TypeOK, IngestTypeOK
  <2>6. Remembered'
    BY <2>1, <2>5 DEF Placement, Remembered, Forgotten
  <2>7. SinglePlacement'
    <3>1. \A r \in RasterSources : \A u \in todo'[r] : ~PastMark(r, u)'
      BY <2>1, <2>5 DEF Placement, SinglePlacement, TypeOK, IngestTypeOK
    <3>2. \A r \in RasterSources : \A u \in results'[r] :
            ~InQueue(<<r, u>>, queueNormalize)' /\ ~Popped(<<r, u>>)'
      BY <2>1, <2>4, ZenonT(60) DEF Placement, SinglePlacement, Popped, TypeOK, IngestTypeOK
    <3>3. \A i, j \in DOMAIN queueNormalize' :
            queueNormalize'[i] = queueNormalize'[j] => i = j
      BY <2>2, <2>3 DEF Placement, SinglePlacement, InQueue
    <3>4. (\A i \in DOMAIN queueNormalize : ~Popped(queueNormalize[i]))'
      BY <2>1, <2>2, <2>3 DEF Placement, SinglePlacement, Popped
    <3> QED  BY <2>1, <3>1, <3>2, <3>3, <3>4 DEF Placement, SinglePlacement, Popped
  <2> QED  BY <2>6, <2>7 DEF Placement
<1>6. CASE IngestAbort(s)
  <2>1. /\ UNCHANGED <<queueNormalize, tjob, processed, now>>
        /\ \A r \in RasterSources : todo'[r] \subseteq todo[r] /\ results'[r] \subseteq results[r]
    BY <1>0, <1>6 DEF IngestAbort, TypeOK, IngestTypeOK
  <2> QED
    BY <2>1
       DEF Placement, SinglePlacement, Remembered, PastMark, InQueue, Popped, Forgotten
<1> QED
  BY <1>1, <1>2, <1>3, <1>4, <1>5, <1>6 DEF IngesterStep, IngesterNext, IngesterWork

\* A tiler gives up its job, or takes the head of the queue; nothing else
\* it does moves a frame that has not been recorded.
LEMMA PlacementTiler ==
  ASSUME TypeOK, Placement, NEW w \in Tilers, TilerStep(w)
  PROVE  Placement'
<1> USE DEF envVars, redisVars, fileVars, storeVars, ingestVars, TilerRest
<1>0. UNCHANGED <<todo, results, processed, now>>
  BY DEF TilerStep, TilerNext, TilerWork, TilerStart, SweepCheck, SweepDelete, SweepDone,
         TilerPop, TileZoom, TileZoomSkipped, NextZoom, TilerZadd, TilerLatest, TilerPush,
         TilerDiscard, TilerFail, TilerCrash, SweepAbort
<1>1. CASE TilerPop(w)
  <2> DEFINE f == queueNormalize[1]
  <2>1. /\ tjob' = [tjob EXCEPT ![w] = f]
        /\ tjob[w] = NoFrame
        /\ queueNormalize # <<>> /\ queueNormalize' = Tail(queueNormalize)
    <3>1. queueNormalize # <<>> /\ queueNormalize' = Tail(queueNormalize)
      BY <1>1 DEF TilerPop
    <3>2. Head(queueNormalize) = f
      BY <3>1 DEF TypeOK, IndexTypeOK
    <3>3. tjob[w] = NoFrame
      BY <1>1 DEF TilerPop, TypeOK, TilerTypeOK, Tiling
    <3> QED  BY <1>1, <3>1, <3>2, <3>3 DEF TilerPop
  <2>2. /\ Len(queueNormalize) \in Nat \ {0}
        /\ DOMAIN queueNormalize = 1..Len(queueNormalize)
        /\ DOMAIN queueNormalize' = 1..(Len(queueNormalize) - 1)
        /\ \A i \in DOMAIN queueNormalize' : queueNormalize'[i] = queueNormalize[i + 1]
        /\ f \in Frame
    BY <2>1 DEF TypeOK, IndexTypeOK
  <2>3. \A i \in DOMAIN queueNormalize' :
          /\ i + 1 \in DOMAIN queueNormalize /\ i + 1 # 1
          /\ queueNormalize'[i] = queueNormalize[i + 1]
          /\ queueNormalize'[i] # f
    BY <2>2 DEF Placement, SinglePlacement
  <2>4. \A v \in Tilers : tjob'[v] = IF v = w THEN f ELSE tjob[v]
    BY <2>1 DEF TypeOK, TilerTypeOK
  <2>5. \A v \in Tilers : tjob[v] # f
    BY <2>2 DEF Placement, SinglePlacement, Popped
  <2>6. \A g : InQueue(g, queueNormalize)' => InQueue(g, queueNormalize)
    BY <2>3 DEF InQueue
  <2>7. InQueue(f, queueNormalize)
    BY <2>2 DEF InQueue
  <2>8. \A r \in RasterSources : \A u \in Times : PastMark(r, u)' => PastMark(r, u)
    BY <1>0, <2>4, <2>6, <2>7 DEF PastMark, Popped
  <2>9. Remembered'
    BY <1>0, <2>8 DEF Placement, Remembered, Forgotten
  <2>10. SinglePlacement'
    <3>1. \A r \in RasterSources : \A u \in todo'[r] : ~PastMark(r, u)'
      BY <1>0, <2>8 DEF Placement, SinglePlacement, TypeOK, IngestTypeOK
    <3>2. \A r \in RasterSources : \A u \in results'[r] :
            ~InQueue(<<r, u>>, queueNormalize)' /\ ~Popped(<<r, u>>)'
      <4> SUFFICES ASSUME NEW r \in RasterSources, NEW u \in results[r]
                   PROVE  ~InQueue(<<r, u>>, queueNormalize)' /\ ~Popped(<<r, u>>)'
        BY <1>0
      <4>1. ~InQueue(<<r, u>>, queueNormalize) /\ \A v \in Tilers : tjob[v] # <<r, u>>
        BY DEF Placement, SinglePlacement, Popped
      <4>2. f # <<r, u>>
        BY <2>7, <4>1
      <4>3. \A v \in Tilers : tjob'[v] # <<r, u>>
        BY <2>4, <4>1, <4>2
      <4> QED  BY <2>6, <4>1, <4>3 DEF Popped
    <3>3. \A i, j \in DOMAIN queueNormalize' :
            queueNormalize'[i] = queueNormalize'[j] => i = j
      <4> SUFFICES ASSUME NEW i \in DOMAIN queueNormalize', NEW j \in DOMAIN queueNormalize',
                          queueNormalize'[i] = queueNormalize'[j]
                   PROVE  i = j
        OBVIOUS
      <4>1. i + 1 = j + 1
        BY <2>3 DEF Placement, SinglePlacement
      <4> QED  BY <2>2, <4>1
    <3>4. \A i \in DOMAIN queueNormalize' : \A v \in Tilers : tjob'[v] # queueNormalize'[i]
      <4> SUFFICES ASSUME NEW i \in DOMAIN queueNormalize', NEW v \in Tilers
                   PROVE  tjob'[v] # queueNormalize'[i]
        OBVIOUS
      <4>1. CASE v = w
        BY <2>3, <2>4, <4>1
      <4>2. CASE v # w
        <5>1. tjob[v] # queueNormalize[i + 1]
          BY <2>3 DEF Placement, SinglePlacement, Popped
        <5> QED  BY <2>3, <2>4, <4>2, <5>1
      <4> QED  BY <4>1, <4>2
    <3>5. \A u, v \in Tilers : tjob'[u] = tjob'[v] /\ tjob'[u] # NoFrame => u = v
      BY <2>4, <2>5 DEF Placement, SinglePlacement
    <3> QED  BY <3>1, <3>2, <3>3, <3>4, <3>5 DEF SinglePlacement, Popped
  <2> QED  BY <2>9, <2>10 DEF Placement
<1>2. ASSUME UNCHANGED queueNormalize,
             tjob' = tjob \/ tjob' = [tjob EXCEPT ![w] = NoFrame]
      PROVE  Placement'
  <2>1. \A v \in Tilers : tjob'[v] = tjob[v] \/ tjob'[v] = NoFrame
    BY <1>2 DEF TypeOK, TilerTypeOK
  <2>2. \A f \in Frame : Popped(f)' => Popped(f)
    BY <2>1, NamesFacts DEF Popped
  <2>3. /\ \A r \in RasterSources : \A u \in Times : <<r, u>> \in Frame
        /\ \A i \in DOMAIN queueNormalize : queueNormalize[i] \in Frame
    BY NamesFacts DEF Frame, TypeOK, IndexTypeOK
  <2>4. \A r \in RasterSources : \A u \in Times : PastMark(r, u)' => PastMark(r, u)
    BY <1>0, <1>2, <2>2, <2>3 DEF PastMark, InQueue
  <2>5. Remembered'
    BY <1>0, <2>4 DEF Placement, Remembered, Forgotten
  <2>6. SinglePlacement'
    <3>1. \A r \in RasterSources : \A u \in todo'[r] : ~PastMark(r, u)'
      BY <1>0, <2>4 DEF Placement, SinglePlacement, TypeOK, IngestTypeOK
    <3>2. \A r \in RasterSources : \A u \in results'[r] :
            ~InQueue(<<r, u>>, queueNormalize)' /\ ~Popped(<<r, u>>)'
      BY <1>0, <1>2, <2>2, <2>3
         DEF Placement, SinglePlacement, InQueue, TypeOK, IngestTypeOK
    <3>3. (\A i \in DOMAIN queueNormalize : ~Popped(queueNormalize[i]))'
      BY <1>2, <2>2, <2>3 DEF Placement, SinglePlacement
    <3>4. \A u, v \in Tilers : tjob'[u] = tjob'[v] /\ tjob'[u] # NoFrame => u = v
      BY <2>1 DEF Placement, SinglePlacement
    <3> QED  BY <1>2, <3>1, <3>2, <3>3, <3>4 DEF Placement, SinglePlacement
  <2> QED  BY <2>5, <2>6 DEF Placement
<1>3. TilerNext(w) /\ ~TilerPop(w) =>
        /\ UNCHANGED queueNormalize
        /\ tjob' = tjob \/ tjob' = [tjob EXCEPT ![w] = NoFrame]
  BY DEF TilerNext, TilerWork, TilerStart, SweepCheck, SweepDelete, SweepDone,
         TileZoom, TileZoomSkipped, NextZoom, TilerZadd, TilerLatest, TilerPush,
         TilerDiscard, TilerFail, TilerCrash, SweepAbort
<1> QED  BY <1>1, <1>2, <1>3 DEF TilerStep

\* The EC ingester marks timestamps of its own sources only.
LEMMA PlacementWms ==
  ASSUME TypeOK, Placement, NEW w \in WmsSources, WmsIngesterStep(w)
  PROVE  Placement'
<1> USE DEF envVars, redisVars, fileVars, storeVars, ingestVars, tilerVars, WmsStep
<1>1. /\ UNCHANGED <<todo, results, queueNormalize, tjob, now>>
      /\ UNCHANGED processed \/ \E t : processed' = [processed EXCEPT ![w] = @ \cup {t}]
  BY DEF WmsIngesterStep, WmsNext, WmsWork, WmsList, WmsWrite, WmsWritePartial, WmsZadd,
         WmsLatest, WmsZaddType, WmsLatestType, WmsMark, MarkProcessed, WmsPush,
         WmsPushType, WmsAbort
<1>2. \A s \in RasterSources : processed'[s] = processed[s]
  BY <1>1, ConstantsAssumption, NamesFacts DEF TypeOK, IndexTypeOK
<1> QED
  BY <1>1, <1>2
     DEF Placement, SinglePlacement, Remembered, PastMark, InQueue, Popped, Forgotten

\* Pruning forgets only timestamps that no listing returns any more.
LEMMA PlacementCleanup ==
  ASSUME TypeOK, Placement, CleanupStep
  PROVE  Placement'
<1> USE DEF envVars, redisVars, fileVars, storeVars, ingestVars, tilerVars
<1>1. UNCHANGED <<todo, results, queueNormalize, tjob, now>>
  BY DEF CleanupStep, CleanNext, CleanWork, CleanScan, CleanDelete, CleanZrem, CleanPrune,
         CleanAbort
<1>2. \A s \in RasterSources :
        /\ processed'[s] \subseteq processed[s]
        /\ \A t \in processed[s] \ processed'[s] : s \in DatedSources /\ Forgotten(t)
  <2>1. \/ UNCHANGED processed
        \/ \E n \in DatedSources : processed' = [processed EXCEPT ![n] = @ \ Prunable(n)]
    BY DEF CleanupStep, CleanNext, CleanWork, CleanScan, CleanDelete, CleanZrem,
           CleanPrune, CleanAbort
  <2> QED  BY <2>1, NamesFacts DEF Prunable, TypeOK, IndexTypeOK
<1> QED
  BY <1>1, <1>2
     DEF Placement, SinglePlacement, Remembered, PastMark, InQueue, Popped, Forgotten

LEMMA PlacementStep == TypeOK /\ Placement /\ [Next]_vars => Placement'
<1> SUFFICES ASSUME TypeOK, Placement, [Next]_vars PROVE Placement'
  OBVIOUS
<1>1. CASE EnvStep
  BY <1>1, PlacementTick
<1>2. ASSUME NEW s \in RasterSources, IngesterStep(s) PROVE Placement'
  BY <1>2, PlacementIngester
<1>3. ASSUME NEW w \in WmsSources, WmsIngesterStep(w) PROVE Placement'
  BY <1>3, PlacementWms
<1>4. ASSUME NEW w \in Tilers, TilerStep(w) PROVE Placement'
  BY <1>4, PlacementTiler
<1>5. CASE CompositorStep
  <2>1. UNCHANGED <<todo, results, queueNormalize, tjob, processed, now>>
    BY <1>5
       DEF CompositorStep, ingestVars, tilerVars, envVars, redisVars, CompNext, CompWork,
           CompPop, CompDrain, CompDrained, CompGet, CompGot, CompList, CompListed,
           CompSkip, CompWrite, CompZadd, CompLatest, CompPublish, CompAbort, CompCrash
  <2> QED  BY <2>1, PlacementKept
<1>6. CASE CleanupStep
  BY <1>6, PlacementCleanup
<1>7. CASE UNCHANGED vars
  BY <1>7, PlacementKept DEF vars, envVars, redisVars, ingestVars, tilerVars
<1> QED  BY <1>1, <1>2, <1>3, <1>4, <1>5, <1>6, <1>7 DEF Next

\* Whatever crashes and however the workers interleave, no frame is queued
\* twice or tiled by two workers at once, as long as the processed set
\* remembers a key for as long as the feed lists it (RetentionAssumption).
THEOREM SinglePlacementHolds == Spec => []SinglePlacement
<1>1. Init => TypeOK /\ Placement  BY InitType, PlacementInit
<1>2. TypeOK /\ Placement /\ [Next]_vars => TypeOK' /\ Placement'
  BY TypeStep, PlacementStep
<1>3. Placement => SinglePlacement  BY DEF Placement
<1> QED  BY <1>1, <1>2, <1>3, PTL DEF Spec

\* A frame past markProcessed is remembered by processed:{source}, or is too
\* old for any listing to return it: pruning never forgets too early.
THEOREM RememberedHolds == Spec => []Remembered
<1>1. Init => TypeOK /\ Placement  BY InitType, PlacementInit
<1>2. TypeOK /\ Placement /\ [Next]_vars => TypeOK' /\ Placement'
  BY TypeStep, PlacementStep
<1>3. Placement => Remembered  BY DEF Placement
<1> QED  BY <1>1, <1>2, <1>3, PTL DEF Spec

=============================================================================
