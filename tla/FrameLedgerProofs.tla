------------------------- MODULE FrameLedgerProofs -------------------------
(***************************************************************************)
(* TLAPS proof that FramePipeline implements FrameLedger: every frame of a *)
(* raster feed is taken up and filed at most once, and lost only by a      *)
(* crash or a failed call.                                                 *)
(***************************************************************************)
EXTENDS FrameRecordProofs

-----------------------------------------------------------------------------
(* What a worker still has to do with a frame, and what is done *)

\* Between markProcessed and the index: collected, queued, or being tiled.
Held(s, t) ==
  \/ t \in results[s]
  \/ InQueue(<<s, t>>, queueNormalize)
  \/ \E w \in Tilers : tpc[w] = "tile" /\ tjob[w] = <<s, t>>

\* No listing will hand the frame out again.
Done(s, t) == t \in processed[s] \/ (s \in DatedSources /\ Forgotten(t))

Settled(s, t) == Done(s, t) /\ ~Held(s, t) /\ t \notin todo[s]

\* A frame that somebody may read by name: a viewer or the compositor through
\* the index or the pointer, the compositor's pick and its open files, and the
\* cleanup worker's list.
Named(s, t) ==
  \/ t \in frames[s]
  \/ latest[s] = t
  \/ cpick[s] = t
  \/ <<s, t>> \in DOMAIN readCache
  \/ s \in kname /\ t \in ktodo

\* No frame is ever tiled again once it has a name.
NamedSettled ==
  \A s \in RasterSources : \A t \in Times : Named(s, t) => Settled(s, t)

\* What any step may do to a frame of a raster feed: only a frame being tiled is
\* filed, only one a poll has listed becomes held, and what is done stays done.
StepFlow ==
  \A s \in RasterSources : \A t \in Times :
    /\ t \in frames'[s] => t \in frames[s] \/ Held(s, t)
    /\ Held(s, t)' => Held(s, t) \/ t \in todo[s]
    /\ Done(s, t) => Done(s, t)'
    /\ Done(s, t) /\ t \notin todo[s] => t \notin todo'[s]

\* A step without a fault drops no frame on the way and files one at most.
WorkFlow ==
  /\ faults' = faults
  /\ \A s \in RasterSources : \A t \in Times :
       Held(s, t) => Held(s, t)' \/ t \in frames'[s]
  /\ \A r, s \in RasterSources : \A t, u \in Times :
       /\ t \in frames'[r] /\ t \notin frames[r]
       /\ u \in frames'[s] /\ u \notin frames[s]
       => r = s /\ t = u

\* A fault files nothing and takes nothing up.
FaultFlow ==
  /\ faults' = faults + 1
  /\ \A s \in RasterSources : \A t \in Times :
       /\ frames'[s] = frames[s]
       /\ Held(s, t)' => Held(s, t)

Flow == StepFlow /\ (WorkFlow \/ FaultFlow)

LEMMA FlowKept ==
  ASSUME TypeOK, faults' = faults \/ Fault,
         UNCHANGED <<todo, results, queueNormalize, tpc, tjob, now>>,
         \A s \in RasterSources : frames'[s] = frames[s] /\ processed'[s] = processed[s]
  PROVE  Flow
BY DEF Flow, StepFlow, WorkFlow, FaultFlow, Held, Done, InQueue, Forgotten, Fault

LEMMA FlowTick == ASSUME TypeOK, EnvStep PROVE Flow
<1>1. /\ UNCHANGED <<todo, results, queueNormalize, tpc, tjob, processed, frames, faults>>
      /\ now' = now + 1
  BY DEF EnvStep, Tick, redisVars, ingestVars, tilerVars
<1>2. now \in Int /\ Retention \in Nat /\ Times \subseteq Int
  BY ConstantsAssumption DEF TypeOK, IndexTypeOK, Times
<1>3. \A t \in Times : Forgotten(t) => Forgotten(t)'
  BY <1>1, <1>2 DEF Forgotten
<1> QED  BY <1>1, <1>3 DEF Flow, StepFlow, WorkFlow, Held, Done, InQueue

LEMMA FlowIngester ==
  ASSUME TypeOK, Placement, NEW s \in RasterSources, IngesterStep(s)
  PROVE  Flow
<1> USE DEF envVars, redisVars, fileVars, storeVars, tilerVars
<1>0. UNCHANGED <<tpc, tjob>> /\ s \in Sources
  BY NamesFacts DEF IngesterStep
<1>1. CASE IngestList(s)
  <2>1. /\ UNCHANGED <<results, queueNormalize, processed, frames, now, faults>>
        /\ todo' = [todo EXCEPT ![s] = NewKeys(s)]
    BY <1>1 DEF IngestList
  <2>2. \A t \in NewKeys(s) : t \in Times => ~Done(s, t)
    <3> SUFFICES ASSUME NEW t \in NewKeys(s), t \in Times PROVE ~Done(s, t)
      OBVIOUS
    <3>1. t > now - ListWindow /\ t \notin processed[s]
      BY DEF NewKeys, NewestOf, Listing
    <3> QED
      BY <3>1, ConstantsAssumption, RetentionAssumption
         DEF Done, Forgotten, Times, TypeOK, IndexTypeOK
  <2>3. \A r \in RasterSources : todo'[r] = IF r = s THEN NewKeys(s) ELSE todo[r]
    BY <2>1 DEF TypeOK, IngestTypeOK
  <2> QED
    BY <1>0, <2>1, <2>2, <2>3 DEF Flow, StepFlow, WorkFlow, Held, Done, InQueue, Forgotten
<1>2. CASE IngestNormalize(s)
  BY <1>0, <1>2, FlowKept DEF IngestNormalize
<1>3. CASE IngestMark(s)
  <2> PICK t \in todo[s] :
        /\ processed' = [processed EXCEPT ![s] = @ \cup {t}]
        /\ todo' = [todo EXCEPT ![s] = @ \ {t}]
        /\ results' = [results EXCEPT ![s] = @ \cup {t}]
    BY <1>3 DEF IngestMark, MarkProcessed
  <2>1. UNCHANGED <<queueNormalize, frames, now, faults>>
    BY <1>3 DEF IngestMark
  <2>2. \A r \in RasterSources :
          /\ todo'[r] = IF r = s THEN todo[r] \ {t} ELSE todo[r]
          /\ results'[r] = IF r = s THEN results[r] \cup {t} ELSE results[r]
          /\ processed[r] \subseteq processed'[r]
    BY <1>0, NamesFacts DEF TypeOK, IngestTypeOK, IndexTypeOK
  <2> QED
    BY <1>0, <2>1, <2>2 DEF Flow, StepFlow, WorkFlow, Held, Done, InQueue, Forgotten
<1>4. CASE IngestSkip(s) \/ IngestAbort(s)
  <2>1. /\ UNCHANGED <<queueNormalize, processed, frames, now>> /\ Fault
        /\ \A r \in RasterSources : todo'[r] \subseteq todo[r] /\ results'[r] \subseteq results[r]
    BY <1>4 DEF IngestSkip, IngestAbort, TypeOK, IngestTypeOK
  <2> QED
    BY <1>0, <2>1 DEF Flow, StepFlow, FaultFlow, Held, Done, InQueue, Forgotten, Fault
<1>5. CASE IngestPush(s)
  <2> PICK t \in results[s] :
        /\ queueNormalize' = Append(queueNormalize, <<s, t>>)
        /\ results' = [results EXCEPT ![s] = @ \ {t}]
    BY <1>5 DEF IngestPush
  <2>1. UNCHANGED <<todo, processed, frames, now, faults>> /\ <<s, t>> \in Frame
    BY <1>0, <1>5 DEF IngestPush, TypeOK, IngestTypeOK, Frame
  <2>2. \A f : InQueue(f, queueNormalize)' <=> InQueue(f, queueNormalize) \/ f = <<s, t>>
    BY <2>1, QueueAppend DEF TypeOK, IndexTypeOK
  <2>3. \A r \in RasterSources : results'[r] = IF r = s THEN results[r] \ {t} ELSE results[r]
    BY DEF TypeOK, IngestTypeOK
  <2>4. \A r \in RasterSources : \A u \in Times : Held(r, u)' <=> Held(r, u)
    BY <1>0, <2>1, <2>2, <2>3 DEF Held
  <2> QED
    BY <2>1, <2>4 DEF Flow, StepFlow, WorkFlow, Done, Forgotten
<1> QED
  BY <1>1, <1>2, <1>3, <1>4, <1>5 DEF IngesterStep, IngesterNext, IngesterWork

LEMMA FlowTiler ==
  ASSUME TypeOK, NEW w \in Tilers, TilerStep(w)
  PROVE  Flow
<1> USE DEF envVars, redisVars, fileVars, storeVars, ingestVars, TilerRest, TilerGoto
<1>0. UNCHANGED <<todo, results, processed, now>>
  BY DEF TilerStep, TilerNext, TilerWork, TilerStart, SweepCheck, SweepDelete, SweepDone,
         TilerPop, TileZoom, TileZoomSkipped, NextZoom, TilerZadd, TilerLatest, TilerPush,
         TilerDiscard, TilerFail, TilerCrash, SweepAbort
<1>n. \A r \in RasterSources : \A u \in Times :
        <<r, u>> \in Frame /\ <<r, u>> # NoFrame /\ r \in Names
  BY NamesFacts DEF Frame
<1>1. CASE TilerPop(w)
  <2>1. /\ UNCHANGED <<frames, faults>>
        /\ tpc[w] = "idle" /\ tpc' = [tpc EXCEPT ![w] = "tile"]
        /\ tjob' = [tjob EXCEPT ![w] = Head(queueNormalize)]
        /\ queueNormalize # <<>> /\ queueNormalize' = Tail(queueNormalize)
    BY <1>1 DEF TilerPop
  <2>2. \A f : InQueue(f, queueNormalize) <=>
               InQueue(f, queueNormalize)' \/ f = Head(queueNormalize)
    BY <2>1, QueueTail DEF TypeOK, IndexTypeOK
  <2>3. \A v \in Tilers :
          /\ tjob'[v] = IF v = w THEN Head(queueNormalize) ELSE tjob[v]
          /\ tpc'[v] = IF v = w THEN "tile" ELSE tpc[v]
    BY <2>1 DEF TypeOK, TilerTypeOK
  <2>4. \A r \in RasterSources : \A u \in Times : Held(r, u)' <=> Held(r, u)
    BY <1>0, <2>1, <2>2, <2>3 DEF Held
  <2> QED
    BY <1>0, <2>1, <2>4 DEF Flow, StepFlow, WorkFlow, Done, Forgotten
<1>2. CASE TilerZadd(w)
  <2> PICK f \in Frame : f = tjob[w]
    BY <1>2 DEF TilerZadd, TypeOK, TilerTypeOK, Tiling
  <2>1. /\ UNCHANGED <<queueNormalize, tjob, faults>>
        /\ tpc[w] = "tile" /\ tpc' = [tpc EXCEPT ![w] = "latest"]
        /\ frames' = [frames EXCEPT ![f[1]] = @ \cup {f[2]}]
    BY <1>2 DEF TilerZadd, Zadd
  <2>2. \A r, u : <<r, u>> = f <=> r = f[1] /\ u = f[2]
    BY NamesFacts
  <2>3. \A v \in Tilers : tpc'[v] = IF v = w THEN "latest" ELSE tpc[v]
    BY <2>1 DEF TypeOK, TilerTypeOK
  <2>4. \A r \in RasterSources : \A u \in Times :
          u \in frames'[r] <=> u \in frames[r] \/ <<r, u>> = f
    BY <1>n, <2>1, <2>2 DEF TypeOK, IndexTypeOK
  <2>5. \A r \in RasterSources : \A u \in Times :
          /\ Held(r, u)' => Held(r, u)
          /\ Held(r, u) => Held(r, u)' \/ <<r, u>> = f
          /\ <<r, u>> = f => Held(r, u)
    BY <1>0, <2>1, <2>3 DEF Held, InQueue
  <2> QED
    BY <1>0, <2>1, <2>4, <2>5 DEF Flow, StepFlow, WorkFlow, Done, Forgotten
<1>3. CASE TilerFail(w) \/ TilerCrash(w) \/ TileZoomSkipped(w) \/ SweepAbort(w)
  <2>1. /\ UNCHANGED <<queueNormalize, frames>> /\ Fault
        /\ \A v \in Tilers : tpc'[v] = "tile" => tpc[v] = "tile" /\ tjob'[v] = tjob[v]
    BY <1>3 DEF TilerFail, TilerCrash, TileZoomSkipped, NextZoom, SweepAbort, TypeOK, TilerTypeOK
  <2> QED
    BY <1>0, <2>1 DEF Flow, StepFlow, FaultFlow, Held, Done, InQueue, Forgotten, Fault
<1>4. ASSUME TilerWork(w), ~TilerPop(w), ~TilerZadd(w)
      PROVE  /\ UNCHANGED <<queueNormalize, frames, faults>>
             /\ \A v \in Tilers : /\ tpc'[v] = "tile" <=> tpc[v] = "tile"
                                  /\ tpc[v] = "tile" => tjob'[v] = tjob[v]
  BY <1>4
     DEF TilerWork, TilerStart, SweepCheck, SweepDelete, SweepDone, TileZoom, NextZoom,
         TilerLatest, TilerPush, TilerDiscard, TypeOK, TilerTypeOK
<1>5. CASE TilerWork(w) /\ ~TilerPop(w) /\ ~TilerZadd(w)
  BY <1>0, <1>4, <1>5 DEF Flow, StepFlow, WorkFlow, Held, Done, InQueue, Forgotten
<1> QED  BY <1>1, <1>2, <1>3, <1>5 DEF TilerStep, TilerNext

\* The EC ingester and the compositor file frames of other names.
LEMMA FlowWms ==
  ASSUME TypeOK, NEW w \in WmsSources, WmsIngesterStep(w)
  PROVE  Flow
<1> USE DEF envVars, redisVars, fileVars, storeVars, ingestVars, tilerVars, WmsStep
<1>1. /\ UNCHANGED <<todo, results, queueNormalize, tpc, tjob, now>>
      /\ faults' = faults \/ Fault
      /\ UNCHANGED processed \/ \E t : processed' = [processed EXCEPT ![w] = @ \cup {t}]
      /\ \/ UNCHANGED frames
         \/ \E n \in {w, TypeTwin[w]} : \E t : frames' = [frames EXCEPT ![n] = @ \cup {t}]
  BY DEF WmsIngesterStep, WmsNext, WmsWork, WmsList, WmsWrite, WmsWritePartial, WmsZadd, Zadd,
         WmsLatest, WmsZaddType, WmsLatestType, WmsMark, MarkProcessed, WmsPush,
         WmsPushType, WmsAbort
<1>2. w \notin RasterSources /\ TypeTwin[w] \notin RasterSources
  BY ConstantsAssumption
<1>3. \A s \in RasterSources : frames'[s] = frames[s] /\ processed'[s] = processed[s]
  BY <1>1, <1>2, NamesFacts DEF TypeOK, IndexTypeOK
<1> QED  BY <1>1, <1>3, FlowKept

LEMMA FlowCompositor == ASSUME TypeOK, CompositorStep PROVE Flow
<1> USE DEF envVars, redisVars, fileVars, storeVars, ingestVars, tilerVars
<1>1. /\ UNCHANGED <<todo, results, queueNormalize, tpc, tjob, processed, now>>
      /\ faults' = faults \/ Fault
      /\ \/ UNCHANGED frames
         \/ \E n \in Composites : \E t : frames' = [frames EXCEPT ![n] = @ \cup {t}]
  BY DEF CompositorStep, CompNext, CompWork, CompPop, CompDrain, CompDrained, CompGet,
         CompGot, CompList, CompListed, CompSkip, CompWrite, CompZadd, Zadd, CompLatest,
         CompPublish, CompAbort, CompCrash
<1>2. \A s \in RasterSources : frames'[s] = frames[s]
  BY <1>1, ConstantsAssumption, NamesFacts DEF TypeOK, IndexTypeOK
<1> QED  BY <1>1, <1>2, FlowKept

LEMMA FlowCleanup == ASSUME TypeOK, CleanupStep PROVE Flow
<1> USE DEF envVars, redisVars, fileVars, storeVars, ingestVars, tilerVars
<1>1. UNCHANGED <<todo, results, queueNormalize, tpc, tjob, now>>
  BY DEF CleanupStep, CleanNext, CleanWork, CleanScan, CleanDelete, CleanZrem, CleanPrune,
         CleanAbort
<1>2. CASE CleanAbort
  BY <1>1, <1>2, FlowKept DEF CleanAbort
<1>3. CASE \E n \in Names : CleanWork(n)
  <2>1. /\ faults' = faults
        /\ UNCHANGED frames \/ \E n, t : frames' = [frames EXCEPT ![n] = @ \ {t}]
        /\ \/ UNCHANGED processed
           \/ \E n \in DatedSources : processed' = [processed EXCEPT ![n] = @ \ Prunable(n)]
    BY <1>3 DEF CleanWork, CleanScan, CleanDelete, CleanZrem, CleanPrune
  <2>2. \A s \in RasterSources : frames'[s] \subseteq frames[s]
    BY <2>1, NamesFacts DEF TypeOK, IndexTypeOK
  <2>3. \A s \in RasterSources : \A t \in processed[s] :
          t \in processed'[s] \/ (s \in DatedSources /\ Forgotten(t))
    BY <2>1, NamesFacts DEF Prunable, TypeOK, IndexTypeOK
  <2> QED
    BY <1>1, <2>1, <2>2, <2>3
       DEF Flow, StepFlow, WorkFlow, Held, Done, InQueue, Forgotten
<1> QED  BY <1>2, <1>3 DEF CleanupStep, CleanNext

LEMMA FlowStep == ASSUME TypeOK, Placement, [Next]_vars PROVE Flow
<1>1. CASE UNCHANGED vars
  BY <1>1, FlowKept DEF vars, envVars, redisVars, ingestVars, tilerVars
<1> QED
  BY <1>1, FlowTick, FlowIngester, FlowWms, FlowTiler, FlowCompositor, FlowCleanup DEF Next

\* What is settled stays so, whatever the step.
LEMMA SettledForward ==
  ASSUME Flow, NEW s \in RasterSources, NEW t \in Times, Settled(s, t)
  PROVE  Settled(s, t)'
BY DEF Flow, StepFlow, Settled

LEMMA NamedInit == Init => NamedSettled
BY NamesFacts
   DEF Init, IndexInit, CompInit, CleanInit, NamedSettled, Named, Times

\* A frame that is filed by a tiler is nowhere else.
LEMMA TiledSettled ==
  ASSUME TypeOK, Placement, NEW w \in Tilers, NEW s \in RasterSources, NEW t \in Times,
         tpc[w] \in {"latest", "push", "discard"}, tjob[w] = <<s, t>>
  PROVE  Settled(s, t)
<1>1. Popped(<<s, t>>) /\ PastMark(s, t) /\ tjob[w] # NoFrame
  BY DEF Popped, PastMark, TypeOK, TilerTypeOK, Tiling
<1>2. Done(s, t)
  BY <1>1 DEF Placement, Remembered, Done
<1>3. t \notin todo[s] /\ t \notin results[s] /\ ~InQueue(<<s, t>>, queueNormalize)
  BY <1>1 DEF Placement, SinglePlacement, InQueue
<1>4. ASSUME NEW v \in Tilers, tpc[v] = "tile", tjob[v] = <<s, t>> PROVE FALSE
  BY <1>1, <1>4 DEF Placement, SinglePlacement
<1> QED  BY <1>2, <1>3, <1>4 DEF Settled, Held

LEMMA NamedStep ==
  ASSUME TypeOK, Placement, NamedSettled, [Next]_vars
  PROVE  NamedSettled'
<1> USE DEF envVars, redisVars, fileVars, storeVars, ingestVars, wmsVars, tilerVars, compVars,
            cleanVars
<1>0. Flow
  BY FlowStep
<1> SUFFICES ASSUME NEW s \in RasterSources, NEW t \in Times, Named(s, t)' PROVE Settled(s, t)'
  BY DEF NamedSettled
<1>n. s \in Names /\ s \in Sources /\ <<s, t>> \in Frame /\ s \notin Composites /\ t # 0
  BY NamesFacts, ConstantsAssumption DEF Frame, Times
<1>1. CASE Named(s, t)
  BY <1>0, <1>1, SettledForward DEF NamedSettled
<1>2. ASSUME UNCHANGED <<latest, cpick, readCache, kname, ktodo>>,
             t \in frames'[s] => t \in frames[s]
      PROVE  Named(s, t)
  BY <1>2 DEF Named
<1>3. CASE EnvStep \/ UNCHANGED vars
  BY <1>1, <1>2, <1>3 DEF EnvStep, Tick, vars
<1>4. ASSUME NEW r \in RasterSources, IngesterStep(r) PROVE Settled(s, t)'
  BY <1>1, <1>2, <1>4
     DEF IngesterStep, IngesterNext, IngesterWork, IngestList, IngestNormalize, IngestMark,
         IngestSkip, IngestPush, IngestAbort
<1>5. ASSUME NEW w \in WmsSources, WmsIngesterStep(w) PROVE Settled(s, t)'
  <2>1. s # w /\ s # TypeTwin[w]
    BY ConstantsAssumption
  <2>2. /\ UNCHANGED <<cpick, kname, ktodo>>
        /\ UNCHANGED readCache
        /\ frames'[s] = frames[s] /\ latest'[s] = latest[s]
    BY <1>5, <1>n, <2>1
       DEF WmsIngesterStep, WmsNext, WmsWork, WmsStep, WmsList, WmsTiles, WmsWrite,
           WmsWritePartial, WmsZadd, WmsLatest, WmsZaddType, WmsLatestType, WmsMark,
           WmsPush, WmsPushType, WmsAbort, Zadd, SetLatest, TypeOK, IndexTypeOK
  <2> QED  BY <1>1, <2>2 DEF Named
<1>6. ASSUME NEW w \in Tilers, TilerStep(w) PROVE Settled(s, t)'
  <2>1. /\ UNCHANGED <<cpick, kname, ktodo>>
        /\ DOMAIN readCache' = DOMAIN readCache
    BY <1>6
       DEF TilerStep, TilerNext, TilerWork, TilerStart, SweepCheck, SweepDelete, SweepDone,
           TilerPop, TileZoom, TileZoomSkipped, NextZoom, TilerZadd, TilerLatest, TilerPush,
           TilerDiscard, TilerFail, TilerCrash, SweepAbort, TilerRest, WriteBatch, DeleteFrame
  <2>2. CASE TilerZadd(w)
    <3>1. /\ UNCHANGED <<latest, tjob>> /\ tpc' = [tpc EXCEPT ![w] = "latest"]
          /\ frames' = [frames EXCEPT ![tjob[w][1]] = @ \cup {tjob[w][2]}]
          /\ tpc[w] = "tile"
      BY <2>2 DEF TilerZadd, TilerRest, TilerGoto, Zadd
    <3>2. tjob[w] \in Frame
      BY <3>1 DEF TypeOK, TilerTypeOK, Tiling
    <3>3. CASE tjob[w] = <<s, t>>
      <4>1. PastMark(s, t) /\ tjob[w] # NoFrame
        BY <3>2, <3>3, NamesFacts DEF PastMark, Popped
      <4>2. Done(s, t) /\ t \notin todo[s] /\ t \notin results[s]
            /\ ~InQueue(<<s, t>>, queueNormalize)
        BY <3>3, <4>1 DEF Placement, Remembered, SinglePlacement, Done, InQueue, Popped
      <4>3. \A v \in Tilers \ {w} : tjob[v] # <<s, t>>
        BY <3>3, <4>1 DEF Placement, SinglePlacement
      <4>4. UNCHANGED <<todo, results, queueNormalize, processed, now>>
        BY <1>6, <2>2 DEF TilerStep, TilerZadd, TilerRest
      <4>5. \A v \in Tilers : tpc'[v] = "tile" => v # w
        BY <3>1 DEF TypeOK, TilerTypeOK
      <4> QED  BY <3>1, <4>2, <4>3, <4>4, <4>5 DEF Settled, Held, Done, InQueue, Forgotten
    <3>4. CASE tjob[w] # <<s, t>>
      <4>1. t \in frames'[s] => t \in frames[s]
        BY <3>1, <3>2, <3>4, <1>n, NamesFacts DEF TypeOK, IndexTypeOK
      <4> QED  BY <1>1, <2>1, <3>1, <4>1 DEF Named
    <3> QED  BY <3>3, <3>4
  <2>3. CASE TilerLatest(w)
    <3>1. /\ UNCHANGED frames /\ tpc[w] = "latest"
          /\ latest' = [latest EXCEPT ![tjob[w][1]] = tjob[w][2]]
      BY <2>3 DEF TilerLatest, SetLatest
    <3>2. tjob[w] \in Frame
      BY <3>1 DEF TypeOK, TilerTypeOK, Tiling
    <3>3. latest'[s] = t => latest[s] = t \/ tjob[w] = <<s, t>>
      BY <3>1, <3>2, <1>n, NamesFacts DEF TypeOK, IndexTypeOK
    <3>4. CASE tjob[w] = <<s, t>>
      BY <1>0, <3>1, <3>4, TiledSettled, SettledForward
    <3> QED  BY <1>1, <2>1, <3>1, <3>3, <3>4 DEF Named
  <2>4. CASE ~TilerZadd(w) /\ ~TilerLatest(w)
    <3>1. UNCHANGED <<latest, frames>>
      BY <1>6, <2>4
         DEF TilerStep, TilerNext, TilerWork, TilerStart, SweepCheck, SweepDelete, SweepDone,
             TilerPop, TileZoom, TileZoomSkipped, NextZoom, TilerPush, TilerDiscard, TilerFail,
             TilerCrash, SweepAbort, TilerRest
    <3> QED  BY <1>1, <2>1, <3>1 DEF Named
  <2> QED  BY <2>2, <2>3, <2>4
<1>7. CASE CompositorStep
  <2>1. /\ UNCHANGED <<kname, ktodo>>
        /\ t \in frames'[s] => t \in frames[s]
        /\ latest'[s] = latest[s]
    BY <1>7, <1>n
       DEF CompositorStep, CompNext, CompWork, CompPop, CompDrain, CompDrained, CompGet,
           CompGot, CompList, CompListed, CompSkip, CompWrite, CompZadd, CompLatest,
           CompPublish, CompAbort, CompCrash, Zadd, SetLatest, TypeOK, IndexTypeOK
  <2>2. cpick'[s] = t => cpick[s] = t \/ latest[s] = t
    BY <1>7, <1>n
       DEF CompositorStep, CompNext, CompWork, CompPop, CompDrain, CompDrained, CompGet,
           CompGot, CompList, CompListed, CompSkip, CompWrite, CompZadd, CompLatest,
           CompPublish, CompAbort, CompCrash, CompReset, TypeOK, CompTypeOK
  <2>3. ASSUME NEW r \in Sources, CompList(r), <<s, t>> \in DOMAIN readCache'
        PROVE  <<s, t>> \in DOMAIN readCache \/ cpick[s] = t
    BY <2>3 DEF CompList, Opened
  <2>4. (\A r \in Sources : ~CompList(r)) => DOMAIN readCache' \subseteq DOMAIN readCache
    BY <1>7
       DEF CompositorStep, CompNext, CompWork, CompPop, CompDrain, CompDrained, CompGet,
           CompGot, CompListed, CompSkip, CompWrite, WriteBatch, CompZadd, CompLatest,
           CompPublish, CompAbort, CompCrash
  <2> QED  BY <1>1, <2>1, <2>2, <2>3, <2>4 DEF Named
<1>8. CASE CleanupStep
  <2>1. /\ UNCHANGED <<latest, cpick>>
        /\ DOMAIN readCache' = DOMAIN readCache
        /\ frames'[s] \subseteq frames[s]
    BY <1>8, <1>n
       DEF CleanupStep, CleanNext, CleanWork, CleanScan, CleanDelete, CleanZrem, CleanPrune,
           CleanAbort, DeleteFrame, TypeOK, IndexTypeOK
  <2>2. s \in kname' /\ t \in ktodo' => (s \in kname /\ t \in ktodo) \/ t \in frames[s]
    BY <1>8
       DEF CleanupStep, CleanNext, CleanWork, CleanScan, CleanDelete, CleanZrem, CleanPrune,
           CleanAbort, Outdated
  <2> QED  BY <1>1, <2>1, <2>2 DEF Named
<1> QED  BY <1>3, <1>4, <1>5, <1>6, <1>7, <1>8 DEF Next

-----------------------------------------------------------------------------
(* The ledger *)

\* The stage of a frame, as the refinement mapping of FramePipeline has it.
LedgerFrames == RasterSources \X Times
Stages == [f \in RasterSources \X Times |-> StageOf(f[1], f[2])]

\* The stage in terms of what is recorded, held and settled.
StageTable ==
  \A s \in RasterSources : \A t \in Times :
    /\ StageOf(s, t) \in {"unseen", "held", "filed", "gone"}
    /\ StageOf(s, t) = "filed" <=> t \in frames[s]
    /\ StageOf(s, t) = "held" <=> Held(s, t)
    /\ StageOf(s, t) = "gone" <=> Settled(s, t) /\ t \notin frames[s]
    /\ Held(s, t) => Done(s, t) /\ t \notin todo[s]
    /\ t \in frames[s] => Settled(s, t)

LEMMA StageFacts == TypeOK /\ Placement /\ NamedSettled => StageTable
<1> SUFFICES ASSUME TypeOK, Placement, NamedSettled, NEW s \in RasterSources, NEW t \in Times
             PROVE  /\ StageOf(s, t) \in {"unseen", "held", "filed", "gone"}
                    /\ StageOf(s, t) = "filed" <=> t \in frames[s]
                    /\ StageOf(s, t) = "held" <=> Held(s, t)
                    /\ StageOf(s, t) = "gone" <=> Settled(s, t) /\ t \notin frames[s]
                    /\ Held(s, t) => Done(s, t) /\ t \notin todo[s]
                    /\ t \in frames[s] => Settled(s, t)
  BY DEF StageTable
<1>1. t \in frames[s] => Settled(s, t)
  BY DEF NamedSettled, Named
<1>2. Held(s, t) => PastMark(s, t)
  BY DEF Held, PastMark, Popped
<1>3. Held(s, t) => Done(s, t) /\ t \notin todo[s]
  BY <1>2 DEF Placement, Remembered, SinglePlacement, Done
<1>4. t \in todo[s] => t \notin processed[s]
  BY DEF Placement, Remembered
<1> QED  BY <1>1, <1>3, <1>4 DEF StageOf, Held, Settled, Done

LEMMA StageFactsNext == (TypeOK /\ Placement /\ NamedSettled => StageTable)'
BY StageFacts, PTL

LEMMA LedgerStep ==
  ASSUME TypeOK, Placement, NamedSettled, [Next]_vars
  PROVE  [Ledger!LedgerNext]_<<Stages, faults>>
<1>0. Flow /\ StageTable /\ StageTable'
  BY FlowStep, TypeStep, PlacementStep, NamedStep, StageFacts, StageFactsNext
<1>1. \A f \in LedgerFrames : /\ f[1] \in RasterSources /\ f[2] \in Times /\ f = <<f[1], f[2]>>
                              /\ Stages[f] = StageOf(f[1], f[2])
                              /\ Stages'[f] = StageOf(f[1], f[2])'
  BY DEF LedgerFrames, Stages
<1>2. CASE WorkFlow
  <2>1. \A s \in RasterSources : \A t \in Times :
          StageOf(s, t)' # StageOf(s, t) =>
            <<StageOf(s, t), StageOf(s, t)'>> \in Ledger!Forward
    BY <1>0, <1>2 DEF StageTable, Flow, StepFlow, WorkFlow, Settled, Ledger!Forward
  <2>2. Ledger!Progress
    BY <1>0, <1>1, <1>2, <2>1
       DEF Ledger!Progress, Ledger!Moved, WorkFlow, StageTable, Stages, LedgerFrames
  <2> QED  BY <2>2 DEF Ledger!LedgerNext
<1>3. CASE FaultFlow
  <2>1. \A s \in RasterSources : \A t \in Times :
          StageOf(s, t)' # StageOf(s, t) =>
            StageOf(s, t) \in {"held", "unseen"} /\ StageOf(s, t)' = "gone"
    BY <1>0, <1>3 DEF StageTable, Flow, StepFlow, FaultFlow, Settled
  <2>2. Ledger!Loss
    BY <1>1, <1>3, <2>1 DEF Ledger!Loss, Ledger!Moved, FaultFlow, Stages, LedgerFrames
  <2> QED  BY <2>2 DEF Ledger!LedgerNext
<1> QED  BY <1>0, <1>2, <1>3 DEF Flow

LEMMA LedgerStart == Init => Ledger!LedgerInit
<1> SUFFICES ASSUME Init PROVE Ledger!LedgerInit
  OBVIOUS
<1>1. \A s \in RasterSources : \A t \in Times : StageOf(s, t) = "unseen"
  <2> SUFFICES ASSUME NEW s \in RasterSources, NEW t \in Times PROVE StageOf(s, t) = "unseen"
    OBVIOUS
  <2>1. s \in Sources /\ s \in Names /\ now = 0 /\ t > 0 /\ Retention \in Nat
    BY NamesFacts, ConstantsAssumption DEF Init, IndexInit, Times
  <2>2. ~Forgotten(t)
    BY <2>1 DEF Forgotten, Times
  <2>3. DOMAIN queueNormalize = {} /\ \A w \in Tilers : tpc[w] = "down"
    BY DEF Init, IndexInit, TilerInit
  <2> QED
    BY <2>1, <2>2, <2>3 DEF Init, IndexInit, IngestInit, StageOf, InQueue
<1> QED  BY <1>1 DEF Init, IndexInit, Ledger!LedgerInit

\* The frame pipeline implements the ledger: from the listing of a feed to the
\* index each raster frame goes one way and once, and only a crash or a failed
\* call takes it off the way.
THEOREM LedgerHolds == Spec => LedgerRefined
<1>1. Init => TypeOK /\ Placement /\ NamedSettled /\ Ledger!LedgerInit
  BY InitType, PlacementInit, NamedInit, LedgerStart
<1>2. TypeOK /\ Placement /\ NamedSettled /\ [Next]_vars
        => TypeOK' /\ Placement' /\ NamedSettled' /\ [Ledger!LedgerNext]_<<Stages, faults>>
  BY TypeStep, PlacementStep, NamedStep, LedgerStep
<1> QED  BY <1>1, <1>2, PTL DEF Spec, LedgerRefined, Ledger!LedgerSpec, Stages

\* A frame that has a name (in the index, as latest, picked or held open by the
\* compositor, on the cleanup worker's list) is never fetched or tiled again.
THEOREM NamedSettledHolds == Spec => []NamedSettled
<1>1. Init => TypeOK /\ Placement /\ NamedSettled
  BY InitType, PlacementInit, NamedInit
<1>2. TypeOK /\ Placement /\ NamedSettled /\ [Next]_vars
        => TypeOK' /\ Placement' /\ NamedSettled'
  BY TypeStep, PlacementStep, NamedStep
<1> QED  BY <1>1, <1>2, PTL DEF Spec

=============================================================================
