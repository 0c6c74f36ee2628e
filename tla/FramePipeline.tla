--------------------------- MODULE FramePipeline ---------------------------
(***************************************************************************)
(* The whole frame pipeline: feeds -> ingesters -> queue:normalize ->      *)
(* tilers -> queue:composite -> compositor -> new-frame, with the cleanup  *)
(* worker beside it.  Every worker is a process; their steps interleave.   *)
(***************************************************************************)
EXTENDS RasterIngester, WmsIngester, Tiler, Compositor, Cleanup

vars == <<envVars, faults, redisVars, storeVars, ingestVars, wmsVars, tilerVars,
          compVars, cleanVars>>

TypeOK ==
  /\ IndexTypeOK
  /\ IngestTypeOK
  /\ WmsTypeOK
  /\ TilerTypeOK
  /\ CompTypeOK
  /\ CleanTypeOK

Init ==
  /\ IndexInit
  /\ IngestInit
  /\ WmsInit
  /\ TilerInit
  /\ CompInit
  /\ CleanInit

EnvStep == Tick /\ UNCHANGED <<ingestVars, wmsVars, tilerVars, compVars, cleanVars>>

IngesterStep(s) ==
  IngesterNext(s) /\ UNCHANGED <<wmsVars, tilerVars, compVars, cleanVars>>

WmsIngesterStep(w) ==
  WmsNext(w) /\ UNCHANGED <<ingestVars, tilerVars, compVars, cleanVars>>

TilerStep(w) ==
  TilerNext(w) /\ UNCHANGED <<ingestVars, wmsVars, compVars, cleanVars>>

CompositorStep ==
  CompNext /\ UNCHANGED <<ingestVars, wmsVars, tilerVars, cleanVars>>

CleanupStep ==
  CleanNext /\ UNCHANGED <<ingestVars, wmsVars, tilerVars, compVars>>

Next ==
  \/ EnvStep
  \/ \E s \in RasterSources : IngesterStep(s)
  \/ \E w \in WmsSources : WmsIngesterStep(w)
  \/ \E w \in Tilers : TilerStep(w)
  \/ CompositorStep
  \/ CleanupStep

Spec == Init /\ [][Next]_vars

\* Every worker is a loop that docker restarts (restart: unless-stopped): it
\* keeps taking steps.  Neither the clock nor the faults owe anybody a step.
Fairness ==
  /\ \A s \in RasterSources : WF_vars(IngesterWork(s) /\ IngesterStep(s))
  /\ \A w \in WmsSources : WF_vars(WmsWork(w) /\ WmsIngesterStep(w))
  /\ \A w \in Tilers : WF_vars(TilerWork(w) /\ TilerStep(w))
  /\ WF_vars(CompWork /\ CompositorStep)
  /\ WF_vars((\E n \in Names : CleanWork(n)) /\ CleanupStep)

FairSpec == Spec /\ Fairness

-----------------------------------------------------------------------------
(* Where a frame of a raster feed can be *)

\* In the hands of an ingester after markProcessed, on the queue, or popped.
Popped(f) == \E w \in Tilers : tjob[w] = f

PastMark(s, t) == t \in results[s] \/ InQueue(<<s, t>>, queueNormalize) \/ Popped(<<s, t>>)

\* No frame is ever queued twice, tiled by two workers at once, or fetched
\* again by a poll while it is queued or being tiled: markProcessed, the
\* SISMEMBER filter, BLPOP and the pruning horizon together keep every frame
\* in one place (mrms.ts, dwd.ts, base.ts, tiler.ts, cleanup.ts).
SinglePlacement ==
  /\ \A s \in RasterSources : \A t \in todo[s] : ~PastMark(s, t)
  /\ \A s \in RasterSources : \A t \in results[s] :
       ~InQueue(<<s, t>>, queueNormalize) /\ ~Popped(<<s, t>>)
  /\ \A i, j \in DOMAIN queueNormalize :
       queueNormalize[i] = queueNormalize[j] => i = j
  /\ \A i \in DOMAIN queueNormalize : ~Popped(queueNormalize[i])
  /\ \A v, w \in Tilers : tjob[v] = tjob[w] /\ tjob[v] # NoFrame => v = w

\* A frame past markProcessed is remembered by processed:{source} or is too
\* old for any listing to return; a frame still to be fetched is not.
Remembered ==
  \A s \in RasterSources : \A t \in Times :
    /\ PastMark(s, t) => t \in processed[s] \/ (s \in DatedSources /\ Forgotten(t))
    /\ t \in todo[s] => t \notin processed[s]

\* Whoever still has to read a GeoTIFF finds it: it is written before the frame
\* is marked, and only the worker that popped the frame unlinks it, after use.
RasterForWork ==
  \A s \in RasterSources : \A t \in Times : PastMark(s, t) => <<s, t>> \in rasters

\* Without a fault, nothing else is in the raster directory: each GeoTIFF is of
\* a frame about to be marked, or past that and on its way through the queue and
\* a tiler, which unlinks it; only an aborted poll, a failed frame or a dead
\* tiler leaves one that nobody will ever remove (normalize.ts, tiler.ts).
RastersUsed ==
  faults = 0 => \A f \in rasters :
    \/ PastMark(f[1], f[2])
    \/ ipc[f[1]] = "mark" /\ IsNewest(f[2], todo[f[1]])

\* latest:{name} names a recorded frame, or one the retention has overtaken:
\* the pointer is set after the index entry and is never cleared.
LatestRecorded ==
  \A n \in Names : latest[n] # 0 => latest[n] \in frames[n] \/ Expired(latest[n])

Recorded(f) == f[2] \in frames[f[1]] \/ Expired(f[2])

\* A trigger, queued or held by the compositor, is for a frame already in the
\* index, unless the retention has overtaken it: no trigger outruns its frame.
TriggersRecorded ==
  /\ \A i \in DOMAIN queueComposite : Recorded(queueComposite[i])
  /\ cmsg # NoFrame => Recorded(cmsg)

\* Without a fault, a recorded frame of a source the startup sweep does not
\* look at has every tile its data calls for until it expires.
UnsweptComplete ==
  faults = 0 =>
    \A s \in Sources \ {SweptSource} : \A t \in frames[s] :
      Expired(t) \/ tiles[s][t] = Echo[<<s, t>>]

\* Without a fault, what the compositor draws of such a source is a whole frame,
\* never one that a tiler is still writing: latest:{source} is set only after
\* the last zoom level, and an open file survives its deletion.
DrawnWhole ==
  faults = 0 =>
    \A s \in Sources \ {SweptSource} :
      ccells[s] # {} => ccells[s] = Echo[<<s, cpick[s]>>]

-----------------------------------------------------------------------------
(* The abstract promise *)

StageOf(s, t) ==
  IF t \in frames[s] THEN "filed"
  ELSE IF \/ t \in results[s] \/ InQueue(<<s, t>>, queueNormalize)
          \/ \E w \in Tilers : tpc[w] = "tile" /\ tjob[w] = <<s, t>>
       THEN "held"
  ELSE IF t \in processed[s] \/ (s \in DatedSources /\ Forgotten(t) /\ t \notin todo[s])
       THEN "gone"
  ELSE "unseen"

Ledger == INSTANCE FrameLedger WITH
  LedgerFrame <- RasterSources \X Times,
  stage <- [f \in RasterSources \X Times |-> StageOf(f[1], f[2])]

\* The pipeline implements the ledger: each raster frame is taken up and filed
\* at most once and lost only by a crash or a failed call.
LedgerRefined == Ledger!LedgerSpec

-----------------------------------------------------------------------------
(* Liveness *)

\* A frame on queue:normalize is eventually taken off it, whichever tilers
\* crash: the queue outlives them and each of them comes back.
QueueDrains ==
  \A f \in RasterSources \X Times :
    InQueue(f, queueNormalize) ~> ~InQueue(f, queueNormalize)

\* Without a fault, every frame marked processed gets into frames:{source}
\* (unless the retention overtakes it on the way).
ProcessedFiled ==
  \A f \in RasterSources \X Times :
    f[2] \in processed[f[1]] ~> Recorded(f) \/ faults > 0

\* An expired frame does not stay in the index.
ExpiredPurged ==
  \A n \in Names : \A t \in Times :
    (t \in frames[n] /\ Expired(t)) ~> t \notin frames[n]

\* Without a fault, a frame with data that becomes its source's latest is
\* drawn into a composite, or is replaced as latest, or expires first.
LatestComposited ==
  \A f \in Frame :
    (latest[f[1]] = f[2] /\ Echo[f] # {})
      ~> (f \in merged \/ latest[f[1]] # f[2] \/ Expired(f[2]) \/ faults > 0)

-----------------------------------------------------------------------------
(* What the documentation and the log messages say *)

\* "latest:{source}: Most recent timestamp for source": the pointer never goes
\* back in time.
LatestNeverRegresses == [][\A n \in Names : latest'[n] >= latest[n]]_latest

\* "Removing partial tile frame from interrupted processing": the frame the
\* sweep is about to delete is not one that a live tiler is working on.
SweepOnlyInterrupted ==
  \A v, w \in Tilers : tpc[w] = "unlink" => tjob[v] # <<SweptSource, tdoomed[w]>>

=============================================================================
