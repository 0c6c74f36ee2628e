------------------------------- MODULE Tiler -------------------------------
(***************************************************************************)
(* The tiler workers (two of them in docker-compose.yml).  A worker first  *)
(* sweeps the store for frames of source `mrms' that are not recorded,     *)
(* then pops frames off queue:normalize: it writes the tiles zoom by zoom, *)
(* records the frame and pushes a trigger to queue:composite.              *)
(***************************************************************************)
EXTENDS FrameIndex

CONSTANTS
  Tilers,
  SweptSource     \* the one source cleanupPartialDirs looks at: "mrms"

VARIABLES
  tpc,            \* [Tilers -> where the worker stands]
  tjob,           \* [Tilers -> the frame popped, or NoFrame]
  tzoom,          \* [Tilers -> the next zoom level to write]
  tsweep,         \* [Tilers -> timestamps the sweep has listed but not checked]
  tdoomed         \* [Tilers -> the timestamp the sweep is about to delete, or 0]

tilerVars == <<tpc, tjob, tzoom, tsweep, tdoomed>>

\* The stages in which a worker holds a job.
Tiling == {"tile", "latest", "push", "discard"}

TilerTypeOK ==
  /\ tpc \in [Tilers -> {"down", "sweep", "unlink", "idle"} \cup Tiling]
  /\ tjob \in [Tilers -> Frame \cup {NoFrame}]
  /\ \A w \in Tilers : tjob[w] = NoFrame <=> tpc[w] \notin Tiling
  /\ tzoom \in [Tilers -> ZoomMin..(ZoomMax + 1)]
  /\ tsweep \in [Tilers -> SUBSET Times]
  /\ tdoomed \in [Tilers -> Times \cup {0}]

TilerInit ==
  /\ tpc = [w \in Tilers |-> "down"]
  /\ tjob = [w \in Tilers |-> NoFrame]
  /\ tzoom = [w \in Tilers |-> ZoomMin]
  /\ tsweep = [w \in Tilers |-> {}]
  /\ tdoomed = [w \in Tilers |-> 0]

TilerGoto(w, stage) == tpc' = [tpc EXCEPT ![w] = stage]

-----------------------------------------------------------------------------
(* main: cleanupPartialDirs, then the loop. *)

\* listFrames('mrms'): the frames that have a file right now.
SweptFiles == {t \in Times : SweptSource \in Sources /\ tiles[SweptSource][t] # {}}

\* Mutation: no restart policy, a fault keeps the workers that are down down.
TilerStartOnce(w) ==
  /\ tpc[w] = "down"
  /\ faults = 0
  /\ TilerGoto(w, "sweep")
  /\ tsweep' = [tsweep EXCEPT ![w] = SweptFiles]
  /\ UNCHANGED <<tjob, tzoom, tdoomed, envVars, faults, redisVars, storeVars>>

TilerStart(w) ==
  /\ tpc[w] = "down"
  /\ TilerGoto(w, "sweep")
  /\ tsweep' = [tsweep EXCEPT ![w] = SweptFiles]
  /\ UNCHANGED <<tjob, tzoom, tdoomed, envVars, faults, redisVars, storeVars>>

\* zscore('frames:mrms', dir) of the oldest one left decides its fate.
SweepCheck(w) ==
  /\ tpc[w] = "sweep"
  /\ \E t \in tsweep[w] :
       /\ \A u \in tsweep[w] : t <= u
       /\ tsweep' = [tsweep EXCEPT ![w] = @ \ {t}]
       /\ IF t \in frames[SweptSource]
          THEN UNCHANGED <<tpc, tdoomed>>
          ELSE TilerGoto(w, "unlink") /\ tdoomed' = [tdoomed EXCEPT ![w] = t]
  /\ UNCHANGED <<tjob, tzoom, envVars, faults, redisVars, storeVars>>

SweepDelete(w) ==
  /\ tpc[w] = "unlink"
  /\ DeleteFrame(SweptSource, tdoomed[w])
  /\ TilerGoto(w, "sweep")
  /\ tdoomed' = [tdoomed EXCEPT ![w] = 0]
  /\ UNCHANGED <<tjob, tzoom, tsweep, envVars, faults, redisVars, rasters>>

SweepDone(w) ==
  /\ tpc[w] = "sweep"
  /\ tsweep[w] = {}
  /\ TilerGoto(w, "idle")
  /\ UNCHANGED <<tjob, tzoom, tsweep, tdoomed, envVars, faults, redisVars, storeVars>>

\* A Redis call of the sweep fails: the rest of the sweep is given up in silence.
SweepAbort(w) ==
  /\ tpc[w] = "sweep"
  /\ Fault
  /\ TilerGoto(w, "idle")
  /\ tsweep' = [tsweep EXCEPT ![w] = {}]
  /\ UNCHANGED <<tjob, tzoom, tdoomed, envVars, redisVars, storeVars>>

\* Mutation: the message is read but left on the list.
TilerPopPeek(w) ==
  /\ tpc[w] = "idle"
  /\ queueNormalize # <<>>
  /\ tjob' = [tjob EXCEPT ![w] = Head(queueNormalize)]
  /\ tzoom' = [tzoom EXCEPT ![w] = ZoomMin]
  /\ TilerGoto(w, "tile")
  /\ UNCHANGED <<tsweep, tdoomed, envVars, faults, redisVars, storeVars>>

\* BLPOP queue:normalize takes the message off the list for good.
TilerPop(w) ==
  /\ tpc[w] = "idle"
  /\ queueNormalize # <<>>
  /\ tjob' = [tjob EXCEPT ![w] = Head(queueNormalize)]
  /\ queueNormalize' = Tail(queueNormalize)
  /\ tzoom' = [tzoom EXCEPT ![w] = ZoomMin]
  /\ TilerGoto(w, "tile")
  /\ UNCHANGED <<tsweep, tdoomed, envVars, faults, queueComposite, frames, latest,
                 processed, announced, storeVars>>

-----------------------------------------------------------------------------
(* processFrame *)

\* Mutation: the zoom loop runs one level too far.
NextZoomTooFar(w) ==
  /\ tpc[w] = "tile"
  /\ tzoom[w] <= ZoomMax + 1
  /\ tzoom' = [tzoom EXCEPT ![w] = @ + 1]
  /\ UNCHANGED <<tpc, tjob, tsweep, tdoomed, envVars, redisVars, rasters>>

NextZoom(w) ==
  /\ tpc[w] = "tile"
  /\ tzoom[w] <= ZoomMax
  /\ tzoom' = [tzoom EXCEPT ![w] = @ + 1]
  /\ UNCHANGED <<tpc, tjob, tsweep, tdoomed, envVars, redisVars, rasters>>

\* One zoom level: resize, slice, encode, writeBatch the tiles that have data.
TileZoom(w) ==
  /\ NextZoom(w)
  /\ WriteBatch(tjob[w][1], tjob[w][2], Echo[tjob[w]] \cap {tzoom[w]})
  /\ UNCHANGED faults

\* sharp fails to resize: the zoom level is logged and skipped.
TileZoomSkipped(w) ==
  /\ NextZoom(w)
  /\ Fault
  /\ UNCHANGED fileVars

\* What every step after the tiling leaves alone.
TilerRest(w) ==
  UNCHANGED <<tjob, tzoom, tsweep, tdoomed, envVars, faults, queueNormalize, processed,
              announced, storeVars>>

\* Mutation: the frame is recorded before its last zoom level is written.
TilerZaddEarly(w) ==
  /\ tpc[w] = "tile"
  /\ tzoom[w] >= ZoomMax
  /\ Zadd(tjob[w][1], tjob[w][2])
  /\ TilerGoto(w, "latest")
  /\ TilerRest(w)
  /\ UNCHANGED <<queueComposite, latest>>

TilerZadd(w) ==
  /\ tpc[w] = "tile"
  /\ tzoom[w] > ZoomMax
  /\ Zadd(tjob[w][1], tjob[w][2])
  /\ TilerGoto(w, "latest")
  /\ TilerRest(w)
  /\ UNCHANGED <<queueComposite, latest>>

\* SET latest:{source}, whatever it was before.
TilerLatest(w) ==
  /\ tpc[w] = "latest"
  /\ SetLatest(tjob[w][1], tjob[w][2])
  /\ TilerGoto(w, "push")
  /\ TilerRest(w)
  /\ UNCHANGED <<queueComposite, frames>>

TilerPush(w) ==
  /\ tpc[w] = "push"
  /\ queueComposite' = Append(queueComposite, tjob[w])
  /\ TilerGoto(w, "discard")
  /\ TilerRest(w)
  /\ UNCHANGED <<frames, latest>>

\* Mutation: the GeoTIFF is left behind.
TilerDiscardKeeping(w) ==
  /\ tpc[w] = "discard"
  /\ tjob' = [tjob EXCEPT ![w] = NoFrame]
  /\ TilerGoto(w, "idle")
  /\ UNCHANGED <<tzoom, tsweep, tdoomed, envVars, faults, redisVars, storeVars>>

\* The GeoTIFF is unlinked and the worker goes back to BLPOP.
TilerDiscard(w) ==
  /\ tpc[w] = "discard"
  /\ rasters' = rasters \ {tjob[w]}
  /\ tjob' = [tjob EXCEPT ![w] = NoFrame]
  /\ TilerGoto(w, "idle")
  /\ UNCHANGED <<tzoom, tsweep, tdoomed, envVars, faults, redisVars, fileVars>>

\* A call in the try block throws: the catch deletes the frame's file, even
\* one that frames:{source} and latest:{source} already name.
TilerFail(w) ==
  /\ tpc[w] \in Tiling \ {"discard"}
  /\ Fault
  /\ DeleteFrame(tjob[w][1], tjob[w][2])
  /\ tjob' = [tjob EXCEPT ![w] = NoFrame]
  /\ TilerGoto(w, "idle")
  /\ UNCHANGED <<tzoom, tsweep, tdoomed, envVars, redisVars, rasters>>

\* The process dies; docker restarts it (TilerStart).
TilerCrash(w) ==
  /\ tpc[w] # "down"
  /\ Fault
  /\ TilerGoto(w, "down")
  /\ tjob' = [tjob EXCEPT ![w] = NoFrame]
  /\ tsweep' = [tsweep EXCEPT ![w] = {}]
  /\ tdoomed' = [tdoomed EXCEPT ![w] = 0]
  /\ UNCHANGED <<tzoom, envVars, redisVars, storeVars>>

TilerWork(w) ==
  \/ TilerStart(w)
  \/ SweepCheck(w)
  \/ SweepDelete(w)
  \/ SweepDone(w)
  \/ TilerPop(w)
  \/ TileZoom(w)
  \/ TilerZadd(w)
  \/ TilerLatest(w)
  \/ TilerPush(w)
  \/ TilerDiscard(w)

TilerNext(w) ==
  \/ TilerWork(w)
  \/ SweepAbort(w)
  \/ TileZoomSkipped(w)
  \/ TilerFail(w)
  \/ TilerCrash(w)

=============================================================================
