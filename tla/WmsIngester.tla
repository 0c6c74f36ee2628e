---------------------------- MODULE WmsIngester ----------------------------
(***************************************************************************)
(* The Environment Canada ingester.  Its poll fetches ready-made tiles,    *)
(* writes them to the store, records the frame and its precipitation-type  *)
(* twin, marks the timestamp processed and only then pushes one trigger    *)
(* per frame to queue:composite; poll returns no result for start() to     *)
(* push.                                                                   *)
(***************************************************************************)
EXTENDS FrameIndex

CONSTANT WmsBatchMax   \* timestamps taken per poll: 3

ASSUME WmsAssumption == WmsBatchMax \in Nat

\* ecTiles and typeTiles grow together: a type frame has data where its dBZ
\* frame has.
ASSUME TwinAssumption ==
  \A w \in WmsSources : \A t \in Times : Echo[<<TypeTwin[w], t>>] = Echo[<<w, t>>]

VARIABLES
  wpc,                 \* [WmsSources -> the statement of poll to run next]
  wtodo                \* [WmsSources -> timestamps this poll still has to do]

wmsVars == <<wpc, wtodo>>

WmsStage == {"idle", "fetch", "zadd", "latest", "zaddType", "latestType",
             "mark", "push", "pushType"}

WmsTypeOK ==
  /\ wpc \in [WmsSources -> WmsStage]
  /\ wtodo \in [WmsSources -> SUBSET Times]

WmsInit ==
  /\ wpc = [w \in WmsSources |-> "idle"]
  /\ wtodo = [w \in WmsSources |-> {}]

-----------------------------------------------------------------------------
\* The loop body is on timestamp t and moves from one statement to the next.
WmsStep(w, t, from, to) ==
  /\ wpc[w] = from
  /\ IsNewest(t, wtodo[w])
  /\ wpc' = [wpc EXCEPT ![w] = to]
  /\ UNCHANGED <<envVars, rasters>>

WmsNew(w) ==
  NewestOf({t \in upstream[w] : t > now - ListWindow /\ t \notin processed[w]},
           WmsBatchMax)

\* GetCapabilities lists the time range; up to WmsBatchMax new ones are taken.
WmsList(w) ==
  /\ wpc[w] = "idle"
  /\ WmsNew(w) # {}
  /\ wtodo' = [wtodo EXCEPT ![w] = WmsNew(w)]
  /\ wpc' = [wpc EXCEPT ![w] = "fetch"]
  /\ UNCHANGED <<envVars, faults, redisVars, storeVars>>

\* Both batches written: every tile of the dBZ frame has its type tile.
WmsTiles(w, t, zs) ==
  /\ tiles' = [n \in Names |-> IF n \in {w, TypeTwin[w]}
                               THEN [tiles[n] EXCEPT ![t] = @ \cup zs]
                               ELSE tiles[n]]
  /\ UNCHANGED readCache

WmsWrite(w) ==
  /\ \E t \in wtodo[w] :
       /\ WmsStep(w, t, "fetch", "zadd")
       /\ WmsTiles(w, t, Echo[<<w, t>>])
  /\ UNCHANGED <<wtodo, faults, redisVars>>

\* A layer whose fetch fails is skipped, and with it the tiles it alone had.
WmsWritePartial(w) ==
  /\ Fault
  /\ \E t \in wtodo[w] : \E zs \in SUBSET Echo[<<w, t>>] :
       /\ zs # Echo[<<w, t>>]
       /\ WmsStep(w, t, "fetch", "zadd")
       /\ WmsTiles(w, t, zs)
  /\ UNCHANGED <<wtodo, redisVars>>

WmsZadd(w) ==
  /\ \E t \in wtodo[w] : WmsStep(w, t, "zadd", "latest") /\ Zadd(w, t)
  /\ UNCHANGED <<wtodo, faults, fileVars, queueNormalize, queueComposite, latest,
                 processed, announced>>

WmsLatest(w) ==
  /\ \E t \in wtodo[w] : WmsStep(w, t, "latest", "zaddType") /\ SetLatest(w, t)
  /\ UNCHANGED <<wtodo, faults, fileVars, queueNormalize, queueComposite, frames,
                 processed, announced>>

\* Mutation: the type frame is indexed under the dBZ key.
WmsZaddTypeWrongKey(w) ==
  /\ \E t \in wtodo[w] : WmsStep(w, t, "zaddType", "latestType") /\ Zadd(w, t)
  /\ UNCHANGED <<wtodo, faults, fileVars, queueNormalize, queueComposite, latest,
                 processed, announced>>

WmsZaddType(w) ==
  /\ \E t \in wtodo[w] : WmsStep(w, t, "zaddType", "latestType") /\ Zadd(TypeTwin[w], t)
  /\ UNCHANGED <<wtodo, faults, fileVars, queueNormalize, queueComposite, latest,
                 processed, announced>>

WmsLatestType(w) ==
  /\ \E t \in wtodo[w] : WmsStep(w, t, "latestType", "mark") /\ SetLatest(TypeTwin[w], t)
  /\ UNCHANGED <<wtodo, faults, fileVars, queueNormalize, queueComposite, frames,
                 processed, announced>>

WmsMark(w) ==
  /\ \E t \in wtodo[w] : WmsStep(w, t, "mark", "push") /\ MarkProcessed(w, t)
  /\ UNCHANGED <<wtodo, faults, fileVars, queueNormalize, queueComposite, frames,
                 latest, announced>>

WmsPush(w) ==
  /\ \E t \in wtodo[w] :
       /\ WmsStep(w, t, "push", "pushType")
       /\ queueComposite' = Append(queueComposite, <<w, t>>)
  /\ UNCHANGED <<wtodo, faults, fileVars, queueNormalize, frames, latest, processed,
                 announced>>

\* The type trigger ends the loop body for t.
WmsPushType(w) ==
  /\ \E t \in wtodo[w] :
       /\ WmsStep(w, t, "pushType", IF wtodo[w] = {t} THEN "idle" ELSE "fetch")
       /\ queueComposite' = Append(queueComposite, <<TypeTwin[w], t>>)
       /\ wtodo' = [wtodo EXCEPT ![w] = @ \ {t}]
  /\ UNCHANGED <<faults, fileVars, queueNormalize, frames, latest, processed, announced>>

\* The poll throws, or the process dies and restarts.
WmsAbort(w) ==
  /\ wpc[w] # "idle"
  /\ Fault
  /\ wpc' = [wpc EXCEPT ![w] = "idle"]
  /\ wtodo' = [wtodo EXCEPT ![w] = {}]
  /\ UNCHANGED <<envVars, redisVars, storeVars>>

WmsWork(w) ==
  \/ WmsList(w)
  \/ WmsWrite(w)
  \/ WmsZadd(w)
  \/ WmsLatest(w)
  \/ WmsZaddType(w)
  \/ WmsLatestType(w)
  \/ WmsMark(w)
  \/ WmsPush(w)
  \/ WmsPushType(w)

WmsNext(w) == WmsWork(w) \/ WmsWritePartial(w) \/ WmsAbort(w)

=============================================================================
