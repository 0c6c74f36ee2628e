--------------------------- MODULE RasterIngester ---------------------------
(***************************************************************************)
(* The MRMS and DWD ingesters: BaseIngester.start runs poll and then       *)
(* pushes what poll returned.  A poll walks the unprocessed keys newest    *)
(* first; each key is normalized, marked processed and only then collected *)
(* in `results', a local array that dies with the poll.                    *)
(***************************************************************************)
EXTENDS FrameIndex

CONSTANTS
  ListMax,          \* keys considered per poll: slice(0, 10)
  BatchMax,         \* keys taken per poll: 5 for MRMS, 3 for DWD
  SkippingSources   \* sources whose failed download is skipped: dwd

ASSUME IngesterAssumption ==
  /\ ListMax \in Nat /\ BatchMax \in Nat
  /\ SkippingSources \subseteq RasterSources

VARIABLES
  ipc,              \* [RasterSources -> where the poll loop stands]
  todo,             \* [RasterSources -> timestamps this poll still has to fetch]
  results           \* [RasterSources -> timestamps fetched but not yet pushed]

ingestVars == <<ipc, todo, results>>

IngestTypeOK ==
  /\ ipc \in [RasterSources -> {"idle", "fetch", "mark", "push"}]
  /\ todo \in [RasterSources -> SUBSET Times]
  /\ results \in [RasterSources -> SUBSET Times]

IngestInit ==
  /\ ipc = [s \in RasterSources |-> "idle"]
  /\ todo = [s \in RasterSources |-> {}]
  /\ results = [s \in RasterSources |-> {}]

-----------------------------------------------------------------------------
\* The keys under the date prefixes of today and yesterday.
Listing(s) == {t \in upstream[s] : t > now - ListWindow}

\* Mutation: the SISMEMBER filter is missing.
NewKeysUnfiltered(s) == NewestOf(NewestOf(Listing(s), ListMax), BatchMax)

NewKeys(s) ==
  NewestOf({t \in NewestOf(Listing(s), ListMax) : t \notin processed[s]}, BatchMax)

\* A poll lists the feed and picks the keys that are not in processed:{source}.
IngestList(s) ==
  /\ ipc[s] = "idle"
  /\ NewKeys(s) # {}
  /\ todo' = [todo EXCEPT ![s] = NewKeys(s)]
  /\ ipc' = [ipc EXCEPT ![s] = "fetch"]
  /\ UNCHANGED <<results, envVars, faults, redisVars, storeVars>>

\* Download and normalize the newest key left: its GeoTIFF is now on disk.
IngestNormalize(s) ==
  /\ ipc[s] = "fetch"
  /\ \E t \in todo[s] :
       /\ IsNewest(t, todo[s])
       /\ rasters' = rasters \cup {<<s, t>>}
  /\ ipc' = [ipc EXCEPT ![s] = "mark"]
  /\ UNCHANGED <<todo, results, envVars, faults, redisVars, fileVars>>

\* Mutation: poll returns without the results it collected.
AfterKeyForgetful(rest, done) == IF rest # {} THEN "fetch" ELSE "idle"

\* Where the loop over the keys goes when `rest' keys and `done' results are left.
AfterKey(rest, done) ==
  IF rest # {} THEN "fetch" ELSE IF done # {} THEN "push" ELSE "idle"

\* markProcessed(key), then results.push(...).
IngestMark(s) ==
  /\ ipc[s] = "mark"
  /\ \E t \in todo[s] :
       /\ IsNewest(t, todo[s])
       /\ MarkProcessed(s, t)
       /\ results' = [results EXCEPT ![s] = @ \cup {t}]
       /\ todo' = [todo EXCEPT ![s] = @ \ {t}]
       /\ ipc' = [ipc EXCEPT ![s] = AfterKey(todo[s] \ {t}, results[s] \cup {t})]
  /\ UNCHANGED <<envVars, faults, queueNormalize, queueComposite, frames, latest,
                 announced, storeVars>>

\* DWD only: a download that fails is left for the next poll.
IngestSkip(s) ==
  /\ s \in SkippingSources
  /\ ipc[s] = "fetch"
  /\ Fault
  /\ \E t \in todo[s] :
       /\ IsNewest(t, todo[s])
       /\ todo' = [todo EXCEPT ![s] = @ \ {t}]
       /\ ipc' = [ipc EXCEPT ![s] = AfterKey(todo[s] \ {t}, results[s])]
  /\ UNCHANGED <<results, envVars, redisVars, storeVars>>

\* RPUSH one result to queue:normalize; results are in fetch order, newest first.
IngestPush(s) ==
  /\ ipc[s] = "push"
  /\ \E t \in results[s] :
       /\ IsNewest(t, results[s])
       /\ queueNormalize' = Append(queueNormalize, <<s, t>>)
       /\ results' = [results EXCEPT ![s] = @ \ {t}]
       /\ ipc' = [ipc EXCEPT ![s] = IF results[s] = {t} THEN "idle" ELSE "push"]
  /\ UNCHANGED <<todo, envVars, faults, queueComposite, frames, latest, processed,
                 announced, storeVars>>

\* The poll throws (a failed download, GDAL or Redis call) and start() catches
\* it, or the process dies and restarts: both lose the locals of the poll.
IngestAbort(s) ==
  /\ ipc[s] # "idle"
  /\ Fault
  /\ ipc' = [ipc EXCEPT ![s] = "idle"]
  /\ todo' = [todo EXCEPT ![s] = {}]
  /\ results' = [results EXCEPT ![s] = {}]
  /\ UNCHANGED <<envVars, redisVars, storeVars>>

IngesterWork(s) ==
  \/ IngestList(s)
  \/ IngestNormalize(s)
  \/ IngestMark(s)
  \/ IngestPush(s)

IngesterNext(s) == IngesterWork(s) \/ IngestSkip(s) \/ IngestAbort(s)

=============================================================================
