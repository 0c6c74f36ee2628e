----------------------------- MODULE FrameIndex -----------------------------
(***************************************************************************)
(* What the workers of the frame pipeline share: the Redis keys, the       *)
(* MBTiles store on the shared volume and the upstream radar feeds.  Every *)
(* worker is a process of its own (docker-compose.yml) and touches this    *)
(* state one Redis command, or one file, at a time; the worker modules     *)
(* EXTEND this one and FramePipeline composes them.                        *)
(*                                                                         *)
(* A frame is a pair <<source, timestamp>>.  A timestamp is a natural      *)
(* number on the scale of the clock `now'; the pixels of a frame are       *)
(* abstracted to the set of zoom levels on which it has a tile at all.     *)
(***************************************************************************)
EXTENDS Integers, Sequences, FiniteSets

CONSTANTS
  RasterSources,   \* sources tiled by the tilers: mrms*, mrms*-type, dwd
  WmsSources,      \* sources that write their own tiles: {"ec"} or {}
  TypeTwin,        \* the type source each WMS source also writes: ec -> ec-type
  TypeSources,     \* the sources whose name ends in "-type"
  Composites,      \* the composite targets: composite, composite-na, ...
  Members,         \* [Composites -> sets of sources]
  Echo,            \* [Frame -> sets of zooms]: where a frame has any data
  NoFrame,         \* the job of a worker that has none
  ZoomMin, ZoomMax,
  Retention,       \* RETENTION_HOURS
  ListWindow,      \* age of the oldest key a listing of today+yesterday returns
  MaxTime,         \* bound on the clock
  MaxFaults        \* bound on crashes and failed calls

Sources == RasterSources \cup WmsSources \cup {TypeTwin[w] : w \in WmsSources}
Names   == Sources \cup Composites
Times   == 1..MaxTime
Zooms   == ZoomMin..ZoomMax
Frame   == Sources \X Times

ASSUME ConstantsAssumption ==
  /\ RasterSources \cap WmsSources = {}
  /\ TypeTwin \in [WmsSources -> TypeSources \ RasterSources]
  /\ TypeSources \subseteq Sources
  /\ Sources \cap Composites = {}
  /\ Members \in [Composites -> SUBSET Sources]
  /\ Echo \in [Frame -> SUBSET Zooms]
  /\ NoFrame \notin Frame
  /\ ZoomMin \in Nat /\ ZoomMax \in Nat /\ ZoomMin <= ZoomMax
  /\ Retention \in Nat /\ ListWindow \in Nat
  /\ MaxTime \in Nat /\ MaxFaults \in Nat

\* The processed set forgets a key after 2 x RETENTION_HOURS; the default of
\* 24 hours covers the two days an S3 listing reaches back.
ASSUME RetentionAssumption == ListWindow <= 2 * Retention

VARIABLES
  now,             \* the wall clock, in units of the frame timestamps
  upstream,        \* [Sources -> timestamps the radar feed has published]
  faults,          \* crashes and failed calls so far
  queueNormalize,  \* list queue:normalize, a sequence of frames
  queueComposite,  \* list queue:composite, a sequence of frames
  frames,          \* sorted sets frames:{name}
  latest,          \* strings latest:{name}, 0 when the key does not exist
  processed,       \* sets processed:{source}
  announced,       \* timestamps published on channel new-frame
  tiles,           \* tiles[n][t]: zooms present in {n}/{t}.mbtiles, {} = no file
  rasters,         \* the GeoTIFFs under data/normalized
  readCache        \* the compositor's open frame files: {} while the file is
                   \* linked, else what the unlinked file holds

envVars   == <<now, upstream>>
redisVars == <<queueNormalize, queueComposite, frames, latest, processed, announced>>
fileVars  == <<tiles, readCache>>
storeVars == <<fileVars, rasters>>

FilesTypeOK ==
  /\ tiles \in [Names -> [Times -> SUBSET Zooms]]
  /\ DOMAIN readCache \in SUBSET Frame
  /\ \A f \in DOMAIN readCache : readCache[f] \in SUBSET Zooms

IndexTypeOK ==
  /\ now \in 0..MaxTime
  /\ upstream \in [Sources -> SUBSET Times]
  /\ faults \in 0..MaxFaults
  /\ queueNormalize \in Seq(Frame)
  /\ queueComposite \in Seq(Frame)
  /\ frames \in [Names -> SUBSET Times]
  /\ latest \in [Names -> Times \cup {0}]
  /\ processed \in [Sources -> SUBSET Times]
  /\ announced \in SUBSET Times
  /\ FilesTypeOK
  /\ rasters \in SUBSET Frame

IndexInit ==
  /\ now = 0
  /\ upstream = [s \in Sources |-> {}]
  /\ faults = 0
  /\ queueNormalize = <<>>
  /\ queueComposite = <<>>
  /\ frames = [n \in Names |-> {}]
  /\ latest = [n \in Names |-> 0]
  /\ processed = [s \in Sources |-> {}]
  /\ announced = {}
  /\ tiles = [n \in Names |-> [t \in Times |-> {}]]
  /\ rasters = {}
  /\ readCache = [f \in {} |-> {}]

-----------------------------------------------------------------------------
\* The n newest members of a set of timestamps: sort().reverse().slice(0, n).
NewestOf(S, n) == {t \in S : Cardinality({u \in S : u > t}) < n}

IsNewest(t, S) == t \in S /\ \A u \in S : u <= t

InQueue(f, q) == \E i \in DOMAIN q : q[i] = f

Fault == faults < MaxFaults /\ faults' = faults + 1

\* Frames older than this are purged by the cleanup worker.
Expired(t) == t <= now - Retention

\* Keys older than this are forgotten by the processed set.
Forgotten(t) == t < now - 2 * Retention

\* Mutation: every batch starts a fresh file.
WriteBatchFresh(n, t, zs) ==
  /\ tiles' = [tiles EXCEPT ![n][t] = zs]
  /\ UNCHANGED readCache

\* tileStore.writeBatch: INSERT OR REPLACE into the frame's file, which is
\* created only when there is a tile to write.
WriteBatch(n, t, zs) ==
  /\ tiles' = [tiles EXCEPT ![n][t] = @ \cup zs]
  /\ UNCHANGED readCache

\* tileStore.deleteFrame: unlink the frame's file if it exists.  It closes the
\* handle of the calling process only; one the compositor has open goes on
\* reading the unlinked file.
DeleteFrame(n, t) ==
  /\ tiles' = [tiles EXCEPT ![n][t] = {}]
  /\ readCache' = [f \in DOMAIN readCache |->
                     IF f = <<n, t>> /\ readCache[f] = {} THEN tiles[n][t]
                     ELSE readCache[f]]

\* Mutation: the ZADD is missing.
ZaddMissing(n, t) == UNCHANGED frames

Zadd(n, t) == frames' = [frames EXCEPT ![n] = @ \cup {t}]

SetLatest(n, t) == latest' = [latest EXCEPT ![n] = t]

\* Mutation: the SADD is missing.
MarkMissing(s, t) == UNCHANGED processed

MarkProcessed(s, t) == processed' = [processed EXCEPT ![s] = @ \cup {t}]

\* Time passes and some of the radars publish a frame of the new instant; a
\* radar left out of S skips it, a radar left out for long has stalled.
Tick ==
  /\ now < MaxTime
  /\ now' = now + 1
  /\ \E S \in SUBSET (RasterSources \cup WmsSources) :
       upstream' = [s \in Sources |->
                      IF s \in S THEN upstream[s] \cup {now + 1} ELSE upstream[s]]
  /\ UNCHANGED <<faults, redisVars, storeVars>>

=============================================================================
