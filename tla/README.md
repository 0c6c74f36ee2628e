# A formal model of RadrView

TLA+ specifications of RadrView's own concurrent logic, TLC configurations that
check them on small instances, and TLAPS proofs of what matters most. Paths are
relative to the repository (`src/...` in this text is the repository's `src/`
directory).

## 1. The system and its parts

RadrView ingests weather radar from several national feeds, cuts it into map
tiles, composites them, and serves them with live NEXRAD scans and aviation
summaries. It is a set of Node processes (`docker-compose.yml`) that share one
Redis and one data volume. Within a process everything happens on one event
loop, so state can change only across an `await`; between processes every Redis
command and every file operation interleaves.

| Component | State it keeps | Operations | Talks to |
|---|---|---|---|
| Raster ingesters `src/ingest/{base,mrms,dwd}.ts` | `processed:{source}`, GeoTIFFs, locals of a poll | poll, markProcessed, push | feeds, `queue:normalize` |
| EC ingester `src/ingest/ec.ts` | `frames:`, `latest:`, `processed:` of `ec` and `ec-type` | poll: fetch, writeBatch, record, mark, push | WMS, tile store, `queue:composite` |
| Tilers (two) `src/pipeline/tiler.ts` | the frame in hand | startup sweep, BLPOP, tile per zoom, record, push, failure path | both queues, tile store |
| Compositor `src/pipeline/compositor.ts` | open file handles, locals of a composite | drain, read `latest:`, list tiles, merge, record, publish | tile store, channel `new-frame` |
| Cleanup `src/pipeline/cleanup.ts` | none | purge old frames, prune `processed:` | Redis, tile store |
| Tile store `src/storage/*` | one MBTiles file per frame, a cache of open handles | writeBatch, listTiles, readTile, deleteFrame | disk |
| NEXRAD scan ingester `src/nexrad/main.ts`, `redis-scan-store.ts` | `latestVolume`, `nexrad:scan:*`, `nexrad:status:*` with TTLs, `nexrad:active-stations` | poll in batches, fetchLatest, refreshScanTTL | archive bucket, Redis |
| Live sweeps `chunk-poller.ts`, `sweep-manager.ts`, `nexrad-ws.ts` | `subscribed`, `seenKeys`, viewports, sweep state | subscribe/unsubscribe, poll cycle, chunk, wedge broadcast | chunk bucket, browsers |
| Scan provider and NEXRAD tiles `src/server/nexrad-scan-provider.ts`, `nexrad-tile.ts` | active stations, scan, miss and tile caches | refresh, look up, render | Redis |
| Tile endpoint `src/server/index.ts`, `overzoom.ts`, ... | a cache of rendered tiles | request handlers | store, Redis |
| Situation API `src/situation/**` | table of clients, `situation:*` keys, `cells:*` cache, the cell detector's raster | on `new-frame` rebuild situations and broadcast, subscribe, ping, detect cells | Redis, store |
| Wind fetcher, basemap, metrics, upscaler | one file or key each | periodic or on demand | disk, HTTP |

What is hard about it:

* **Interleaving.** Two tilers, an ingester per feed, the compositor and the
  cleanup worker act on the same queues, index entries and files.
* **Order.** Frames are queued newest first and each tiler overwrites
  `latest:{source}`; the compositor reads the pointers one by one while they move.
* **Failure between two commands.** A key is marked processed before its frame is
  queued; BLPOP forgets the message before the work is done; HSET and EXPIRE are
  two commands; docker restarts whatever dies.
* **Forgetting.** The processed set is pruned while the feed still lists two
  days; scans expire unless they are refreshed.
* **Work that outlives its timeout.** `withTimeout` rejects but does not stop the
  fetch it gave up on.
* **Subscriptions that change in the middle of a poll** of the live chunks.
* **Handlers nobody waits for.** Updates of the situations overlap and write the
  same keys command by command; queries for cells overlap in the fields of one
  object.
* **Caches over caches.** A tile passes four of them, each with an age of its own
  and keys that say less than what the value depends on.

What makes each part correct, in a sentence: every raster frame is taken up and
filed at most once and lost only by a fault; pointers and triggers never outrun
the index; what is drawn is whole; what is queued is worked off and what is old
goes away; the stored scan is never behind what its ingester believes and never
dies while that ingester lives; subscriptions are the union of the viewports and
wedges arrive once and in order; the keys of an airport belong together again
after every undisturbed update and subscribers know what the keys say; and a
while after the data last changed every tile shows them.

## 2. Modules

```
FrameIndex ── shared Redis keys, tile files, clock, feeds
 ├─ RasterIngester   MRMS and DWD polls
 ├─ WmsIngester      EC polls
 ├─ Tiler            the tiler workers
 ├─ Compositor       the compositor
 └─ Cleanup          the cleanup worker
FramePipeline ── EXTENDS the five; composition, properties, fairness
 ├─ FrameLedger      what the pipeline promises about a frame (abstract)
 ├─ MCFramePipeline  instances for TLC
 └─ FramePipelineProofs ── FrameRecordProofs ── FrameLedgerProofs ── FrameTilesProofs
ScanStore ── Redis keys of the scans, TTLs, archive bucket
 └─ ScanIngester ── NexradScans   composition, properties, fairness
     └─ NexradScansProofs
ChunkPoller ── LiveSweeps         viewports, subscriptions, polls, wedges
 └─ LiveSweepsProofs
RadarAnalysis ── severities, ramp status, trends, rings
 ├─ AviationSockets ── WatchlistUpdater   clients and pings; updates and their keys
 └─ CellDetector                          queries for storm cells
SituationApi ── EXTENDS WatchlistUpdater, CellDetector; composition, properties
 ├─ MCSituationApi                        instances for TLC
 └─ SituationApiProofs
TileServer                                the tile endpoint and its caches
 ├─ MCTileServer                          instance for TLC
 └─ TileServerProofs
```

Operators named `... Mutation: ...` in their comment are deliberately wrong
variants (a dropped filter, an off-by-one, a missing reset). They take no part in
any specification; substituting one for the operator it follows must break the
property it is paired with, which shows that the property depends on that line.

### The frame pipeline

A frame is a pair of a source and a timestamp; its pixels are reduced to the set
of zoom levels on which it has any tile (`Echo`), which is all that "complete",
"partial" and "deleted" need.

| Module | Actions and the code they stand for |
|---|---|
| `FrameIndex` | variables for `queue:normalize`, `queue:composite`, `frames:*`, `latest:*`, `processed:*`, `new-frame`, the MBTiles files, the compositor's open handles; `WriteBatch` (INSERT OR REPLACE: appends), `DeleteFrame` (unlink; a handle another process holds still reads the old file), `Tick` (time passes, feeds publish) |
| `RasterIngester` | `IngestList` (list, slice, SISMEMBER filter), `IngestNormalize` (download and GDAL), `IngestMark` (SADD, then `results.push`), `IngestPush` (RPUSH per result), `IngestSkip` (DWD tolerates a failed download), `IngestAbort` (the poll throws, or the process dies: its locals are gone) |
| `WmsIngester` | one action per Redis command of the EC loop body, `WmsWrite`/`WmsWritePartial` for the tiles (a failed layer is skipped), `WmsAbort` |
| `Tiler` | `TilerStart`/`SweepCheck`/`SweepDelete`/`SweepDone`/`SweepAbort` for `cleanupPartialDirs`, `TilerPop` (BLPOP), `TileZoom`/`TileZoomSkipped`, `TilerZadd`, `TilerLatest`, `TilerPush`, `TilerDiscard` (unlink the GeoTIFF), `TilerFail` (the catch block), `TilerCrash` |
| `Compositor` | `CompPop`, `CompDrain`, `CompDrained` (BLPOP, then LPOP until empty), `CompGet` (`latest:` per source), `CompList` (tiles through the handle cache), `CompSkip`/`CompWrite`/`CompZadd`/`CompLatest` per target, `CompPublish`, `CompAbort`, `CompCrash` |
| `Cleanup` | `CleanScan` (zrangebyscore), `CleanDelete`, `CleanZrem`, `CleanPrune`, `CleanAbort` |

`FrameLedger` is the abstract promise: each frame of a raster feed goes
unseen → held → filed → gone, at most one is filed at a time, and a held frame
is lost only in a step that is a fault. `FramePipeline!LedgerRefined` maps the
pipeline's queues, locals and sets to those stages.

### The scan path

`ScanStore` has the Redis commands of `redis-scan-store.ts`: `HsetScan`,
`ExpireScan` and `SaddActive` one by one, `WriteStatus` (HSET and EXPIRE of the
status) and `RefreshScanTTL` (EXPIRE of scan and status) as pairs, and
`AgeStore`, in which keys expire. `ScanIngester` runs `pollAllStations`
(`PollBatch`, `PollGiveUp`) and `fetchLatest` command by command (`FetchRefresh`,
`FetchList`, `FetchStale`, `FetchRecheck`, `FetchTouch`, `FetchDownload`,
`FetchHset`, `FetchExpire`, `FetchSadd`, `FetchRecord`, `FetchFail`), and the
process itself (`IngesterCrash`, `IngesterRestart`). A fetch runs in a slot, so
that one the poll has given up on can overlap with the next one of its station;
commands of one process go over one connection and keep their order (`ahead`).

### Live sweeps

`ChunkPoller`: `PollCycle` and `PollBatch` are the loop, `PollList`,
`PollListFail`, `PollEmit`, `PollLost` and `PollDone` the poll of one station with
its awaits between them, `Resubscribe` the pair of subscribe and unsubscribe.
`LiveSweeps`: `Connect`, `Viewport` and `Close` of a browser, with
`UpdateSubscriptions` as part of each, and `HandleChunk` with the broadcast of a
wedge as part of `ChunkEmitted`. `received`, `merged` and `faults` are history
variables: no action of the code depends on what they record.

### The situation API

`AviationSockets` is `ws/aviation.ts`: `Connect`, `Subscribe`, `Pong`, `Hangup` and
`Close` of a socket, `PingAll` and `Broadcast`, over the table `clients` that has one
entry per id, whatever socket sent it. `WatchlistUpdater` is the handler of a
`new-frame`, one action per Redis command except as named below: `SyncRead`, `SyncAdd`, `SyncRemove` for
`syncWatchlist`, `ListWatched`, `ReadLatest`, and per airport `SampleAirport`,
`ReadPrevious`, `CompareAirport`, `StoreSituation`, `StorePrevious`, `RecordHistory`;
then `Summarise` and `Tell`. Handlers run in slots and interleave. Three actions
merge commands: `ReadLatest` (the pointer and the age of the data), `RecordHistory`
(ZADD and ZREMRANGEBYSCORE), `Summarise` (the GETs of the regions' airports and the
SET); and `NewFrame` merges the compositor's write, SET and PUBLISH, so that no handler or
query reads the new composite or its pointer before it is announced, as one of the
code may. `RegionAirports` are the airports of
`config/regions.ts`, any subset of those that can be watched. Each of the
three `catch` blocks is an action (`HandlerFails`, `AirportFails`,
`SummariseFails`). `RadarAnalysis` computes with tenths of a dBZ, since the code
rounds some values to whole dBZ and compares others unrounded.

`CellDetector` is one query of `/overlays/cells.geojson` up to each await: `Detect`,
`Hit` or `Miss` (which sets place and size of the shared raster and reads the first
tile), `ReadTile` (each further one), `Stitch` (its reflectivities), `Trace` (the external tools, told where the raster lies),
`Measure` (which reads the shared fields again), `TraceFails`. What the composite of a
timestamp shows (`shows`) is one of the `Echo`es, and the compositor may write it
again under the same timestamp between any two tiles of a query (`Drawn`, part of
`Announce`); `writings` records what it has shown. An echo is what the file holds
after a write, tiles kept from an earlier one included. The raster is a row
of tiles of a few pixels, with the 4-connected cells, the bounding boxes and their
rounding to pixels computed as the code does.

`SituationApi` composes them into the process, which `Restart` may kill.

### The tile server

`TileServer` follows a request for one tile of one frame through the endpoint:
`Ask` (no cached answer), `LookUp` and `ReadScan` per station (the scan and miss
caches, with the await between question and answer), `RenderTile` and `EncodeTile`
(the cache of rendered tiles: under a key of layer and newest timestamp it holds the
tile as it was `Rendered`, with the layer and scans of the request that rendered it,
empty ones included), `ReadFrame` (the
fall-through to the composite, with overzoom and the handle that outlives its
file), `Colorize` (the answer is cached and sent). `OtherTile` stands for requests of other tiles, which
share the caches of scans. What the ingester, the compositor, cleanup and the
fifty-first open handle do are the data steps `StoreScan`, `ExpireScan`,
`WriteFrame`, `DeleteFrame`, `CloseHandle`. Picture data are reduced to what was
drawn: which layer, which volume of each station, or which content of the file.
Which volumes have nothing to draw on the tile in a layer is a constant
(`DryVolumes`).

## 3. What is checked

The configuration of a run is the `.cfg` file `PROJECT.json` names for it: `Pipeline*.cfg` are the passing
instances of the frame pipeline; `LatestRegress.cfg`, `SweepLive.cfg`, `DrainAcrossPools.cfg` and
`HungFetch.cfg` the ones of the four counterexamples.

| Run | Instance | What it shows |
|---|---|---|
| `tilers` | DWD, 2 timestamps, 2 zooms, 2 tilers, 1 fault, retention 1 | types; a frame is queued once and held by one worker (`SinglePlacement`); its GeoTIFF is there (`RasterForWork`) and, without the fault, no other GeoTIFF is (`RastersUsed`); pointers and triggers never outrun the index (`LatestRecorded`, `TriggersRecorded`); without the fault a recorded frame has all its tiles (`UnsweptComplete`) and the compositor never draws half of one (`DrawnWhole`) |
| `horizon` | MRMS, 4 timestamps, 1 tiler, 1 fault, no compositor | the clock runs past the retention and past the pruning horizon: no frame is fetched again (`SinglePlacement`, `Remembered`), and the pipeline implements `FrameLedger` (`LedgerRefined`) |
| `ec` | EC and its type twin, both composite pools, 1 fault | `LatestRecorded`, `TriggersRecorded` on the other way into the index |
| `live` | MRMS, 2 timestamps, 1 tiler, 1 fault, fair workers | queues drain (`QueueDrains`), frames marked processed are filed when nothing fails (`ProcessedFiled`), expired ones purged (`ExpiredPurged`), the latest frame is composited (`LatestComposited`) |
| `scans` | 2 stations in 2 batches, 3 units of time, 1 fault, one fetch of a station at a time | `ScanNotBehind`, `UnchangedIsCurrent`, `ActiveBacked`, `ScanMortal`, `KeptAlive`, and that a fresh volume ends up in Redis for good (`FreshStored`) |
| `sweeps` | 1 station, 2 browsers, 2 volumes of 3 chunks, 1 fault | `SubscriptionsMatch`, `WedgesInOrder`, `WedgeDelivered` |
| `situation` | 2 airports, one of them of no region, 2 sockets, 2 ids, 2 overlapping handlers, 3 skies, 1 failed call or restart; 2 query slots, 2 tiles, 2 frames, 2 writings | a client with an id of its own stays in the table and is sampled by the next undisturbed update (`WatchedSampled`); without overlap or failure what it was last told is what the key shows (`ToldIsCurrent`); after an undisturbed update all keys of an airport are of one frame, whatever came before, and the summary lists it if it is of a region and not clear (`KeysAgree`); nobody who answers pings is cut off (`PongersStay`); cells are answered, fresh or cached, where the writings of the composite have them and not below their peak unless queries with other keys overlapped (`CellsInPlace`) |
| `tiles` | 2 stations, 2 volumes each, one of them empty, 2 layers, 2 overlapping requests, 2 changes of the data | seven ticks after the last change everything answered is drawn from the newest scan, or from the file where that scan is empty (`ScansSettle`), and the file is read as it is unless it was deleted while open (`FrameSettles`); a request not answered from the endpoint's own cache gets a tile rendered in its layer, also when another request rendered and cached it (`LayerKept`) |

Four runs exhibit a disagreement between the code and what the repository says
of it; TLC finds the trace:

| Run | Property | What happens |
|---|---|---|
| `latest_regress` | `LatestNeverRegresses` | `docs/architecture.md:244` calls `latest:{source}` the most recent timestamp. A poll queues its batch newest first and the tiler sets the pointer to each frame it finishes, so the pointer ends on the oldest of the batch. |
| `sweep_live` | `SweepOnlyInterrupted` | A starting tiler takes the file the other tiler is writing for a leftover and deletes it. |
| `drain_pools` | `LatestComposited` | The compositor drains the queue to its last trigger, and the type trigger behind a dBZ trigger hides it: the dBZ composite of that frame is not built. |
| `hung_fetch` | `UnchangedIsCurrent` | A fetch given up by the poll runs on and overwrites a newer scan with an older volume; a poll that lists in between refreshes the older scan as current. |

Bounds and why they are enough. Retention is 1 and the listing window 2 so that
within two to four clock units a frame is listed, tiled, expired, purged and
forgotten; two timestamps give a batch, an order and a newest frame, four give
the pruning horizon. Two tilers give every race between workers; they are
interchangeable, hence the symmetry set of `tilers`, which has no temporal
property. One fault can strike at any step of any worker; a second adds only
repetitions of the first, except in `hung_fetch`, where giving up is one fault
and so is the second give-up. In `scans` one unit is a quarter of an hour: a scan's TTL
and the staleness limit are two units (30 min), and a poll of all stations (at
most 16 batches of 45 s) fits in one, which is why time passes only when every
station has been visited (`TimeMayPass`); a crashed process does not hold the
clock. In `sweeps` a volume has a header chunk and two chunks of the base sweep,
and two volumes give the change from one to the next in mid-poll. `MaxKeys` (the
code's `max-keys=200`) is large enough for every chunk of the run: the code assumes
that it is, since a station with more live keys would list only the first 200, in
key order, and never its newest; that `WedgeDelivered` depends on it is what the
mutation `PollListShort` shows. Deadlock is not checked because clock and feeds are bounded: a run
that has used them up really stops.

In `situation` the states are divided into five scenes (`MCSituationApi`), because
the whole product is out of reach: `clients` (both sockets and ids in every order,
updates one at a time and without failure; with a second composite, one
subscription), `frames` (one subscribed socket, overlapping and failing
updates, up to three composites, one of them possibly
written again; the socket stays when there are three), `regions`
(one socket that watches an airport of a region, one of none, or both), `restart`
(clients subscribe again to a process that was killed at any step of an update and
finds in Redis what the last one left) and `cells` (overlapping queries, while the
latest composite changes to another frame or is written again with other contents;
the handlers of the change share nothing with them and stay at their first step).
Between them subscriptions, frames, failures and ticks number at most four, and
five (`MaxEvents`) in `restart` and, with one composite, in `clients`: two updates
after a disturbance, which is what recovery takes, and before the restart a client
and an update to lose. The three skies (two of them each in `clients` and `frames`)
are dry, hail without reflectivity to match, and a maximum whose rounding crosses a
threshold. One unit of the clock is past the limit for degraded data. Two
queries overlap and a third meets what they stored; two tiles let a composite be
written again between one tile and the next. The run has 0.7 million states
and takes two to three minutes.

In `tiles` one tick is a minute; entries live 120 s, 60 s and 5 s, so that an entry
may end in the tick its time falls in and is gone by the next, and a request is
assumed to be answered within a minute. The active stations are refreshed every
30 s, hence at least once a tick. `Settling` is 7. Five is what the ages seem to add
up to: the list of stations, a scan, a request that holds it and two minutes of
cached answer. With 4 TLC finds a stale tile and with 5 none, as long as two
requests overlap; with three it finds one at 5 as well: a request falls through to
the file for an empty tile that a second one stored from outdated scans, and a
third then replaces that tile by one that is not empty. Seven is enough for any
number of requests, which is what the proof shows. Two requests are symmetric. Two scenes
(`MCTileServer`) divide the states: in `ages` both requests are for the layer in which
one volume is empty, and the changes settle; in `layers` they are for either layer,
within two minutes of a change. Redis is taken to
answer and no cache to overflow except that of the handles.

Fairness. `docker-compose.yml` restarts every worker (`restart: unless-stopped`),
each worker is an endless loop and each await in it is a Redis call or has its
own timeout, so each worker keeps taking steps (`WF` per worker). Nothing is
assumed of the clock, the feeds, the browsers or the faults. In `LiveSweeps` the
poll loop is a timer and each listing or download has a timeout. The liveness
properties that a fault may defeat say so (`faults > 0`); `QueueDrains`,
`ExpiredPurged` and `FreshStored` hold with the fault.

## 4. What is proved

Eight modules hold proofs that TLAPS checks. Each result holds for every value of
the constants: any set of sources, stations, airports, clients or layers, any number
of tilers, handlers, queries and overlapping requests, any bound. Every invariant that
a passing run checks is also proved here, and so are the refinement `LedgerRefined`
and the action property `KeptAlive`.

### The frame pipeline

`FramePipelineProofs` proves `TypeCorrect`, `SinglePlacementHolds` and
`RememberedHolds`. The inductive invariant is `Placement == SinglePlacement /\
Remembered` together with `TypeOK`. `SinglePlacement` is not inductive alone: that a
poll does not fetch again what is queued follows only if whatever is past
`markProcessed` is still in the processed set or too old to be listed, which is
`Remembered`; that in turn survives the pruning only because a listing reaches back no
further than the processed set remembers. This last fact is `RetentionAssumption`
(`ListWindow <= 2 * Retention`), the one assumption the code's correctness takes
from its configuration: with `RETENTION_HOURS` below 24 a listing of today and
yesterday could return a forgotten key. `ListingIsFresh` is the lemma that uses
it; the rest is one lemma per worker.

`FrameRecordProofs` proves the order in which a frame is recorded.

* `LatestRecordedHolds` and `TriggersRecordedHolds`, by `RecordInv`: a worker between
  two of its Redis commands has the index entry its next command speaks of
  (`TilersRecorded`, `TargetRecorded`, `WmsRecorded`), and cleanup removes an entry
  only once the retention has overtaken it (`PurgesExpired`).
* `RasterForWorkHolds` and `RastersUsedHolds`, by `RasterInv` on top of `Placement`:
  the tiler that unlinks a GeoTIFF does not take it from under another because the
  frame is in one place only.

`FrameLedgerProofs` proves `LedgerHolds`, the refinement `Spec => LedgerRefined`: each
step of the pipeline is a step of `FrameLedger` or leaves it unchanged. The mapping
alone does not carry the proof: a frame that is filed could be tiled a second time if
it were held again. `NamedSettled` says it cannot (whatever has a name, in the index,
as a pointer, in the compositor's pick or open files, or on the cleanup worker's
list, is done with and nowhere held), and `StepFlow` says what any step may do to a
frame; `NamedSettledHolds` states the first as a theorem of its own.

`FrameTilesProofs` proves `UnsweptCompleteHolds` and `DrawnWholeHolds`. Without a fault,
a frame that no tiler is at has all of its tiles or none (`FramesWhole`), a tiler has
written every zoom level below its own (`TilersAhead`), what EC is about to record is
written (`WmsWritten`), and an open handle of a deleted file was opened on a whole
frame (`HandlesWhole`). All of `Placement`, `RecordInv` and `NamedSettled` is needed:
it is because the compositor opens frames by name only, and no named frame is tiled
again, that it cannot see half of one. `TwinAssumption` is used for the type tiles of
EC, which `ec.ts` collects from the same responses as the dBZ tiles.

### The scan path

`NexradScansProofs` proves `TypeOKHolds` and `ScanMortalHolds` of every behaviour, and

* `ScanNotBehindHolds`, `UnchangedIsCurrentHolds`, by `OrderInv`, and
* `ActiveBackedHolds`, `KeptAliveHolds`, by `AliveInv`,

of the behaviours in which fetches of one station do not overlap (`[]NoOverlap`). The
hypothesis cannot be dropped: the run `hung_fetch` is a counterexample to
`UnchangedIsCurrent` without it, and TLC finds one to each of the others as soon as a
station has two slots. `PatientPoll` says when it holds: whenever no poll gives up on
a fetch within the 45 s it has. `OrderInv` relates the bucket, the volume a fetch is
about, what the ingester remembers, what Redis holds and what the status shows.
`AliveInv` adds that a station visited in this unit of time has a scan that outlives
it. The last two theorems assume `ScanTTL >= 2`, in quarters of an hour: `SCAN_TTL`
is 1800 s, which is exactly two.

### Live sweeps

`LiveSweepsProofs` proves `SweepTypeCorrect`, `SubscriptionsMatchHolds` (by
`Subscriptions`: only connected browsers have a viewport) and `WedgesInOrderHolds` (by
`Ordering`: a poll's chunks are in key order and newer than what it has processed, and
no browser has a wedge that is not processed).

### The situation API

`SituationApiProofs` proves

* `TypeOKHolds`, which for the cells and maxima is arithmetic: `UpdaterInv` and
  `CellInv` say that what a handler or query holds between two awaits is something
  the code can compute with (`JobSound`, `QuerySound`).
* `PongersStayHolds`, by `PongInv`: an entry that has not answered is of a socket that
  still owes its pong, or of one that uses another id by now (`Vouched`).
* `WatchedSampledHolds`, by `TableInv` and `WatchInv`: while updates are undisturbed, a
  handler has every airport it saw watched still to do, in hand, or sampled (`Covers`),
  and it saw every settled client's (`Served`).
* `KeysAgreeHolds`, by `AgreeInv`: the same for the keys of each airport; what an
  earlier, disturbed update left behind is not assumed to agree, but overwritten
  before the handler is through.
* `ToldIsCurrentHolds`, by `SaidInv` and `CurrentInv`: what a subscriber was told is
  what is stored, or a message about to go out says it, and what is about to be stored
  changes nothing that is not announced (`Gathered`, `Knows`).
* `CellsInPlaceHolds`, by `SeenInv` and `PlaceInv`. `SeenInv`: each tile a query has read
  showed what some writing of its composite had there, and the writings of a composite
  only grow; so whatever cells were computed from, now or before they were cached, is
  one of the `PrintsOf` their key, and stays one. `PlaceInv`: of two queries in flight with two keys both know
  that they clashed (`Clashing`), so that a query that did not finds the detector's
  fields as it set them at each of its awaits (`Placed`), although queries with the
  same key may have set them again. The rest is geometry: cells partition the
  mask and no two of them touch (`OneCell`, `CellsApart`), a raster in its own place
  puts every pixel where it is (`FootprintUnder`), and a bounding box rounded to
  pixels covers the cell (`PeakSeen`).

Assumed of the constants: a sky has finitely many echoes (a tile has finitely many
pixels), reflectivities are natural numbers, and the value for "no key" is none of the
values stored (`UpdaterAssumption`, `CellAssumption`, `ValueAssumption`). Maxima and
minima are `CHOOSE`s; that finite sets of integers have them (`MaxExists`) is shown by
well-foundedness of the subset relation rather than by induction over the set.

### The tile server

`TileServerProofs` proves `TypeOKHolds` and `LayerKeptHolds` by `ServerInv` (every tile
in the cache of rendered tiles was rendered in the layer of the key it is stored
under, whichever request stored it), and the two
bounds on staleness: `FrameSettlesHolds` for `Settling >= 4` by `FrameInv`, and
`ScansSettleHolds` for `Settling >= 7` by `FreshInv`. Each conjunct of these bounds the
time since the last change by the age of whatever still shows the data before it: the
list of stations and the scan and miss caches (`ProviderFresh`), the scans a request
has taken (`ScansFresh`), an empty tile it may store (`DryFresh`), what it has drawn or
fallen through to (`PictureFresh`, `FallFresh`), the cached answer (`AnswerFresh`). It
takes the assumption that no layer of a radar is named like the frame itself.

### Only model-checked

`QueueDrains`, `ProcessedFiled`, `ExpiredPurged`, `LatestComposited`, `FreshStored` and
`WedgeDelivered` are liveness properties under fairness, which the prover does not
reach. The four counterexamples stay with TLC by their nature. That the operators of
`RadarAnalysis` compute what the thresholds of the code say (severities, ramp status,
trends) is not a theorem; the proofs use no more of them than their types and that
rounding is monotone.

## 5. Abstractions, and behaviour worth knowing

* The order in which the compositor reads its pointers and the cleanup worker
  visits names is left open; the code goes through fixed lists. The two
  `writeBatch` calls of an EC timestamp are one step. The compositor's cache of
  50 handles never overflows in the model, and a handle is opened at the first
  listing.
* A cleanup visit that finds nothing changes nothing and is left out.
* The keys of live chunks sort by the time of publication, as the key format
  documented in `chunk-poller.ts` has it.
* The seen keys a poll works with are its own copy in the model and put back at its
  end; in the code it shares the set with the table unless a subscription has
  replaced it meanwhile. Only the next poll of the station reads the table, so the
  two do not differ. Stopping the poller at shutdown is left out: it ends the run.
* The refresh at the start of a fetch that fails is retried by a later poll of
  the same quarter of an hour.
* Some commands that follow each other are one step: HSET and EXPIRE of a status,
  the two EXPIREs of a refresh, the reads and the SET of a summary, ZADD and
  ZREMRANGEBYSCORE of a history entry, the listing of a feed with its SISMEMBERs
  (`IngestList`), SMEMBERS and SREMs of the processed keys (`CleanPrune`, key by key,
  with the cutoff of the moment, which the code takes once per cycle,
  `cleanup.ts:14`), the reads of one zoom level after the other
  (`ReadFrame`, `overzoom.ts:61-71`), and in the tile server, which only reads
  scans, HSET and SADD (`StoreScan`, which takes a newer volume; an older one, as
  `hung_fetch` shows it, comes after `ExpireScan` only).
* A GeoTIFF whose unlink fails stays, since `tiler.ts:258` swallows the error; the
  model takes the unlink to succeed.
* A subscription message is taken to be well formed with a non-empty id. In the code
  one with a malformed watchlist changes the id of its socket before it throws
  (`aviation.ts:41`, caught at 58), and one without an id, or with an empty one,
  makes an entry that no pong vouches for and no close removes (lines 64 and 70
  test the id for truth), so that `pingAll` ends it.
* In an update the order of the airports is left open, and the rings of an airport
  are read in one step, although the composite may be written again between two of
  their tiles. The `data-stale` message, the nearest cell and the summary of each
  region are left out; of the overall summary there are the affected airports and
  the system status.
* Two queries for cells are taken to write different temporary files: the names
  are milliseconds (`cell-detector.ts:159`). Cells under 1 km2 are not filtered.
* A request for a tile that is answered from the cache of answers changes nothing
  and is left out, as are response headers and the type tile of typed palettes.
* The external programs and services (GDAL, sharp, the feeds) yield a result or
  fail; the worker threads of the NEXRAD parser too.

Things the model shows that no document promises otherwise, or that a document
says differently without a run of its own here:

* A key is marked processed before its frame is queued; a failure on a later key of
  the batch drops the frames already marked (`docs/gotchas.md:140` speaks of
  reliable delivery). `LedgerRefined` allows for it: a held frame is lost in a step
  that is a fault.
* `new-frame` is announced after the loop over the targets even when no target
  had a tile to write (`CompPublish`; `docs/api.md:419` ties it to a new composite).
* A composite written twice under one timestamp keeps the tiles that only the first
  writing had (`WriteBatch`; `docs/architecture.md:221`).
* The storm cells of a composite are cached for 300 s under its timestamp
  (`cell-detector.ts:50`), and a composite is written again under its timestamp when a
  further trigger names it (`compositor.ts:150`): until they expire, the cells
  answered are those of the earlier writing, or, when a query was reading tiles
  meanwhile, of some tiles before and some after. `CellsInPlace` therefore asks for each
  tile that some writing had the cells there.
* The summary visits the airports of `config/regions.ts` only
  (`watchlist-updater.ts:141-152`). A watched airport that is in no region, which is
  most of those `getAirport` knows, is sampled and its changes are broadcast, but
  it is never listed as affected. `KeysAgree` says both.
* A crash between tiling and recording leaves a DWD file that neither the sweep
  (MRMS only) nor cleanup (by index) ever removes (`docs/configuration.md:14`).
* A crash between HSET and EXPIRE leaves a scan without TTL until the next fetch
  of the station refreshes it; if the station is never ingested again it stays.
* A browser that leaves and re-enters a station during a poll is not sent again
  the wedges of the volume that the poll has already marked as seen.
* A chunk is marked as seen before it is downloaded: one whose download fails is never
  fetched again. `WedgeDelivered` is excused by it.
* A frame that fails, or whose poll or tiler dies, leaves its GeoTIFF for good
  (`tiler.ts:258` is on the good path only). When the failure comes after ZADD and SET,
  the catch block deletes the file all the same (`tiler.ts:261`) and index and pointer
  name a frame without tiles until it expires.
* A chunk that arrives after the last browser left its station recreates the
  station's sweep state.
* The table of aviation clients is keyed by the id the client chose. The close of
  an old connection removes the entry a newer one has made under the same id, and
  a client that has used two ids is terminated although it answers every ping.
  `WatchedSampled` and `PongersStay` hold for clients with one id of their own.
* A message is queued before the situation it tells of is stored: when that SET
  fails the change is told twice. Overlapping updates can tell it twice or never.
  `ToldIsCurrent` holds until the first overlap or failure, `KeysAgree` again after it.
* A stored situation does not expire: an airport nobody watches any more is served
  as of its last update, and counted among the affected ones, until watched again.
* How old the data are is looked at only when a frame arrives, so the status stays
  operational when frames stop.
* A trend from dry to dry is `clearing`.
* Two overlapping queries for cells with different areas, frames or thresholds
  misplace or mismeasure them, and the result is cached for 300 s. Without
  overlap the peak of a cell (`docs/api.md:775`) is that of its bounding box
  rounded outwards: the run has a 40 dBZ cell that is given the 55 dBZ of its
  neighbour.
* The key of the cached answers has palette, source, timestamp and place but no
  `layer` (`docs/api.md:26`): for up to 120 s a request for velocity gets the
  reflectivity cached before it. `LayerKept` is about the other requests,
  those that are rendered or answered from the cache of rendered tiles.
* The key of a rendered tile is the newest timestamp among its scans, so an older
  scan of another station stands in it until a newer one comes; once the newest
  frame is another, cached NEXRAD tiles are also sent as immutable.
* A file deleted by cleanup while the server has it open goes on being served.

## 6. Not modelled, and the plan

Done: the frame pipeline, the scan path, live sweeps, the situation API with its
cells, the tile server; proofs of every invariant the runs check, of `LedgerRefined`
and of `KeptAlive`. Next, in order of importance:

1. **More proofs.** That `WedgeDelivered` and `FreshStored` cannot be missed for a
   reason of state: the safety half of their arguments (what is published is in the
   bucket, in the poll's list or delivered) as invariants. The behaviours behind the
   four counterexamples as theorems about what does hold: the pointer of a source
   moves back only within the batch of one poll, and a sweep interrupts a tiler only
   at the start of another.
2. **Redis rollback.** A restart of Redis returns queues, index and processed sets
   to the last snapshot while files stay. Most invariants of the pipeline do not
   survive it as they stand (a rolled-back queue names frames whose GeoTIFF is
   gone), so it calls for properties of its own.
3. **Other requests of the situation API.** Route sampling and the airport route's
   sampling on the spot against reference definitions.

Not planned: palette parsing, frame lists, basemap proxying, metrics and health
(formatting, counters and pure I/O); decoding and projection of NEXRAD volumes
(numeric, no state); the wind fetcher (one grid in memory, one writer); the
upscaler (no longer part of the stack, `docs/architecture.md:14`); the legacy
in-process NEXRAD ingester (superseded by `nexrad/main.ts`); the browser client.
