----------------------------- MODULE TileServer -----------------------------
(***************************************************************************)
(* The tile endpoint above nexradZoomMin (server/index.ts), for requests   *)
(* of one tile, palette and timestamp.  Four caches stand between a        *)
(* request and the data: the answers sent (120 s), the rendered NEXRAD     *)
(* tiles (no expiry), the scans (60 s) with their misses (5 s) and the     *)
(* active stations (refreshed every 30 s), and the open handles of the     *)
(* tile store.                                                             *)
(*                                                                         *)
(* One tick is a minute.  A cache entry is known by the number of ticks    *)
(* since it was set: it may lapse in the tick its TTL falls in and is gone *)
(* at the next.  A request lives less than a minute.                       *)
(***************************************************************************)
EXTENDS Integers, FiniteSets, FiniteSetsExt

CONSTANTS
  NumStations,     \* the stations whose range covers the tile
  Layers, Requests,
  MaxVolume,       \* bound on the volumes of a station
  DryVolumes,      \* [Layers -> [Stations -> its volumes that have nothing to draw
                   \* on the tile in that layer]]
  MaxChanges,      \* bound on changes of the data
  Settling         \* ticks after which a change is through all the caches

ASSUME ServerAssumption ==
  /\ NumStations \in Nat \ {0} /\ MaxVolume \in Nat /\ MaxChanges \in Nat /\ Settling \in Nat
  /\ DryVolumes \in [Layers -> [1..NumStations -> SUBSET (1..MaxVolume)]]
  /\ "frame" \notin Layers

\* In the order of findStationsForBounds.
Stations == 1..NumStations
Volumes  == 0..MaxVolume       \* named by their timestamps; 0: no scan
Versions == 0..(MaxChanges + 1) \* contents of the file, each new one unlike the
                               \* others; 0: no file
Drawings == [Stations -> Volumes]

VARIABLES
  scan,            \* nexrad:scan:{s}
  active,          \* nexrad:active-stations
  file,            \* the file of the requested frame
  changes,         \* changes of the data so far
  settled,         \* history: ticks since the last one, up to Settling
  activeStations,  \* the provider's copy of active
  refreshed,       \* has it been read since the last tick
  scanCache,       \* [Stations -> [volume, age]], volume 0: no entry
  missCache,       \* [Stations -> age of the entry, Absent]
  tileCache,       \* [Layers \X Volumes -> the picture stored under that key, Blank
                   \* if none], with emptyTiles: those drawn without a pixel
  handle,          \* the open handle of the file: "none", "live", or "dead"
                   \* once the file was deleted under it
  held,            \* the version a dead handle still reads
  answers,         \* the cached answer, [picture, age]
  req              \* [Requests -> its locals]

dataVars   == <<scan, active, file, changes>>
cacheVars  == <<activeStations, refreshed, scanCache, missCache, tileCache, handle, held>>
vars       == <<dataVars, settled, cacheVars, answers, req>>

Absent  == 2                   \* an age no entry reaches in missCache
Nothing == [s \in Stations |-> 0]

\* What a tile shows: a NEXRAD drawing of one layer, or a version of the frame.
Pictures == [layer : Layers \cup {"frame"}, drawing : Drawings, version : Versions]
Blank    == [layer |-> "frame", drawing |-> Nothing, version |-> 0]

Idle == [step |-> "idle", layer |-> "frame", todo |-> {}, scans |-> Nothing,
         picture |-> Blank, age |-> 0]

TypeOK ==
  /\ scan \in Drawings /\ active \in SUBSET Stations
  /\ file \in Versions /\ changes \in 0..MaxChanges /\ settled \in 0..Settling
  /\ activeStations \in SUBSET Stations /\ refreshed \in BOOLEAN
  /\ scanCache \in [Stations -> [volume : Volumes, age : 0..1]]
  /\ missCache \in [Stations -> 0..Absent]
  /\ tileCache \in [Layers \X (Volumes \ {0}) -> Pictures]
  /\ handle \in {"none", "live", "dead"} /\ held \in Versions
  /\ answers \in [picture : Pictures, age : 0..2]
  /\ req \in [Requests ->
       [step : {"idle", "scans", "read", "encode", "frame", "colorize"},
        layer : Layers \cup {"frame"}, todo : SUBSET Stations, scans : Drawings,
        picture : Pictures, age : 0..1]]

\* No scan has been stored yet; the frame has, or no viewer would know of it.
Init ==
  /\ scan = Nothing /\ active = {} /\ file = 1 /\ changes = 0 /\ settled = 0
  /\ activeStations = {} /\ refreshed = TRUE
  /\ scanCache = [s \in Stations |-> [volume |-> 0, age |-> 0]]
  /\ missCache = [s \in Stations |-> Absent]
  /\ tileCache = [k \in Layers \X (Volumes \ {0}) |-> Blank]
  /\ handle = "none" /\ held = 0
  /\ answers = [picture |-> Blank, age |-> 0]
  /\ req = [r \in Requests |-> Idle]

-----------------------------------------------------------------------------
(* What the ingester, the compositor and cleanup do to the data. *)

Changed == changes < MaxChanges /\ changes' = changes + 1 /\ settled' = 0

StoreScan(s) ==
  /\ Changed
  /\ \E v \in Volumes : v > scan[s] /\ scan' = [scan EXCEPT ![s] = v]
  /\ active' = active \cup {s}
  /\ UNCHANGED <<file, cacheVars, answers, req>>

\* The key of a scan expires; the station stays among the active ones.
ExpireScan(s) ==
  /\ Changed /\ scan[s] # 0
  /\ scan' = [scan EXCEPT ![s] = 0]
  /\ UNCHANGED <<active, file, cacheVars, answers, req>>

\* The file is created, or appended to: an open handle reads what is appended.
WriteFrame ==
  /\ Changed
  /\ file' = changes + 2
  /\ UNCHANGED <<scan, active, cacheVars, answers, req>>

\* Cleanup, in its own process, unlinks the file; an open handle keeps it.
DeleteFrame ==
  /\ Changed /\ file # 0
  /\ file' = 0
  /\ handle' = IF handle = "live" THEN "dead" ELSE handle
  /\ held' = IF handle = "live" THEN file ELSE held
  /\ UNCHANGED <<scan, active, activeStations, refreshed, scanCache, missCache, tileCache,
                 answers, req>>

\* Fifty other frames have been read since: the handle is closed.
CloseHandle ==
  /\ Changed /\ handle # "none"
  /\ handle' = "none" /\ held' = 0
  /\ UNCHANGED <<scan, active, file, activeStations, refreshed, scanCache, missCache,
                 tileCache, answers, req>>

-----------------------------------------------------------------------------
(* The scan provider. *)

\* A refresh that finds no new station is no step.
RefreshActive ==
  /\ activeStations # active
  /\ activeStations' = active /\ refreshed' = TRUE
  /\ UNCHANGED <<dataVars, settled, scanCache, missCache, tileCache, handle, held, answers, req>>

Cached(s)  == scanCache[s].volume # 0
Missing(s) == missCache[s] # Absent

\* What a call knows of s before it asks Redis: the cached scan, or none.
Known(s) == s \notin activeStations \/ Cached(s) \/ Missing(s)

\* The answer of Redis for s is cached: the scan, or that there is none.
RememberScan(s, v) ==
  /\ scanCache' = IF v = 0 THEN scanCache
                  ELSE [scanCache EXCEPT ![s] = [volume |-> v, age |-> 0]]
  /\ missCache' = IF v = 0 THEN [missCache EXCEPT ![s] = 0] ELSE missCache

\* The turn of station s in the loop of getScansForBounds ends with scan v.
Took(r, s, v) ==
  req' = [req EXCEPT ![r] = [@ EXCEPT !.step = "scans",
                                        !.todo = req[r].todo \ {s}, !.scans[s] = v]]

Turn(r) == Min(req[r].todo)

\* getScan for the next station, up to the question to Redis: a station not
\* active, cached, or known to be missing needs none.
LookUp(r) ==
  /\ req[r].step = "scans" /\ req[r].todo # {}
  /\ LET s == Turn(r)
     IN  IF Known(s)
         THEN Took(r, s, IF s \in activeStations THEN scanCache[s].volume ELSE 0)
         ELSE req' = [req EXCEPT ![r].step = "read"]
  /\ UNCHANGED <<dataVars, settled, cacheVars, answers>>

\* The rest, once Redis has answered; another request may have cached an
\* earlier answer meanwhile.
ReadScan(r) ==
  /\ req[r].step = "read"
  /\ RememberScan(Turn(r), scan[Turn(r)])
  /\ Took(r, Turn(r), scan[Turn(r)])
  /\ UNCHANGED <<dataVars, settled, activeStations, refreshed, tileCache, handle, held, answers>>

\* A request for another tile under the same station uses the same caches.
OtherTile(s) ==
  /\ ~Known(s) /\ RememberScan(s, scan[s])
  /\ UNCHANGED <<dataVars, settled, activeStations, refreshed, tileCache, handle, held,
                 answers, req>>

-----------------------------------------------------------------------------
(* The NEXRAD tile handler. *)

Newest(drawing) == Max({drawing[s] : s \in Stations})

\* renderTile: the scans drawn in a layer.
Rendered(layer, scans) == [layer |-> layer, drawing |-> scans, version |-> 0]

\* Nothing of it is drawn: the handler remembers that and returns no tile.
Dry(tile) == \A s \in Stations : tile.drawing[s] \in DryVolumes[tile.layer][s] \cup {0}

\* Mutation: the layer is left out.
TileKeyOfAnyLayer(r) == <<CHOOSE l \in Layers : TRUE, Newest(req[r].scans)>>

\* The key of a rendered tile: its layer and the newest timestamp among its
\* scans.
TileKey(r) == <<req[r].layer, Newest(req[r].scans)>>

\* The handler returns this tile: when it is empty the request falls through to
\* the frame.
TakeTile(r, tile) ==
  req' = [req EXCEPT ![r] =
            [@ EXCEPT !.step    = IF Dry(tile) THEN "frame" ELSE "colorize",
                      !.scans   = Nothing,
                      !.picture = IF Dry(tile) THEN Blank ELSE tile]]

\* handleNexradTile once the scans are there: no scan, a tile in one of the two
\* caches, an empty rendering, or one still to be encoded.
RenderTile(r) ==
  LET scans  == req[r].scans
      cached == tileCache[TileKey(r)]
      tile   == Rendered(req[r].layer, scans)
  IN  /\ req[r].step = "scans" /\ req[r].todo = {}
      /\ \/ /\ scans = Nothing
            /\ req' = [req EXCEPT ![r].step = "frame"]
            /\ UNCHANGED tileCache
         \/ /\ scans # Nothing /\ cached # Blank
            /\ TakeTile(r, cached)
            /\ UNCHANGED tileCache
         \/ /\ scans # Nothing /\ cached = Blank /\ Dry(tile)
            /\ TakeTile(r, tile)
            /\ tileCache' = [tileCache EXCEPT ![TileKey(r)] = tile]
         \/ /\ scans # Nothing /\ cached = Blank /\ ~Dry(tile)
            /\ req' = [req EXCEPT ![r].step = "encode"]
            /\ UNCHANGED tileCache
  /\ UNCHANGED <<dataVars, settled, activeStations, refreshed, scanCache, missCache,
                 handle, held, answers>>

\* The encoder is through; a request that rendered the same tile meanwhile has
\* stored its own.
EncodeTile(r) ==
  LET tile == Rendered(req[r].layer, req[r].scans)
  IN  /\ req[r].step = "encode"
      /\ tileCache' = [tileCache EXCEPT ![TileKey(r)] = tile]
      /\ TakeTile(r, tile)
      /\ UNCHANGED <<dataVars, settled, activeStations, refreshed, scanCache, missCache,
                     handle, held, answers>>

-----------------------------------------------------------------------------
(* The endpoint itself. *)

\* A request that finds no cached answer; one that does changes nothing.  The
\* key of the answers has no layer.
Ask(r, layer) ==
  /\ req[r] = Idle /\ answers.picture = Blank
  /\ req' = [req EXCEPT ![r] =
               [@ EXCEPT !.step = "scans", !.layer = layer, !.todo = Stations]]
  /\ UNCHANGED <<dataVars, settled, cacheVars, answers>>

\* What the store reads for the frame.
Readable == IF handle = "dead" THEN held ELSE file

\* readTileWithOverzoom; a frame without a tile is answered by a transparent
\* one, which is not cached.
ReadFrame(r) ==
  /\ req[r].step = "frame"
  /\ handle' = IF handle = "none" /\ file # 0 THEN "live" ELSE handle
  /\ req' = [req EXCEPT ![r] = IF Readable = 0 THEN Idle
                ELSE [@ EXCEPT !.step = "colorize",
                               !.picture = [Blank EXCEPT !.version = Readable]]]
  /\ UNCHANGED <<dataVars, settled, activeStations, refreshed, scanCache, missCache,
                 tileCache, held, answers>>

Colorize(r) ==
  /\ req[r].step = "colorize"
  /\ answers' = [picture |-> req[r].picture, age |-> 0]
  /\ req' = [req EXCEPT ![r] = Idle]
  /\ UNCHANGED <<dataVars, settled, cacheVars>>

-----------------------------------------------------------------------------
NoScan   == [volume |-> 0, age |-> 0]
NoAnswer == [picture |-> Blank, age |-> 0]

\* Mutation: a scan that is cached is kept, like the tiles rendered from it.
AgedScanForever(s) == scanCache[s]

\* What a minute makes of an entry of scanCache, missCache and the answers.
AgedScan(s) ==
  IF ~Cached(s) \/ scanCache[s].age = 1 THEN NoScan ELSE [scanCache[s] EXCEPT !.age = 1]

\* Mutation: an entry has no end.
AgedMissForever(s) == missCache[s] + 1

AgedMiss(s) == Min({missCache[s] + 1, Absent})

\* Mutation: an answer has no end.
AgedAnswerForever == answers

AgedAnswer ==
  IF answers.picture = Blank \/ answers.age = 2 THEN NoAnswer
  ELSE [answers EXCEPT !.age = @ + 1]

\* A TTL ends within the tick.
Lapse ==
  /\ \/ \E s \in Stations :
          /\ scanCache[s].age = 1
          /\ scanCache' = [scanCache EXCEPT ![s] = NoScan]
          /\ UNCHANGED <<missCache, answers>>
     \/ \E s \in Stations :
          /\ Missing(s)
          /\ missCache' = [missCache EXCEPT ![s] = Absent]
          /\ UNCHANGED <<scanCache, answers>>
     \/ /\ answers.age = 2
        /\ answers' = NoAnswer
        /\ UNCHANGED <<scanCache, missCache>>
  /\ UNCHANGED <<dataVars, settled, activeStations, refreshed, tileCache, handle, held, req>>

\* A minute has passed: every request of the one before is answered, and the
\* active stations have been refreshed since.
Minute ==
  /\ refreshed /\ \A r \in Requests : req[r].age = 0
  /\ settled' = Min({settled + 1, Settling})
  /\ refreshed' = (activeStations = active)
  /\ scanCache' = [s \in Stations |-> AgedScan(s)]
  /\ missCache' = [s \in Stations |-> AgedMiss(s)]
  /\ answers' = AgedAnswer
  /\ req' = [r \in Requests |-> IF req[r] = Idle THEN Idle ELSE [req[r] EXCEPT !.age = 1]]
  /\ UNCHANGED <<dataVars, activeStations, tileCache, handle, held>>

DataStep ==
  \/ \E s \in Stations : StoreScan(s) \/ ExpireScan(s)
  \/ WriteFrame \/ DeleteFrame \/ CloseHandle

RequestStep(r) ==
  \/ \E l \in Layers : Ask(r, l)
  \/ LookUp(r) \/ ReadScan(r)
  \/ RenderTile(r) \/ EncodeTile(r) \/ ReadFrame(r) \/ Colorize(r)

Next ==
  \/ DataStep \/ RefreshActive \/ Lapse \/ Minute
  \/ \E r \in Requests : RequestStep(r)
  \/ \E s \in Stations : OtherTile(s)

Spec == Init /\ [][Next]_vars

-----------------------------------------------------------------------------
\* What is answered: what is cached, and what is about to be sent.
Shown == ({answers.picture} \cup {req[r].picture : r \in Requests}) \ {Blank}

\* Whatever the caches held and however requests overlapped, a while after the
\* data last changed every answer is drawn from the newest scan there is, or
\* from the frame where the drawing for that scan is empty.  (Only the newest:
\* the key of a rendered tile lets an older scan of another station stand.)
ScansSettle ==
  settled = Settling => \A p \in Shown :
    \/ p.layer # "frame" /\ Newest(p.drawing) = Newest(scan)
    \/ p.layer = "frame" /\ (Newest(scan) = 0 \/ \E l \in Layers :
         LET tile == tileCache[<<l, Newest(scan)>>] IN tile # Blank /\ Dry(tile))

\* And one drawn from the frame shows the file as it is, unless the file was
\* deleted while the server had it open.
FrameSettles ==
  settled = Settling => \A p \in Shown :
    p.layer = "frame" => p.version = Readable

\* A request that the endpoint does not answer at once from its own cache is
\* shown the layer it asked for, also when its tile was rendered and cached for
\* another request (handleNexradTile: tileCache, emptyTiles).  (The endpoint's
\* cache has no layer in its key and gives whichever was asked for first.)
LayerKept ==
  \A r \in Requests : req[r].picture.layer \in {req[r].layer, "frame"}

=============================================================================
