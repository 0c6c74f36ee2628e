---------------------------- MODULE CellDetector ----------------------------
(***************************************************************************)
(* Storm cells on demand (src/situation/sampling/cell-detector.ts).  A     *)
(* query stitches the tiles of its area, traces the cells of what it finds *)
(* with external tools, and measures each of them.  The detector is one    *)
(* object for all queries: the place, size and reflectivities of the       *)
(* stitched raster are kept in its fields and read again after the awaits, *)
(* when another query may have set them.  The composite itself may be      *)
(* written again under its timestamp while a query reads its tiles or      *)
(* while the cells of that timestamp are cached.                           *)
(*                                                                         *)
(* The world is one row of tiles, TileSize pixels wide and high.  The      *)
(* temporary files of two queries are taken to have distinct names         *)
(* (milliseconds), and tracing gives the 4-connected cells.                *)
(***************************************************************************)
EXTENDS RadarAnalysis, Sequences

CONSTANTS
  NumQueries,      \* slots for overlapping queries
  Frames,          \* the timestamps of composites
  Echo,            \* what a composite can show of the row: [contents -> [pixels
                   \* -> tenths of a dBZ, 0: none]]
  CellThresholds,  \* in dBZ
  Areas,           \* ranges of tiles <<first, last>> a query asks for
  TileSize,
  NoKey,
  MaxQueries       \* bound on queries

ASSUME CellAssumption ==
  /\ TileSize \in Nat \ {0} /\ MaxQueries \in Nat /\ NumQueries \in Nat
  /\ CellThresholds \subseteq Nat
  /\ NoKey \notin [frame : Frames, threshold : CellThresholds, area : Areas]
  /\ Areas \subseteq {a \in Nat \X Nat : a[1] <= a[2]}
  /\ DOMAIN Echo # {}
  /\ \A c \in DOMAIN Echo, a \in Areas :
       \A x \in (a[1] * TileSize)..((a[2] + 1) * TileSize - 1), y \in 0..(TileSize - 1) :
         Echo[c][<<x, y>>] \in Nat

VARIABLES
  shows,           \* [Frames -> what the composite of that timestamp shows; nobody
                   \* looks before it is written]
  writings,        \* history: [Frames -> all that it has shown]
  raster,          \* the detector's fields: [west, east, width, dbz], the last
                   \* of them named by what it was filled from, NoKey at first
  query,           \* [Queries -> its locals, with the last answer]
  asked,           \* queries so far
  cellCache,       \* the keys cells:{frame}:{threshold}:{area} that exist, with
                   \* their features
  tainted          \* history: the keys stored by a query that another one,
                   \* with another key, had overlapped

echoVars == <<shows, writings>>
cellVars == <<raster, query, asked, cellCache, tainted>>

Contents == DOMAIN Echo
Queries  == 1..NumQueries

Keys == [frame : Frames, threshold : CellThresholds, area : Areas]

Tiles(area) == area[2] - area[1] + 1

\* What a raster is made of: what the composite showed when each tile was read.
Prints == UNION {[threshold : CellThresholds, area : {a}, seen : [1..Tiles(a) -> Contents]] :
                   a \in Areas}

\* Distances are in parts of a pixel, so that a raster stretched over the place
\* of another one still has whole ones: a tile is TileUnits wide.
TileUnits == 2 * TileSize

West(area)  == area[1] * TileUnits
East(area)  == (area[2] + 1) * TileUnits
Width(area) == Tiles(area) * TileSize

\* Where a traced raster of some width was put, and its fields.
NoRaster == [west |-> 0, east |-> TileUnits, width |-> 0, dbz |-> NoKey]

Feature == [footprint : SUBSET (Nat \X Nat \X Nat), maxDbz : Nat, severity : Severity]

CellTypeOK ==
  /\ shows \in [Frames -> Contents] /\ writings \in [Frames -> SUBSET Contents]
  /\ raster.west \in Nat /\ raster.east \in Nat /\ raster.width \in Nat
  /\ raster.dbz \in Prints \cup {NoKey}
  /\ \A q \in Queries :
       /\ query[q].step \in {"idle", "lookup", "stitch", "trace", "measure", "answered"}
       /\ query[q].key \in Keys \cup {NoKey}
       /\ query[q].seen \in Seq(Contents)
       /\ query[q].place \in Nat \X Nat
       /\ query[q].answer \in SUBSET Feature
       /\ query[q].clashed \in BOOLEAN
  /\ asked \in 0..MaxQueries
  /\ DOMAIN cellCache \subseteq Keys
  /\ \A k \in DOMAIN cellCache : cellCache[k] \in SUBSET Feature
  /\ tainted \in SUBSET Keys

NoQuery == [step |-> "idle", key |-> NoKey, seen |-> << >>, place |-> <<0, 0>>,
            answer |-> {}, clashed |-> FALSE]

CellInit ==
  /\ shows = [f \in Frames |-> CHOOSE c \in Contents : TRUE]
  /\ writings = [f \in Frames |-> {}]
  /\ raster = NoRaster
  /\ query = [q \in Queries |-> NoQuery]
  /\ asked = 0
  /\ cellCache = << >>
  /\ tainted = {}

-----------------------------------------------------------------------------
(* Rasters and the cells in them.  A pixel is <<column, row>>. *)

PixelsOf(area) == (0..(Width(area) - 1)) \X (0..(TileSize - 1))

\* The reflectivity at a pixel of a raster, 0 below the threshold.
EchoAt(print, p) ==
  LET shown == Echo[print.seen[p[1] \div TileSize + 1]]
      dbz   == shown[<<print.area[1] * TileSize + p[1], p[2]>>]
  IN  IF dbz >= 10 * print.threshold THEN dbz ELSE 0

Mask == [print \in Prints |-> {p \in PixelsOf(print.area) : EchoAt(print, p) # 0}]

\* _dbzBuffer, row by row.
Buffer == [print \in Prints |->
  [i \in 0..(Width(print.area) * TileSize - 1) |->
     EchoAt(print, <<i % Width(print.area), i \div Width(print.area)>>)]]

Beside(p, r) == \/ p[1] = r[1] /\ p[2] - r[2] \in {-1, 1}
                \/ p[2] = r[2] /\ p[1] - r[1] \in {-1, 1}

\* gdal_polygonize: the cells of a mask, each the pixels no part of the mask
\* that is closed under neighbourhood separates from one of them.
Parts(mask) == {part \in SUBSET mask :
                  \A p \in part, r \in mask : Beside(p, r) => r \in part}
CellsOf(mask) ==
  LET parts == Parts(mask)
  IN  {{r \in mask : \A part \in parts : p \in part => r \in part} : p \in mask}

Traced == [print \in Prints |-> CellsOf(Mask[print])]

\* The cell of a raster of that width, put between place[1] and place[2]: left
\* edge, width and row of each of its pixels.
Footprint(cell, width, place) ==
  LET part == (place[2] - place[1]) \div width
  IN  {<<place[1] + p[1] * part, part, p[2]>> : p \in cell}

\* sampleMaxDbzInBbox, from the fields as they are now.  A position in the
\* buffer that does not exist counts as no echo.
MaxInBbox(footprint) ==
  LET column(x) == (x - raster.west) * raster.width
      span      == raster.east - raster.west
      minPx == Max({0, column(Min({f[1] : f \in footprint})) \div span})
      maxPx == Min({raster.width - 1,
                    -((-column(Max({f[1] + f[2] : f \in footprint}))) \div span)})
      minPy == Min({f[3] : f \in footprint})
      maxPy == Min({TileSize - 1, Max({f[3] : f \in footprint}) + 1})
      seen  == {py * raster.width + px : px \in minPx..maxPx, py \in minPy..maxPy}
  IN  Max({0} \cup {Buffer[raster.dbz][i] : i \in seen \cap DOMAIN Buffer[raster.dbz]})

Measured(footprint) ==
  LET dbz == MaxInBbox(footprint)
  IN  [footprint |-> footprint, maxDbz |-> Rounded(dbz), severity |-> dbzToSeverity(dbz)]

-----------------------------------------------------------------------------
(* A query, up to each await. *)

\* The compositor has written the composite of frame f, which shows c now.
Drawn(f, c) ==
  /\ shows' = [shows EXCEPT ![f] = c]
  /\ writings' = [writings EXCEPT ![f] = @ \cup {c}]

\* What query q has read, when it has read all its tiles.
PrintOf(q) == [threshold |-> query[q].key.threshold, area |-> query[q].key.area,
               seen |-> query[q].seen]

InFlight == {q \in Queries : query[q].step \in {"stitch", "trace", "measure"}}

Answered(q, features) ==
  query' = [query EXCEPT ![q] = [@ EXCEPT !.step = "answered", !.answer = features,
                                          !.seen = << >>, !.place = <<0, 0>>]]

Free(q) == query[q].step \in {"idle", "answered"}

\* GET latest:composite has answered with this frame; the query takes the first
\* slot that is free.
Detect(q, frame, threshold, area) ==
  /\ Free(q) /\ \A r \in 1..(q - 1) : ~Free(r)
  /\ asked < MaxQueries
  /\ asked' = asked + 1
  /\ query' = [query EXCEPT ![q] = [NoQuery EXCEPT !.step = "lookup",
                 !.key = [frame |-> frame, threshold |-> threshold, area |-> area]]]
  /\ UNCHANGED <<raster, cellCache, tainted>>

\* Mutation: the key has no bounds.
CacheKeyGlobal(q) == [query[q].key EXCEPT !.area = CHOOSE a \in Areas : TRUE]

CacheKey(q) == query[q].key

Hit(q) ==
  /\ query[q].step = "lookup" /\ CacheKey(q) \in DOMAIN cellCache
  /\ query' = [query EXCEPT ![q].step = "answered",
                            ![q].answer = cellCache[CacheKey(q)],
                            ![q].clashed = CacheKey(q) \in tainted]
  /\ UNCHANGED <<raster, asked, cellCache, tainted>>

\* What the store has for the next tile of q, now.
SeesNext(q) == Append(query[q].seen, shows[query[q].key.frame])

\* A miss: stitchTiles sets place and size and reads the first tile at once.
\* Queries in flight with another key have clashed with this one from here on.
Miss(q) ==
  LET area   == query[q].key.area
      others == {r \in InFlight : query[r].key # query[q].key}
  IN  /\ query[q].step = "lookup" /\ CacheKey(q) \notin DOMAIN cellCache
      /\ raster' = [raster EXCEPT !.west = West(area), !.east = East(area),
                                  !.width = Width(area)]
      /\ query' = [r \in Queries |->
           IF r = q THEN [query[q] EXCEPT !.step = "stitch", !.seen = SeesNext(q),
                                          !.clashed = others # {}]
           ELSE IF r \in others THEN [query[r] EXCEPT !.clashed = TRUE] ELSE query[r]]
      /\ UNCHANGED <<asked, cellCache, tainted>>

\* A tile is decoded and the next one read.
ReadTile(q) ==
  /\ query[q].step = "stitch" /\ Len(query[q].seen) < Tiles(query[q].key.area)
  /\ query' = [query EXCEPT ![q].seen = SeesNext(q)]
  /\ UNCHANGED <<raster, asked, cellCache, tainted>>

\* The last one is decoded; without an echo the answer is empty.
Stitch(q) ==
  /\ query[q].step = "stitch" /\ Len(query[q].seen) = Tiles(query[q].key.area)
  /\ raster' = [raster EXCEPT !.dbz = PrintOf(q)]
  /\ IF Mask[PrintOf(q)] = {} THEN Answered(q, {})
     ELSE query' = [query EXCEPT ![q].step = "trace"]
  /\ UNCHANGED <<asked, cellCache, tainted>>

\* The mask is written; gdal_translate is told where it lies.
Trace(q) ==
  /\ query[q].step = "trace"
  /\ query' = [query EXCEPT ![q].step = "measure", ![q].place = <<raster.west, raster.east>>]
  /\ UNCHANGED <<raster, asked, cellCache, tainted>>

\* A tool fails or a file cannot be read: the answer is empty and not stored.
TraceFails(q) ==
  /\ query[q].step = "measure"
  /\ Answered(q, {})
  /\ UNCHANGED <<raster, asked, cellCache, tainted>>

\* The cells are there: each is measured and the answer stored.
Measure(q) ==
  LET key   == query[q].key
      found == {Measured(Footprint(c, Width(key.area), query[q].place)) :
                  c \in Traced[PrintOf(q)]}
  IN  /\ query[q].step = "measure"
      /\ Answered(q, found)
      /\ cellCache' = [k \in DOMAIN cellCache \cup {CacheKey(q)} |->
           IF k = CacheKey(q) THEN found ELSE cellCache[k]]
      /\ tainted' = IF query[q].clashed THEN tainted \cup {CacheKey(q)}
                    ELSE tainted \ {CacheKey(q)}
      /\ UNCHANGED <<raster, asked>>

\* After 300 s.
CellsExpire(k) ==
  /\ k \in DOMAIN cellCache
  /\ cellCache' = [l \in DOMAIN cellCache \ {k} |-> cellCache[l]]
  /\ tainted' = tainted \ {k}
  /\ UNCHANGED <<raster, query, asked>>

CellStep ==
  /\ \/ \E q \in Queries :
          \/ Hit(q) \/ Miss(q) \/ ReadTile(q) \/ Stitch(q)
          \/ Trace(q) \/ TraceFails(q) \/ Measure(q)
     \/ \E k \in Keys : CellsExpire(k)
  /\ UNCHANGED echoVars

=============================================================================
