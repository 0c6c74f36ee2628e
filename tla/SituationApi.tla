---------------------------- MODULE SituationApi ----------------------------
(***************************************************************************)
(* The situation API as a whole (src/situation): composites are announced, *)
(* handlers bring the Redis keys of the watched airports up to date and    *)
(* tell the sockets, while clients come, subscribe, answer pings and go,   *)
(* and others ask for the storm cells of the latest composite.             *)
(***************************************************************************)
EXTENDS WatchlistUpdater, CellDetector

CONSTANT MaxEvents   \* bound on subscriptions, frames, failures and ticks together

ASSUME EventsAssumption == MaxEvents \in Nat /\ Frames = Stamps

VARIABLES
  tangled,         \* history: since a handler last started alone, two handlers
                   \* have overlapped or a call has failed
  scarred,         \* history: that has ever happened
  settled          \* history: the open sockets that have not subscribed since
                   \* the last composite was announced

historyVars == <<tangled, scarred, settled>>
vars        == <<socketVars, updaterVars, echoVars, cellVars, historyVars>>

TypeOK ==
  /\ SocketsTypeOK
  /\ UpdaterTypeOK
  /\ CellTypeOK
  /\ tangled \in BOOLEAN /\ scarred \in BOOLEAN
  /\ settled \in SUBSET Sockets

Init ==
  /\ SocketsInit
  /\ UpdaterInit
  /\ CellInit
  /\ tangled = FALSE /\ scarred = FALSE
  /\ settled = {}

MoreEvents == subscribes + published + failures + clock < MaxEvents

Announce(h) ==
  /\ MoreEvents
  /\ \E t \in Stamps, skies \in [Airports -> Skies], c \in Contents :
       NewFrame(h, t, skies) /\ Drawn(t, c)
  /\ tangled' = (Busy # {})
  /\ scarred' = (scarred \/ Busy # {})
  /\ settled' = {s \in Sockets : socket[s] = "open"}
  /\ UNCHANGED <<socketVars, cellVars>>

UpdateStep(h) ==
  /\ \/ HandlerStep(h) /\ UNCHANGED socketVars
     \/ Tell(h) /\ UNCHANGED <<socket, clientId, clients, subscribes, usedIds, owesPong, cutOff>>
  /\ UNCHANGED <<echoVars, cellVars, historyVars>>

Fault(h) ==
  /\ MoreEvents
  /\ HandlerFault(h)
  /\ tangled' = TRUE /\ scarred' = TRUE
  /\ UNCHANGED <<socketVars, echoVars, cellVars, settled>>

ClientSubscribes(s) ==
  /\ MoreEvents
  /\ \E c \in ClientIds, w \in SUBSET Airports, d \in Thresholds : Subscribe(s, c, w, d)
  /\ settled' = settled \ {s}
  /\ UNCHANGED <<updaterVars, echoVars, cellVars, tangled, scarred>>

\* A query for cells, of the composite that is the latest.
AskCells(q) ==
  /\ latestComposite # NoValue
  /\ \E t \in CellThresholds, a \in Areas : Detect(q, latestComposite, t, a)
  /\ UNCHANGED <<socketVars, updaterVars, echoVars, historyVars>>

\* The process is killed and started again: nothing is left but Redis.
Restart ==
  /\ MoreEvents
  /\ Fails
  /\ ServerGone
  /\ job' = [h \in Handlers |-> Idle]
  /\ raster' = NoRaster /\ query' = [q \in Queries |-> NoQuery]
  /\ tangled' = TRUE /\ scarred' = TRUE
  /\ settled' = {}
  /\ UNCHANGED <<radarVars, redisKeys, echoVars, asked, cellCache, tainted>>

HandlersStep ==
  \/ \E h \in Handlers : UpdateStep(h) \/ Fault(h)
  \/ MoreEvents /\ TimePasses /\ UNCHANGED <<socketVars, echoVars, cellVars, historyVars>>
  \/ Restart

ClientsStep ==
  \/ \E s \in Sockets : ClientSubscribes(s)
  \/ SocketStep /\ UNCHANGED <<updaterVars, echoVars, cellVars, historyVars>>

QueriesStep ==
  \/ \E q \in Queries : AskCells(q)
  \/ CellStep /\ UNCHANGED <<socketVars, updaterVars, historyVars>>

Next == (\E h \in Handlers : Announce(h)) \/ HandlersStep \/ ClientsStep \/ QueriesStep

Spec == Init /\ [][Next]_vars

-----------------------------------------------------------------------------
Quiet == Busy = {}

\* No other socket has ever subscribed under an id of this one, and it has used
\* no second one.
OwnsItsId(s) ==
  /\ Cardinality(usedIds[s]) = 1
  /\ \A r \in Sockets \ {s} : usedIds[r] \cap usedIds[s] = {}

\* A client that has its id to itself and subscribed before the last composite
\* is in the table, and when the update of that composite is over, alone and
\* without a failed call, each of its airports shows that composite
\* (ws/aviation.ts, syncWatchlist, processNewFrame): whatever else happened
\* before, a subscription is neither dropped nor skipped.
WatchedSampled ==
  \A s \in settled : socket[s] = "open" /\ OwnsItsId(s) =>
    /\ clientId[s] \in Ids
    /\ Quiet /\ ~tangled => \A x \in clients[clientId[s]].watchlist :
         situation[x] # NoValue /\ situation[x].stamp = latestComposite

\* What an unfiltered subscriber was last told of an airport is what the
\* situation key shows, if handlers never overlapped and no call ever failed:
\* comparing with the stored situation loses no transition and repeats none
\* (processNewFrame, broadcastMessages).
ToldIsCurrent ==
  Quiet /\ ~scarred =>
    \A s \in Sockets, c \in Ids : \A x \in clients[c].watchlist :
      clients[c].ws = s /\ clients[c].dbz = 0 /\ socket[s] = "open" /\ told[s][x] \in RampStatus
        => told[s][x] = situation[x].ramp

\* The three keys of an airport, written by separate commands, are of one frame
\* again as soon as an update ran alone and without a failed call: the maximum
\* the next trend is measured from and the newest history entry are those of
\* the situation shown, and the summary lists exactly the airports of a region
\* whose situation is not clear; one outside every region it never lists
\* (processNewFrame, HistoryManager, REGIONS).
KeysAgree ==
  Quiet /\ ~tangled => \A x \in watchlist : situation[x] # NoValue =>
    /\ previous[x] = situation[x].rings[50].maxDbz
    /\ situation[x].stamp > clock - HistoryHours =>
         [stamp |-> situation[x].stamp, rings |-> situation[x].rings] \in history[x]
    /\ x \in summary.affected <=> x \in RegionAirports /\ situation[x].ramp # "clear"

\* The server cuts nobody off that has answered its pings, as long as the
\* client keeps to one id (handleConnection, pingAll).
PongersStay == \A s \in cutOff : Cardinality(usedIds[s]) > 1

\* The rasters of a key made of what the composite has ever shown of each tile:
\* one, unless it was written again.
PrintsOf(key) == [threshold : {key.threshold}, area : {key.area},
                  seen : [1..Tiles(key.area) -> writings[key.frame]]]

\* The reflectivities of a raster under a footprint, where the pixels of one in
\* its own place are two units wide.
EchoUnder(print, footprint) ==
  {EchoAt(print, <<f[1] \div 2 - print.area[1] * TileSize, f[3]>>) : f \in footprint}

\* Cells are answered, fresh or from the cache, where the composite has them and
\* no weaker than their peak, whatever other queries were doing in the fields
\* they share, as long as those in flight at the same time had the same key;
\* and none is left out (detectCells).  A composite that was written again under
\* its timestamp has them in each tile as one of its writings had it: its cells
\* stay cached, and the answer may be that of an earlier one, or a mix.
CellsInPlace ==
  \A q \in Queries : query[q].step = "answered" /\ ~query[q].clashed /\ query[q].answer # {} =>
    LET key   == query[q].key
        shown == {f.footprint : f \in query[q].answer}
    IN  /\ \E drawn \in PrintsOf(key) :
             UNION shown = {<<2 * (key.area[1] * TileSize + p[1]), 2, p[2]>> : p \in Mask[drawn]}
        /\ \A f, g \in shown : f # g => \A p \in f, r \in g :
              ~Beside(<<p[1] \div 2, p[3]>>, <<r[1] \div 2, r[3]>>)
        /\ \E measured \in PrintsOf(key) : \A f \in query[q].answer :
              f.maxDbz >= Rounded(Max(EchoUnder(measured, f.footprint)))

=============================================================================
