-------------------------- MODULE WatchlistUpdater --------------------------
(***************************************************************************)
(* What the situation API does on `new-frame' (src/situation/index.ts and  *)
(* workers/watchlist-updater.ts).  The handler of a message is async and   *)
(* nobody waits for it: a second message starts a second handler while the *)
(* first is between two of its commands.  Each action is one handler up to *)
(* the answer to its next Redis command; a handler runs in a slot.         *)
(***************************************************************************)
EXTENDS AviationSockets

CONSTANTS
  Handlers,        \* slots for overlapping handlers
  RegionAirports,  \* the airports of REGIONS; any other can be watched too
  Skies,           \* what a composite can show around an airport
  NoValue,         \* a Redis key that does not exist
  HistoryHours,    \* how long history entries are kept, on the scale of clock
  MaxClock,        \* bound on the clock
  MaxFrames,       \* bound on announced composites
  MaxFaults        \* bound on failed calls

ASSUME UpdaterAssumption ==
  /\ RegionAirports \subseteq Airports
  /\ \A sky \in Skies : sky \in SUBSET Pixel /\ IsFiniteSet(sky)
  /\ NoValue \notin [Airports -> Skies]
  /\ HistoryHours \in Nat /\ MaxClock \in Nat /\ MaxFrames \in Nat /\ MaxFaults \in Nat

Stamps == 0..MaxClock

VARIABLES
  clock,           \* the time, on the scale of the stamps
  composite,       \* [Stamps -> what the composite of that stamp shows, NoValue]
  latestComposite, \* latest:composite
  published,       \* composites announced so far
  failures,        \* failed calls so far
  watchlist,       \* set situation:watchlist
  situation,       \* [Airports -> situation:airport:{icao}, NoValue]
  previous,        \* [Airports -> situation:previous:{icao}, NoDbz]
  history,         \* [Airports -> sorted set situation:history:{icao}]
  summary,         \* situation:summary, NoValue
  job              \* [Handlers -> the locals of the handler in the slot]

radarVars   == <<clock, composite, latestComposite, published>>
redisKeys   == <<watchlist, situation, previous, history, summary>>
updaterVars == <<radarVars, failures, redisKeys, job>>

RingSet == {sampleRings(sky) : sky \in Skies \cup {{}}}

Situation == [stamp : Stamps, rings : RingSet, trend : Trend, ramp : RampStatus]

ASSUME ValueAssumption == NoValue \notin Airports \cup Stamps \cup Situation

Message == [kind : {"condition-change", "all-clear"}, airport : Airports,
            severity : Severity, ramp : RampStatus]

Steps == {"idle", "sync", "add", "remove", "list", "latest", "sample", "compare",
          "previous", "store", "storePrevious", "record", "tell"}

Job ==
  [step     : Steps,
   active   : SUBSET Airports,                \* the watched airports it has seen
   stale    : SUBSET Airports,                \* what it takes off the watchlist
   todo     : SUBSET Airports,                \* airports still to sample
   subject  : Airports \cup {NoValue},        \* the airport in hand
   rings    : RingSet,                        \* its rings
   before   : Nat \cup {NoDbz},               \* its previous maximum
   stamp    : Stamps,                         \* the frame it samples
   status   : SystemStatus,                   \* what the age of that frame means
   messages : SUBSET Message]                 \* what it will broadcast

UpdaterTypeOK ==
  /\ clock \in 0..MaxClock
  /\ composite \in [Stamps -> [Airports -> Skies] \cup {NoValue}]
  /\ latestComposite \in Stamps \cup {NoValue}
  /\ published \in 0..MaxFrames
  /\ failures \in 0..MaxFaults
  /\ watchlist \in SUBSET Airports
  /\ situation \in [Airports -> Situation \cup {NoValue}]
  /\ previous \in [Airports -> Nat \cup {NoDbz}]
  /\ history \in [Airports -> SUBSET [stamp : Stamps, rings : RingSet]]
  /\ \/ summary = NoValue
     \/ summary \in [stamp : Stamps, affected : SUBSET RegionAirports, status : SystemStatus]
  /\ job \in [Handlers -> Job]

Idle == [step |-> "idle", active |-> {}, stale |-> {}, todo |-> {}, subject |-> NoValue,
         rings |-> sampleRings({}), before |-> NoDbz, stamp |-> 0,
         status |-> "operational", messages |-> {}]

UpdaterInit ==
  /\ clock = 0
  /\ composite = [t \in Stamps |-> NoValue]
  /\ latestComposite = NoValue
  /\ published = 0
  /\ failures = 0
  /\ watchlist = {}
  /\ situation = [x \in Airports |-> NoValue]
  /\ previous = [x \in Airports |-> NoDbz]
  /\ history = [x \in Airports |-> {}]
  /\ summary = NoValue
  /\ job = [h \in Handlers |-> Idle]

Busy == {h \in Handlers : job[h].step # "idle"}

At(h, s) == job[h].step = s

Fails == failures < MaxFaults /\ failures' = failures + 1

\* The compositor writes a composite, new or once more, makes it the latest and
\* announces it; the handler starts and looks at the subscriptions at once.
NewFrame(h, t, skies) ==
  /\ At(h, "idle") /\ published < MaxFrames /\ t <= clock
  /\ composite' = [composite EXCEPT ![t] = skies]
  /\ latestComposite' = t
  /\ published' = published + 1
  /\ job' = [job EXCEPT ![h] = [Idle EXCEPT !.step = "sync", !.active = getWatchedAirports]]
  /\ UNCHANGED <<clock, failures, redisKeys>>

TimePasses ==
  /\ clock < MaxClock
  /\ clock' = clock + 1
  /\ UNCHANGED <<composite, latestComposite, published, failures, redisKeys, job>>

-----------------------------------------------------------------------------
\* syncWatchlist: SMEMBERS, then SADD of what is watched and SREM of the rest.
SyncRead(h) ==
  LET gone == watchlist \ job[h].active IN
  /\ At(h, "sync")
  /\ job' = [job EXCEPT ![h].stale = gone,
                        ![h].step = IF job[h].active # {} THEN "add"
                                    ELSE IF gone # {} THEN "remove" ELSE "list"]
  /\ UNCHANGED <<radarVars, failures, redisKeys>>

SyncAdd(h) ==
  /\ At(h, "add")
  /\ watchlist' = watchlist \cup job[h].active
  /\ job' = [job EXCEPT ![h].step = IF job[h].stale # {} THEN "remove" ELSE "list"]
  /\ UNCHANGED <<radarVars, failures, situation, previous, history, summary>>

SyncRemove(h) ==
  /\ At(h, "remove")
  /\ watchlist' = watchlist \ job[h].stale
  /\ job' = [job EXCEPT ![h].step = "list"]
  /\ UNCHANGED <<radarVars, failures, situation, previous, history, summary>>

\* processNewFrame returns no messages when nothing is watched.
ListWatched(h) ==
  /\ At(h, "list")
  /\ job' = [job EXCEPT ![h].todo = watchlist,
                        ![h].step = IF watchlist = {} THEN "tell" ELSE "latest"]
  /\ UNCHANGED <<radarVars, failures, redisKeys>>

\* The frame is the latest one, which need not be the announced one; its age is
\* taken now and serves for the whole update.
ReadLatest(h) ==
  /\ At(h, "latest")
  /\ job' = [job EXCEPT ![h].stamp = latestComposite, ![h].step = "sample",
                        ![h].status = computeSystemStatus(clock - latestComposite)]
  /\ UNCHANGED <<radarVars, failures, redisKeys>>

-----------------------------------------------------------------------------
\* The rings of the next airport.
SampleAirport(h, x) ==
  /\ At(h, "sample") /\ x \in job[h].todo
  /\ job' = [job EXCEPT ![h].todo = @ \ {x},
                        ![h].subject = x,
                        ![h].rings = sampleRings(composite[job[h].stamp][x]),
                        ![h].step = "previous"]
  /\ UNCHANGED <<radarVars, failures, redisKeys>>

\* GET situation:previous.
ReadPrevious(h) ==
  /\ At(h, "previous")
  /\ job' = [job EXCEPT ![h].before = previous[job[h].subject], ![h].step = "compare"]
  /\ UNCHANGED <<radarVars, failures, redisKeys>>

\* What the situation stored before and the new rings give to announce.
Change(x, old, rings) ==
  IF RampOf(rings) = old.ramp /\ rings[5].severity = old.rings[5].severity THEN {}
  ELSE {[kind |-> IF RampOf(rings) = "clear" /\ old.ramp # "clear"
                  THEN "all-clear" ELSE "condition-change",
         airport |-> x, severity |-> rings[5].severity, ramp |-> RampOf(rings)]}

\* Mutation: an airport without a stored situation is announced as clear.
CompareAirportUnseen(h) ==
  LET x == job[h].subject IN
  /\ At(h, "compare")
  /\ job' = [job EXCEPT ![h].step = "store",
       ![h].messages = @ \cup
         IF situation[x] = NoValue
         THEN {[kind |-> "all-clear", airport |-> x, severity |-> "clear", ramp |-> "clear"]}
         ELSE Change(x, situation[x], job[h].rings)]
  /\ UNCHANGED <<radarVars, failures, redisKeys>>

\* GET situation:airport and the comparison with it.
CompareAirport(h) ==
  LET x == job[h].subject IN
  /\ At(h, "compare")
  /\ job' = [job EXCEPT ![h].step = "store",
                        ![h].messages = @ \cup IF situation[x] = NoValue THEN {}
                                               ELSE Change(x, situation[x], job[h].rings)]
  /\ UNCHANGED <<radarVars, failures, redisKeys>>

StoreSituation(h) ==
  /\ At(h, "store")
  /\ situation' = [situation EXCEPT ![job[h].subject] =
       [stamp |-> job[h].stamp, rings |-> job[h].rings, ramp |-> RampOf(job[h].rings),
        trend |-> computeTrend(job[h].rings[50].maxDbz, job[h].before)]]
  /\ job' = [job EXCEPT ![h].step = "storePrevious"]
  /\ UNCHANGED <<radarVars, failures, watchlist, previous, history, summary>>

\* Mutation: the maximum of the airfield ring is kept.
PreviousOfAirfield(h) ==
  /\ At(h, "storePrevious")
  /\ previous' = [previous EXCEPT ![job[h].subject] = job[h].rings[5].maxDbz]
  /\ job' = [job EXCEPT ![h].step = "record"]
  /\ UNCHANGED <<radarVars, failures, watchlist, situation, history, summary>>

StorePrevious(h) ==
  /\ At(h, "storePrevious")
  /\ previous' = [previous EXCEPT ![job[h].subject] = job[h].rings[50].maxDbz]
  /\ job' = [job EXCEPT ![h].step = "record"]
  /\ UNCHANGED <<radarVars, failures, watchlist, situation, history, summary>>

\* The next airport, with nothing left of the last one.
NextAirport(h) ==
  job' = [job EXCEPT ![h].step = "sample", ![h].subject = NoValue,
                     ![h].rings = Idle.rings, ![h].before = NoDbz]

\* addFrame and prune: equal entries are one member of the sorted set.
RecordHistory(h) ==
  LET entry == [stamp |-> job[h].stamp, rings |-> job[h].rings] IN
  /\ At(h, "record")
  /\ history' = [history EXCEPT ![job[h].subject] =
       {e \in @ \cup {entry} : e.stamp > clock - HistoryHours}]
  /\ NextAirport(h)
  /\ UNCHANGED <<radarVars, failures, watchlist, situation, previous, summary>>

\* A call fails: the airport is given up, what it has to announce stays.
AirportFails(h) ==
  /\ job[h].step \in {"previous", "compare", "store", "storePrevious", "record"}
  /\ Fails
  /\ NextAirport(h)
  /\ UNCHANGED <<radarVars, redisKeys>>

-----------------------------------------------------------------------------
\* The affected airports of all regions, watched or not.
Affected == {x \in RegionAirports : situation[x] # NoValue /\ situation[x].ramp # "clear"}

\* The summaries, when every airport has been visited.  The situations are read
\* one after the other before the summary is stored.
Summarise(h) ==
  /\ At(h, "sample") /\ job[h].todo = {}
  /\ summary' = [stamp |-> job[h].stamp, affected |-> Affected,
                 status |-> job[h].status]
  /\ job' = [job EXCEPT ![h].step = "tell"]
  /\ UNCHANGED <<radarVars, failures, watchlist, situation, previous, history>>

SummariseFails(h) ==
  /\ At(h, "sample") /\ job[h].todo = {}
  /\ Fails
  /\ job' = [job EXCEPT ![h].step = "tell"]
  /\ UNCHANGED <<radarVars, redisKeys>>

\* The messages go out; the handler is done.
Tell(h) ==
  /\ At(h, "tell")
  /\ Broadcast(job[h].messages)
  /\ job' = [job EXCEPT ![h] = Idle]
  /\ UNCHANGED <<radarVars, failures, redisKeys>>

\* A call fails before the loop over the airports: the handler gives up.
HandlerFails(h) ==
  /\ job[h].step \in {"sync", "add", "remove", "list", "latest"}
  /\ Fails
  /\ job' = [job EXCEPT ![h] = Idle]
  /\ UNCHANGED <<radarVars, redisKeys>>

\* The steps of a handler that touch no socket.
HandlerStep(h) ==
  \/ SyncRead(h) \/ SyncAdd(h) \/ SyncRemove(h) \/ ListWatched(h) \/ ReadLatest(h)
  \/ \E x \in Airports : SampleAirport(h, x)
  \/ ReadPrevious(h) \/ CompareAirport(h)
  \/ StoreSituation(h) \/ StorePrevious(h) \/ RecordHistory(h)
  \/ Summarise(h)

HandlerFault(h) == AirportFails(h) \/ SummariseFails(h) \/ HandlerFails(h)

=============================================================================
