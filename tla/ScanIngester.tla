---------------------------- MODULE ScanIngester ----------------------------
(***************************************************************************)
(* The NEXRAD ingester process: a poll loop that starts fetchLatest for a  *)
(* batch of stations and waits for all of them to settle, giving up on one *)
(* after 45 s.  Giving up does not stop the fetch (withTimeout only        *)
(* rejects), so the next poll may start a second one for the same station. *)
(***************************************************************************)
EXTENDS ScanStore

CONSTANTS
  Batches,         \* the batches of stations a poll cycle goes through
  Slots,           \* bound on the fetches of one station that can overlap
  NoSlot

ASSUME BatchAssumption == UNION Batches = Stations /\ NoSlot \notin Slots

VARIABLES
  up,              \* the process is running
  togo,            \* batches left in this cycle
  awaited,         \* [Stations -> the fetch the poll waits for, or NoSlot]
  refreshed,       \* stations whose fetch of this unit of time got past the refresh
  latestVolume,    \* the process's Map, 0 = no entry
  fpc,             \* [Stations \X Slots -> where the fetch stands]
  fvol,            \* the volume it is about
  ahead            \* [.. -> the fetches that sent their HSET before its own and still write]

ingestVars == <<up, togo, awaited, refreshed, latestVolume, fpc, fvol, ahead>>

ScanIngesterTypeOK ==
  /\ up \in BOOLEAN
  /\ togo \in SUBSET Batches
  /\ awaited \in [Stations -> Slots \cup {NoSlot}]
  /\ refreshed \in SUBSET Stations
  /\ latestVolume \in [Stations -> Volumes]
  /\ fpc \in [Stations \X Slots -> {"idle", "refresh", "list", "stale", "recheck",
                                   "touch", "download", "hset", "expire", "sadd", "status"}]
  /\ fvol \in [Stations \X Slots -> Volumes]
  /\ ahead \in [Stations \X Slots -> SUBSET Slots]

ScanIngesterInit ==
  /\ up = TRUE
  /\ togo = Batches
  /\ awaited = [s \in Stations |-> NoSlot]
  /\ refreshed = {}
  /\ latestVolume = [s \in Stations |-> 0]
  /\ fpc = [f \in Stations \X Slots |-> "idle"]
  /\ fvol = [f \in Stations \X Slots |-> 0]
  /\ ahead = [f \in Stations \X Slots |-> {}]

-----------------------------------------------------------------------------
Running(s) == {k \in Slots : fpc[<<s, k>>] # "idle"}

\* The fetch goes on to another step.
Move(s, k, pc, v) ==
  /\ fpc' = [fpc EXCEPT ![<<s, k>>] = pc]
  /\ fvol' = [fvol EXCEPT ![<<s, k>>] = v]
  /\ UNCHANGED <<up, togo, awaited, ahead>>

\* The fetch ends and its promise settles.
Settle(s, k) ==
  /\ fpc' = [fpc EXCEPT ![<<s, k>>] = "idle"]
  /\ fvol' = [fvol EXCEPT ![<<s, k>>] = 0]
  /\ awaited' = IF awaited[s] = k THEN [awaited EXCEPT ![s] = NoSlot] ELSE awaited
  /\ ahead' = [f \in Stations \X Slots |->
                 IF f = <<s, k>> THEN {} ELSE IF f[1] = s THEN ahead[f] \ {k} ELSE ahead[f]]
  /\ UNCHANGED <<up, togo, refreshed>>

\* Commands of one process travel over one connection: of two fetches that
\* both write, the one that sent its HSET first stays ahead at every command.
NotOvertaking(s, k) == \A j \in ahead[<<s, k>>] : fpc[<<s, j>>] # fpc[<<s, k>>]

\* pollAllStations: the next batch, every fetch started at once.  A station
\* ingested before begins with the refresh of its TTLs.
PollBatch ==
  /\ up
  /\ \A s \in Stations : awaited[s] = NoSlot
  /\ \E b \in togo :
       /\ \A s \in b : Slots \ Running(s) # {}
       /\ togo' = IF togo = {b} THEN Batches ELSE togo \ {b}
       /\ \E pick \in [b -> Slots] :
            /\ \A s \in b : pick[s] \notin Running(s)
            /\ awaited' = [s \in Stations |-> IF s \in b THEN pick[s] ELSE awaited[s]]
            /\ fpc' = [f \in DOMAIN fpc |->
                         IF f[1] \in b /\ pick[f[1]] = f[2]
                         THEN IF latestVolume[f[1]] # 0 THEN "refresh" ELSE "list"
                         ELSE fpc[f]]
       /\ refreshed' = refreshed \cup {s \in b : latestVolume[s] = 0}
  /\ UNCHANGED <<up, latestVolume, fvol, ahead, faults, storeVars>>

\* withTimeout rejects: the poll goes on, and so does the fetch.
PollGiveUp(s) ==
  /\ awaited[s] # NoSlot
  /\ Fault
  /\ awaited' = [awaited EXCEPT ![s] = NoSlot]
  /\ UNCHANGED <<up, togo, refreshed, latestVolume, fpc, fvol, ahead, storeVars>>

FetchRefresh(s, k) ==
  /\ fpc[<<s, k>>] = "refresh"
  /\ Move(s, k, "list", 0)
  /\ RefreshScanTTL(s)
  /\ refreshed' = refreshed \cup {s}
  /\ UNCHANGED <<faults, latestVolume>>

\* The listing, and what the newest volume in it calls for.
Verdict(s) ==
  IF TooOld(bucket[s]) THEN "stale"
  ELSE IF latestVolume[s] = bucket[s] THEN "recheck" ELSE "download"

FetchList(s, k) ==
  /\ fpc[<<s, k>>] = "list"
  /\ IF bucket[s] = 0 THEN Settle(s, k)
     ELSE Move(s, k, Verdict(s), bucket[s]) /\ UNCHANGED refreshed
  /\ UNCHANGED <<faults, latestVolume, storeVars>>

FetchStale(s, k) ==
  /\ fpc[<<s, k>>] = "stale"
  /\ WriteStatus(s, "stale", fvol[<<s, k>>])
  /\ Settle(s, k)
  /\ UNCHANGED <<faults, latestVolume>>

\* Mutation: an unchanged volume is never fetched again, scan or no scan.
FetchRecheckTrusting(s, k) ==
  /\ fpc[<<s, k>>] = "recheck"
  /\ RefreshScanTTL(s)
  /\ Move(s, k, "touch", fvol[<<s, k>>])
  /\ UNCHANGED <<faults, refreshed, latestVolume>>

\* An unchanged volume is refreshed; when its scan has expired it is
\* forgotten and downloaded again.
FetchRecheck(s, k) ==
  /\ fpc[<<s, k>>] = "recheck"
  /\ RefreshScanTTL(s)
  /\ Move(s, k, IF scan[s] # 0 THEN "touch" ELSE "download", fvol[<<s, k>>])
  /\ latestVolume' = IF scan[s] # 0 THEN latestVolume ELSE [latestVolume EXCEPT ![s] = 0]
  /\ UNCHANGED <<faults, refreshed>>

FetchTouch(s, k) ==
  /\ fpc[<<s, k>>] = "touch"
  /\ WriteStatus(s, "active", fvol[<<s, k>>])
  /\ Settle(s, k)
  /\ UNCHANGED <<faults, latestVolume>>

\* Mutation: the volume is remembered before it is stored.
FetchDownloadRemembers(s, k) ==
  /\ fpc[<<s, k>>] = "download"
  /\ latestVolume' = [latestVolume EXCEPT ![s] = fvol[<<s, k>>]]
  /\ Move(s, k, "hset", fvol[<<s, k>>])
  /\ UNCHANGED <<faults, refreshed, storeVars>>

\* Download, parse and project, in a worker thread.
FetchDownload(s, k) ==
  /\ fpc[<<s, k>>] = "download"
  /\ Move(s, k, "hset", fvol[<<s, k>>])
  /\ UNCHANGED <<faults, refreshed, latestVolume, storeVars>>

FetchHset(s, k) ==
  /\ fpc[<<s, k>>] = "hset"
  /\ HsetScan(s, fvol[<<s, k>>])
  /\ fpc' = [fpc EXCEPT ![<<s, k>>] = "expire"]
  /\ ahead' = [ahead EXCEPT ![<<s, k>>] =
                 {j \in Slots : fpc[<<s, j>>] \in {"expire", "sadd", "status"}}]
  /\ UNCHANGED <<faults, up, togo, awaited, refreshed, latestVolume, fvol>>

\* Mutation: the EXPIRE is missing.
FetchExpireMissing(s, k) ==
  /\ fpc[<<s, k>>] = "expire"
  /\ Move(s, k, "sadd", fvol[<<s, k>>])
  /\ UNCHANGED <<faults, refreshed, latestVolume, storeVars>>

FetchExpire(s, k) ==
  /\ fpc[<<s, k>>] = "expire"
  /\ NotOvertaking(s, k)
  /\ ExpireScan(s)
  /\ Move(s, k, "sadd", fvol[<<s, k>>])
  /\ UNCHANGED <<faults, refreshed, latestVolume>>

FetchSadd(s, k) ==
  /\ fpc[<<s, k>>] = "sadd"
  /\ NotOvertaking(s, k)
  /\ SaddActive(s)
  /\ Move(s, k, "status", fvol[<<s, k>>])
  /\ UNCHANGED <<faults, refreshed, latestVolume>>

\* The status is written and the volume remembered as the station's latest.
FetchRecord(s, k) ==
  /\ fpc[<<s, k>>] = "status"
  /\ NotOvertaking(s, k)
  /\ WriteStatus(s, "active", fvol[<<s, k>>])
  /\ latestVolume' = [latestVolume EXCEPT ![s] = fvol[<<s, k>>]]
  /\ Settle(s, k)
  /\ UNCHANGED faults

\* A call fails or times out, the volume is corrupt, or the listing is of a day
\* with no volume yet.  The refresh at the start swallows its failure; a poll
\* a minute later tries it again.
FetchFail(s, k) ==
  /\ fpc[<<s, k>>] # "idle"
  /\ Fault
  /\ IF fpc[<<s, k>>] = "refresh"
     THEN Move(s, k, "list", 0) /\ UNCHANGED refreshed
     ELSE Settle(s, k)
  /\ UNCHANGED <<latestVolume, storeVars>>

\* The process dies; nothing but Redis survives.
IngesterCrash ==
  /\ up
  /\ Fault
  /\ up' = FALSE
  /\ togo' = Batches
  /\ awaited' = [s \in Stations |-> NoSlot]
  /\ latestVolume' = [s \in Stations |-> 0]
  /\ fpc' = [f \in Stations \X Slots |-> "idle"]
  /\ fvol' = [f \in Stations \X Slots |-> 0]
  /\ ahead' = [f \in Stations \X Slots |-> {}]
  /\ UNCHANGED <<refreshed, storeVars>>

IngesterRestart ==
  /\ ~up
  /\ up' = TRUE
  /\ UNCHANGED <<togo, awaited, refreshed, latestVolume, fpc, fvol, ahead, faults, storeVars>>

FetchWork(s, k) ==
  \/ FetchRefresh(s, k) \/ FetchList(s, k) \/ FetchStale(s, k) \/ FetchRecheck(s, k)
  \/ FetchTouch(s, k) \/ FetchDownload(s, k) \/ FetchHset(s, k) \/ FetchExpire(s, k)
  \/ FetchSadd(s, k) \/ FetchRecord(s, k)

IngesterWork == PollBatch \/ IngesterRestart

IngesterNext ==
  /\ \/ IngesterWork \/ IngesterCrash
     \/ \E s \in Stations : PollGiveUp(s) \/ \E k \in Slots : FetchWork(s, k) \/ FetchFail(s, k)
  /\ UNCHANGED <<now, bucket>>

\* A unit of time is long enough for every station to have been polled.
TimeMayPass == ~up \/ refreshed = Stations

IngesterTick ==
  /\ TimeMayPass
  /\ refreshed' = {}
  /\ UNCHANGED <<up, togo, awaited, latestVolume, fpc, fvol, ahead>>

=============================================================================
