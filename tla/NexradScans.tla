---------------------------- MODULE NexradScans ----------------------------
(***************************************************************************)
(* The scan path: archive bucket -> NEXRAD ingester -> Redis.              *)
(***************************************************************************)
EXTENDS ScanIngester

vars == <<now, bucket, faults, storeVars, ingestVars>>

TypeOK == ScanStoreTypeOK /\ ScanIngesterTypeOK

Init == ScanStoreInit /\ ScanIngesterInit

TimeStep == AgeStore /\ IngesterTick

Next == TimeStep \/ IngesterNext

Spec == Init /\ [][Next]_vars

\* docker restarts the process; every await of a fetch has a timeout of its
\* own, so that each fetch ends.
Fairness ==
  /\ WF_vars(IngesterWork /\ IngesterNext)
  /\ \A s \in Stations : \A k \in Slots : WF_vars(FetchWork(s, k) /\ IngesterNext)

FairSpec == Spec /\ Fairness

-----------------------------------------------------------------------------
Quiet(s) == Running(s) = {}

\* What the ingester believes it has stored for a station is not newer than
\* what Redis holds, or the next polls would take the older scan for current.
ScanNotBehind ==
  \A s \in Stations :
    up /\ Quiet(s) /\ latestVolume[s] # 0 /\ scan[s] # 0 => scan[s] >= latestVolume[s]

\* "Data hasn't changed - refresh TTLs so keys don't expire": the scan whose
\* TTL a fetch is about to refresh for an unchanged volume is of that volume.
UnchangedIsCurrent ==
  \A s \in Stations : \A k \in Slots :
    fpc[<<s, k>>] \in {"recheck", "touch"} => scan[s] \in {0, fvol[<<s, k>>]}

\* The station list never advertises data newer than the scan the tiles are
\* drawn from: a status "active" is backed by a scan at least as new, or, after
\* a fault only, by none.
ActiveBacked ==
  \A s \in Stations :
    status[s].state = "active" =>
      scan[s] >= status[s].last \/ (scan[s] = 0 /\ faults > 0)

\* Without a fault, a scan without TTL is one whose EXPIRE is on its way: no
\* station's last scan stays for ever.
ScanMortal ==
  faults = 0 =>
    \A s \in Stations :
      scan[s] # 0 /\ scanDies[s] = NoTTL => \E k \in Slots : fpc[<<s, k>>] = "expire"

\* "This keeps existing scans alive through ANY failure": as long as the
\* process lives, the scan of a station it has ingested does not expire,
\* however long the radar is silent or the bucket out of reach.
KeptAlive ==
  [][\A s \in Stations :
       latestVolume[s] # 0 /\ scan[s] # 0 => scan'[s] # 0]_vars

\* The newest volume of a station, as long as it is fresh, ends up in Redis and
\* stays, also when a write failed half way, the process died or the key
\* expired: the ingester notices and downloads it again.  (The clock stops at
\* MaxTime: every run ends in a stretch without a new volume.)
FreshStored ==
  \A s \in Stations :
    <>[](bucket[s] = 0 \/ TooOld(bucket[s]) \/ scan[s] = bucket[s])

=============================================================================
