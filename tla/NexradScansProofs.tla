------------------------- MODULE NexradScansProofs -------------------------
(***************************************************************************)
(* TLAPS proofs about NexradScans, for any stations, batches, slots and    *)
(* bounds.                                                                 *)
(***************************************************************************)
EXTENDS NexradScans, TLAPS

-----------------------------------------------------------------------------
(* Type correctness *)

LEMMA InitType == Init => TypeOK
BY ScanAssumption, BatchAssumption
   DEF Init, ScanStoreInit, ScanIngesterInit, TypeOK, ScanStoreTypeOK, ScanIngesterTypeOK,
       Volumes, Deaths, NoTTL, Statuses, NoStatus

\* The four ways a fetch's own variables move.
LEMMA MoveType ==
  ASSUME NEW s \in Stations, NEW k \in Slots, ScanIngesterTypeOK,
         NEW pc \in {"list", "stale", "recheck", "touch", "download", "hset",
                     "expire", "sadd", "status"},
         NEW v \in Volumes, Move(s, k, pc, v)
  PROVE  /\ up' \in BOOLEAN
         /\ togo' \in SUBSET Batches
         /\ awaited' \in [Stations -> Slots \cup {NoSlot}]
         /\ fpc' \in [Stations \X Slots -> {"idle", "refresh", "list", "stale", "recheck",
                          "touch", "download", "hset", "expire", "sadd", "status"}]
         /\ fvol' \in [Stations \X Slots -> Volumes]
         /\ ahead' \in [Stations \X Slots -> SUBSET Slots]
BY DEF Move, ScanIngesterTypeOK

LEMMA SettleType ==
  ASSUME NEW s \in Stations, NEW k \in Slots, ScanStoreTypeOK, ScanIngesterTypeOK, Settle(s, k)
  PROVE  /\ up' \in BOOLEAN
         /\ togo' \in SUBSET Batches
         /\ awaited' \in [Stations -> Slots \cup {NoSlot}]
         /\ refreshed' \in SUBSET Stations
         /\ fpc' \in [Stations \X Slots -> {"idle", "refresh", "list", "stale", "recheck",
                          "touch", "download", "hset", "expire", "sadd", "status"}]
         /\ fvol' \in [Stations \X Slots -> Volumes]
         /\ ahead' \in [Stations \X Slots -> SUBSET Slots]
<1>1. 0 \in Volumes
  BY ScanAssumption DEF Volumes
<1>2. ahead' \in [Stations \X Slots -> SUBSET Slots]
  BY DEF Settle, ScanIngesterTypeOK
<1> QED  BY <1>1, <1>2 DEF Settle, ScanIngesterTypeOK

\* The commands write values of the right kind.
LEMMA StoreType ==
  ASSUME NEW s \in Stations, NEW v \in Volumes, NEW state \in {"active", "stale"},
         ScanStoreTypeOK, UNCHANGED <<now, bucket>>, faults' \in 0..MaxFaults,
         \/ HsetScan(s, v) \/ ExpireScan(s) \/ SaddActive(s)
         \/ WriteStatus(s, state, v) \/ RefreshScanTTL(s) \/ UNCHANGED storeVars
  PROVE  ScanStoreTypeOK'
<1>1. now + ScanTTL \in Deaths
  BY ScanAssumption DEF Deaths, ScanStoreTypeOK
<1>2. CASE HsetScan(s, v) \/ SaddActive(s) \/ UNCHANGED storeVars
  BY <1>2 DEF HsetScan, SaddActive, storeVars, ScanStoreTypeOK
<1>3. CASE ExpireScan(s)
  BY <1>1, <1>3 DEF ExpireScan, ScanStoreTypeOK
<1>4. [status EXCEPT ![s] = [state |-> state, last |-> v, dies |-> now + ScanTTL]]
        \in [Stations -> Statuses]
  BY <1>1 DEF ScanStoreTypeOK, Statuses
<1>5. CASE WriteStatus(s, state, v)
  BY <1>4, <1>5 DEF WriteStatus, ScanStoreTypeOK
<1>6. [status EXCEPT ![s].dies = now + ScanTTL] \in [Stations -> Statuses]
  BY <1>1 DEF ScanStoreTypeOK, Statuses
<1>7. CASE RefreshScanTTL(s)
  BY <1>1, <1>6, <1>7 DEF RefreshScanTTL, ScanStoreTypeOK
<1> QED  BY <1>2, <1>3, <1>5, <1>7

\* Each step of a fetch keeps the types.
LEMMA FetchType ==
  ASSUME NEW s \in Stations, NEW k \in Slots, TypeOK, UNCHANGED <<now, bucket>>,
         FetchWork(s, k) \/ FetchFail(s, k)
  PROVE  TypeOK'
<1> USE DEF TypeOK
<1>1. /\ 0 \in Volumes /\ bucket[s] \in Volumes /\ fvol[<<s, k>>] \in Volumes
      /\ faults \in 0..MaxFaults /\ MaxFaults \in Nat
      /\ latestVolume \in [Stations -> Volumes]
      /\ refreshed \in SUBSET Stations /\ refreshed \cup {s} \in SUBSET Stations
  BY ScanAssumption DEF Volumes, ScanStoreTypeOK, ScanIngesterTypeOK
<1>2. UNCHANGED faults \/ Fault => faults' \in 0..MaxFaults
  BY <1>1 DEF Fault
<1>3. ASSUME NEW pc \in {"list", "stale", "recheck", "touch", "download", "hset",
                         "expire", "sadd", "status"},
             NEW v \in Volumes, Move(s, k, pc, v),
             refreshed' \in SUBSET Stations,
             latestVolume' \in [Stations -> Volumes]
      PROVE  ScanIngesterTypeOK'
  <2>1. /\ up' \in BOOLEAN
        /\ togo' \in SUBSET Batches
        /\ awaited' \in [Stations -> Slots \cup {NoSlot}]
        /\ fpc' \in [Stations \X Slots -> {"idle", "refresh", "list", "stale", "recheck",
                         "touch", "download", "hset", "expire", "sadd", "status"}]
        /\ fvol' \in [Stations \X Slots -> Volumes]
        /\ ahead' \in [Stations \X Slots -> SUBSET Slots]
    BY <1>3, MoveType
  <2> QED  BY <1>3, <2>1 DEF ScanIngesterTypeOK
<1>4. ASSUME Settle(s, k), latestVolume' \in [Stations -> Volumes]
      PROVE  ScanIngesterTypeOK'
  BY <1>4, SettleType DEF ScanIngesterTypeOK
<1>5. CASE FetchRefresh(s, k)
  <2>1. ScanStoreTypeOK'
    BY <1>1, <1>2, <1>5, StoreType DEF FetchRefresh
  <2>2. ScanIngesterTypeOK'
    BY <1>1, <1>3, <1>5 DEF FetchRefresh
  <2> QED  BY <2>1, <2>2
<1>6. CASE FetchList(s, k)
  <2>1. ScanStoreTypeOK'
    BY <1>1, <1>2, <1>6, StoreType DEF FetchList
  <2>2. Verdict(s) \in {"stale", "recheck", "download"}
    BY DEF Verdict
  <2>3. CASE bucket[s] = 0
    BY <1>1, <1>4, <1>6, <2>1, <2>3 DEF FetchList
  <2>4. CASE bucket[s] # 0
    BY <1>1, <1>3, <1>6, <2>1, <2>2, <2>4 DEF FetchList
  <2> QED  BY <2>3, <2>4
<1>7. CASE FetchStale(s, k)
  <2>1. ScanStoreTypeOK'
    BY <1>1, <1>2, <1>7, StoreType DEF FetchStale
  <2>2. ScanIngesterTypeOK'
    BY <1>1, <1>4, <1>7 DEF FetchStale
  <2> QED  BY <2>1, <2>2
<1>8. CASE FetchRecheck(s, k)
  <2>1. ScanStoreTypeOK'
    BY <1>1, <1>2, <1>8, StoreType DEF FetchRecheck
  <2>2. latestVolume' \in [Stations -> Volumes]
    BY <1>1, <1>8 DEF FetchRecheck
  <2>3. ScanIngesterTypeOK'
    BY <1>1, <1>3, <1>8, <2>2 DEF FetchRecheck
  <2> QED  BY <2>1, <2>3
<1>9. CASE FetchTouch(s, k)
  <2>1. ScanStoreTypeOK'
    BY <1>1, <1>2, <1>9, StoreType DEF FetchTouch
  <2>2. ScanIngesterTypeOK'
    BY <1>1, <1>4, <1>9 DEF FetchTouch
  <2> QED  BY <2>1, <2>2
<1>10. CASE FetchDownload(s, k)
  <2>1. ScanStoreTypeOK'
    BY <1>1, <1>2, <1>10, StoreType DEF FetchDownload
  <2>2. ScanIngesterTypeOK'
    BY <1>1, <1>3, <1>10 DEF FetchDownload
  <2> QED  BY <2>1, <2>2
<1>11. CASE FetchHset(s, k)
  <2>1. ScanStoreTypeOK'
    BY <1>1, <1>2, <1>11, StoreType DEF FetchHset
  <2>2. ScanIngesterTypeOK'
    BY <1>1, <1>11 DEF FetchHset, ScanIngesterTypeOK
  <2> QED  BY <2>1, <2>2
<1>12. CASE FetchExpire(s, k)
  <2>1. ScanStoreTypeOK'
    BY <1>1, <1>2, <1>12, StoreType DEF FetchExpire
  <2>2. ScanIngesterTypeOK'
    BY <1>1, <1>3, <1>12 DEF FetchExpire
  <2> QED  BY <2>1, <2>2
<1>13. CASE FetchSadd(s, k)
  <2>1. ScanStoreTypeOK'
    BY <1>1, <1>2, <1>13, StoreType DEF FetchSadd
  <2>2. ScanIngesterTypeOK'
    BY <1>1, <1>3, <1>13 DEF FetchSadd
  <2> QED  BY <2>1, <2>2
<1>14. CASE FetchRecord(s, k)
  <2>1. ScanStoreTypeOK'
    BY <1>1, <1>2, <1>14, StoreType DEF FetchRecord
  <2>2. latestVolume' \in [Stations -> Volumes]
    BY <1>1, <1>14 DEF FetchRecord
  <2>3. ScanIngesterTypeOK'
    BY <1>4, <1>14, <2>2 DEF FetchRecord
  <2> QED  BY <2>1, <2>3
<1>15. CASE FetchFail(s, k)
  <2>1. ScanStoreTypeOK'
    BY <1>1, <1>2, <1>15, StoreType DEF FetchFail
  <2>2. CASE fpc[<<s, k>>] = "refresh"
    BY <1>1, <1>3, <1>15, <2>1, <2>2 DEF FetchFail
  <2>3. CASE fpc[<<s, k>>] # "refresh"
    BY <1>1, <1>4, <1>15, <2>1, <2>3 DEF FetchFail
  <2> QED  BY <2>2, <2>3
<1> QED
  BY <1>5, <1>6, <1>7, <1>8, <1>9, <1>10, <1>11, <1>12, <1>13, <1>14, <1>15 DEF FetchWork

\* A unit of time keeps the types.
LEMMA TimeType ==
  ASSUME TypeOK, TimeStep
  PROVE  TypeOK'
<1>1. now' \in 0..MaxTime /\ now' \in Volumes /\ 0 \in Volumes /\ NoTTL \in Deaths
  BY ScanAssumption DEF TypeOK, TimeStep, AgeStore, ScanStoreTypeOK, Volumes, NoTTL, Deaths
<1>2. NoStatus \in Statuses
  BY <1>1 DEF NoStatus, Statuses
<1>3. bucket' \in [Stations -> Volumes]
  <2>1. PICK S \in SUBSET Stations :
          bucket' = [s \in Stations |-> IF s \in S THEN now + 1 ELSE bucket[s]]
    BY DEF TimeStep, AgeStore
  <2>2. now + 1 \in Volumes
    BY <1>1 DEF TimeStep, AgeStore
  <2> QED  BY <2>1, <2>2 DEF TypeOK, ScanStoreTypeOK
<1>4. ScanStoreTypeOK'
  BY <1>1, <1>2, <1>3 DEF TypeOK, TimeStep, AgeStore, ScanStoreTypeOK
<1>5. ScanIngesterTypeOK'
  BY DEF TypeOK, TimeStep, IngesterTick, ScanIngesterTypeOK, ScanStoreTypeOK, AgeStore
<1> QED  BY <1>4, <1>5 DEF TypeOK

\* A batch of fetches keeps the types.
LEMMA BatchType ==
  ASSUME TypeOK, PollBatch, UNCHANGED <<now, bucket>>
  PROVE  TypeOK'
<1>1. ScanStoreTypeOK'
  BY DEF TypeOK, PollBatch, ScanStoreTypeOK, storeVars
<1>2. PICK b \in togo :
        /\ togo' = IF togo = {b} THEN Batches ELSE togo \ {b}
        /\ \E pick \in [b -> Slots] :
             /\ \A s \in b : pick[s] \notin Running(s)
             /\ awaited' = [s \in Stations |-> IF s \in b THEN pick[s] ELSE awaited[s]]
             /\ fpc' = [f \in DOMAIN fpc |->
                          IF f[1] \in b /\ pick[f[1]] = f[2]
                          THEN IF latestVolume[f[1]] # 0 THEN "refresh" ELSE "list"
                          ELSE fpc[f]]
        /\ refreshed' = refreshed \cup {s \in b : latestVolume[s] = 0}
  BY DEF PollBatch
<1>3. b \in SUBSET Stations
  BY BatchAssumption DEF TypeOK, ScanIngesterTypeOK
<1>4. togo' \in SUBSET Batches /\ refreshed' \in SUBSET Stations
  BY <1>2, <1>3 DEF TypeOK, ScanIngesterTypeOK
<1>5. /\ awaited' \in [Stations -> Slots \cup {NoSlot}]
      /\ fpc' \in [Stations \X Slots -> {"idle", "refresh", "list", "stale", "recheck",
                       "touch", "download", "hset", "expire", "sadd", "status"}]
  BY <1>2, <1>3 DEF TypeOK, ScanIngesterTypeOK
<1> QED  BY <1>1, <1>4, <1>5 DEF TypeOK, PollBatch, ScanIngesterTypeOK

\* Every step keeps the types.
LEMMA NextType == TypeOK /\ [Next]_vars => TypeOK'
<1> SUFFICES ASSUME TypeOK, [Next]_vars PROVE TypeOK'
  OBVIOUS
<1>1. CASE UNCHANGED vars
  BY <1>1 DEF vars, storeVars, ingestVars, TypeOK, ScanStoreTypeOK, ScanIngesterTypeOK
<1>2. CASE TimeStep
  BY <1>2, TimeType
<1>3. CASE IngesterNext
  <2>1. UNCHANGED <<now, bucket>>
    BY <1>3 DEF IngesterNext
  <2>2. CASE PollBatch
    BY <2>1, <2>2, BatchType
  <2>3. CASE IngesterRestart
    BY <2>1, <2>3 DEF IngesterRestart, storeVars, TypeOK, ScanStoreTypeOK, ScanIngesterTypeOK
  <2>4. CASE IngesterCrash
    <3>1. 0 \in Volumes
      BY ScanAssumption DEF Volumes
    <3>2. ScanStoreTypeOK'
      BY <2>1, <2>4, ScanAssumption DEF IngesterCrash, Fault, storeVars, TypeOK, ScanStoreTypeOK
    <3>3. ScanIngesterTypeOK'
      BY <2>4, <3>1 DEF IngesterCrash, TypeOK, ScanIngesterTypeOK
    <3> QED  BY <3>2, <3>3 DEF TypeOK
  <2>5. ASSUME NEW s \in Stations, PollGiveUp(s) PROVE TypeOK'
    BY <2>1, <2>5, ScanAssumption
       DEF PollGiveUp, Fault, storeVars, TypeOK, ScanStoreTypeOK, ScanIngesterTypeOK
  <2>6. ASSUME NEW s \in Stations, NEW k \in Slots, FetchWork(s, k) \/ FetchFail(s, k)
        PROVE  TypeOK'
    BY <2>1, <2>6, FetchType
  <2> QED  BY <1>3, <2>2, <2>3, <2>4, <2>5, <2>6 DEF IngesterNext, IngesterWork
<1> QED  BY <1>1, <1>2, <1>3 DEF Next

\* Type correctness of the scan path: in particular a volume is never of the
\* future, and no key lives beyond SCAN_TTL after the clock's last unit.
THEOREM TypeOKHolds == Spec => []TypeOK
<1>1. Init => TypeOK
  BY InitType
<1>2. TypeOK /\ [Next]_vars => TypeOK'
  BY NextType
<1> QED  BY <1>1, <1>2, PTL DEF Spec

-----------------------------------------------------------------------------
(* A scan without TTL *)

\* The faults of a run are only counted.
LEMMA FaultsCount == [Next]_vars => UNCHANGED faults \/ Fault
<1> SUFFICES ASSUME [Next]_vars PROVE UNCHANGED faults \/ Fault
  OBVIOUS
<1>1. ASSUME NEW s \in Stations, NEW k \in Slots, FetchWork(s, k) PROVE UNCHANGED faults
  BY <1>1 DEF FetchWork, FetchRefresh, FetchList, FetchStale, FetchRecheck, FetchTouch,
       FetchDownload, FetchHset, FetchExpire, FetchSadd, FetchRecord
<1>2. ASSUME NEW s \in Stations, NEW k \in Slots, FetchFail(s, k) \/ PollGiveUp(s) PROVE Fault
  BY <1>2 DEF FetchFail, PollGiveUp
<1>3. CASE IngesterNext
  BY <1>1, <1>2, <1>3
     DEF IngesterNext, IngesterWork, PollBatch, IngesterRestart, IngesterCrash, PollGiveUp
<1>4. CASE TimeStep \/ UNCHANGED vars
  BY <1>4 DEF TimeStep, AgeStore, vars
<1> QED  BY <1>3, <1>4 DEF Next

\* Only HSET on a key that is gone leaves a scan without TTL, and the fetch
\* that sent it is then at EXPIRE, where without a fault it stays until that
\* is done.
LEMMA MortalStep == TypeOK /\ ScanMortal /\ [Next]_vars => ScanMortal'
<1> SUFFICES ASSUME TypeOK, ScanMortal, [Next]_vars, faults' = 0,
                    NEW s \in Stations, scan'[s] # 0, scanDies'[s] = NoTTL
             PROVE  \E k \in Slots : fpc'[<<s, k>>] = "expire"
  BY DEF ScanMortal
<1> USE DEF NoTTL
<1>1. /\ now \in Nat /\ now + ScanTTL \in Nat \ {0} /\ faults \in Nat
      /\ scan \in [Stations -> Volumes] /\ scanDies \in [Stations -> Deaths]
      /\ fpc \in [Stations \X Slots -> {"idle", "refresh", "list", "stale", "recheck",
                       "touch", "download", "hset", "expire", "sadd", "status"}]
  BY ScanAssumption DEF TypeOK, ScanStoreTypeOK, ScanIngesterTypeOK
<1>2. ~Fault /\ faults = 0
  <2>1. UNCHANGED faults \/ Fault
    BY FaultsCount
  <2> QED  BY <1>1, <2>1 DEF Fault
<1>3. ASSUME scan[s] # 0, scanDies[s] = NoTTL, \A k \in Slots : fpc[<<s, k>>] = "expire" =>
                                                  fpc'[<<s, k>>] = "expire"
      PROVE  \E k \in Slots : fpc'[<<s, k>>] = "expire"
  BY <1>2, <1>3 DEF ScanMortal
<1>4. CASE UNCHANGED vars
  BY <1>3, <1>4 DEF vars, storeVars, ingestVars
<1>5. CASE TimeStep
  BY <1>1, <1>3, <1>5 DEF TimeStep, AgeStore, IngesterTick
<1>6. CASE PollBatch \/ IngesterRestart
  BY <1>1, <1>3, <1>6 DEF PollBatch, IngesterRestart, storeVars, Running
<1>7. CASE \E t \in Stations, k \in Slots : FetchWork(t, k)
  <2>1. PICK t \in Stations, k \in Slots : FetchWork(t, k)
    BY <1>7
  <2>2. CASE FetchHset(t, k)
    BY <1>1, <1>3, <2>2 DEF FetchHset, HsetScan
  <2>3. CASE FetchExpire(t, k)
    BY <1>1, <1>3, <2>3 DEF FetchExpire, ExpireScan, Move
  <2>4. CASE FetchRefresh(t, k) \/ FetchRecheck(t, k)
    BY <1>1, <1>3, <2>4 DEF FetchRefresh, FetchRecheck, RefreshScanTTL, Move
  <2>5. CASE FetchList(t, k) \/ FetchDownload(t, k)
    BY <1>1, <1>3, <2>5 DEF FetchList, FetchDownload, Move, Settle, storeVars
  <2>6. CASE FetchStale(t, k) \/ FetchTouch(t, k) \/ FetchSadd(t, k) \/ FetchRecord(t, k)
    BY <1>1, <1>3, <2>6
       DEF FetchStale, FetchTouch, FetchSadd, FetchRecord, WriteStatus, SaddActive, Move, Settle
  <2> QED  BY <2>1, <2>2, <2>3, <2>4, <2>5, <2>6 DEF FetchWork
<1> QED
  BY <1>2, <1>4, <1>5, <1>6, <1>7
     DEF Next, IngesterNext, IngesterWork, IngesterCrash, PollGiveUp, FetchFail

\* Without a fault, a scan without TTL is one whose EXPIRE is on its way,
\* however many fetches of the station overlap.
THEOREM ScanMortalHolds == Spec => []ScanMortal
<1>1. Init => ScanMortal
  BY DEF Init, ScanStoreInit, ScanMortal
<1>2. TypeOK /\ ScanMortal /\ [Next]_vars => ScanMortal'
  BY MortalStep
<1> QED  BY <1>1, <1>2, TypeOKHolds, PTL DEF Spec

-----------------------------------------------------------------------------
(* One fetch of a station at a time *)

\* No fetch is started for a station while another one of it still runs.
NoOverlap == \A s \in Stations : \A j, k \in Running(s) : j = k

Writing == {"expire", "sadd", "status"}
Listed  == Writing \cup {"stale", "recheck", "touch", "download", "hset"}

\* Nothing the ingester knows is newer than the bucket, and what it has stored
\* is at least as new as what it remembers or advertises.
VolumesInOrder(s) ==
  /\ bucket[s] <= now
  /\ latestVolume[s] <= bucket[s] /\ scan[s] <= bucket[s] /\ status[s].last <= bucket[s]
  /\ latestVolume[s] # 0 /\ scan[s] # 0 => scan[s] >= latestVolume[s]
  /\ status[s].state = "active" /\ scan[s] # 0 => scan[s] >= status[s].last

\* A fetch is about a volume as new as anything known of the station; when that
\* is for an unchanged volume, still so; and what it has written is still there,
\* or has expired.
FetchInOrder(s, k) ==
  LET v == fvol[<<s, k>>]
      pc == fpc[<<s, k>>]
  IN  /\ pc \in Listed => /\ v # 0 /\ v <= bucket[s]
                          /\ latestVolume[s] <= v /\ scan[s] <= v /\ status[s].last <= v
      /\ pc \in {"recheck", "touch"} => latestVolume[s] = v
      /\ pc \in Writing => scan[s] \in {0, v}

OrderInv ==
  \A s \in Stations : VolumesInOrder(s) /\ \A k \in Slots : FetchInOrder(s, k)


LEMMA InitOrder == Init => OrderInv
BY ScanAssumption
   DEF Init, ScanStoreInit, ScanIngesterInit, OrderInv, VolumesInOrder, FetchInOrder, NoStatus,
       Listed, Writing

\* A step of a fetch of one station does not touch another.
LEMMA OtherStations ==
  ASSUME TypeOK, NEW s \in Stations, NEW k \in Slots, FetchWork(s, k) \/ FetchFail(s, k),
         NEW t \in Stations, t # s
  PROVE  /\ scan'[t] = scan[t] /\ scanDies'[t] = scanDies[t] /\ status'[t] = status[t]
         /\ latestVolume'[t] = latestVolume[t]
         /\ t \in refreshed' <=> t \in refreshed
         /\ \A j \in Slots : /\ fpc'[<<t, j>>] = fpc[<<t, j>>]
                            /\ fvol'[<<t, j>>] = fvol[<<t, j>>]
BY DEF TypeOK, ScanStoreTypeOK, ScanIngesterTypeOK, FetchWork, FetchRefresh, FetchList,
     FetchStale, FetchRecheck, FetchTouch, FetchDownload, FetchHset, FetchExpire, FetchSadd,
     FetchRecord, FetchFail, Move, Settle, storeVars, HsetScan, ExpireScan, SaddActive,
     WriteStatus, RefreshScanTTL

\* A fetch that is alone and takes a step was running, and stays alone.
LEMMA OtherFetches ==
  ASSUME TypeOK, NoOverlap, NEW s \in Stations, NEW k \in Slots, FetchWork(s, k) \/ FetchFail(s, k)
  PROVE  /\ fpc[<<s, k>>] # "idle"
         /\ \A j \in Slots : j # k => fpc[<<s, j>>] = "idle" /\ fpc'[<<s, j>>] = "idle"
<1>1. fpc[<<s, k>>] # "idle"
  BY DEF FetchWork, FetchRefresh, FetchList, FetchStale, FetchRecheck, FetchTouch,
       FetchDownload, FetchHset, FetchExpire, FetchSadd, FetchRecord, FetchFail
<1>2. ASSUME NEW j \in Slots, j # k PROVE fpc[<<s, j>>] = "idle"
  BY <1>1, <1>2 DEF NoOverlap, Running
<1>3. ASSUME NEW j \in Slots, j # k PROVE fpc'[<<s, j>>] = fpc[<<s, j>>]
  BY <1>3 DEF TypeOK, ScanIngesterTypeOK, FetchWork, FetchRefresh, FetchList, FetchStale,
       FetchRecheck, FetchTouch, FetchDownload, FetchHset, FetchExpire, FetchSadd,
       FetchRecord, FetchFail, Move, Settle
<1> QED  BY <1>1, <1>2, <1>3

\* The steps of a fetch that is alone.
LEMMA FetchOrder ==
  ASSUME TypeOK, NoOverlap, OrderInv, NEW s \in Stations, NEW k \in Slots,
         FetchWork(s, k) \/ FetchFail(s, k), UNCHANGED <<now, bucket>>
  PROVE  OrderInv'
<1>1. SUFFICES ASSUME NEW t \in Stations, NEW j \in Slots
               PROVE  VolumesInOrder(t)' /\ FetchInOrder(t, j)'
  BY DEF OrderInv
<1>2. /\ VolumesInOrder(t) /\ FetchInOrder(t, j)
      /\ VolumesInOrder(s) /\ FetchInOrder(s, k)
  BY DEF OrderInv
<1>3. CASE t # s
  BY <1>2, <1>3, OtherStations DEF VolumesInOrder, FetchInOrder
<1>4. /\ fpc[<<s, k>>] # "idle"
      /\ j # k => fpc[<<s, j>>] = "idle" /\ fpc'[<<s, j>>] = "idle"
  BY OtherFetches
<1>5. j # k => FetchInOrder(s, j)'
  BY <1>4 DEF FetchInOrder, Listed, Writing
<1>6. VolumesInOrder(s)' /\ FetchInOrder(s, k)'
  <2> USE DEF VolumesInOrder, FetchInOrder, Listed, Writing
  <2>1. /\ now \in Nat /\ ScanTTL \in Nat /\ s \in Stations /\ <<s, k>> \in Stations \X Slots
        /\ bucket[s] \in Nat /\ scan[s] \in Nat /\ latestVolume[s] \in Nat
        /\ fvol[<<s, k>>] \in Nat /\ status[s] \in Statuses /\ status[s].last \in Nat
        /\ scan = [x \in Stations |-> scan[x]] /\ status = [x \in Stations |-> status[x]]
        /\ latestVolume = [x \in Stations |-> latestVolume[x]]
        /\ fpc = [f \in Stations \X Slots |-> fpc[f]]
        /\ fvol = [f \in Stations \X Slots |-> fvol[f]]
    BY ScanAssumption DEF TypeOK, ScanStoreTypeOK, ScanIngesterTypeOK, Volumes, Statuses
  <2>2. CASE FetchRefresh(s, k)
    BY <1>2, <2>1, <2>2 DEF FetchRefresh, Move, RefreshScanTTL, Statuses
  <2>3. CASE FetchList(s, k)
    BY <1>2, <2>1, <2>3 DEF FetchList, Verdict, Move, Settle, storeVars
  <2>4. CASE FetchStale(s, k) \/ FetchTouch(s, k)
    BY <1>2, <2>1, <2>4 DEF FetchStale, FetchTouch, WriteStatus, Settle
  <2>5. CASE FetchRecheck(s, k)
    BY <1>2, <2>1, <2>5 DEF FetchRecheck, Move, RefreshScanTTL, Statuses
  <2>6. CASE FetchDownload(s, k) \/ FetchHset(s, k)
    BY <1>2, <2>1, <2>6 DEF FetchDownload, FetchHset, Move, storeVars, HsetScan
  <2>7. CASE FetchExpire(s, k) \/ FetchSadd(s, k)
    BY <1>2, <2>1, <2>7 DEF FetchExpire, FetchSadd, Move, ExpireScan, SaddActive
  <2>8. CASE FetchRecord(s, k)
    BY <1>2, <2>1, <2>8 DEF FetchRecord, WriteStatus, Settle
  <2>9. CASE FetchFail(s, k)
    BY <1>2, <2>1, <2>9 DEF FetchFail, Move, Settle, storeVars
  <2> QED  BY <2>2, <2>3, <2>4, <2>5, <2>6, <2>7, <2>8, <2>9 DEF FetchWork
<1> QED  BY <1>3, <1>5, <1>6

\* Time brings newer volumes and takes scans and statuses away.
LEMMA TimeOrder ==
  ASSUME TypeOK, OrderInv, TimeStep
  PROVE  OrderInv'
<1>1. ASSUME NEW s \in Stations
      PROVE  /\ now' \in Nat /\ bucket'[s] \in Nat /\ bucket'[s] <= now' /\ bucket'[s] >= bucket[s]
             /\ scan'[s] \in {0, scan[s]} /\ status'[s] \in {NoStatus, status[s]}
             /\ latestVolume'[s] = latestVolume[s]
             /\ \A k \in Slots : /\ fpc'[<<s, k>>] = fpc[<<s, k>>]
                                /\ fvol'[<<s, k>>] = fvol[<<s, k>>]
             /\ now \in Nat /\ bucket[s] \in Nat /\ scan[s] \in Nat /\ latestVolume[s] \in Nat
             /\ status[s].last \in Nat
             /\ \A k \in Slots : fvol[<<s, k>>] \in Nat
  <2>1. PICK S \in SUBSET Stations :
          bucket' = [t \in Stations |-> IF t \in S THEN now + 1 ELSE bucket[t]]
    BY DEF TimeStep, AgeStore
  <2>2. /\ now \in Nat /\ bucket[s] \in Nat /\ bucket[s] <= now /\ now' = now + 1
        /\ scan[s] \in Nat /\ latestVolume[s] \in Nat /\ status[s].last \in Nat
        /\ \A k \in Slots : fvol[<<s, k>>] \in Nat
    BY ScanAssumption DEF TypeOK, ScanStoreTypeOK, ScanIngesterTypeOK, Volumes, Statuses,
         TimeStep, AgeStore, OrderInv, VolumesInOrder
  <2>3. bucket'[s] \in {bucket[s], now + 1}
    BY <2>1
  <2>4. scan'[s] \in {0, scan[s]} /\ status'[s] \in {NoStatus, status[s]}
    BY DEF TimeStep, AgeStore
  <2> QED  BY <2>2, <2>3, <2>4 DEF TimeStep, IngesterTick
<1>2. ASSUME NEW s \in Stations PROVE VolumesInOrder(s)'
  <2>1. VolumesInOrder(s)
    BY DEF OrderInv
  <2> QED  BY <1>1, <2>1 DEF VolumesInOrder, NoStatus
<1>3. ASSUME NEW s \in Stations, NEW k \in Slots PROVE FetchInOrder(s, k)'
  <2>1. FetchInOrder(s, k)
    BY DEF OrderInv
  <2> QED  BY <1>1, <2>1 DEF FetchInOrder, NoStatus
<1> QED  BY <1>2, <1>3 DEF OrderInv

\* The poll, and the process's death and restart.
LEMMA PollOrder ==
  ASSUME TypeOK, OrderInv, UNCHANGED <<now, bucket>>,
         \/ PollBatch \/ IngesterRestart \/ IngesterCrash
         \/ \E s \in Stations : PollGiveUp(s)
  PROVE  OrderInv'
<1>1. UNCHANGED storeVars
  BY DEF PollBatch, IngesterRestart, IngesterCrash, PollGiveUp
<1>2. ASSUME NEW s \in Stations
      PROVE  /\ latestVolume'[s] \in {0, latestVolume[s]} /\ bucket[s] \in Nat
             /\ \A k \in Slots :
                  \/ /\ fpc'[<<s, k>>] = fpc[<<s, k>>] /\ fvol'[<<s, k>>] = fvol[<<s, k>>]
                     /\ latestVolume'[s] = latestVolume[s]
                  \/ fpc'[<<s, k>>] \in {"idle", "refresh", "list"}
  BY ScanAssumption DEF TypeOK, ScanStoreTypeOK, ScanIngesterTypeOK, Volumes, PollBatch,
       IngesterRestart, IngesterCrash, PollGiveUp
<1>3. ASSUME NEW s \in Stations PROVE VolumesInOrder(s)'
  <2>1. VolumesInOrder(s)
    BY DEF OrderInv
  <2> QED  BY <1>1, <1>2, <2>1 DEF VolumesInOrder, storeVars
<1>4. ASSUME NEW s \in Stations, NEW k \in Slots PROVE FetchInOrder(s, k)'
  <2>1. FetchInOrder(s, k)
    BY DEF OrderInv
  <2> QED  BY <1>1, <1>2, <2>1 DEF FetchInOrder, Listed, Writing, storeVars
<1> QED  BY <1>3, <1>4 DEF OrderInv

LEMMA NextOrder == TypeOK /\ NoOverlap /\ OrderInv /\ [Next]_vars => OrderInv'
<1> SUFFICES ASSUME TypeOK, NoOverlap, OrderInv, [Next]_vars PROVE OrderInv'
  OBVIOUS
<1>1. CASE TimeStep
  BY <1>1, TimeOrder
<1>2. CASE IngesterNext
  BY <1>2, PollOrder, FetchOrder DEF IngesterNext, IngesterWork
<1>3. CASE UNCHANGED vars
  BY <1>3 DEF vars, storeVars, ingestVars, OrderInv, VolumesInOrder, FetchInOrder
<1> QED  BY <1>1, <1>2, <1>3 DEF Next

\* While fetches of a station do not overlap, the order holds.
LEMMA OrderHolds == Spec /\ []NoOverlap => []OrderInv
<1>1. Init => OrderInv
  BY InitOrder
<1>2. TypeOK /\ NoOverlap /\ OrderInv /\ [Next]_vars => OrderInv'
  BY NextOrder
<1> QED  BY <1>1, <1>2, TypeOKHolds, PTL DEF Spec

\* While fetches of a station do not overlap, the ingester never believes it has
\* stored something newer than what Redis holds.
THEOREM ScanNotBehindHolds == Spec /\ []NoOverlap => []ScanNotBehind
<1>1. OrderInv => ScanNotBehind
  BY DEF OrderInv, VolumesInOrder, ScanNotBehind
<1> QED  BY <1>1, OrderHolds, PTL

\* While fetches of a station do not overlap, the scan a fetch keeps alive for
\* an unchanged volume is of that volume.
THEOREM UnchangedIsCurrentHolds == Spec /\ []NoOverlap => []UnchangedIsCurrent
<1>1. TypeOK /\ OrderInv => UnchangedIsCurrent
  <2> SUFFICES ASSUME TypeOK, OrderInv, NEW s \in Stations, NEW k \in Slots,
                      fpc[<<s, k>>] \in {"recheck", "touch"}
               PROVE  scan[s] \in {0, fvol[<<s, k>>]}
    BY DEF UnchangedIsCurrent
  <2>1. VolumesInOrder(s) /\ FetchInOrder(s, k)
    BY DEF OrderInv
  <2>2. scan[s] \in Nat /\ latestVolume[s] \in Nat /\ fvol[<<s, k>>] \in Nat
    BY ScanAssumption DEF TypeOK, ScanStoreTypeOK, ScanIngesterTypeOK, Volumes
  <2> QED  BY <2>1, <2>2 DEF VolumesInOrder, FetchInOrder, Listed
<1> QED  BY <1>1, OrderHolds, TypeOKHolds, PTL

-----------------------------------------------------------------------------
(* The scans that are kept alive *)

\* A dead process knows nothing; a key that is gone has no TTL.
Forgotten(s) ==
  /\ ~up => latestVolume[s] = 0 /\ \A k \in Slots : fpc[<<s, k>>] = "idle"
  /\ scan[s] = 0 => scanDies[s] = NoTTL

\* A station whose turn has come in this unit of time has a scan that
\* outlives the unit.
In(s, pcs) == \E k \in Slots : fpc[<<s, k>>] \in pcs
Outlives(s) == scanDies[s] = NoTTL \/ scanDies[s] >= now + 2
RefreshedOutlives(s) ==
  /\ s \in refreshed /\ scan[s] # 0
  /\ latestVolume[s] # 0 \/ In(s, {"sadd", "status"})
  => Outlives(s)

\* As long as nothing fails, a station that was ever stored has its scan.
FaultlessScan(s) ==
  faults = 0 =>
    /\ up
    /\ latestVolume[s] # 0 \/ status[s].state = "active" => scan[s] # 0
    /\ scan[s] # 0 => latestVolume[s] # 0 \/ In(s, Writing)
    /\ \A k \in Slots :
         /\ fpc[<<s, k>>] \in Writing => scan[s] # 0
         /\ fpc[<<s, k>>] = "expire" /\ latestVolume[s] = 0 => scanDies[s] = NoTTL

AliveInv == \A s \in Stations : Forgotten(s) /\ RefreshedOutlives(s) /\ FaultlessScan(s)

LEMMA InitAlive == Init => AliveInv
BY DEF Init, ScanStoreInit, ScanIngesterInit, AliveInv, Forgotten, RefreshedOutlives,
     FaultlessScan, NoStatus, In, Writing

\* The steps of a fetch that is alone.
LEMMA FetchAlive ==
  ASSUME ScanTTL >= 2, TypeOK, NoOverlap, OrderInv, AliveInv,
         NEW s \in Stations, NEW k \in Slots, FetchWork(s, k), UNCHANGED <<now, bucket>>
  PROVE  AliveInv'
<1>1. SUFFICES ASSUME NEW t \in Stations
               PROVE  Forgotten(t)' /\ RefreshedOutlives(t)' /\ FaultlessScan(t)'
  BY DEF AliveInv
<1>2. /\ Forgotten(t) /\ RefreshedOutlives(t) /\ FaultlessScan(t)
      /\ Forgotten(s) /\ RefreshedOutlives(s) /\ FaultlessScan(s)
      /\ FetchInOrder(s, k)
  BY DEF AliveInv, OrderInv
<1>3. UNCHANGED <<up, faults>> /\ fpc[<<s, k>>] # "idle"
  BY DEF FetchWork, FetchRefresh, FetchList, FetchStale, FetchRecheck, FetchTouch,
       FetchDownload, FetchHset, FetchExpire, FetchSadd, FetchRecord, Move, Settle
<1>4. CASE t # s
  <2>1. /\ scan'[t] = scan[t] /\ scanDies'[t] = scanDies[t] /\ status'[t] = status[t]
        /\ latestVolume'[t] = latestVolume[t]
        /\ t \in refreshed' <=> t \in refreshed
        /\ \A j \in Slots : fpc'[<<t, j>>] = fpc[<<t, j>>]
    BY <1>4, OtherStations
  <2>2. \A pcs : In(t, pcs)' <=> In(t, pcs)
    BY <2>1 DEF In
  <2> QED
    BY <1>2, <1>3, <2>1, <2>2 DEF Forgotten, RefreshedOutlives, Outlives, FaultlessScan
<1>5. Forgotten(s)' /\ RefreshedOutlives(s)' /\ FaultlessScan(s)'
  <2>1. /\ now \in Nat /\ ScanTTL \in Nat /\ <<s, k>> \in Stations \X Slots
        /\ bucket[s] \in Nat /\ scan[s] \in Nat /\ latestVolume[s] \in Nat /\ scanDies[s] \in Nat
        /\ fvol[<<s, k>>] \in Nat /\ status[s] \in Statuses
        /\ scan = [x \in Stations |-> scan[x]] /\ status = [x \in Stations |-> status[x]]
        /\ scanDies = [x \in Stations |-> scanDies[x]]
        /\ latestVolume = [x \in Stations |-> latestVolume[x]]
        /\ fpc = [f \in Stations \X Slots |-> fpc[f]]
    BY ScanAssumption
       DEF TypeOK, ScanStoreTypeOK, ScanIngesterTypeOK, Volumes, Deaths, Statuses
  <2>2. \A j \in Slots : j # k => fpc[<<s, j>>] = "idle" /\ fpc'[<<s, j>>] = "idle"
    BY OtherFetches
  <2>3. ASSUME NEW pcs, "idle" \notin pcs
        PROVE  (In(s, pcs) <=> fpc[<<s, k>>] \in pcs) /\ (In(s, pcs)' <=> fpc'[<<s, k>>] \in pcs)
    BY <2>2, <2>3 DEF In
  <2>4. /\ In(s, Writing) <=> fpc[<<s, k>>] \in Writing
        /\ In(s, Writing)' <=> fpc'[<<s, k>>] \in Writing
        /\ In(s, {"sadd", "status"}) <=> fpc[<<s, k>>] \in {"sadd", "status"}
        /\ In(s, {"sadd", "status"})' <=> fpc'[<<s, k>>] \in {"sadd", "status"}
    BY <2>3 DEF Writing
  <2>5a. up /\ up'
    <3>1. up
      BY <1>2, <1>3 DEF Forgotten
    <3> QED  BY <1>3, <3>1
  <2> USE <1>2, <1>3, <2>1, <2>4, <2>5a
          DEF Forgotten, RefreshedOutlives, Outlives, FaultlessScan, NoTTL
  <2>5. CASE FetchRefresh(s, k) \/ FetchRecheck(s, k)
    <3>1. /\ scan'[s] = scan[s] /\ status'[s].state = status[s].state
          /\ scanDies'[s] = IF scan[s] = 0 THEN NoTTL ELSE now + ScanTTL
      BY <2>5 DEF FetchRefresh, FetchRecheck, RefreshScanTTL, Statuses
    <3>2. CASE FetchRefresh(s, k)
      <4>1. Forgotten(s)'
        BY <2>2, <3>1, <3>2 DEF FetchRefresh, Move, Writing
      <4>2. RefreshedOutlives(s)'
        BY <2>2, <3>1, <3>2 DEF FetchRefresh, Move, Writing
      <4>3. FaultlessScan(s)'
        BY <2>2, <3>1, <3>2 DEF FetchRefresh, Move, Writing
      <4> QED  BY <4>1, <4>2, <4>3
    <3>3. CASE FetchRecheck(s, k)
      <4>1. Forgotten(s)'
        BY <2>2, <3>1, <3>3 DEF FetchRecheck, Move, Writing
      <4>2. RefreshedOutlives(s)'
        BY <2>2, <3>1, <3>3 DEF FetchRecheck, Move, Writing
      <4>3. FaultlessScan(s)'
        BY <2>2, <3>1, <3>3 DEF FetchRecheck, Move, Writing
      <4> QED  BY <4>1, <4>2, <4>3
    <3> QED  BY <2>5, <3>2, <3>3
  <2>6. CASE FetchList(s, k)
    BY <2>2, <2>6 DEF FetchList, Verdict, Move, Settle, storeVars, Writing
  <2>7. CASE FetchStale(s, k) \/ FetchTouch(s, k)
    <3>1. scan'[s] = scan[s] /\ scanDies'[s] = scanDies[s]
      BY <2>7 DEF FetchStale, FetchTouch, WriteStatus
    <3>2. CASE FetchStale(s, k)
      BY <2>2, <3>1, <3>2 DEF FetchStale, WriteStatus, Settle, Writing
    <3>3. CASE FetchTouch(s, k)
      BY <2>2, <3>1, <3>3 DEF FetchTouch, WriteStatus, Settle, FetchInOrder, Listed, Writing
    <3> QED  BY <2>7, <3>2, <3>3
  <2>8. CASE FetchDownload(s, k)
    BY <2>2, <2>8 DEF FetchDownload, Move, storeVars, Writing
  <2>9. CASE FetchHset(s, k)
    BY <2>2, <2>9 DEF FetchHset, HsetScan, FetchInOrder, Listed, Writing
  <2>10. CASE FetchExpire(s, k)
    <3>1. /\ scan'[s] = scan[s] /\ status'[s] = status[s]
          /\ scanDies'[s] = IF scan[s] = 0 THEN NoTTL ELSE now + ScanTTL
      BY <2>10 DEF FetchExpire, ExpireScan
    <3>2. Forgotten(s)'
      BY <2>2, <2>10, <3>1 DEF FetchExpire, Move, Writing
    <3>3. RefreshedOutlives(s)'
      BY <2>2, <2>10, <3>1 DEF FetchExpire, Move, Writing
    <3>4. FaultlessScan(s)'
      BY <2>2, <2>10, <3>1 DEF FetchExpire, Move, Writing
    <3> QED  BY <3>2, <3>3, <3>4
  <2>11. CASE FetchSadd(s, k)
    BY <2>2, <2>11 DEF FetchSadd, Move, SaddActive, Writing
  <2>12. CASE FetchRecord(s, k)
    BY <2>2, <2>12 DEF FetchRecord, WriteStatus, Settle, FetchInOrder, Listed, Writing
  <2> QED  BY <2>5, <2>6, <2>7, <2>8, <2>9, <2>10, <2>11, <2>12 DEF FetchWork
<1> QED  BY <1>4, <1>5

\* A fetch that fails is a fault, and writes nothing.
LEMMA FailAlive ==
  ASSUME TypeOK, NoOverlap, AliveInv, NEW s \in Stations, NEW k \in Slots, FetchFail(s, k),
         UNCHANGED <<now, bucket>>
  PROVE  AliveInv'
<1>1. SUFFICES ASSUME NEW t \in Stations
               PROVE  Forgotten(t)' /\ RefreshedOutlives(t)' /\ FaultlessScan(t)'
  BY DEF AliveInv
<1>2. Forgotten(t) /\ RefreshedOutlives(t) /\ Forgotten(s)
  BY DEF AliveInv
<1>3. faults' # 0
  BY DEF FetchFail, Fault, TypeOK, ScanStoreTypeOK
<1>4. up /\ up'
  <2>1. up
    BY <1>2, OtherFetches DEF Forgotten
  <2>2. up' = up
    BY DEF FetchFail, Move, Settle
  <2> QED  BY <2>1, <2>2
<1>5. /\ UNCHANGED <<scan, scanDies, latestVolume, refreshed>>
      /\ \A j \in Slots : fpc'[<<t, j>>] \in {fpc[<<t, j>>], "idle", "list"}
  BY DEF FetchFail, Move, Settle, storeVars, TypeOK, ScanIngesterTypeOK
<1>6. In(t, {"sadd", "status"})' => In(t, {"sadd", "status"})
  BY <1>5 DEF In
<1> QED
  BY <1>2, <1>3, <1>4, <1>5, <1>6 DEF Forgotten, RefreshedOutlives, Outlives, FaultlessScan

\* The scans of a living process's stations outlive the unit of time, and so do,
\* without a fault, all scans.
LEMMA TimeKeeps ==
  ASSUME TypeOK, AliveInv, TimeStep, NEW s \in Stations, scan[s] # 0,
         latestVolume[s] # 0 \/ faults = 0
  PROVE  up /\ scan'[s] = scan[s]
<1>1. Forgotten(s) /\ RefreshedOutlives(s) /\ FaultlessScan(s)
  BY DEF AliveInv
<1>2. up
  BY <1>1 DEF Forgotten, FaultlessScan
<1>3. s \in refreshed
  BY <1>2 DEF TimeStep, IngesterTick, TimeMayPass
<1>4. now \in Nat /\ scanDies[s] \in Nat
  BY ScanAssumption DEF TypeOK, ScanStoreTypeOK, Deaths
<1>5. Outlives(s)
  <2>1. CASE latestVolume[s] # 0 \/ In(s, {"sadd", "status"})
    BY <1>1, <1>3, <2>1 DEF RefreshedOutlives
  <2>2. CASE latestVolume[s] = 0 /\ ~In(s, {"sadd", "status"})
    BY <1>1, <2>2 DEF FaultlessScan, In, Writing, Outlives
  <2> QED  BY <2>1, <2>2
<1>6. ~Dead(scanDies[s])
  BY <1>4, <1>5 DEF Outlives, Dead
<1> QED  BY <1>2, <1>6 DEF TimeStep, AgeStore

LEMMA TimeAlive ==
  ASSUME TypeOK, AliveInv, TimeStep
  PROVE  AliveInv'
<1>1. SUFFICES ASSUME NEW s \in Stations
               PROVE  Forgotten(s)' /\ RefreshedOutlives(s)' /\ FaultlessScan(s)'
  BY DEF AliveInv
<1>2. Forgotten(s) /\ FaultlessScan(s)
  BY DEF AliveInv
<1>3. /\ UNCHANGED <<up, latestVolume, fpc, faults>> /\ s \notin refreshed'
      /\ scan'[s] = IF Dead(scanDies[s]) THEN 0 ELSE scan[s]
      /\ scanDies'[s] = IF Dead(scanDies[s]) THEN NoTTL ELSE scanDies[s]
      /\ status'[s] \in {NoStatus, status[s]}
  BY DEF TimeStep, AgeStore, IngesterTick
<1>4. Forgotten(s)'
  BY <1>2, <1>3 DEF Forgotten
<1>5. RefreshedOutlives(s)'
  BY <1>3 DEF RefreshedOutlives
<1>6. FaultlessScan(s)'
  <2>1. SUFFICES ASSUME faults = 0 PROVE FaultlessScan(s)'
    BY <1>3 DEF FaultlessScan
  <2>2. scan'[s] = scan[s]
    BY <1>3, <2>1, TimeKeeps
  <2>3. scanDies[s] = NoTTL => scanDies'[s] = NoTTL
    BY <1>3
  <2>4. status'[s].state = "active" => status[s].state = "active"
    BY <1>3 DEF NoStatus
  <2>5. up /\ up'
    BY <1>2, <1>3, <2>1 DEF FaultlessScan
  <2>6. In(s, Writing)' <=> In(s, Writing)
    BY <1>3 DEF In
  <2> QED  BY <1>2, <1>3, <2>2, <2>3, <2>4, <2>5, <2>6 DEF FaultlessScan
<1> QED  BY <1>4, <1>5, <1>6

\* A new batch starts from fetches that are at rest.
LEMMA BatchAlive ==
  ASSUME TypeOK, NoOverlap', AliveInv, PollBatch, UNCHANGED <<now, bucket>>
  PROVE  AliveInv'
<1>1. SUFFICES ASSUME NEW s \in Stations
               PROVE  Forgotten(s)' /\ RefreshedOutlives(s)' /\ FaultlessScan(s)'
  BY DEF AliveInv
<1>2. Forgotten(s) /\ RefreshedOutlives(s) /\ FaultlessScan(s)
  BY DEF AliveInv
<1>3. UNCHANGED <<latestVolume, faults, scan, scanDies, status>> /\ up /\ up'
  BY DEF PollBatch, storeVars
<1> DEFINE Starts(b, pick) ==
             /\ \A t \in b : pick[t] \notin Running(t)
             /\ fpc' = [f \in DOMAIN fpc |->
                          IF f[1] \in b /\ pick[f[1]] = f[2]
                          THEN IF latestVolume[f[1]] # 0 THEN "refresh" ELSE "list"
                          ELSE fpc[f]]
             /\ refreshed' = refreshed \cup {t \in b : latestVolume[t] = 0}
<1>3a. PICK b \in togo : \E pick \in [b -> Slots] : Starts(b, pick)
  BY DEF PollBatch
<1>4. PICK pick \in [b -> Slots] : Starts(b, pick)
  BY <1>3a
<1>5. ASSUME NEW k \in Slots
      PROVE  \/ fpc'[<<s, k>>] = fpc[<<s, k>>]
             \/ fpc[<<s, k>>] = "idle" /\ fpc'[<<s, k>>] \in {"refresh", "list"}
  BY <1>4 DEF Running, TypeOK, ScanIngesterTypeOK
<1>6. /\ In(s, Writing)' <=> In(s, Writing)
      /\ In(s, {"sadd", "status"})' <=> In(s, {"sadd", "status"})
  BY <1>5 DEF In, Writing
<1>7. s \in b => ~In(s, {"sadd", "status"})
  <2> SUFFICES ASSUME s \in b, NEW j \in Slots, fpc[<<s, j>>] \in {"sadd", "status"} PROVE FALSE
    BY DEF In
  <2>1. pick[s] \in Slots /\ pick[s] # j
    BY <1>4 DEF Running
  <2>2. fpc'[<<s, pick[s]>>] \in {"refresh", "list"} /\ fpc'[<<s, j>>] = fpc[<<s, j>>]
    BY <1>4, <2>1 DEF TypeOK, ScanIngesterTypeOK
  <2> QED  BY <2>1, <2>2 DEF NoOverlap, Running
<1>8. RefreshedOutlives(s)'
  BY <1>2, <1>3, <1>4, <1>6, <1>7 DEF RefreshedOutlives, Outlives
<1>9. Forgotten(s)'
  BY <1>2, <1>3 DEF Forgotten
<1>10. FaultlessScan(s)'
  BY <1>2, <1>3, <1>5, <1>6 DEF FaultlessScan, Writing
<1> QED  BY <1>8, <1>9, <1>10

LEMMA NextAlive ==
  ScanTTL >= 2 /\ TypeOK /\ NoOverlap /\ NoOverlap' /\ OrderInv /\ AliveInv /\ [Next]_vars
  => AliveInv'
<1> SUFFICES ASSUME ScanTTL >= 2, TypeOK, NoOverlap, NoOverlap', OrderInv, AliveInv, [Next]_vars
             PROVE  AliveInv'
  OBVIOUS
<1>1. CASE TimeStep
  BY <1>1, TimeAlive
<1>2. CASE IngesterNext
  <2>1. UNCHANGED <<now, bucket>>
    BY <1>2 DEF IngesterNext
  <2>2. CASE PollBatch
    BY <2>1, <2>2, BatchAlive
  <2>3. ASSUME NEW s \in Stations, NEW k \in Slots, FetchWork(s, k) \/ FetchFail(s, k)
        PROVE  AliveInv'
    BY <2>1, <2>3, FetchAlive, FailAlive
  <2>4. CASE IngesterRestart
    BY <2>1, <2>4
       DEF IngesterRestart, storeVars, AliveInv, Forgotten, RefreshedOutlives, Outlives,
           FaultlessScan, In
  <2>5. CASE IngesterCrash \/ \E s \in Stations : PollGiveUp(s)
    <3>1. SUFFICES ASSUME NEW s \in Stations
                   PROVE  Forgotten(s)' /\ RefreshedOutlives(s)' /\ FaultlessScan(s)'
      BY DEF AliveInv
    <3>2. Forgotten(s) /\ RefreshedOutlives(s)
      BY DEF AliveInv
    <3>3. faults' # 0
      BY <2>5 DEF IngesterCrash, PollGiveUp, Fault, TypeOK, ScanStoreTypeOK
    <3>4. CASE IngesterCrash
      BY <2>1, <3>2, <3>3, <3>4
         DEF IngesterCrash, storeVars, Forgotten, RefreshedOutlives, FaultlessScan, In
    <3>5. CASE \E t \in Stations : PollGiveUp(t)
      BY <2>1, <3>2, <3>3, <3>5
         DEF PollGiveUp, storeVars, Forgotten, RefreshedOutlives, Outlives, FaultlessScan, In
    <3> QED  BY <2>5, <3>4, <3>5
  <2> QED  BY <1>2, <2>2, <2>3, <2>4, <2>5 DEF IngesterNext, IngesterWork
<1>3. CASE UNCHANGED vars
  BY <1>3 DEF vars, storeVars, ingestVars, AliveInv, Forgotten, RefreshedOutlives, Outlives,
     FaultlessScan, In
<1> QED  BY <1>1, <1>2, <1>3 DEF Next

\* While fetches of a station do not overlap, and the TTL outlives the unit of
\* time in which it is refreshed, scans are kept alive.
LEMMA AliveHolds ==
  ASSUME ScanTTL >= 2
  PROVE  Spec /\ []NoOverlap => []AliveInv
<1>1. Init => AliveInv
  BY InitAlive
<1>2. TypeOK /\ NoOverlap /\ NoOverlap' /\ OrderInv /\ AliveInv /\ [Next]_vars => AliveInv'
  BY NextAlive
<1> QED  BY <1>1, <1>2, TypeOKHolds, OrderHolds, PTL DEF Spec

\* While fetches of a station do not overlap, a status "active" is backed by a
\* scan at least as new; or by none, but only after a fault.
THEOREM ActiveBackedHolds ==
  ASSUME ScanTTL >= 2
  PROVE  Spec /\ []NoOverlap => []ActiveBacked
<1>1. TypeOK /\ OrderInv /\ AliveInv => ActiveBacked
  <2> SUFFICES ASSUME TypeOK, OrderInv, AliveInv, NEW s \in Stations, status[s].state = "active"
               PROVE  scan[s] >= status[s].last \/ (scan[s] = 0 /\ faults > 0)
    BY DEF ActiveBacked
  <2>1. VolumesInOrder(s) /\ FaultlessScan(s)
    BY DEF OrderInv, AliveInv
  <2>2. faults \in Nat
    BY ScanAssumption DEF TypeOK, ScanStoreTypeOK
  <2> QED  BY <2>1, <2>2 DEF VolumesInOrder, FaultlessScan
<1> QED  BY <1>1, TypeOKHolds, OrderHolds, AliveHolds, PTL

\* While fetches of a station do not overlap, the scan of a station the living
\* process has ingested does not expire, whatever fails.
THEOREM KeptAliveHolds ==
  ASSUME ScanTTL >= 2
  PROVE  Spec /\ []NoOverlap => KeptAlive
<1>1. ASSUME TypeOK, OrderInv, AliveInv, [Next]_vars
      PROVE  [\A s \in Stations : latestVolume[s] # 0 /\ scan[s] # 0 => scan'[s] # 0]_vars
  <2>1. SUFFICES ASSUME NEW s \in Stations, latestVolume[s] # 0, scan[s] # 0, scan' # scan
                 PROVE  scan'[s] # 0
    OBVIOUS
  <2>2. CASE TimeStep
    BY <1>1, <2>1, <2>2, TimeKeeps
  <2>3. CASE \E t \in Stations, k \in Slots : FetchHset(t, k)
    <3>1. PICK t \in Stations, k \in Slots : FetchHset(t, k)
      BY <2>3
    <3>2. FetchInOrder(t, k)
      BY <1>1 DEF OrderInv
    <3> QED  BY <1>1, <2>1, <3>1, <3>2
             DEF FetchHset, HsetScan, FetchInOrder, Listed, TypeOK, ScanStoreTypeOK
  <2>4. ASSUME NEW t \in Stations, NEW k \in Slots, FetchWork(t, k) \/ FetchFail(t, k)
        PROVE  FetchHset(t, k)
    BY <2>1, <2>4
       DEF FetchWork, FetchRefresh, FetchList, FetchStale, FetchRecheck, FetchTouch,
           FetchDownload, FetchExpire, FetchSadd, FetchRecord, FetchFail, storeVars,
           ExpireScan, SaddActive, WriteStatus, RefreshScanTTL
  <2>5. CASE IngesterNext
    BY <2>1, <2>3, <2>4, <2>5
       DEF IngesterNext, IngesterWork, PollBatch, IngesterRestart, IngesterCrash, PollGiveUp,
           storeVars
  <2> QED  BY <1>1, <2>1, <2>2, <2>5 DEF Next, vars, storeVars
<1>2. TypeOK /\ OrderInv /\ AliveInv /\ [Next]_vars
      => [\A s \in Stations : latestVolume[s] # 0 /\ scan[s] # 0 => scan'[s] # 0]_vars
  BY <1>1
<1> QED  BY <1>2, TypeOKHolds, OrderHolds, AliveHolds, PTL DEF Spec, KeptAlive

-----------------------------------------------------------------------------
(* When fetches do not overlap *)

\* The poll never gives up on a fetch: each one settles within FETCH_LATEST_TIMEOUT_MS.
Patience == [][\A s \in Stations : ~PollGiveUp(s)]_vars

\* A fetch that runs is the one the poll waits for.
Awaited == \A s \in Stations : \A k \in Running(s) : awaited[s] = k

LEMMA AwaitedStep ==
  TypeOK /\ Awaited /\ [Next]_vars /\ [\A s \in Stations : ~PollGiveUp(s)]_vars => Awaited'
<1> SUFFICES ASSUME TypeOK, Awaited, [Next]_vars, [\A s \in Stations : ~PollGiveUp(s)]_vars,
                    NEW s \in Stations, NEW k \in Slots, fpc'[<<s, k>>] # "idle"
             PROVE  awaited'[s] = k
  BY DEF Awaited, Running
<1>1. fpc[<<s, k>>] # "idle" => awaited[s] = k
  BY DEF Awaited, Running
<1>2. CASE UNCHANGED vars
  BY <1>1, <1>2 DEF vars, ingestVars
<1>3. CASE TimeStep \/ IngesterRestart
  BY <1>1, <1>3 DEF TimeStep, IngesterTick, IngesterRestart
<1>4. CASE IngesterCrash
  BY <1>4 DEF IngesterCrash
<1>5. CASE PollBatch
  <2> DEFINE Starts(b, pick) ==
               /\ awaited' = [t \in Stations |-> IF t \in b THEN pick[t] ELSE awaited[t]]
               /\ fpc' = [f \in DOMAIN fpc |->
                            IF f[1] \in b /\ pick[f[1]] = f[2]
                            THEN IF latestVolume[f[1]] # 0 THEN "refresh" ELSE "list"
                            ELSE fpc[f]]
  <2>1. PICK b \in togo : \E pick \in [b -> Slots] : Starts(b, pick)
    BY <1>5 DEF PollBatch
  <2>2. PICK pick \in [b -> Slots] : Starts(b, pick)
    BY <2>1
  <2>3. fpc[<<s, k>>] = "idle"
    BY <1>1, <1>5, BatchAssumption DEF PollBatch
  <2> QED  BY <2>2, <2>3 DEF TypeOK, ScanIngesterTypeOK
<1>6. ASSUME NEW t \in Stations, NEW j \in Slots, FetchWork(t, j) \/ FetchFail(t, j)
      PROVE  awaited'[s] = k
  <2>1. /\ awaited'[s] = awaited[s] \/ (s = t /\ awaited[t] = j /\ fpc'[<<t, j>>] = "idle")
        /\ fpc[<<t, j>>] # "idle"
        /\ fpc'[<<s, k>>] = fpc[<<s, k>>] \/ (s = t /\ k = j)
    BY <1>6 DEF TypeOK, ScanIngesterTypeOK, FetchWork, FetchRefresh, FetchList, FetchStale,
         FetchRecheck, FetchTouch, FetchDownload, FetchHset, FetchExpire, FetchSadd,
         FetchRecord, FetchFail, Move, Settle
  <2> QED  BY <1>1, <2>1
<1> QED
  BY <1>2, <1>3, <1>4, <1>5, <1>6 DEF Next, IngesterNext, IngesterWork, vars, ingestVars

\* Fetches of a station overlap only after the poll has given up on one: without
\* that, everything above holds of every behaviour.
THEOREM PatientPoll == Spec /\ Patience => []NoOverlap
<1>1. Init => Awaited
  BY DEF Init, ScanIngesterInit, Awaited, Running
<1>2. TypeOK /\ Awaited /\ [Next]_vars /\ [\A s \in Stations : ~PollGiveUp(s)]_vars => Awaited'
  BY AwaitedStep
<1>3. Awaited => NoOverlap
  BY DEF Awaited, NoOverlap
<1> QED  BY <1>1, <1>2, <1>3, TypeOKHolds, PTL DEF Spec, Patience
=============================================================================
