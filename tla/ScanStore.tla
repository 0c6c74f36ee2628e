----------------------------- MODULE ScanStore -----------------------------
(***************************************************************************)
(* What the NEXRAD ingester and the tile server share: the Redis keys      *)
(* nexrad:scan:{s}, nexrad:status:{s} and nexrad:active-stations, the      *)
(* archive bucket the volumes come from, and the clock that ages them all. *)
(*                                                                         *)
(* A volume is named by the time it was published.  One unit of the clock  *)
(* is a quarter of an hour: SCAN_TTL and MAX_AGE_MS are two units, a poll  *)
(* of all stations (16 batches of at most 45 s) always fits in one, and so *)
(* does the life of an entry of the server's caches (60 s).                *)
(***************************************************************************)
EXTENDS Integers, Sequences, FiniteSets

CONSTANTS
  Stations,
  ScanTTL,         \* SCAN_TTL
  MaxAge,          \* MAX_AGE_MS
  MaxTime,         \* bound on the clock
  MaxFaults        \* bound on crashes, failed calls and fetches given up

ASSUME ScanAssumption ==
  /\ ScanTTL \in Nat \ {0} /\ MaxAge \in Nat
  /\ MaxTime \in Nat /\ MaxFaults \in Nat

Volumes == 0..MaxTime          \* 0: no volume
NoTTL   == 0                   \* the key has no expiry
Deaths  == 0..(MaxTime + ScanTTL)

VARIABLES
  now,             \* the wall clock
  bucket,          \* [Stations -> the newest volume in the archive bucket]
  faults,
  scan,            \* nexrad:scan:{s}: the volume it holds, 0 = no key
  scanDies,        \* when that key expires, or NoTTL
  status,          \* nexrad:status:{s}: [state, last, dies]
  active           \* nexrad:active-stations, a set nothing is ever removed from

storeVars == <<scan, scanDies, status, active>>

Statuses == [state : {"none", "active", "stale"}, last : Volumes, dies : Deaths]
NoStatus == [state |-> "none", last |-> 0, dies |-> NoTTL]

ScanStoreTypeOK ==
  /\ now \in 0..MaxTime
  /\ bucket \in [Stations -> Volumes]
  /\ faults \in 0..MaxFaults
  /\ scan \in [Stations -> Volumes]
  /\ scanDies \in [Stations -> Deaths]
  /\ status \in [Stations -> Statuses]
  /\ active \in SUBSET Stations

ScanStoreInit ==
  /\ now = 0
  /\ bucket = [s \in Stations |-> 0]
  /\ faults = 0
  /\ scan = [s \in Stations |-> 0]
  /\ scanDies = [s \in Stations |-> NoTTL]
  /\ status = [s \in Stations |-> NoStatus]
  /\ active = {}

-----------------------------------------------------------------------------
Fault == faults < MaxFaults /\ faults' = faults + 1

TooOld(v) == now - v > MaxAge

\* HSET leaves the TTL of an existing key alone and gives a new key none.
HsetScan(s, v) ==
  /\ scan' = [scan EXCEPT ![s] = v]
  /\ UNCHANGED <<scanDies, status, active>>

\* EXPIRE of a key that does not exist does nothing.
ExpireScan(s) ==
  /\ scanDies' = IF scan[s] = 0 THEN scanDies
                 ELSE [scanDies EXCEPT ![s] = now + ScanTTL]
  /\ UNCHANGED <<scan, status, active>>

SaddActive(s) ==
  /\ active' = active \cup {s}
  /\ UNCHANGED <<scan, scanDies, status>>

\* writeStatusToRedis: HSET and EXPIRE.
WriteStatus(s, state, v) ==
  /\ status' = [status EXCEPT ![s] =
                  [state |-> state, last |-> v, dies |-> now + ScanTTL]]
  /\ UNCHANGED <<scan, scanDies, active>>

\* Mutation: only the status is refreshed.
RefreshStatusOnly(s) ==
  /\ status' = IF status[s].state = "none" THEN status
               ELSE [status EXCEPT ![s].dies = now + ScanTTL]
  /\ UNCHANGED <<scan, scanDies, active>>

\* Mutation: the TTL is counted twice.
RefreshScanTTLTwice(s) ==
  /\ scanDies' = IF scan[s] = 0 THEN scanDies
                 ELSE [scanDies EXCEPT ![s] = now + 2 * ScanTTL]
  /\ UNCHANGED <<scan, status, active>>

\* refreshScanTTL: EXPIRE of the scan and of the status.
RefreshScanTTL(s) ==
  /\ scanDies' = IF scan[s] = 0 THEN scanDies
                 ELSE [scanDies EXCEPT ![s] = now + ScanTTL]
  /\ status' = IF status[s].state = "none" THEN status
               ELSE [status EXCEPT ![s].dies = now + ScanTTL]
  /\ UNCHANGED <<scan, active>>

Dead(dies) == dies # NoTTL /\ dies <= now + 1

\* A quarter of an hour passes: some radars publish a volume, the keys whose
\* time has come are gone.
AgeStore ==
  /\ now < MaxTime
  /\ now' = now + 1
  /\ \E S \in SUBSET Stations :
       bucket' = [s \in Stations |-> IF s \in S THEN now + 1 ELSE bucket[s]]
  /\ scan' = [s \in Stations |-> IF Dead(scanDies[s]) THEN 0 ELSE scan[s]]
  /\ scanDies' = [s \in Stations |-> IF Dead(scanDies[s]) THEN NoTTL ELSE scanDies[s]]
  /\ status' = [s \in Stations |-> IF Dead(status[s].dies) THEN NoStatus ELSE status[s]]
  /\ UNCHANGED <<faults, active>>

=============================================================================
