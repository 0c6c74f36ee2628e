------------------------------ MODULE Cleanup ------------------------------
(***************************************************************************)
(* The cleanup worker.  For one name after the other it takes the recorded *)
(* timestamps older than the retention, deletes each frame's file and then *)
(* its index entry, and prunes the processed set.  latest:{name} is never  *)
(* touched.                                                                *)
(***************************************************************************)
EXTENDS FrameIndex

CONSTANT DatedSources   \* sources whose keys carry a date-time the regex finds

VARIABLES
  kpc,            \* where the worker stands
  kname,          \* the names being cleaned: one or none
  ktodo           \* the timestamps zrangebyscore returned, not yet removed

cleanVars == <<kpc, kname, ktodo>>

CleanTypeOK ==
  /\ kpc \in {"idle", "delete", "zrem", "prune"}
  /\ kname \in SUBSET Names
  /\ ktodo \in SUBSET Times

CleanInit == kpc = "idle" /\ kname = {} /\ ktodo = {}

-----------------------------------------------------------------------------
\* Mutation: an off-by-one cutoff, too early or too late.
OutdatedEarly(n) == {t \in frames[n] : t <= now - Retention + 1}
OutdatedLate(n) == {t \in frames[n] : t < now - Retention}

\* zrangebyscore(frames:{n}, 0, cutoff).
Outdated(n) == {t \in frames[n] : Expired(t)}

\* Mutation: the processed set forgets at the retention, not at twice it.
PrunableEarly(n) ==
  IF n \in DatedSources THEN {t \in processed[n] : Expired(t)} ELSE {}

\* The keys of processed:{n} the visit would prune: only keys with a
\* (\d{8})-(\d{6}) in them are ever parsed.
Prunable(n) ==
  IF n \in DatedSources THEN {t \in processed[n] : Forgotten(t)} ELSE {}

\* Every cycle visits every name; the visits that find nothing to remove change
\* nothing and are left out.
CleanScan(n) ==
  /\ kpc = "idle"
  /\ Prunable(n) # {} \/ Outdated(n) # {}
  /\ kname' = {n}
  /\ ktodo' = Outdated(n)
  /\ kpc' = IF ktodo' = {} THEN "prune" ELSE "delete"
  /\ UNCHANGED <<envVars, faults, redisVars, storeVars>>

CleanDelete(n) ==
  /\ kpc = "delete"
  /\ n \in kname
  /\ \E t \in ktodo :
       /\ \A u \in ktodo : t <= u
       /\ DeleteFrame(n, t)
  /\ kpc' = "zrem"
  /\ UNCHANGED <<kname, ktodo, envVars, faults, redisVars, rasters>>

CleanZrem(n) ==
  /\ kpc = "zrem"
  /\ n \in kname
  /\ \E t \in ktodo :
       /\ \A u \in ktodo : t <= u
       /\ frames' = [frames EXCEPT ![n] = @ \ {t}]
       /\ ktodo' = ktodo \ {t}
  /\ kpc' = IF ktodo' = {} THEN "prune" ELSE "delete"
  /\ UNCHANGED <<kname, envVars, faults, queueNormalize, queueComposite, latest,
                 processed, announced, storeVars>>

CleanPrune(n) ==
  /\ kpc = "prune"
  /\ n \in kname
  /\ processed' = IF n \in DatedSources
                  THEN [processed EXCEPT ![n] = @ \ Prunable(n)]
                  ELSE processed
  /\ kpc' = "idle"
  /\ kname' = {}
  /\ UNCHANGED <<ktodo, envVars, faults, queueNormalize, queueComposite, frames, latest,
                 announced, storeVars>>

\* cleanup() throws and main logs it, or the process dies and restarts.
CleanAbort ==
  /\ kpc # "idle"
  /\ Fault
  /\ kpc' = "idle"
  /\ kname' = {}
  /\ ktodo' = {}
  /\ UNCHANGED <<envVars, redisVars, storeVars>>

CleanWork(n) == CleanScan(n) \/ CleanDelete(n) \/ CleanZrem(n) \/ CleanPrune(n)

CleanNext == (\E n \in Names : CleanWork(n)) \/ CleanAbort

=============================================================================
