--------------------------- MODULE RadarAnalysis ---------------------------
(***************************************************************************)
(* The arithmetic of the situation API: severities, ramp status, trends    *)
(* and the rings around an airport (src/situation/analysis and sampling).  *)
(* A reflectivity is a number of tenths of a dBZ: tiles resolve about a    *)
(* third of a dBZ, and the code rounds some results to whole dBZ and       *)
(* compares others unrounded.                                              *)
(*                                                                         *)
(* A sky is what one frame shows around one airport: a set of pixels, each *)
(* with its distance in nautical miles, its reflectivity and the label of  *)
(* its precipitation type, "none" where the type tile has no label or is   *)
(* missing.                                                                *)
(***************************************************************************)
EXTENDS Integers, FiniteSets, FiniteSetsExt

CONSTANTS
  DegradedAfter,   \* 300 s, in units of the clock
  OfflineAfter     \* 600 s, in units of the clock

Severity   == {"clear", "light", "moderate", "heavy", "extreme"}
RampStatus == {"clear", "caution", "suspend"}
Trend      == {"intensifying", "weakening", "steady", "developing", "clearing",
               "unknown"}
PrecipTypes == {"rain", "snow", "freezing_rain", "mixed", "hail"}

RingRadii == {5, 20, 50}

\* SEVERITY_THRESHOLDS, in tenths.
dbzToSeverity(dbz) ==
  CASE dbz >= 600 -> "extreme"
    [] dbz >= 500 /\ dbz < 600 -> "heavy"
    [] dbz >= 350 /\ dbz < 500 -> "moderate"
    [] dbz >= 200 /\ dbz < 350 -> "light"
    [] OTHER -> "clear"

\* SEVERITY_TO_DBZ of the socket handler, in whole dBZ.
SeverityDbz(severity) ==
  CASE severity = "clear" -> 0
    [] severity = "light" -> 20
    [] severity = "moderate" -> 35
    [] severity = "heavy" -> 50
    [] severity = "extreme" -> 60

computeRampStatus(ring5, ring20) ==
  IF "hail" \in ring20.types \/ ring5.maxDbz > 50 THEN "suspend"
  ELSE IF ring20.types \cap {"freezing_rain", "mixed"} # {} \/ ring5.maxDbz >= 35
       THEN "caution"
       ELSE "clear"

\* No previous maximum: nothing to compare with.
NoDbz == -1

\* Whole dBZ; clear is below 20, steady within 5 of the previous maximum.
computeTrend(current, previous) ==
  CASE previous = NoDbz -> "unknown"
    [] previous # NoDbz /\ current < 20 -> "clearing"
    [] previous # NoDbz /\ current >= 20 /\ previous < 20 -> "developing"
    [] previous >= 20 /\ current >= 20 /\ current - previous > 5 -> "intensifying"
    [] previous >= 20 /\ current >= 20 /\ previous - current > 5 -> "weakening"
    [] OTHER -> "steady"

SystemStatus == {"operational", "degraded", "offline"}

\* Mutation: the status words of the data sources.
SystemStatusOfSources(age) == IF age > DegradedAfter THEN "stale" ELSE "operational"

computeSystemStatus(age) ==
  IF age > OfflineAfter THEN "offline"
  ELSE IF age > DegradedAfter THEN "degraded" ELSE "operational"

-----------------------------------------------------------------------------
Pixel == [nm : Nat, dbz : Nat, type : PrecipTypes \cup {"none"}]

\* Math.round of tenths.
Rounded(dbz) == (dbz + 5) \div 10

InRing(sky, radius) == {p \in sky : p.nm <= radius}

RingMax(sky, radius) == Max({0} \cup {p.dbz : p \in InRing(sky, radius)})

\* buildRingData: the maximum is rounded, the severity is that of the
\* unrounded maximum.
RingData(sky, radius) ==
  [maxDbz   |-> Rounded(RingMax(sky, radius)),
   types    |-> {p.type : p \in InRing(sky, radius)} \ {"none"},
   severity |-> dbzToSeverity(RingMax(sky, radius))]

sampleRings(sky) == [r \in RingRadii |-> RingData(sky, r)]

RampOf(rings) == computeRampStatus(rings[5], rings[20])

=============================================================================
