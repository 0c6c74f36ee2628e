---------------------------- MODULE ChunkPoller ----------------------------
(***************************************************************************)
(* The live chunk poller of the server process.  Every ten seconds it      *)
(* lists the chunk bucket for each subscribed station and emits, in        *)
(* listing order, the chunks it has not yet seen.  Between the listing and *)
(* the last of its downloads the poll of a station gives way to everything *)
(* else, subscriptions included.                                           *)
(*                                                                         *)
(* The i-th chunk a radar publishes is chunk Num(i) of volume Vol(i); keys *)
(* sort in the order of publication (the key format the code documents).   *)
(***************************************************************************)
EXTENDS Integers, FiniteSets

CONSTANTS
  Stations,
  VolumeSize,      \* chunks of a volume; the first is header-only
  BaseChunks,      \* the numbers of those that hold radials of the base sweep
  Volumes,         \* bound on the volumes a radar publishes
  MaxKeys,         \* keys one listing returns (max-keys=200)
  BatchSize,       \* BATCH_SIZE
  MaxFaults        \* bound on failed calls

ASSUME ChunkAssumption ==
  /\ VolumeSize \in Nat \ {0, 1} /\ Volumes \in Nat
  /\ BaseChunks \subseteq 2..VolumeSize
  /\ MaxKeys \in Nat /\ BatchSize \in Nat \ {0} /\ MaxFaults \in Nat

Chunks == 1..(Volumes * VolumeSize)

\* Mutation: the last chunk of a volume is counted to the next.
VolShifted(i) == (i \div VolumeSize) + 1

Vol(i) == ((i - 1) \div VolumeSize) + 1
Num(i) == ((i - 1) % VolumeSize) + 1

VARIABLES
  published,       \* [Stations -> chunks in the bucket: the first so many]
  aged,            \* [Stations -> volumes older than MAX_AGE_MS: the first so many]
  faults,
  subscribed,
  seenKeys,        \* [subscribed and late stations -> keys processed]
  todo,            \* stations of this cycle whose batch is still to come
  ppc,             \* [Stations -> where the poll of the station stands]
  pkeys,           \* [Stations -> the keys it has still to process, in order]
  pseen            \* [Stations -> the seen set it works with]

feedVars == <<published, aged>>
pollVars == <<todo, ppc, pkeys, pseen>>
pollerVars == <<feedVars, faults, subscribed, seenKeys, pollVars>>

PollerTypeOK ==
  /\ published \in [Stations -> 0..(Volumes * VolumeSize)]
  /\ aged \in [Stations -> 0..Volumes]
  /\ faults \in 0..MaxFaults
  /\ subscribed \in SUBSET Stations
  /\ DOMAIN seenKeys \in SUBSET Stations
  /\ \A s \in DOMAIN seenKeys : seenKeys[s] \in SUBSET Chunks
  /\ todo \in SUBSET Stations
  /\ ppc \in [Stations -> {"idle", "list", "chunks"}]
  /\ pkeys \in [Stations -> SUBSET Chunks]
  /\ pseen \in [Stations -> SUBSET Chunks]

PollerInit ==
  /\ published = [s \in Stations |-> 0]
  /\ aged = [s \in Stations |-> 0]
  /\ faults = 0
  /\ subscribed = {}
  /\ seenKeys = [s \in {} |-> {}]
  /\ todo = {}
  /\ ppc = [s \in Stations |-> "idle"]
  /\ pkeys = [s \in Stations |-> {}]
  /\ pseen = [s \in Stations |-> {}]

-----------------------------------------------------------------------------
Fresh(s, i) == Vol(i) > aged[s]

\* The feed: the next chunk appears; the oldest volume becomes too old.
Publish(s) ==
  /\ published[s] < Volumes * VolumeSize
  /\ published' = [published EXCEPT ![s] = @ + 1]
  /\ UNCHANGED <<aged, faults, subscribed, seenKeys, pollVars>>

Age(s) ==
  /\ published[s] > 0 /\ aged[s] < Vol(published[s])
  /\ aged' = [aged EXCEPT ![s] = @ + 1]
  /\ UNCHANGED <<published, faults, subscribed, seenKeys, pollVars>>

\* subscribe(id) for the stations in, unsubscribe(id) for those out: a new
\* subscription starts with nothing seen.
Resubscribe(in, out) ==
  /\ subscribed' = (subscribed \cup in) \ out
  /\ seenKeys' = [s \in ((DOMAIN seenKeys) \cup (in \ subscribed)) \ out |->
                    IF s \in in \ subscribed THEN {} ELSE seenKeys[s]]

\* pollCycle: take the subscriptions, then poll batch after batch.
PollCycle ==
  /\ todo = {}
  /\ \A s \in Stations : ppc[s] = "idle"
  /\ subscribed # {}
  /\ todo' = subscribed
  /\ UNCHANGED <<feedVars, faults, subscribed, seenKeys, ppc, pkeys, pseen>>

PollBatch ==
  /\ todo # {}
  /\ \A s \in Stations : ppc[s] = "idle"
  /\ \E b \in SUBSET todo :
       /\ Cardinality(b) = BatchSize \/ (b = todo /\ Cardinality(b) < BatchSize)
       /\ todo' = todo \ b
       /\ ppc' = [s \in Stations |-> IF s \in b THEN "list" ELSE ppc[s]]
  /\ UNCHANGED <<feedVars, faults, subscribed, seenKeys, pkeys, pseen>>

\* Mutation: the last key of a full listing is dropped.
PollListShort(s) ==
  /\ ppc[s] = "list"
  /\ LET listed == {i \in 1..published[s] : i < MaxKeys}
         seen == IF s \in DOMAIN seenKeys THEN seenKeys[s] ELSE {}
         new == listed \ seen
     IN /\ pseen' = [pseen EXCEPT ![s] = seen \cup {i \in new : ~Fresh(s, i)}]
        /\ pkeys' = [pkeys EXCEPT ![s] = {i \in new : Fresh(s, i)}]
  /\ ppc' = [ppc EXCEPT ![s] = "chunks"]
  /\ UNCHANGED <<feedVars, faults, subscribed, seenKeys, todo>>

\* The listing arrives: keys seen before are passed over, those too old are
\* marked seen, the others are left to process.
PollList(s) ==
  /\ ppc[s] = "list"
  /\ LET listed == {i \in 1..published[s] : i <= MaxKeys}
         seen == IF s \in DOMAIN seenKeys THEN seenKeys[s] ELSE {}
         new == listed \ seen
     IN /\ pseen' = [pseen EXCEPT ![s] = seen \cup {i \in new : ~Fresh(s, i)}]
        /\ pkeys' = [pkeys EXCEPT ![s] = {i \in new : Fresh(s, i)}]
  /\ ppc' = [ppc EXCEPT ![s] = "chunks"]
  /\ UNCHANGED <<feedVars, faults, subscribed, seenKeys, todo>>

\* The listing fails: the station waits for the next cycle.
PollListFail(s) ==
  /\ ppc[s] = "list"
  /\ faults < MaxFaults /\ faults' = faults + 1
  /\ ppc' = [ppc EXCEPT ![s] = "idle"]
  /\ UNCHANGED <<feedVars, subscribed, seenKeys, todo, pkeys, pseen>>

\* The next key is marked seen, downloaded and parsed ...
PollNext(s, i) ==
  /\ ppc[s] = "chunks"
  /\ i \in pkeys[s]
  /\ \A j \in pkeys[s] : i <= j
  /\ pseen' = [pseen EXCEPT ![s] = @ \cup {i}]
  /\ pkeys' = [pkeys EXCEPT ![s] = @ \ {i}]
  /\ UNCHANGED <<feedVars, subscribed, seenKeys, todo, ppc>>

\* ... and emitted as a chunk,
PollEmit(s, i) == PollNext(s, i) /\ UNCHANGED faults

\* ... or its download or parse fails.
PollLost(s, i) == PollNext(s, i) /\ faults < MaxFaults /\ faults' = faults + 1

\* Mutation: what the poll has seen is not kept.
PollDoneForgetful(s) ==
  /\ ppc[s] = "chunks"
  /\ pkeys[s] = {}
  /\ pseen' = [pseen EXCEPT ![s] = {}]
  /\ ppc' = [ppc EXCEPT ![s] = "idle"]
  /\ UNCHANGED <<feedVars, faults, subscribed, seenKeys, todo, pkeys>>

\* The poll puts its seen set back, whatever subscribe and unsubscribe have
\* done to the entry since it took it.
PollDone(s) ==
  /\ ppc[s] = "chunks"
  /\ pkeys[s] = {}
  /\ seenKeys' = [r \in (DOMAIN seenKeys) \cup {s} |->
                    IF r = s THEN pseen[s] ELSE seenKeys[r]]
  /\ pseen' = [pseen EXCEPT ![s] = {}]
  /\ ppc' = [ppc EXCEPT ![s] = "idle"]
  /\ UNCHANGED <<feedVars, faults, subscribed, todo, pkeys>>

=============================================================================
