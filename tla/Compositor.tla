----------------------------- MODULE Compositor -----------------------------
(***************************************************************************)
(* The compositor worker.  It drains queue:composite to the last trigger,  *)
(* reads latest:{source} for every source of the trigger's pool (dBZ or    *)
(* precipitation type), lists their tiles, and writes each composite       *)
(* target under the timestamp of the trigger.                              *)
(***************************************************************************)
EXTENDS FrameIndex

VARIABLES
  cpc,            \* where the worker stands
  cmsg,           \* the trigger held, or NoFrame
  cpick,          \* [Sources -> the timestamp read from latest:{source}, or 0]
  ccells,         \* [Sources -> zooms of the tiles listed for that timestamp]
  ctodo,          \* the sources, then the targets, still to visit
  ctarget,        \* the targets written but not yet recorded: one or none
  merged          \* history: the source frames drawn into some composite

compVars == <<cpc, cmsg, cpick, ccells, ctodo, ctarget, merged>>

CompStage == {"idle", "drain", "get", "list", "write", "zadd", "latest"}

CompTypeOK ==
  /\ cpc \in CompStage
  /\ cmsg \in Frame \cup {NoFrame}
  /\ cmsg = NoFrame <=> cpc = "idle"
  /\ cpick \in [Sources -> Times \cup {0}]
  /\ ccells \in [Sources -> SUBSET Zooms]
  /\ ctodo \in SUBSET Names
  /\ cpc = "list" => ctodo \subseteq {s \in Sources : cpick[s] # 0}
  /\ cpc \in {"idle", "drain", "get"} => ccells = [s \in Sources |-> {}]
  /\ \A s \in Sources : ccells[s] # {} => cpick[s] # 0
  /\ ctarget \in SUBSET Composites
  /\ merged \in SUBSET Frame

CompInit ==
  /\ cpc = "idle"
  /\ cmsg = NoFrame
  /\ cpick = [s \in Sources |-> 0]
  /\ ccells = [s \in Sources |-> {}]
  /\ ctodo = {}
  /\ ctarget = {}
  /\ merged = {}

IsType(s) == s \in TypeSources

\* Mutation: the pools are swapped.
PoolOfSwapped(f) == {s \in Sources : IsType(s) # IsType(f[1])}

\* The sources of the pool a trigger belongs to.
PoolOf(f) == {s \in Sources : IsType(s) = IsType(f[1])}

\* getTargets: the targets with at least one source in the pool.
TargetsOf(f) == {n \in Composites : Members[n] \cap PoolOf(f) # {}}

\* The union of the tile keys of a target's sources.
CellsFor(n) == UNION {ccells[s] : s \in Members[n]}

-----------------------------------------------------------------------------
\* BLPOP queue:composite.
CompPop ==
  /\ cpc = "idle"
  /\ queueComposite # <<>>
  /\ cmsg' = Head(queueComposite)
  /\ queueComposite' = Tail(queueComposite)
  /\ cpc' = "drain"
  /\ UNCHANGED <<cpick, ccells, ctodo, ctarget, merged, envVars, faults, queueNormalize,
                 frames, latest, processed, announced, storeVars>>

\* LPOP: a further message replaces the one held.
CompDrain ==
  /\ cpc = "drain"
  /\ queueComposite # <<>>
  /\ cmsg' = Head(queueComposite)
  /\ queueComposite' = Tail(queueComposite)
  /\ UNCHANGED <<cpc, cpick, ccells, ctodo, ctarget, merged, envVars, faults,
                 queueNormalize, frames, latest, processed, announced, storeVars>>

\* LPOP finds the list empty: the message held is the last one.
CompDrained ==
  /\ cpc = "drain"
  /\ queueComposite = <<>>
  /\ cpc' = "get"
  /\ ctodo' = PoolOf(cmsg)
  /\ UNCHANGED <<cmsg, cpick, ccells, ctarget, merged, envVars, faults, redisVars,
                 storeVars>>

\* GET latest:{s}, one source at a time.
CompGet(s) ==
  /\ cpc = "get"
  /\ s \in ctodo
  /\ cpick' = [cpick EXCEPT ![s] = latest[s]]
  /\ ctodo' = ctodo \ {s}
  /\ UNCHANGED <<cpc, cmsg, ccells, ctarget, merged, envVars, faults, redisVars,
                 storeVars>>

CompGot ==
  /\ cpc = "get"
  /\ ctodo = {}
  /\ cpc' = "list"
  /\ ctodo' = {s \in Sources : cpick[s] # 0}
  /\ UNCHANGED <<cmsg, cpick, ccells, ctarget, merged, envVars, faults, redisVars,
                 storeVars>>

\* What reading frame f yields: through the handle once it is open.
Readable(f) ==
  IF f \in DOMAIN readCache /\ readCache[f] # {} THEN readCache[f] ELSE tiles[f[1]][f[2]]

\* The handles after reading f: one more if the frame has a file to open.
Opened(f) ==
  IF f \in DOMAIN readCache \/ tiles[f[1]][f[2]] = {} THEN readCache
  ELSE [g \in DOMAIN readCache \cup {f} |-> IF g = f THEN {} ELSE readCache[g]]

\* listTiles(s, timestamp), through the store's cache of handles.
CompList(s) ==
  /\ cpc = "list"
  /\ s \in ctodo
  /\ ccells' = [ccells EXCEPT ![s] = Readable(<<s, cpick[s]>>)]
  /\ readCache' = Opened(<<s, cpick[s]>>)
  /\ ctodo' = ctodo \ {s}
  /\ UNCHANGED <<cpc, cmsg, cpick, ctarget, merged, envVars, faults, redisVars,
                 tiles, rasters>>

CompListed ==
  /\ cpc = "list"
  /\ ctodo = {}
  /\ cpc' = "write"
  /\ ctodo' = TargetsOf(cmsg)
  /\ UNCHANGED <<cmsg, cpick, ccells, ctarget, merged, envVars, faults, redisVars,
                 storeVars>>

\* A target none of whose sources has a tile is skipped.
CompSkip(n) ==
  /\ cpc = "write"
  /\ n \in ctodo
  /\ CellsFor(n) = {}
  /\ ctodo' = ctodo \ {n}
  /\ UNCHANGED <<cpc, cmsg, cpick, ccells, ctarget, merged, envVars, faults, redisVars,
                 storeVars>>

\* Merge and writeBatch under the trigger's timestamp.
CompWrite(n) ==
  /\ cpc = "write"
  /\ n \in ctodo
  /\ CellsFor(n) # {}
  /\ WriteBatch(n, cmsg[2], CellsFor(n))
  /\ merged' = merged \cup {<<s, cpick[s]>> : s \in {m \in Members[n] : ccells[m] # {}}}
  /\ ctodo' = ctodo \ {n}
  /\ ctarget' = {n}
  /\ cpc' = "zadd"
  /\ UNCHANGED <<cmsg, cpick, ccells, envVars, faults, redisVars, rasters>>

CompZadd(n) ==
  /\ cpc = "zadd"
  /\ n \in ctarget
  /\ Zadd(n, cmsg[2])
  /\ cpc' = "latest"
  /\ UNCHANGED <<cmsg, cpick, ccells, ctodo, ctarget, merged, envVars, faults,
                 queueNormalize, queueComposite, latest, processed, announced, storeVars>>

CompLatest(n) ==
  /\ cpc = "latest"
  /\ n \in ctarget
  /\ SetLatest(n, cmsg[2])
  /\ ctarget' = {}
  /\ cpc' = "write"
  /\ UNCHANGED <<cmsg, cpick, ccells, ctodo, merged, envVars, faults, queueNormalize,
                 queueComposite, frames, processed, announced, storeVars>>

\* The locals of compositeFrame are gone and the worker is back at BLPOP.
CompReset ==
  /\ cpc' = "idle"
  /\ cmsg' = NoFrame
  /\ cpick' = [s \in Sources |-> 0]
  /\ ccells' = [s \in Sources |-> {}]
  /\ ctodo' = {}
  /\ ctarget' = {}
  /\ UNCHANGED merged

\* After the last target, a dBZ trigger is published on new-frame.
CompPublish ==
  /\ cpc = "write"
  /\ ctodo = {}
  /\ announced' = IF IsType(cmsg[1]) THEN announced ELSE announced \cup {cmsg[2]}
  /\ CompReset
  /\ UNCHANGED <<envVars, faults, queueNormalize, queueComposite, frames, latest,
                 processed, storeVars>>

\* compositeFrame throws and main logs it; the handles stay open.
CompAbort ==
  /\ cpc # "idle"
  /\ Fault
  /\ CompReset
  /\ UNCHANGED <<envVars, redisVars, storeVars>>

\* The process dies and restarts, with no file open.
CompCrash ==
  /\ Fault
  /\ CompReset
  /\ readCache' = [f \in {} |-> {}]
  /\ UNCHANGED <<envVars, redisVars, tiles, rasters>>

CompWork ==
  \/ CompPop
  \/ CompDrain
  \/ CompDrained
  \/ \E s \in Sources : CompGet(s)
  \/ CompGot
  \/ \E s \in Sources : CompList(s)
  \/ CompListed
  \/ \E n \in Composites : CompSkip(n)
  \/ \E n \in Composites : CompWrite(n)
  \/ \E n \in Composites : CompZadd(n)
  \/ \E n \in Composites : CompLatest(n)
  \/ CompPublish

CompNext == CompWork \/ CompAbort \/ CompCrash

=============================================================================
