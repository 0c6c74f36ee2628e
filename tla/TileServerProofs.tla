-------------------------- MODULE TileServerProofs --------------------------
(***************************************************************************)
(* TLAPS proofs about TileServer, for any stations, layers and requests.   *)
(***************************************************************************)
EXTENDS TileServer, FiniteSetTheorems, WellFoundedInduction, TLAPS

-----------------------------------------------------------------------------
(* Minima and maxima *)

\* A finite set of integers that is not empty has a maximum: of the finite
\* subsets without one, a smallest would have one.
LEMMA MaxExists ==
  ASSUME NEW S \in SUBSET Int, IsFiniteSet(S), S # {}
  PROVE  \E x \in S : \A y \in S : x >= y
<1> DEFINE HasMax(T) == \E x \in T : \A y \in T : x >= y
           Bad == {T \in FiniteSubsetsOf(S) : T # {} /\ ~HasMax(T)}
<1> SUFFICES ASSUME ~HasMax(S) PROVE FALSE
  OBVIOUS
<1>1. S \in Bad
  BY DEF FiniteSubsetsOf
<1>2. PICK T \in Bad : \A U \in Bad : ~(<<U, T>> \in StrictSubsetOrdering(S))
  <2>1. Bad \subseteq FiniteSubsetsOf(S) /\ Bad # {}
    BY <1>1
  <2>2. IsWellFoundedOn(StrictSubsetOrdering(S), FiniteSubsetsOf(S))
    BY FS_StrictSubsetOrderingWellFounded
  <2> HIDE DEF Bad
  <2> QED  BY <2>1, <2>2, WFMin
<1>3. PICK a \in T : TRUE
  OBVIOUS
<1> DEFINE U == T \ {a}
<1>4. U \in FiniteSubsetsOf(S) /\ <<U, T>> \in StrictSubsetOrdering(S)
  BY <1>3, FS_RemoveElement DEF FiniteSubsetsOf, StrictSubsetOrdering
<1>5. U = {} \/ HasMax(U)
  BY <1>2, <1>4
<1>6. T \in SUBSET Int
  BY DEF FiniteSubsetsOf
<1>7. HasMax(T)
  <2>1. CASE U = {}
    BY <1>3, <1>6, <2>1
  <2>2. CASE HasMax(U)
    <3>1. PICK m \in U : \A y \in U : m >= y
      BY <2>2
    <3>2. CASE m >= a
      BY <1>6, <3>1, <3>2
    <3>3. CASE a > m
      BY <1>3, <1>6, <3>1, <3>3
    <3> QED  BY <1>3, <1>6, <3>1, <3>2, <3>3
  <2> QED  BY <1>5, <2>1, <2>2
<1> QED  BY <1>7

LEMMA MaxFacts ==
  ASSUME NEW S \in SUBSET Int, IsFiniteSet(S), S # {}
  PROVE  Max(S) \in S /\ \A y \in S : Max(S) >= y
BY MaxExists DEF Max

LEMMA MinFacts ==
  ASSUME NEW S \in SUBSET Int, IsFiniteSet(S), S # {}
  PROVE  Min(S) \in S
<1> DEFINE T == {0 - x : x \in S}
<1>1. [x \in S |-> 0 - x] \in Surjection(S, T)
  BY DEF Surjection
<1>2. IsFiniteSet(T)
  <2> HIDE DEF T
  <2> QED  BY <1>1, FS_Surjection
<1>3. T \in SUBSET Int /\ T # {}
  OBVIOUS
<1>4. \E m \in T : \A y \in T : m >= y
  <2> HIDE DEF T
  <2> QED  BY <1>2, <1>3, MaxExists
<1>5. PICK x \in S : \A y \in S : 0 - x >= 0 - y
  BY <1>4
<1>6. \A y \in S : x <= y
  BY <1>5
<1> QED  BY <1>6 DEF Min

LEMMA MinOfTwo ==
  ASSUME NEW a \in Int, NEW b \in Int
  PROVE  /\ Min({a, b}) \in {a, b}
         /\ Min({a, b}) <= a /\ Min({a, b}) <= b
<1>1. \E m \in {a, b} : \A y \in {a, b} : m <= y
  <2>1. CASE a <= b
    BY <2>1
  <2>2. CASE b <= a
    BY <2>2
  <2> QED  BY <2>1, <2>2
<1> QED  BY <1>1 DEF Min

\* The newest scan of a drawing is one of its scans, and 0 only if it has none.
LEMMA NewestFacts ==
  ASSUME NEW d \in Drawings
  PROVE  /\ Newest(d) \in Volumes
         /\ Newest(d) = 0 <=> d = Nothing
<1> DEFINE all == {d[s] : s \in Stations}
<1>1. IsFiniteSet(Stations) /\ 1 \in Stations
  <2>1. IsFiniteSet(1..NumStations)
    BY ServerAssumption, FS_Interval
  <2> QED  BY <2>1, ServerAssumption DEF Stations
<1>2. IsFiniteSet(all)
  <2>1. d \in Surjection(Stations, all)
    BY DEF Drawings, Surjection
  <2> HIDE DEF all
  <2> QED  BY <1>1, <2>1, FS_Surjection
<1>3. all \in SUBSET Volumes /\ all # {}
  BY <1>1 DEF Drawings
<1>4. all \in SUBSET Int
  BY <1>3 DEF Volumes
<1>5. Max(all) \in all /\ \A y \in all : Max(all) >= y
  <2> HIDE DEF all
  <2> QED  BY <1>2, <1>3, <1>4, MaxFacts
<1>6. Max(all) \in Volumes
  BY <1>3, <1>5
<1>7. ASSUME Max(all) = 0 PROVE d = Nothing
  <2>1. \A s \in Stations : d[s] \in Volumes /\ 0 >= d[s]
    BY <1>5, <1>7 DEF Drawings
  <2>2. \A s \in Stations : d[s] = 0
    BY <2>1, ServerAssumption DEF Volumes
  <2> QED  BY <2>2 DEF Drawings, Nothing
<1>8. ASSUME d = Nothing PROVE Max(all) = 0
  <2>1. \A s \in Stations : d[s] = 0
    BY <1>8 DEF Nothing
  <2> QED  BY <1>5, <2>1
<1> QED  BY <1>6, <1>7, <1>8 DEF Newest

-----------------------------------------------------------------------------
(* Types *)

Req == [step : {"idle", "scans", "read", "encode", "frame", "colorize"},
        layer : Layers \cup {"frame"}, todo : SUBSET Stations, scans : Drawings,
        picture : Pictures, age : 0..1]

\* What a request draws.
Own(r) == Rendered(req[r].layer, req[r].scans)

\* A request at work knows its layer, and what it holds is what its step needs;
\* it has a picture only when it is about to colorize it.
Sound(r) ==
  /\ req[r].step = "idle" => req[r] = Idle
  /\ req[r].step # "idle" => req[r].layer \in Layers
  /\ req[r].step = "read" => req[r].todo # {}
  /\ req[r].step = "encode" =>
       req[r].todo = {} /\ req[r].scans # Nothing /\ ~Dry(Own(r))
  /\ req[r].step # "colorize" => req[r].picture = Blank
  /\ req[r].picture.layer \in {req[r].layer, "frame"}

\* A rendered tile is kept under its layer and the timestamp of its newest scan.
Keyed ==
  \A l \in Layers, v \in Volumes \ {0} :
    LET tile == tileCache[<<l, v>>]
    IN  tile # Blank => tile.layer = l /\ Newest(tile.drawing) = v

ServerInv == TypeOK /\ Keyed /\ \A r \in Requests : Sound(r)

-----------------------------------------------------------------------------
(* How long a change is on its way. *)

\* Only stations that are active have scans, and the copy of the active ones
\* has them all unless the last change is so young that no refresh is due.
\* Misses and cached scans that are wrong are older than the last change.
ProviderFresh ==
  /\ activeStations \subseteq active
  /\ \A s \in Stations : scan[s] # 0 => s \in active
  /\ activeStations # active => settled <= 1 /\ (refreshed => settled = 0)
  /\ \A s \in Stations :
       /\ Missing(s) /\ scan[s] # 0 => settled <= missCache[s]
       /\ Cached(s) /\ scanCache[s].volume # scan[s] => settled <= scanCache[s].age

\* The scans a request has taken are those there are.
ScansRight(r) == \A s \in Stations \ req[r].todo : req[r].scans[s] = scan[s]

\* The frame may stand for the NEXRAD tile.
FallsThrough ==
  \/ Newest(scan) = 0
  \/ \E l \in Layers : LET tile == tileCache[<<l, Newest(scan)>>] IN tile # Blank /\ Dry(tile)

\* A request that holds something outdated was under way when the data changed,
\* or has it from a cache, or from another request that was.  Scans it has taken
\* may come from a cache for a minute;
ScansFresh(r) ==
  req[r].step \in {"scans", "read", "encode"} => ScansRight(r) \/ settled <= 1 + req[r].age

\* so a request with outdated scans may, for a minute more, put an empty tile
\* under the key for which this one is encoding a tile that is not;
DryFresh(r) ==
  req[r].step = "encode" /\ tileCache[TileKey(r)] # Blank /\ Dry(tileCache[TileKey(r)])
    => settled <= 2 + req[r].age

\* a picture of outdated scans is as young as they are;
PictureFresh(r) ==
  req[r].picture.layer # "frame" =>
    Newest(req[r].picture.drawing) = Newest(scan) \/ settled <= 1 + req[r].age

\* and a request that fell through for an empty tile may see that tile replaced.
FallFresh(r) ==
  req[r].step = "frame" \/ (req[r].picture # Blank /\ req[r].picture.layer = "frame") =>
    FallsThrough \/ settled <= 3 + req[r].age

RequestFresh(r) == ScansFresh(r) /\ DryFresh(r) /\ PictureFresh(r) /\ FallFresh(r)

AnswerFresh ==
  /\ answers.picture.layer # "frame" =>
       Newest(answers.picture.drawing) = Newest(scan) \/ settled <= 2 + answers.age
  /\ answers.picture # Blank /\ answers.picture.layer = "frame" =>
       FallsThrough \/ settled <= 4 + answers.age

FreshInv == ProviderFresh /\ AnswerFresh /\ \A r \in Requests : RequestFresh(r)

\* A picture of the frame that is not what the store reads now was read before
\* the last change.
FrameOfRequest(r) ==
  req[r].picture # Blank /\ req[r].picture.layer = "frame" =>
    req[r].picture.version = Readable \/ settled <= req[r].age

FrameOfAnswer ==
  answers.picture # Blank /\ answers.picture.layer = "frame" =>
    answers.picture.version = Readable \/ settled <= 1 + answers.age

FrameInv == FrameOfAnswer /\ \A r \in Requests : FrameOfRequest(r)

-----------------------------------------------------------------------------
(* Steps of a request *)

\* Only request r moves.
Moves(r) == req' \in [Requests -> Req] /\ \A x \in Requests \ {r} : req'[x] = req[x]

LEMMA ReqSet ==
  ASSUME req \in [Requests -> Req], NEW r \in Requests, NEW k \in Req,
         req' = [req EXCEPT ![r] = k]
  PROVE  req'[r] = k /\ Moves(r)
BY DEF Moves

LEMMA IdleType == Idle \in Req /\ Blank \in Pictures /\ Nothing \in Drawings
<1>1. Nothing \in Drawings
  BY ServerAssumption DEF Nothing, Drawings, Volumes
<1>2. Blank \in Pictures
  BY <1>1, ServerAssumption DEF Blank, Pictures, Versions
<1> QED  BY <1>1, <1>2 DEF Idle, Req

LEMMA RenderedFacts ==
  ASSUME NEW l \in Layers, NEW d \in Drawings
  PROVE  /\ Rendered(l, d) \in Pictures /\ Rendered(l, d) # Blank
         /\ Rendered(l, d).layer = l /\ Rendered(l, d).drawing = d
<1>1. Rendered(l, d).layer = l /\ Rendered(l, d).drawing = d /\ Blank.layer = "frame"
  BY DEF Rendered, Blank
<1>2. Rendered(l, d) \in Pictures
  BY ServerAssumption DEF Rendered, Pictures, Versions
<1>3. l # "frame"
  BY ServerAssumption
<1> QED  BY <1>1, <1>2, <1>3

\* The next station of a loop is one that is still to be looked up.
LEMMA TurnFacts ==
  ASSUME NEW r \in Requests, req[r].todo \in SUBSET Stations, req[r].todo # {}
  PROVE  Turn(r) \in req[r].todo
<1> DEFINE T == req[r].todo
<1>1. T \in SUBSET (1..NumStations) /\ IsFiniteSet(1..NumStations)
  <2>1. NumStations \in Int
    BY ServerAssumption
  <2>2. IsFiniteSet(1..NumStations)
    BY <2>1, FS_Interval
  <2> QED  BY <2>2 DEF Stations
<1> HIDE DEF T
<1>2. IsFiniteSet(T)
  BY <1>1, FS_Subset
<1>3. T \in SUBSET Int /\ T # {}
  BY <1>1 DEF T
<1>4. Min(T) \in T
  BY <1>2, <1>3, MinFacts
<1> QED  BY <1>4 DEF Turn, T

LEMMA TookFacts ==
  ASSUME req \in [Requests -> Req], NEW r \in Requests, NEW s \in Stations, NEW v \in Volumes,
         Took(r, s, v)
  PROVE  /\ Moves(r)
         /\ req'[r].step = "scans" /\ req'[r].todo = req[r].todo \ {s}
         /\ req'[r].scans = [req[r].scans EXCEPT ![s] = v]
         /\ req'[r].layer = req[r].layer /\ req'[r].picture = req[r].picture
         /\ req'[r].age = req[r].age
<1> DEFINE left  == req[r].todo \ {s}
           scans == [req[r].scans EXCEPT ![s] = v]
           k     == [req[r] EXCEPT !.step = "scans", !.todo = req[r].todo \ {s}, !.scans[s] = v]
<1>1. req[r] \in Req
  OBVIOUS
<1>2. left \in SUBSET Stations /\ scans \in Drawings
  BY <1>1 DEF Req, Drawings
<1>3. req' = [req EXCEPT ![r] = k]
  BY DEF Took
<1>4. /\ k.step = "scans" /\ k.todo = left /\ k.scans = scans
      /\ k.layer = req[r].layer /\ k.picture = req[r].picture /\ k.age = req[r].age
  BY <1>1 DEF Req
<1>5. k \in Req
  BY <1>1, <1>2, <1>4 DEF Req
<1> HIDE DEF k, left, scans
<1>6. req'[r] = k /\ Moves(r)
  BY <1>3, <1>5, ReqSet
<1> QED  BY <1>4, <1>6 DEF left, scans

LEMMA LookUpFacts ==
  ASSUME ServerInv, NEW r \in Requests, LookUp(r)
  PROVE  LET s == Turn(r)
             v == IF s \in activeStations THEN scanCache[s].volume ELSE 0
         IN  /\ s \in req[r].todo /\ s \in Stations /\ v \in Volumes
             /\ Moves(r)
             /\ req'[r].layer = req[r].layer /\ req'[r].picture = req[r].picture
             /\ req'[r].age = req[r].age
             /\ \/ /\ Known(s)
                   /\ req'[r].step = "scans" /\ req'[r].todo = req[r].todo \ {s}
                   /\ req'[r].scans = [req[r].scans EXCEPT ![s] = v]
                \/ /\ req'[r].step = "read" /\ req'[r].todo = req[r].todo
                   /\ req'[r].scans = req[r].scans
<1> DEFINE s == Turn(r)
           v == IF s \in activeStations THEN scanCache[s].volume ELSE 0
           k == [req[r] EXCEPT !.step = "read"]
<1>1. req \in [Requests -> Req] /\ req[r] \in Req
  BY DEF ServerInv, TypeOK, Req
<1>2. s \in req[r].todo /\ s \in Stations
  <2>1. req[r].todo \in SUBSET Stations /\ req[r].todo # {}
    BY <1>1 DEF Req, LookUp
  <2> QED  BY <2>1, TurnFacts
<1>3. v \in Volumes
  BY <1>2, ServerAssumption DEF ServerInv, TypeOK, Volumes
<1> HIDE DEF s, v
<1>4. CASE Known(s)
  <2>1. Took(r, s, v)
    BY <1>4 DEF LookUp, s, v
  <2> QED  BY <1>1, <1>2, <1>3, <1>4, <2>1, TookFacts DEF s, v
<1>5. CASE ~Known(s)
  <2>1. req' = [req EXCEPT ![r] = k]
    BY <1>5 DEF LookUp, s
  <2>2. /\ k \in Req /\ k.step = "read" /\ k.layer = req[r].layer /\ k.todo = req[r].todo
        /\ k.scans = req[r].scans /\ k.picture = req[r].picture /\ k.age = req[r].age
    BY <1>1 DEF Req
  <2> HIDE DEF k
  <2>3. req'[r] = k /\ Moves(r)
    BY <1>1, <2>1, <2>2, ReqSet
  <2> QED  BY <1>2, <1>3, <2>2, <2>3 DEF s, v
<1> QED  BY <1>4, <1>5

LEMMA ReadScanFacts ==
  ASSUME ServerInv, NEW r \in Requests, ReadScan(r)
  PROVE  LET s == Turn(r)
         IN  /\ s \in req[r].todo /\ s \in Stations
             /\ RememberScan(s, scan[s])
             /\ Moves(r)
             /\ req'[r].step = "scans" /\ req'[r].todo = req[r].todo \ {s}
             /\ req'[r].scans = [req[r].scans EXCEPT ![s] = scan[s]]
             /\ req'[r].layer = req[r].layer /\ req'[r].picture = req[r].picture
             /\ req'[r].age = req[r].age
<1> DEFINE s == Turn(r)
<1>1. req \in [Requests -> Req] /\ req[r] \in Req
  BY DEF ServerInv, TypeOK, Req
<1>2. s \in req[r].todo /\ s \in Stations
  <2>1. req[r].todo \in SUBSET Stations /\ req[r].todo # {}
    BY <1>1 DEF Req, ReadScan, ServerInv, Sound
  <2> QED  BY <2>1, TurnFacts
<1>3. scan[s] \in Volumes /\ Took(r, s, scan[s]) /\ RememberScan(s, scan[s])
  BY <1>2 DEF ServerInv, TypeOK, Drawings, ReadScan
<1> HIDE DEF s
<1>4. /\ Moves(r)
      /\ req'[r].step = "scans" /\ req'[r].todo = req[r].todo \ {s}
      /\ req'[r].scans = [req[r].scans EXCEPT ![s] = scan[s]]
      /\ req'[r].layer = req[r].layer /\ req'[r].picture = req[r].picture
      /\ req'[r].age = req[r].age
  BY <1>1, <1>2, <1>3, TookFacts
<1> QED  BY <1>2, <1>3, <1>4 DEF s

LEMMA RememberType ==
  ASSUME ServerInv, NEW s \in Stations, NEW v \in Volumes, RememberScan(s, v)
  PROVE  /\ scanCache' \in [Stations -> [volume : Volumes, age : 0..1]]
         /\ missCache' \in [Stations -> 0..Absent]
<1> DEFINE e == [volume |-> v, age |-> 0]
<1>1. e \in [volume : Volumes, age : 0..1]
  OBVIOUS
<1>2. scanCache' = scanCache \/ scanCache' = [scanCache EXCEPT ![s] = e]
  BY DEF RememberScan
<1>3. missCache' = missCache \/ missCache' = [missCache EXCEPT ![s] = 0]
  BY DEF RememberScan
<1>4. /\ scanCache \in [Stations -> [volume : Volumes, age : 0..1]]
      /\ missCache \in [Stations -> 0..Absent] /\ 0 \in 0..Absent
  BY DEF ServerInv, TypeOK, Absent
<1> HIDE DEF e
<1> QED  BY <1>1, <1>2, <1>3, <1>4

LEMMA TakeTileFacts ==
  ASSUME ServerInv, NEW r \in Requests, NEW tile \in Pictures, TakeTile(r, tile)
  PROVE  /\ Moves(r)
         /\ req'[r].layer = req[r].layer /\ req'[r].age = req[r].age
         /\ req'[r].todo = req[r].todo
         /\ Dry(tile) => req'[r].step = "frame" /\ req'[r].picture = Blank
         /\ ~Dry(tile) => req'[r].step = "colorize" /\ req'[r].picture = tile
<1> DEFINE step    == IF Dry(tile) THEN "frame" ELSE "colorize"
           picture == IF Dry(tile) THEN Blank ELSE tile
           k       == [req[r] EXCEPT !.step = step, !.scans = Nothing, !.picture = picture]
<1>1. req \in [Requests -> Req] /\ req[r] \in Req
  BY DEF ServerInv, TypeOK, Req
<1>2. Dry(tile) => step = "frame" /\ picture = Blank
  OBVIOUS
<1>3. ~Dry(tile) => step = "colorize" /\ picture = tile
  OBVIOUS
<1>4. picture \in Pictures /\ step \in {"frame", "colorize"}
  BY IdleType
<1>5. req' = [req EXCEPT ![r] = k]
  BY DEF TakeTile
<1> HIDE DEF step, picture
<1>6. /\ k \in Req /\ k.step = step /\ k.picture = picture
      /\ k.layer = req[r].layer /\ k.age = req[r].age /\ k.todo = req[r].todo
  BY <1>1, <1>4, IdleType DEF Req
<1> HIDE DEF k
<1>7. req'[r] = k /\ Moves(r)
  BY <1>1, <1>5, <1>6, ReqSet
<1> QED  BY <1>2, <1>3, <1>6, <1>7

\* Only the step of a request changes.
LEMMA StepFacts ==
  ASSUME ServerInv, NEW r \in Requests, NEW step \in {"frame", "encode"},
         req' = [req EXCEPT ![r].step = step]
  PROVE  /\ Moves(r)
         /\ req'[r].step = step /\ req'[r].scans = req[r].scans
         /\ req'[r].layer = req[r].layer /\ req'[r].age = req[r].age
         /\ req'[r].todo = req[r].todo /\ req'[r].picture = req[r].picture
<1> DEFINE k == [req[r] EXCEPT !.step = step]
<1>1. req \in [Requests -> Req] /\ req[r] \in Req
  BY DEF ServerInv, TypeOK, Req
<1>2. /\ k \in Req /\ k.step = step /\ k.scans = req[r].scans /\ k.picture = req[r].picture
      /\ k.layer = req[r].layer /\ k.age = req[r].age /\ k.todo = req[r].todo
  BY <1>1 DEF Req
<1>3. req' = [req EXCEPT ![r] = k]
  OBVIOUS
<1> HIDE DEF k
<1> QED  BY <1>1, <1>2, <1>3, ReqSet

LEMMA AskFacts ==
  ASSUME ServerInv, NEW r \in Requests, NEW l \in Layers, Ask(r, l)
  PROVE  /\ Moves(r) /\ req'[r].step = "scans" /\ req'[r].layer = l
         /\ req'[r].todo = Stations /\ req'[r].picture = Blank /\ req'[r].age = 0
<1> DEFINE k == [Idle EXCEPT !.step = "scans", !.layer = l, !.todo = Stations]
<1>1. /\ k \in Req /\ k.step = "scans" /\ k.layer = l /\ k.todo = Stations
      /\ k.picture = Blank /\ k.age = 0
  BY IdleType DEF Idle, Req
<1>2. req' = [req EXCEPT ![r] = k] /\ req \in [Requests -> Req]
  BY DEF Ask, ServerInv, TypeOK, Req
<1> HIDE DEF k
<1> QED  BY <1>1, <1>2, ReqSet

LEMMA ReadFrameFacts ==
  ASSUME ServerInv, NEW r \in Requests, ReadFrame(r)
  PROVE  /\ Moves(r) /\ Readable \in Versions /\ req[r].age \in 0..1
         /\ Readable = 0 => req'[r] = Idle
         /\ Readable # 0 => /\ req'[r].step = "colorize" /\ req'[r].layer = req[r].layer
                            /\ req'[r].age = req[r].age
                            /\ req'[r].picture = [Blank EXCEPT !.version = Readable]
<1> DEFINE picture == [Blank EXCEPT !.version = Readable]
           k == [req[r] EXCEPT !.step = "colorize", !.picture = picture]
<1>1. req \in [Requests -> Req] /\ req[r] \in Req /\ Readable \in Versions
  BY DEF ServerInv, TypeOK, Req, Readable
<1>2. picture \in Pictures
  BY <1>1, IdleType DEF Pictures
<1> HIDE DEF picture
<1>3. k \in Req /\ k.step = "colorize" /\ k.layer = req[r].layer /\ k.age = req[r].age
      /\ k.picture = picture
  BY <1>1, <1>2 DEF Req
<1>4. req' = [req EXCEPT ![r] = IF Readable = 0 THEN Idle ELSE k]
  BY DEF ReadFrame, picture
<1>5. req[r].age \in 0..1
  BY <1>1 DEF Req
<1> HIDE DEF k
<1>6. CASE Readable = 0
  BY <1>1, <1>4, <1>5, <1>6, IdleType, ReqSet
<1>7. CASE Readable # 0
  BY <1>1, <1>3, <1>4, <1>5, <1>7, ReqSet DEF picture
<1> QED  BY <1>6, <1>7

LEMMA ColorizeFacts ==
  ASSUME ServerInv, NEW r \in Requests, Colorize(r)
  PROVE  Moves(r) /\ req'[r] = Idle
BY IdleType, ReqSet DEF Colorize, ServerInv, TypeOK, Req

\* After a minute every request is as it was, but idle or older.
LEMMA MinuteFacts ==
  ASSUME ServerInv, Minute, NEW r \in Requests
  PROVE  /\ req' \in [Requests -> Req] /\ req[r].age = 0
         /\ req[r] = Idle => req'[r] = Idle
         /\ req[r] # Idle => req'[r].age = 1
         /\ req'[r].step = req[r].step /\ req'[r].layer = req[r].layer
         /\ req'[r].todo = req[r].todo /\ req'[r].scans = req[r].scans
         /\ req'[r].picture = req[r].picture
<1>1. req \in [Requests -> Req]
  BY DEF ServerInv, TypeOK, Req
<1>2. ASSUME NEW x \in Requests
      PROVE  LET k == [req[x] EXCEPT !.age = 1]
             IN  /\ k \in Req /\ k.age = 1 /\ k.step = req[x].step /\ k.layer = req[x].layer
                 /\ k.todo = req[x].todo /\ k.scans = req[x].scans
                 /\ k.picture = req[x].picture
  <2>1. req[x] \in Req
    BY <1>1
  <2> QED  BY <2>1 DEF Req
<1>3. req' = [x \in Requests |-> IF req[x] = Idle THEN Idle ELSE [req[x] EXCEPT !.age = 1]]
  BY DEF Minute
<1>4. req' \in [Requests -> Req]
  BY <1>2, <1>3, IdleType
<1>5. req[r].age = 0
  BY DEF Minute
<1> QED  BY <1>2, <1>3, <1>4, <1>5

LEMMA KeyFacts ==
  ASSUME ServerInv, NEW r \in Requests, req[r].step # "idle"
  PROVE  /\ TileKey(r) = <<req[r].layer, Newest(req[r].scans)>>
         /\ req[r].layer \in Layers /\ req[r].scans \in Drawings
         /\ req[r].scans # Nothing => /\ Newest(req[r].scans) \in Volumes \ {0}
                                      /\ TileKey(r) \in Layers \X (Volumes \ {0})
                                      /\ tileCache[TileKey(r)] \in Pictures
<1>1. req[r] \in Req
  BY DEF ServerInv, TypeOK, Req
<1>2. req[r].layer \in Layers /\ req[r].scans \in Drawings
  BY <1>1 DEF ServerInv, Sound, Req
<1>3. ASSUME req[r].scans # Nothing PROVE Newest(req[r].scans) \in Volumes \ {0}
  BY <1>2, <1>3, NewestFacts
<1>4. tileCache \in [Layers \X (Volumes \ {0}) -> Pictures]
  BY DEF ServerInv, TypeOK
<1> QED  BY <1>2, <1>3, <1>4 DEF TileKey

\* The four ends of RenderTile.
NoScans(r) ==
  /\ req[r].scans = Nothing
  /\ req'[r].step = "frame" /\ req'[r].picture = Blank
  /\ UNCHANGED tileCache

TakesKept(r) ==
  /\ req[r].scans # Nothing /\ tileCache[TileKey(r)] # Blank
  /\ TakeTile(r, tileCache[TileKey(r)])
  /\ UNCHANGED tileCache

FindsDry(r) ==
  /\ req[r].scans # Nothing /\ tileCache[TileKey(r)] = Blank /\ Dry(Own(r))
  /\ req'[r].step = "frame" /\ req'[r].picture = Blank
  /\ tileCache' = [tileCache EXCEPT ![TileKey(r)] = Own(r)]

ToEncode(r) ==
  /\ req[r].scans # Nothing /\ tileCache[TileKey(r)] = Blank /\ ~Dry(Own(r))
  /\ req'[r].step = "encode" /\ req'[r].picture = Blank /\ req'[r].scans = req[r].scans
  /\ UNCHANGED tileCache

LEMMA RenderFacts ==
  ASSUME ServerInv, NEW r \in Requests, RenderTile(r)
  PROVE  /\ req[r].step = "scans" /\ req[r].todo = {}
         /\ Moves(r) /\ req'[r].layer = req[r].layer /\ req'[r].age = req[r].age
         /\ req'[r].todo = req[r].todo
         /\ NoScans(r) \/ TakesKept(r) \/ FindsDry(r) \/ ToEncode(r)
<1>1. req[r].step = "scans" /\ req[r].todo = {}
  BY DEF RenderTile
<1>2. req[r].picture = Blank
  BY <1>1 DEF ServerInv, Sound
<1>3. req[r].layer \in Layers /\ req[r].scans \in Drawings
  BY <1>1, KeyFacts
<1>4. CASE req[r].scans = Nothing
  <2>1. req' = [req EXCEPT ![r].step = "frame"] /\ UNCHANGED tileCache
    BY <1>4 DEF RenderTile
  <2> QED  BY <1>1, <1>2, <1>4, <2>1, StepFacts DEF NoScans
<1>5. CASE req[r].scans # Nothing /\ tileCache[TileKey(r)] # Blank
  <2>1. TakeTile(r, tileCache[TileKey(r)]) /\ UNCHANGED tileCache
    BY <1>5 DEF RenderTile
  <2>2. tileCache[TileKey(r)] \in Pictures
    BY <1>1, <1>5, KeyFacts
  <2> QED  BY <1>1, <1>5, <2>1, <2>2, TakeTileFacts DEF TakesKept
<1>6. CASE req[r].scans # Nothing /\ tileCache[TileKey(r)] = Blank /\ Dry(Own(r))
  <2>1. /\ TakeTile(r, Own(r))
        /\ tileCache' = [tileCache EXCEPT ![TileKey(r)] = Own(r)]
    BY <1>6 DEF RenderTile, Own
  <2>2. Own(r) \in Pictures
    BY <1>3, RenderedFacts DEF Own
  <2> QED  BY <1>1, <1>6, <2>1, <2>2, TakeTileFacts DEF FindsDry
<1>7. CASE req[r].scans # Nothing /\ tileCache[TileKey(r)] = Blank /\ ~Dry(Own(r))
  <2>1. req' = [req EXCEPT ![r].step = "encode"] /\ UNCHANGED tileCache
    BY <1>7 DEF RenderTile, Own
  <2> QED  BY <1>1, <1>2, <1>7, <2>1, StepFacts DEF ToEncode
<1> QED  BY <1>4, <1>5, <1>6, <1>7

LEMMA EncodeFacts ==
  ASSUME ServerInv, NEW r \in Requests, EncodeTile(r)
  PROVE  /\ req[r].step = "encode" /\ req[r].todo = {}
         /\ req[r].scans # Nothing /\ ~Dry(Own(r))
         /\ Moves(r) /\ req'[r].layer = req[r].layer /\ req'[r].age = req[r].age
         /\ req'[r].step = "colorize"
         /\ req'[r].picture = Own(r)
         /\ tileCache' = [tileCache EXCEPT ![TileKey(r)] = Own(r)]
<1>1. req[r].step = "encode"
  BY DEF EncodeTile
<1>2. req[r].todo = {} /\ req[r].scans # Nothing /\ ~Dry(Own(r))
  BY <1>1 DEF ServerInv, Sound
<1>3. req[r].layer \in Layers /\ req[r].scans \in Drawings
  BY <1>1, KeyFacts
<1>4. /\ TakeTile(r, Own(r))
      /\ tileCache' = [tileCache EXCEPT ![TileKey(r)] = Own(r)]
  BY DEF EncodeTile, Own
<1>5. Own(r) \in Pictures
  BY <1>3, RenderedFacts DEF Own
<1> QED  BY <1>1, <1>2, <1>4, <1>5, TakeTileFacts

-----------------------------------------------------------------------------
(* Types hold *)

\* What a tile is kept for under the key of a request.
LEMMA KeptType ==
  ASSUME ServerInv, NEW r \in Requests, req[r].step # "idle", req[r].scans # Nothing,
         tileCache' = [tileCache EXCEPT ![TileKey(r)] = Own(r)]
  PROVE  /\ tileCache' \in [Layers \X (Volumes \ {0}) -> Pictures]
         /\ Keyed'
<1> DEFINE l == req[r].layer
           n == Newest(req[r].scans)
           tile == Own(r)
<1>1. l \in Layers /\ n \in Volumes \ {0} /\ TileKey(r) = <<l, n>>
  BY KeyFacts
<1>2. tileCache \in [Layers \X (Volumes \ {0}) -> Pictures]
  BY DEF ServerInv, TypeOK
<1>3. tileCache' = [tileCache EXCEPT ![<<l, n>>] = tile]
  BY <1>1
<1>4. tile \in Pictures /\ tile.layer = l /\ Newest(tile.drawing) = n
  BY KeyFacts, RenderedFacts DEF Own
<1> HIDE DEF l, n, tile
<1>5. tileCache' \in [Layers \X (Volumes \ {0}) -> Pictures]
  BY <1>1, <1>2, <1>3, <1>4
<1>6. ASSUME NEW m \in Layers, NEW v \in Volumes \ {0}, tileCache'[<<m, v>>] # Blank
      PROVE  tileCache'[<<m, v>>].layer = m /\ Newest(tileCache'[<<m, v>>].drawing) = v
  <2>1. CASE m = l /\ v = n
    BY <1>1, <1>2, <1>3, <1>4, <2>1
  <2>2. CASE ~(m = l /\ v = n)
    <3>1. tileCache'[<<m, v>>] = tileCache[<<m, v>>]
      BY <1>1, <1>2, <1>3, <2>2
    <3> QED  BY <1>6, <3>1 DEF ServerInv, Keyed
  <2> QED  BY <2>1, <2>2
<1>7. Keyed'
  BY <1>6 DEF Keyed, Newest, Blank, Nothing
<1> QED  BY <1>5, <1>7

LEMMA InitServer == Init => ServerInv
<1> SUFFICES ASSUME Init PROVE ServerInv
  OBVIOUS
<1>1. 1 \in Versions /\ 0 \in Versions /\ 0 \in Volumes
  BY ServerAssumption DEF Versions, Volumes
<1>2. scan \in Drawings
  BY IdleType DEF Init
<1>3. req \in [Requests -> Req] /\ \A r \in Requests : req[r] = Idle
  BY IdleType DEF Init
<1>4. TypeOK
  BY <1>1, <1>2, <1>3, IdleType, ServerAssumption DEF Init, TypeOK, Req, Absent
<1>5. Keyed
  BY DEF Init, Keyed
<1>6. \A r \in Requests : Sound(r)
  BY <1>3 DEF Sound, Idle, Blank
<1> QED  BY <1>4, <1>5, <1>6 DEF ServerInv

\* Requests that do not move stay sound.
LEMMA SoundMoves ==
  ASSUME ServerInv, NEW r \in Requests, Moves(r), Sound(r)'
  PROVE  \A x \in Requests : Sound(x)'
<1> SUFFICES ASSUME NEW x \in Requests, x # r PROVE Sound(x)'
  OBVIOUS
<1>1. req'[x] = req[x] /\ Sound(x)
  BY DEF Moves, ServerInv
<1> QED  BY <1>1 DEF Sound, Own

LEMMA RequestServer ==
  ASSUME ServerInv, NEW r \in Requests, RequestStep(r)
  PROVE  ServerInv'
<1>1. ASSUME UNCHANGED tileCache
      PROVE  tileCache' \in [Layers \X (Volumes \ {0}) -> Pictures] /\ Keyed'
  BY <1>1 DEF ServerInv, TypeOK, Keyed
<1>2. ASSUME Moves(r) PROVE req' \in [Requests -> Req]
  BY <1>2 DEF Moves
<1>3. ASSUME NEW l \in Layers, Ask(r, l) PROVE ServerInv'
  <2>1. Moves(r) /\ Sound(r)'
    BY <1>3, AskFacts DEF Sound, Blank
  <2> QED
    BY <1>1, <1>2, <1>3, <2>1, SoundMoves DEF Ask, cacheVars, dataVars, ServerInv, TypeOK, Req
<1>4. ASSUME LookUp(r) PROVE ServerInv'
  <2>1. Sound(r) /\ req[r].step = "scans"
    BY <1>4 DEF ServerInv, LookUp
  <2>2. Moves(r) /\ Sound(r)'
    BY <1>4, <2>1, LookUpFacts DEF Sound
  <2> QED
    BY <1>1, <1>2, <1>4, <2>2, SoundMoves
       DEF LookUp, cacheVars, dataVars, ServerInv, TypeOK, Req
<1>5. ASSUME ReadScan(r) PROVE ServerInv'
  <2>1. Sound(r) /\ req[r].step = "read"
    BY <1>5 DEF ServerInv, ReadScan
  <2>2. Moves(r) /\ Sound(r)'
    BY <1>5, <2>1, ReadScanFacts DEF Sound
  <2>3. /\ scanCache' \in [Stations -> [volume : Volumes, age : 0..1]]
        /\ missCache' \in [Stations -> 0..Absent]
    <3>1. PICK s \in Stations : RememberScan(s, scan[s])
      BY <1>5, ReadScanFacts
    <3>2. scan[s] \in Volumes
      BY DEF ServerInv, TypeOK, Drawings
    <3> QED  BY <3>1, <3>2, RememberType
  <2> QED
    BY <1>1, <1>2, <1>5, <2>2, <2>3, SoundMoves DEF ReadScan, dataVars, ServerInv, TypeOK, Req
<1>6. ASSUME RenderTile(r) PROVE ServerInv'
  <2>1. Sound(r) /\ req[r].step = "scans" /\ req[r].todo = {} /\ req[r].layer \in Layers
    BY <1>6, RenderFacts, KeyFacts DEF ServerInv
  <2>2. Moves(r) /\ req'[r].layer = req[r].layer /\ req'[r].todo = {}
    BY <1>6, <2>1, RenderFacts
  <2>3. /\ Sound(r)'
        /\ tileCache' \in [Layers \X (Volumes \ {0}) -> Pictures] /\ Keyed'
    <3>1. CASE NoScans(r)
      <4>1. Blank.layer = "frame"
        BY DEF Blank
      <4> QED  BY <1>1, <2>1, <2>2, <3>1, <4>1 DEF NoScans, Sound
    <3>2. CASE TakesKept(r)
      <4> DEFINE tile == tileCache[TileKey(r)]
      <4>1. tile \in Pictures /\ tile.layer = req[r].layer /\ TakeTile(r, tile)
        BY <2>1, <3>2, KeyFacts DEF TakesKept, ServerInv, Keyed
      <4> HIDE DEF tile
      <4>2. \/ req'[r].step = "frame" /\ req'[r].picture = Blank
            \/ req'[r].step = "colorize" /\ req'[r].picture.layer = req[r].layer
        BY <4>1, TakeTileFacts
      <4> QED  BY <1>1, <2>1, <2>2, <3>2, <4>2 DEF TakesKept, Sound, Blank
    <3>3. CASE FindsDry(r)
      BY <2>1, <2>2, <3>3, KeptType DEF FindsDry, Sound, Blank
    <3>4. CASE ToEncode(r)
      BY <1>1, <2>1, <2>2, <3>4 DEF ToEncode, Sound, Own, Blank
    <3> QED  BY <1>6, <3>1, <3>2, <3>3, <3>4, RenderFacts
  <2> QED
    <3>1. req' \in [Requests -> Req] /\ \A x \in Requests : Sound(x)'
      BY <1>2, <2>2, <2>3, SoundMoves
    <3> QED  BY <1>6, <2>3, <3>1 DEF RenderTile, dataVars, ServerInv, TypeOK, Req
<1>7. ASSUME EncodeTile(r) PROVE ServerInv'
  <2>1. req[r].step = "encode" /\ req[r].layer \in Layers
    BY <1>7, EncodeFacts, KeyFacts
  <2>2. Moves(r) /\ Sound(r)'
    <3>1. /\ Moves(r) /\ req'[r].step = "colorize" /\ req'[r].layer = req[r].layer
          /\ req'[r].picture = Own(r)
      BY <1>7, EncodeFacts
    <3>2. req'[r].picture.layer = req[r].layer
      BY <2>1, <3>1, KeyFacts, RenderedFacts DEF Own
    <3> QED  BY <2>1, <3>1, <3>2 DEF Sound
  <2>3. tileCache' \in [Layers \X (Volumes \ {0}) -> Pictures] /\ Keyed'
    <3>1. /\ req[r].scans # Nothing /\ req[r].step # "idle"
          /\ tileCache' = [tileCache EXCEPT ![TileKey(r)] = Own(r)]
      BY <1>7, <2>1, EncodeFacts
    <3> QED  BY <3>1, KeptType
  <2> QED
    BY <1>2, <1>7, <2>2, <2>3, SoundMoves DEF EncodeTile, dataVars, ServerInv, TypeOK, Req
<1>8. ASSUME ReadFrame(r) PROVE ServerInv'
  <2>1. req[r].layer \in Layers
    BY <1>8, KeyFacts DEF ReadFrame
  <2>2. [Blank EXCEPT !.version = Readable].layer = "frame"
    BY DEF Blank
  <2>3. Moves(r) /\ Sound(r)'
    <3>1. /\ Moves(r)
          /\ \/ req'[r] = Idle
             \/ /\ req'[r].step = "colorize" /\ req'[r].layer = req[r].layer
                /\ req'[r].picture.layer = "frame"
      BY <1>8, <2>2, ReadFrameFacts
    <3>2. Idle.step = "idle" /\ Idle.picture = Blank /\ Blank.layer = "frame"
      BY DEF Idle, Blank
    <3> QED  BY <2>1, <3>1, <3>2 DEF Sound
  <2> QED
    BY <1>1, <1>2, <1>8, <2>3, SoundMoves DEF ReadFrame, dataVars, ServerInv, TypeOK, Req
<1>9. ASSUME Colorize(r) PROVE ServerInv'
  <2>1. Moves(r) /\ Sound(r)'
    BY <1>9, ColorizeFacts DEF Sound, Idle, Blank
  <2>2. answers' \in [picture : Pictures, age : 0..2]
    BY <1>9 DEF Colorize, ServerInv, TypeOK
  <2> QED
    BY <1>1, <1>2, <1>9, <2>1, <2>2, SoundMoves
       DEF Colorize, cacheVars, dataVars, ServerInv, TypeOK, Req
<1> QED  BY <1>3, <1>4, <1>5, <1>6, <1>7, <1>8, <1>9 DEF RequestStep

\* A change of the data: no request moves and only the deleted frame's handle does.
LEMMA DataServer == ASSUME ServerInv, DataStep PROVE ServerInv'
<1>1. UNCHANGED <<activeStations, refreshed, scanCache, missCache, tileCache, answers, req>>
  BY DEF DataStep, StoreScan, ExpireScan, WriteFrame, DeleteFrame, CloseHandle, cacheVars
<1>2. changes \in 0..MaxChanges /\ changes < MaxChanges /\ changes' = changes + 1 /\ settled' = 0
  BY DEF DataStep, StoreScan, ExpireScan, WriteFrame, DeleteFrame, CloseHandle, Changed,
         ServerInv, TypeOK
<1>3. changes' \in 0..MaxChanges /\ settled' \in 0..Settling /\ changes + 2 \in Versions
  BY <1>2, ServerAssumption DEF Versions
<1>4. /\ scan \in Drawings /\ active \in SUBSET Stations /\ file \in Versions
      /\ handle \in {"none", "live", "dead"} /\ held \in Versions
      /\ 0 \in Versions /\ 0 \in Volumes
  BY ServerAssumption DEF ServerInv, TypeOK, Versions, Volumes
<1> DEFINE DataTyped == /\ scan \in Drawings /\ active \in SUBSET Stations
                        /\ file \in Versions /\ held \in Versions
                        /\ handle \in {"none", "live", "dead"}
<1>5. DataTyped'
  <2>1. ASSUME NEW s \in Stations, StoreScan(s) PROVE DataTyped'
    <3>1. PICK v \in Volumes : scan' = [scan EXCEPT ![s] = v]
      BY <2>1 DEF StoreScan
    <3>2. scan' \in Drawings
      BY <1>4, <3>1 DEF Drawings
    <3> QED  BY <1>4, <2>1, <3>2 DEF StoreScan, cacheVars
  <2>2. ASSUME NEW s \in Stations, ExpireScan(s) PROVE DataTyped'
    <3>1. scan' \in Drawings
      BY <1>4, <2>2 DEF Drawings, ExpireScan
    <3> QED  BY <1>4, <2>2, <3>1 DEF ExpireScan, cacheVars
  <2>3. CASE WriteFrame
    BY <1>3, <1>4, <2>3 DEF WriteFrame, cacheVars
  <2>4. CASE DeleteFrame
    BY <1>4, <2>4 DEF DeleteFrame
  <2>5. CASE CloseHandle
    BY <1>4, <2>5 DEF CloseHandle
  <2> QED  BY <2>1, <2>2, <2>3, <2>4, <2>5 DEF DataStep
<1>6. TypeOK'
  BY <1>1, <1>3, <1>5 DEF ServerInv, TypeOK
<1> QED  BY <1>1, <1>6 DEF ServerInv, Keyed, Sound, Own

LEMMA ReqStaysServer ==
  ASSUME ServerInv, UNCHANGED <<tileCache, req>>, TypeOK'
  PROVE  ServerInv'
BY DEF ServerInv, Keyed, Sound, Own

LEMMA AgedTypes ==
  ASSUME ServerInv
  PROVE  /\ \A s \in Stations : AgedScan(s) \in [volume : Volumes, age : 0..1]
         /\ \A s \in Stations : AgedMiss(s) \in 0..Absent
         /\ AgedAnswer \in [picture : Pictures, age : 0..2]
         /\ NoScan \in [volume : Volumes, age : 0..1]
         /\ NoAnswer \in [picture : Pictures, age : 0..2]
<1>1. NoScan \in [volume : Volumes, age : 0..1]
  BY ServerAssumption DEF NoScan, Volumes
<1>2. NoAnswer \in [picture : Pictures, age : 0..2]
  BY IdleType DEF NoAnswer
<1>3. ASSUME NEW s \in Stations PROVE AgedScan(s) \in [volume : Volumes, age : 0..1]
  <2>1. scanCache[s] \in [volume : Volumes, age : 0..1]
    BY DEF ServerInv, TypeOK
  <2> QED  BY <1>1, <2>1 DEF AgedScan
<1>4. ASSUME NEW s \in Stations PROVE AgedMiss(s) \in 0..Absent
  <2>1. missCache[s] \in 0..2
    BY DEF ServerInv, TypeOK, Absent
  <2>2. missCache[s] + 1 \in Int /\ 2 \in Int
    BY <2>1
  <2>3. Min({missCache[s] + 1, 2}) \in {missCache[s] + 1, 2} /\ Min({missCache[s] + 1, 2}) <= 2
    BY <2>2, MinOfTwo
  <2> QED  BY <2>1, <2>3 DEF AgedMiss, Absent
<1>5. AgedAnswer \in [picture : Pictures, age : 0..2]
  <2>1. answers \in [picture : Pictures, age : 0..2]
    BY DEF ServerInv, TypeOK
  <2> QED  BY <1>2, <2>1 DEF AgedAnswer
<1> QED  BY <1>1, <1>2, <1>3, <1>4, <1>5

LEMMA LapseServer == ASSUME ServerInv, Lapse PROVE ServerInv'
<1>1. /\ scanCache' \in [Stations -> [volume : Volumes, age : 0..1]]
      /\ missCache' \in [Stations -> 0..Absent]
      /\ answers' \in [picture : Pictures, age : 0..2]
  <2>1. Absent \in 0..Absent
    BY DEF Absent
  <2> QED  BY <2>1, AgedTypes DEF Lapse, ServerInv, TypeOK
<1>2. TypeOK'
  BY <1>1 DEF Lapse, dataVars, ServerInv, TypeOK
<1> QED  BY <1>2, ReqStaysServer DEF Lapse

LEMMA MinuteServer == ASSUME ServerInv, Minute PROVE ServerInv'
<1>1. settled' \in 0..Settling
  <2>1. settled \in 0..Settling /\ settled + 1 \in Int /\ Settling \in Nat
    BY ServerAssumption DEF ServerInv, TypeOK
  <2>2. settled' = Min({settled + 1, Settling})
    BY DEF Minute
  <2> QED  BY <2>1, <2>2, MinOfTwo
<1>2. /\ scanCache' \in [Stations -> [volume : Volumes, age : 0..1]]
      /\ missCache' \in [Stations -> 0..Absent]
      /\ answers' \in [picture : Pictures, age : 0..2]
      /\ refreshed' \in BOOLEAN
  BY AgedTypes DEF Minute
<1>3. ASSUME NEW r \in Requests PROVE req' \in [Requests -> Req] /\ Sound(r)'
  <2>1. Sound(r)
    BY DEF ServerInv
  <2> QED  BY <2>1, MinuteFacts DEF Sound, Own
<1>4. req' \in [Requests -> Req]
  <2>1. \A r \in Requests : req' \in [Requests -> Req]
    BY <1>3
  <2>2. req' = [r \in Requests |-> IF req[r] = Idle THEN Idle ELSE [req[r] EXCEPT !.age = 1]]
    BY DEF Minute
  <2> QED  BY <2>1, <2>2
<1>5. TypeOK'
  BY <1>1, <1>2, <1>4 DEF Minute, dataVars, ServerInv, TypeOK, Req
<1> QED  BY <1>3, <1>5 DEF Minute, ServerInv, Keyed

LEMMA NextServer == ServerInv /\ [Next]_vars => ServerInv'
<1> SUFFICES ASSUME ServerInv, [Next]_vars PROVE ServerInv'
  OBVIOUS
<1>1. CASE RefreshActive
  BY <1>1, ReqStaysServer DEF RefreshActive, dataVars, ServerInv, TypeOK
<1>2. ASSUME NEW s \in Stations, OtherTile(s) PROVE ServerInv'
  <2>1. RememberScan(s, scan[s]) /\ scan[s] \in Volumes
    BY <1>2 DEF OtherTile, ServerInv, TypeOK, Drawings
  <2> QED  BY <1>2, <2>1, RememberType, ReqStaysServer DEF OtherTile, dataVars, ServerInv, TypeOK
<1>3. CASE UNCHANGED vars
  BY <1>3, ReqStaysServer DEF vars, dataVars, cacheVars, ServerInv, TypeOK
<1> QED
  BY <1>1, <1>2, <1>3, DataServer, LapseServer, MinuteServer, RequestServer DEF Next

LEMMA ServerHolds == Spec => []ServerInv
BY InitServer, NextServer, PTL DEF Spec

\* Every cache, answer and request of the endpoint has its type: a rendered tile
\* is looked up only under a key it can have, and ages stay within their TTLs
\* (server/index.ts, TileStore, NexradScanProvider).
THEOREM TypeOKHolds == Spec => []TypeOK
BY ServerHolds, PTL DEF ServerInv

\* A request that the endpoint does not answer at once from its own cache is
\* shown the layer it asked for, however many requests for other layers are under
\* way and whatever they have put into the cache of rendered tiles: what is kept
\* under a key was rendered in the layer of that key (server/nexrad-tile.ts).
THEOREM LayerKeptHolds == Spec => []LayerKept
<1>1. ServerInv => LayerKept
  BY DEF ServerInv, Sound, LayerKept
<1> QED  BY <1>1, ServerHolds, PTL

-----------------------------------------------------------------------------
(* The frame as it is *)

LEMMA Ages ==
  ASSUME ServerInv
  PROVE  /\ \A r \in Requests : req[r].age \in 0..1
         /\ answers.age \in 0..2 /\ settled \in Nat
BY ServerAssumption DEF ServerInv, TypeOK

LEMMA DataFacts ==
  ASSUME DataStep
  PROVE  /\ settled' = 0
         /\ UNCHANGED <<activeStations, refreshed, scanCache, missCache, tileCache, answers, req>>
BY DEF DataStep, StoreScan, ExpireScan, WriteFrame, DeleteFrame, CloseHandle, Changed, cacheVars

LEMMA MinuteAges ==
  ASSUME ServerInv, Minute
  PROVE  /\ settled' \in Nat /\ settled' <= settled + 1
         /\ \/ answers' = NoAnswer
            \/ answers'.picture = answers.picture /\ answers'.age = answers.age + 1
<1>1. settled \in Nat /\ settled + 1 \in Int /\ Settling \in Nat
  BY Ages, ServerAssumption
<1>2. settled' = Min({settled + 1, Settling})
  BY DEF Minute
<1>3. settled' \in Nat /\ settled' <= settled + 1
  BY <1>1, <1>2, MinOfTwo
<1>4. answers \in [picture : Pictures, age : 0..2]
  BY DEF ServerInv, TypeOK
<1>5. answers' = NoAnswer \/ answers' = [answers EXCEPT !.age = answers.age + 1]
  BY DEF Minute, AgedAnswer
<1> QED  BY <1>3, <1>4, <1>5

LEMMA FrameMoves ==
  ASSUME FrameInv, NEW r \in Requests, Moves(r), settled' = settled, Readable' = Readable,
         FrameOfRequest(r)', FrameOfAnswer'
  PROVE  FrameInv'
<1>1. ASSUME NEW x \in Requests, x # r PROVE FrameOfRequest(x)'
  BY <1>1 DEF Moves, FrameInv, FrameOfRequest
<1> QED  BY <1>1 DEF FrameInv

LEMMA RequestFrame ==
  ASSUME ServerInv, FrameInv, NEW r \in Requests, RequestStep(r)
  PROVE  FrameInv'
<1>1. settled' = settled /\ Readable' = Readable
  BY DEF RequestStep, Ask, LookUp, ReadScan, RenderTile, EncodeTile, ReadFrame, Colorize,
         dataVars, cacheVars, Readable, ServerInv, TypeOK
<1>2. FrameOfRequest(r) /\ FrameOfAnswer
  BY DEF FrameInv
<1>3. ASSUME UNCHANGED answers PROVE FrameOfAnswer'
  BY <1>1, <1>2, <1>3 DEF FrameOfAnswer
<1>4. ASSUME NEW l \in Layers, Ask(r, l) PROVE FrameInv'
  <2>1. Moves(r) /\ FrameOfRequest(r)'
    BY <1>4, AskFacts DEF FrameOfRequest
  <2> QED  BY <1>1, <1>3, <1>4, <2>1, FrameMoves DEF Ask
<1>5. ASSUME LookUp(r) PROVE FrameInv'
  <2>1. Moves(r) /\ FrameOfRequest(r)'
    BY <1>1, <1>2, <1>5, LookUpFacts DEF FrameOfRequest
  <2> QED  BY <1>1, <1>3, <1>5, <2>1, FrameMoves DEF LookUp
<1>6. ASSUME ReadScan(r) PROVE FrameInv'
  <2>1. Moves(r) /\ FrameOfRequest(r)'
    BY <1>1, <1>2, <1>6, ReadScanFacts DEF FrameOfRequest
  <2> QED  BY <1>1, <1>3, <1>6, <2>1, FrameMoves DEF ReadScan
<1>7. ASSUME RenderTile(r) PROVE FrameInv'
  <2>1. req[r].layer \in Layers /\ req[r].step = "scans"
    BY <1>7, RenderFacts, KeyFacts
  <2>2. Moves(r)
    BY <1>7, RenderFacts
  <2>3. req'[r].picture = Blank \/ req'[r].picture.layer = req[r].layer
    <3>1. CASE TakesKept(r)
      <4> DEFINE tile == tileCache[TileKey(r)]
      <4>1. tile \in Pictures /\ tile.layer = req[r].layer /\ TakeTile(r, tile)
        BY <2>1, <3>1, KeyFacts DEF TakesKept, ServerInv, Keyed
      <4> HIDE DEF tile
      <4> QED  BY <4>1, TakeTileFacts
    <3> QED  BY <1>7, <3>1, RenderFacts DEF NoScans, FindsDry, ToEncode
  <2>4. FrameOfRequest(r)'
    BY <2>1, <2>3, ServerAssumption DEF FrameOfRequest
  <2> QED  BY <1>1, <1>3, <1>7, <2>2, <2>4, FrameMoves DEF RenderTile
<1>8. ASSUME EncodeTile(r) PROVE FrameInv'
  <2>1. req[r].layer \in Layers
    BY <1>8, EncodeFacts, KeyFacts
  <2>2. /\ Moves(r)
        /\ req'[r].picture = Own(r)
    BY <1>8, EncodeFacts
  <2>3. req'[r].picture.layer = req[r].layer
    BY <1>8, <2>1, <2>2, EncodeFacts, KeyFacts, RenderedFacts DEF Own
  <2>4. FrameOfRequest(r)'
    BY <2>1, <2>3, ServerAssumption DEF FrameOfRequest
  <2> QED  BY <1>1, <1>3, <1>8, <2>2, <2>4, FrameMoves DEF EncodeTile
<1>9. ASSUME ReadFrame(r) PROVE FrameInv'
  <2>1. Moves(r)
    BY <1>9, ReadFrameFacts
  <2>2. req'[r].picture = Blank \/ req'[r].picture.version = Readable
    <3>1. \/ req'[r] = Idle
          \/ req'[r].picture = [Blank EXCEPT !.version = Readable]
      BY <1>9, ReadFrameFacts
    <3> QED  BY <3>1 DEF Idle, Blank
  <2>3. FrameOfRequest(r)'
    BY <1>1, <2>2 DEF FrameOfRequest
  <2> QED  BY <1>1, <1>3, <1>9, <2>1, <2>3, FrameMoves DEF ReadFrame
<1>10. ASSUME Colorize(r) PROVE FrameInv'
  <2>1. Moves(r) /\ req'[r].picture = Blank
    BY <1>10, ColorizeFacts DEF Idle
  <2>2. answers'.picture = req[r].picture /\ answers'.age = 0
    BY <1>10 DEF Colorize
  <2>3. FrameOfRequest(r)' /\ FrameOfAnswer'
    BY <1>1, <1>2, <2>1, <2>2, Ages DEF FrameOfRequest, FrameOfAnswer
  <2> QED  BY <1>1, <2>1, <2>3, FrameMoves
<1> QED  BY <1>4, <1>5, <1>6, <1>7, <1>8, <1>9, <1>10 DEF RequestStep

LEMMA FrameNext == ServerInv /\ FrameInv /\ [Next]_vars => FrameInv'
<1> SUFFICES ASSUME ServerInv, FrameInv, [Next]_vars PROVE FrameInv'
  OBVIOUS
<1>1. CASE DataStep
  BY <1>1, DataFacts, Ages DEF FrameInv, FrameOfRequest, FrameOfAnswer
<1>2. ASSUME UNCHANGED <<settled, file, handle, held, req>>,
             answers' = answers \/ answers' = NoAnswer
      PROVE  FrameInv'
  <2>1. NoAnswer.picture = Blank
    BY DEF NoAnswer
  <2> QED  BY <1>2, <2>1 DEF FrameInv, FrameOfRequest, FrameOfAnswer, Readable
<1>3. CASE Minute
  <2>1. Readable' = Readable
    BY <1>3 DEF Minute, dataVars, Readable
  <2>2. ASSUME NEW r \in Requests PROVE FrameOfRequest(r)'
    <3>1. req'[r].picture = req[r].picture /\ req[r].age = 0
      BY <1>3, MinuteFacts
    <3>2. CASE req[r] = Idle
      <4>1. req[r].picture = Blank
        BY <3>2 DEF Idle
      <4> QED  BY <3>1, <4>1 DEF FrameOfRequest
    <3>3. CASE req[r] # Idle
      <4>1. req'[r].age = 1
        BY <1>3, <3>3, MinuteFacts
      <4> QED  BY <1>3, <2>1, <3>1, <4>1, MinuteAges, Ages DEF FrameInv, FrameOfRequest
    <3> QED  BY <3>2, <3>3
  <2>3. FrameOfAnswer'
    <3>1. NoAnswer.picture = Blank
      BY DEF NoAnswer
    <3> QED  BY <1>3, <2>1, <3>1, MinuteAges, Ages DEF FrameInv, FrameOfAnswer
  <2> QED  BY <2>2, <2>3 DEF FrameInv
<1>4. CASE RefreshActive \/ Lapse \/ \E s \in Stations : OtherTile(s)
  BY <1>2, <1>4 DEF RefreshActive, Lapse, OtherTile, dataVars
<1>5. CASE UNCHANGED vars
  BY <1>2, <1>5 DEF vars, dataVars, cacheVars
<1> QED  BY <1>1, <1>3, <1>4, <1>5, RequestFrame DEF Next

LEMMA FrameInit == Init => FrameInv
BY DEF Init, FrameInv, FrameOfRequest, FrameOfAnswer, Idle

\* Four minutes after the file of a frame was last written, deleted or closed,
\* every answer drawn from it shows what the store reads, whatever was under way
\* or cached when it changed (server/index.ts, TileStore).
THEOREM FrameSettlesHolds == Settling >= 4 => (Spec => []FrameSettles)
<1> SUFFICES ASSUME Settling >= 4 PROVE Spec => []FrameSettles
  OBVIOUS
<1>1. ServerInv /\ FrameInv => FrameSettles
  <2> SUFFICES ASSUME ServerInv, FrameInv, settled = Settling,
                      NEW p \in Shown, p.layer = "frame"
               PROVE  p.version = Readable
    BY DEF FrameSettles
  <2>1. p # Blank /\ (p = answers.picture \/ \E r \in Requests : p = req[r].picture)
    BY DEF Shown
  <2>2. CASE p = answers.picture
    BY <2>1, <2>2, Ages DEF FrameInv, FrameOfAnswer
  <2>3. ASSUME NEW r \in Requests, p = req[r].picture PROVE p.version = Readable
    BY <2>1, <2>3, Ages DEF FrameInv, FrameOfRequest
  <2> QED  BY <2>1, <2>2, <2>3
<1> QED  BY <1>1, FrameInit, FrameNext, ServerHolds, PTL DEF Spec

-----------------------------------------------------------------------------
(* The newest scan *)

\* Two minutes after the last change the provider knows what there is.
LEMMA KnownRight ==
  ASSUME ServerInv, ProviderFresh, NEW s \in Stations, Known(s), ~(settled <= 1)
  PROVE  (IF s \in activeStations THEN scanCache[s].volume ELSE 0) = scan[s]
<1>1. activeStations = active /\ settled \in Nat
  BY Ages DEF ProviderFresh
<1>2. scanCache[s].age \in 0..1 /\ missCache[s] \in 0..2
  BY DEF ServerInv, TypeOK, Absent
<1>3. CASE s \notin activeStations
  BY <1>1, <1>3 DEF ProviderFresh
<1>4. CASE s \in activeStations /\ Cached(s)
  BY <1>1, <1>2, <1>4 DEF ProviderFresh
<1>5. CASE s \in activeStations /\ ~Cached(s)
  <2>1. Missing(s)
    BY <1>5 DEF Known
  <2>2. missCache[s] \in 0..1
    BY <1>2, <2>1 DEF Missing, Absent
  <2>3. scan[s] = 0
    BY <1>1, <2>1, <2>2 DEF ProviderFresh
  <2> QED  BY <1>5, <2>3 DEF Cached
<1> QED  BY <1>3, <1>4, <1>5

LEMMA RememberFresh ==
  ASSUME ServerInv, ProviderFresh, NEW s \in Stations, RememberScan(s, scan[s]),
         UNCHANGED <<scan, active, settled, activeStations, refreshed>>
  PROVE  ProviderFresh'
<1> DEFINE e == [volume |-> scan[s], age |-> 0]
<1>1. /\ scanCache \in [Stations -> [volume : Volumes, age : 0..1]]
      /\ missCache \in [Stations -> 0..Absent]
  BY DEF ServerInv, TypeOK
<1>2. e.volume = scan[s]
  OBVIOUS
<1>3. \/ scanCache' = scanCache
      \/ scanCache' = [scanCache EXCEPT ![s] = e]
  BY DEF RememberScan
<1>4. \/ missCache' = missCache
      \/ missCache' = [missCache EXCEPT ![s] = 0] /\ scan[s] = 0
  BY DEF RememberScan
<1> HIDE DEF e
<1>5. ASSUME NEW x \in Stations
      PROVE  /\ scanCache'[x] = scanCache[x] \/ scanCache'[x].volume = scan[x]
             /\ missCache'[x] = missCache[x] \/ scan[x] = 0
  BY <1>1, <1>2, <1>3, <1>4
<1> QED  BY <1>5 DEF ProviderFresh, Missing, Cached

\* A request that moves leaves the others as fresh as they are, if the rendered
\* tiles stay or only make more requests fall through.
LEMMA FreshMoves ==
  ASSUME ServerInv, FreshInv, NEW r \in Requests, Moves(r), UNCHANGED <<scan, settled>>,
         ProviderFresh', RequestFresh(r)',
         UNCHANGED tileCache, UNCHANGED answers
  PROVE  FreshInv'
<1>1. FallsThrough' = FallsThrough
  BY DEF FallsThrough, Newest, Dry
<1>2. ASSUME NEW x \in Requests, x # r PROVE RequestFresh(x)'
  <2>1. req'[x] = req[x] /\ RequestFresh(x)
    BY <1>2 DEF Moves, FreshInv
  <2>2. TileKey(x)' = TileKey(x)
    BY <2>1 DEF TileKey, Newest
  <2> QED
    BY <1>1, <2>1, <2>2
       DEF RequestFresh, ScansFresh, ScansRight, DryFresh, Dry, PictureFresh, Newest, FallFresh
<1>3. AnswerFresh'
  BY <1>1 DEF FreshInv, AnswerFresh, Newest
<1> QED  BY <1>2, <1>3 DEF FreshInv

\* Nothing but the provider's caches changes.
LEMMA FreshStays ==
  ASSUME FreshInv, UNCHANGED <<scan, settled, tileCache, req>>, ProviderFresh',
         answers' = answers \/ answers' = NoAnswer
  PROVE  FreshInv'
<1>1. FallsThrough' = FallsThrough
  BY DEF FallsThrough, Newest, Dry
<1>2. ASSUME NEW x \in Requests PROVE RequestFresh(x)'
  <2>1. TileKey(x)' = TileKey(x) /\ RequestFresh(x)
    BY DEF TileKey, Newest, FreshInv
  <2> QED
    BY <1>1, <2>1
       DEF RequestFresh, ScansFresh, ScansRight, DryFresh, Dry, PictureFresh, Newest, FallFresh
<1>3. AnswerFresh'
  <2>1. NoAnswer.picture = Blank /\ Blank.layer = "frame"
    BY DEF NoAnswer, Blank
  <2> QED  BY <1>1, <2>1 DEF FreshInv, AnswerFresh, Newest
<1> QED  BY <1>2, <1>3 DEF FreshInv

\* Changes make everything fresh again: nothing is older than the last one.
LEMMA DataFresh ==
  ASSUME ServerInv, ServerInv', FreshInv, DataStep
  PROVE  FreshInv'
<1>1. /\ settled' = 0
      /\ UNCHANGED <<activeStations, refreshed, scanCache, missCache, tileCache, answers, req>>
  BY DataFacts
<1>2. ProviderFresh'
  <2> DEFINE ActiveGrows ==
               active \subseteq active' /\ \A s \in Stations : scan'[s] # 0 => s \in active'
  <2>1. ActiveGrows
    <3>1. scan \in Drawings
      BY DEF ServerInv, TypeOK
    <3>2. ASSUME NEW s \in Stations, StoreScan(s) PROVE ActiveGrows
      <4>1. PICK v \in Volumes : scan' = [scan EXCEPT ![s] = v]
        BY <3>2 DEF StoreScan
      <4> QED  BY <3>1, <3>2, <4>1 DEF StoreScan, FreshInv, ProviderFresh, Drawings
    <3>3. ASSUME NEW s \in Stations, ExpireScan(s) PROVE ActiveGrows
      BY <3>1, <3>3 DEF ExpireScan, FreshInv, ProviderFresh, Drawings
    <3>4. CASE WriteFrame \/ DeleteFrame \/ CloseHandle
      BY <3>4 DEF WriteFrame, DeleteFrame, CloseHandle, FreshInv, ProviderFresh
    <3> QED  BY <3>2, <3>3, <3>4 DEF DataStep
  <2>2. \A s \in Stations : missCache[s] \in 0..2 /\ scanCache[s].age \in 0..1
    BY DEF ServerInv, TypeOK, Absent
  <2> QED  BY <1>1, <2>1, <2>2 DEF FreshInv, ProviderFresh
<1>3. \A r \in Requests : req'[r].age \in 0..1
  BY Ages, <1>1
<1>4. answers'.age \in 0..2
  BY Ages, <1>1
<1>5. ASSUME NEW r \in Requests PROVE RequestFresh(r)'
  BY <1>1, <1>3 DEF RequestFresh, ScansFresh, DryFresh, PictureFresh, FallFresh
<1> QED  BY <1>1, <1>2, <1>4, <1>5 DEF FreshInv, AnswerFresh

LEMMA MinuteFresh ==
  ASSUME ServerInv, FreshInv, Minute
  PROVE  FreshInv'
<1>1. /\ settled \in Nat /\ settled' \in Nat /\ settled' <= settled + 1
      /\ UNCHANGED <<scan, active, activeStations, tileCache>>
      /\ refreshed /\ refreshed' = (activeStations = active)
  BY Ages, MinuteAges DEF Minute, dataVars
<1>2. ProviderFresh'
  <2>1. activeStations # active => settled = 0
    BY <1>1 DEF FreshInv, ProviderFresh
  <2>2. ASSUME NEW s \in Stations
        PROVE  /\ Missing(s)' /\ scan[s] # 0 => settled' <= missCache'[s]
               /\ Cached(s)' /\ scanCache'[s].volume # scan[s] => settled' <= scanCache'[s].age
    <3>1. missCache[s] \in 0..2 /\ scanCache[s] \in [volume : Volumes, age : 0..1]
      BY DEF ServerInv, TypeOK, Absent
    <3>2. missCache'[s] = Min({missCache[s] + 1, 2})
      BY DEF Minute, AgedMiss, Absent
    <3>3. missCache'[s] # 2 => missCache'[s] = missCache[s] + 1 /\ missCache[s] # 2
      <4>1. missCache[s] + 1 \in Int /\ 2 \in Int
        BY <3>1
      <4>2. /\ Min({missCache[s] + 1, 2}) \in {missCache[s] + 1, 2}
            /\ Min({missCache[s] + 1, 2}) <= missCache[s] + 1
            /\ Min({missCache[s] + 1, 2}) <= 2
        BY <4>1, MinOfTwo
      <4> QED  BY <3>1, <3>2, <4>2
    <3>4. scanCache'[s] = AgedScan(s)
      BY DEF Minute
    <3>5. scanCache'[s].volume # 0 =>
            /\ scanCache[s].volume # 0 /\ scanCache[s].age = 0
            /\ scanCache'[s].volume = scanCache[s].volume /\ scanCache'[s].age = 1
      BY <3>1, <3>4 DEF AgedScan, NoScan, Cached
    <3>6. /\ missCache[s] # 2 /\ scan[s] # 0 => settled <= missCache[s]
          /\ scanCache[s].volume # 0 /\ scanCache[s].volume # scan[s] =>
               settled <= scanCache[s].age
      BY DEF FreshInv, ProviderFresh, Missing, Cached, Absent
    <3> QED  BY <1>1, <3>1, <3>3, <3>5, <3>6 DEF Missing, Cached, Absent
  <2>3. activeStations' # active' => settled' <= 1 /\ (refreshed' => settled' = 0)
    <3>1. CASE activeStations = active
      BY <1>1, <3>1
    <3>2. CASE activeStations # active
      <4>1. ~refreshed' /\ settled = 0
        BY <1>1, <2>1, <3>2
      <4> QED  BY <1>1, <4>1
    <3> QED  BY <3>1, <3>2
  <2>4. /\ activeStations' \subseteq active'
        /\ \A s \in Stations : scan'[s] # 0 => s \in active'
    BY <1>1 DEF FreshInv, ProviderFresh
  <2> QED  BY <1>1, <2>2, <2>3, <2>4 DEF ProviderFresh
<1>3. FallsThrough' = FallsThrough
  BY <1>1 DEF FallsThrough, Newest, Dry
<1>4. ASSUME NEW r \in Requests PROVE RequestFresh(r)'
  <2>1. /\ req'[r].step = req[r].step /\ req'[r].layer = req[r].layer
        /\ req'[r].todo = req[r].todo /\ req'[r].scans = req[r].scans
        /\ req'[r].picture = req[r].picture /\ req[r].age = 0
    BY MinuteFacts
  <2>2. CASE req[r] = Idle
    <3>1. req'[r].step = "idle" /\ req'[r].picture = Blank /\ Blank.layer = "frame"
      BY <2>1, <2>2 DEF Idle, Blank
    <3> QED  BY <3>1 DEF RequestFresh, ScansFresh, DryFresh, PictureFresh, FallFresh
  <2>3. CASE req[r] # Idle
    <3>1. req'[r].age = 1
      BY <2>3, MinuteFacts
    <3>2. TileKey(r)' = TileKey(r)
      BY <2>1 DEF TileKey, Newest
    <3>3. RequestFresh(r)
      BY DEF FreshInv
    <3>4. ScansFresh(r)'
      BY <1>1, <2>1, <3>1, <3>3 DEF RequestFresh, ScansFresh, ScansRight
    <3>5. DryFresh(r)'
      BY <1>1, <2>1, <3>1, <3>2, <3>3 DEF RequestFresh, DryFresh, Dry
    <3>6. PictureFresh(r)'
      BY <1>1, <2>1, <3>1, <3>3 DEF RequestFresh, PictureFresh, Newest
    <3>7. FallFresh(r)'
      BY <1>1, <1>3, <2>1, <3>1, <3>3 DEF RequestFresh, FallFresh
    <3> QED  BY <3>4, <3>5, <3>6, <3>7 DEF RequestFresh
  <2> QED  BY <2>2, <2>3
<1>5. AnswerFresh'
  <2>1. NoAnswer.picture = Blank /\ Blank.layer = "frame"
    BY DEF NoAnswer, Blank
  <2>2. AnswerFresh /\ answers.age \in 0..2
    BY Ages DEF FreshInv
  <2>3. CASE answers' = NoAnswer
    BY <2>1, <2>3 DEF AnswerFresh
  <2>4. CASE answers'.picture = answers.picture /\ answers'.age = answers.age + 1
    <3>1. Newest(scan)' = Newest(scan) /\ Newest(answers.picture.drawing)' = Newest(answers.picture.drawing)
      BY <1>1, <2>4 DEF Newest
    <3>2. /\ settled <= 2 + answers.age => settled' <= 2 + answers'.age
          /\ settled <= 4 + answers.age => settled' <= 4 + answers'.age
      BY <1>1, <2>2, <2>4
    <3> QED  BY <1>3, <2>2, <2>4, <3>1, <3>2 DEF AnswerFresh
  <2> QED  BY <2>3, <2>4, MinuteAges
<1> QED  BY <1>2, <1>4, <1>5 DEF FreshInv

LEMMA BlankFacts ==
  /\ Blank.layer = "frame" /\ Idle.step = "idle" /\ Idle.picture = Blank
  /\ NoAnswer.picture = Blank
BY DEF Blank, Idle, NoAnswer

LEMMA AskFresh ==
  ASSUME ServerInv, FreshInv, NEW r \in Requests, NEW l \in Layers, Ask(r, l)
  PROVE  FreshInv'
<1>1. /\ Moves(r) /\ req'[r].step = "scans" /\ req'[r].todo = Stations
      /\ req'[r].picture = Blank
  BY AskFacts
<1>2. RequestFresh(r)'
  BY <1>1, BlankFacts
     DEF RequestFresh, ScansFresh, ScansRight, DryFresh, PictureFresh, FallFresh
<1>3. ProviderFresh'
  BY DEF Ask, cacheVars, dataVars, FreshInv, ProviderFresh, Missing, Cached
<1> QED  BY <1>1, <1>2, <1>3, FreshMoves DEF Ask, cacheVars, dataVars

\* The scans taken stay right when a right one is added.
LEMMA TakesRight ==
  ASSUME ServerInv, NEW r \in Requests, NEW s \in Stations, ScansRight(r), UNCHANGED scan,
         req'[r].todo = req[r].todo \ {s},
         req'[r].scans = [req[r].scans EXCEPT ![s] = scan[s]]
  PROVE  ScansRight(r)'
<1>1. req[r].scans \in Drawings
  BY DEF ServerInv, TypeOK
<1>2. ASSUME NEW x \in Stations, x \notin req'[r].todo PROVE req'[r].scans[x] = scan[x]
  <2>1. CASE x = s
    BY <1>1, <2>1 DEF Drawings
  <2>2. CASE x # s
    BY <1>1, <1>2, <2>2 DEF Drawings, ScansRight
  <2> QED  BY <2>1, <2>2
<1> QED  BY <1>2 DEF ScansRight

LEMMA LookUpFresh ==
  ASSUME ServerInv, FreshInv, NEW r \in Requests, LookUp(r)
  PROVE  FreshInv'
<1> DEFINE s == Turn(r)
           v == IF s \in activeStations THEN scanCache[s].volume ELSE 0
<1>1. /\ UNCHANGED <<scan, settled, tileCache, answers>>
      /\ ProviderFresh'
  BY DEF LookUp, cacheVars, dataVars, FreshInv, ProviderFresh, Missing, Cached
<1>2. /\ Moves(r) /\ s \in Stations
      /\ req'[r].picture = req[r].picture /\ req'[r].age = req[r].age
      /\ req'[r].step \in {"scans", "read"}
  BY LookUpFacts
<1>3. req[r].step = "scans" /\ RequestFresh(r) /\ req[r].picture = Blank
  BY DEF LookUp, FreshInv, ServerInv, Sound
<1>4. ScansRight(r)' \/ settled' <= 1 + req'[r].age
  <2>1. CASE settled <= 1 + req[r].age
    BY <1>1, <1>2, <2>1
  <2>2. CASE ~(settled <= 1 + req[r].age)
    <3>1. ScansRight(r) /\ ~(settled <= 1)
      BY <1>3, <2>2, Ages DEF RequestFresh, ScansFresh
    <3>2. CASE /\ Known(s) /\ req'[r].todo = req[r].todo \ {s}
               /\ req'[r].scans = [req[r].scans EXCEPT ![s] = v]
      <4>1. v = scan[s]
        BY <1>2, <3>1, <3>2, KnownRight DEF FreshInv
      <4> HIDE DEF s, v
      <4>2. req'[r].scans = [req[r].scans EXCEPT ![s] = scan[s]]
        BY <3>2, <4>1
      <4> QED  BY <1>1, <1>2, <3>1, <3>2, <4>2, TakesRight
    <3>3. CASE req'[r].todo = req[r].todo /\ req'[r].scans = req[r].scans
      BY <1>1, <3>1, <3>3 DEF ScansRight
    <3> QED  BY <3>2, <3>3, LookUpFacts
  <2> QED  BY <2>1, <2>2
<1> HIDE DEF s, v
<1>5. RequestFresh(r)'
  BY <1>2, <1>3, <1>4, BlankFacts DEF RequestFresh, ScansFresh, DryFresh, PictureFresh, FallFresh
<1> QED  BY <1>1, <1>2, <1>5, FreshMoves

LEMMA ReadScanFresh ==
  ASSUME ServerInv, FreshInv, NEW r \in Requests, ReadScan(r)
  PROVE  FreshInv'
<1>1. UNCHANGED <<scan, active, settled, activeStations, refreshed, tileCache, answers>>
  BY DEF ReadScan, dataVars
<1>2. PICK s \in Stations :
        /\ RememberScan(s, scan[s]) /\ Moves(r)
        /\ req'[r].step = "scans" /\ req'[r].todo = req[r].todo \ {s}
        /\ req'[r].scans = [req[r].scans EXCEPT ![s] = scan[s]]
        /\ req'[r].picture = req[r].picture /\ req'[r].age = req[r].age
  BY ReadScanFacts
<1>3. ProviderFresh'
  BY <1>1, <1>2, RememberFresh DEF FreshInv
<1>4. req[r].step = "read" /\ RequestFresh(r) /\ req[r].picture = Blank
  BY DEF ReadScan, FreshInv, ServerInv, Sound
<1>5. ScansRight(r)' \/ settled' <= 1 + req'[r].age
  BY <1>1, <1>2, <1>4, TakesRight DEF RequestFresh, ScansFresh
<1>6. RequestFresh(r)'
  BY <1>2, <1>4, <1>5, BlankFacts DEF RequestFresh, ScansFresh, DryFresh, PictureFresh, FallFresh
<1> QED  BY <1>1, <1>2, <1>3, <1>6, FreshMoves

LEMMA ReadFrameFresh ==
  ASSUME ServerInv, FreshInv, NEW r \in Requests, ReadFrame(r)
  PROVE  FreshInv'
<1>1. /\ UNCHANGED <<scan, settled, tileCache, answers>>
      /\ ProviderFresh'
  BY DEF ReadFrame, dataVars, FreshInv, ProviderFresh, Missing, Cached
<1>2. FallsThrough' = FallsThrough
  BY <1>1 DEF FallsThrough, Newest, Dry
<1>3. req[r].step = "frame" /\ RequestFresh(r)
  BY DEF ReadFrame, FreshInv
<1>4. Moves(r)
  BY ReadFrameFacts
<1>5. CASE req'[r] = Idle
  <2>1. RequestFresh(r)'
    BY <1>5, BlankFacts DEF RequestFresh, ScansFresh, DryFresh, PictureFresh, FallFresh
  <2> QED  BY <1>1, <1>4, <2>1, FreshMoves
<1>6. CASE /\ req'[r].step = "colorize" /\ req'[r].age = req[r].age
           /\ req'[r].picture = [Blank EXCEPT !.version = Readable]
  <2>1. req'[r].picture.layer = "frame"
    BY <1>6 DEF Blank
  <2>2. FallsThrough' \/ settled' <= 3 + req'[r].age
    BY <1>1, <1>2, <1>3, <1>6 DEF RequestFresh, FallFresh
  <2>3. RequestFresh(r)'
    BY <1>6, <2>1, <2>2 DEF RequestFresh, ScansFresh, DryFresh, PictureFresh, FallFresh
  <2> QED  BY <1>1, <1>4, <2>3, FreshMoves
<1> QED  BY <1>5, <1>6, ReadFrameFacts

LEMMA ColorizeFresh ==
  ASSUME ServerInv, FreshInv, NEW r \in Requests, Colorize(r)
  PROVE  FreshInv'
<1>1. /\ UNCHANGED <<scan, settled, tileCache>>
      /\ ProviderFresh'
  BY DEF Colorize, cacheVars, dataVars, FreshInv, ProviderFresh, Missing, Cached
<1>2. FallsThrough' = FallsThrough
  BY <1>1 DEF FallsThrough, Newest, Dry
<1>3. Moves(r) /\ req'[r] = Idle
  BY ColorizeFacts
<1>4. answers'.picture = req[r].picture /\ answers'.age = 0
  BY DEF Colorize
<1>5. ASSUME NEW x \in Requests PROVE RequestFresh(x)'
  <2>1. CASE x = r
    BY <1>3, <2>1, BlankFacts DEF RequestFresh, ScansFresh, DryFresh, PictureFresh, FallFresh
  <2>2. CASE x # r
    <3>1. req'[x] = req[x] /\ RequestFresh(x)
      BY <1>3, <2>2 DEF Moves, FreshInv
    <3>2. TileKey(x)' = TileKey(x)
      BY <3>1 DEF TileKey, Newest
    <3> QED
      BY <1>1, <1>2, <3>1, <3>2
         DEF RequestFresh, ScansFresh, ScansRight, DryFresh, Dry, PictureFresh, Newest, FallFresh
  <2> QED  BY <2>1, <2>2
<1>6. AnswerFresh'
  <2>1. RequestFresh(r) /\ req[r].age \in 0..1 /\ settled \in Nat
    BY Ages DEF FreshInv
  <2>2. /\ settled <= 1 + req[r].age => settled <= 2 + 0
        /\ settled <= 3 + req[r].age => settled <= 4 + 0
    BY <2>1
  <2> QED  BY <1>1, <1>2, <1>4, <2>1, <2>2 DEF RequestFresh, PictureFresh, FallFresh, AnswerFresh, Newest
<1> QED  BY <1>1, <1>5, <1>6 DEF FreshInv

\* As FreshMoves, when the request puts a tile into the cache.
LEMMA FreshKept ==
  ASSUME ServerInv, FreshInv, NEW r \in Requests, Moves(r), UNCHANGED <<scan, settled, answers>>,
         ProviderFresh', RequestFresh(r)',
         FallsThrough => FallsThrough' \/ settled <= 3,
         \A x \in Requests \ {r} : DryFresh(x)'
  PROVE  FreshInv'
<1>1. ASSUME NEW x \in Requests, x # r PROVE RequestFresh(x)'
  <2>1. req'[x] = req[x] /\ RequestFresh(x)
    BY <1>1 DEF Moves, FreshInv
  <2>2. req[x].age \in 0..1 /\ settled \in Nat
    BY Ages
  <2>3. settled <= 3 => settled <= 3 + req[x].age
    BY <2>2
  <2> QED
    BY <1>1, <2>1, <2>3
       DEF RequestFresh, ScansFresh, ScansRight, PictureFresh, Newest, FallFresh
<1>2. AnswerFresh'
  <2>1. answers.age \in 0..2 /\ settled \in Nat /\ AnswerFresh
    BY Ages DEF FreshInv
  <2>2. settled <= 3 => settled <= 4 + answers.age
    BY <2>1
  <2> QED  BY <2>1, <2>2 DEF AnswerFresh, Newest
<1> QED  BY <1>1, <1>2 DEF FreshInv

LEMMA RightScans ==
  ASSUME ServerInv, NEW r \in Requests, req[r].todo = {}, ScansRight(r)
  PROVE  req[r].scans = scan
<1>1. req[r].scans \in Drawings /\ scan \in Drawings
  BY DEF ServerInv, TypeOK
<1>2. \A s \in Stations : req[r].scans[s] = scan[s]
  BY DEF ScansRight
<1> QED  BY <1>1, <1>2 DEF Drawings

LEMMA TakesKeptFresh ==
  ASSUME ServerInv, FreshInv, NEW r \in Requests, req[r].step = "scans", req[r].todo = {},
         TakesKept(r), UNCHANGED <<scan, settled>>
  PROVE  RequestFresh(r)'
<1> DEFINE tile == tileCache[TileKey(r)]
           l == req[r].layer
           n == Newest(req[r].scans)
<1>1. /\ tile \in Pictures /\ tile # Blank /\ TakeTile(r, tile) /\ UNCHANGED tileCache
      /\ l \in Layers /\ n \in Volumes \ {0} /\ tile = tileCache[<<l, n>>]
  BY KeyFacts DEF TakesKept
<1>2. tile.layer = l /\ Newest(tile.drawing) = n
  BY <1>1 DEF ServerInv, Keyed
<1>3. n = Newest(scan) \/ settled <= 1 + req[r].age
  <2>1. ScansFresh(r)
    BY DEF FreshInv, RequestFresh
  <2> QED  BY <2>1, RightScans DEF ScansFresh
<1> HIDE DEF tile, n
<1>4. CASE Dry(tile)
  <2>1. /\ req'[r].step = "frame" /\ req'[r].picture = Blank /\ req'[r].age = req[r].age
    BY <1>1, <1>4, TakeTileFacts
  <2>2. n = Newest(scan) => FallsThrough'
    <3>1. n = Newest(scan) => FallsThrough
      BY <1>1, <1>4 DEF FallsThrough
    <3> QED  BY <1>1, <3>1 DEF FallsThrough, Newest, Dry
  <2>3. settled <= 1 + req[r].age => settled' <= 3 + req'[r].age
    BY <2>1, Ages
  <2> QED
    BY <1>3, <2>1, <2>2, <2>3, BlankFacts
       DEF RequestFresh, ScansFresh, DryFresh, PictureFresh, FallFresh
<1>5. CASE ~Dry(tile)
  <2>1. req'[r].step = "colorize" /\ req'[r].age = req[r].age /\ req'[r].picture = tile
    BY <1>1, <1>5, TakeTileFacts
  <2>2. l # "frame"
    BY <1>1, ServerAssumption
  <2>3. Newest(req'[r].picture.drawing) = Newest(scan) \/ settled' <= 1 + req'[r].age
    BY <1>2, <1>3, <2>1
  <2>4. PictureFresh(r)'
    BY <2>3 DEF PictureFresh, Newest
  <2> QED
    BY <1>2, <2>1, <2>2, <2>4 DEF RequestFresh, ScansFresh, DryFresh, FallFresh
<1> QED  BY <1>4, <1>5

LEMMA FindsDryFresh ==
  ASSUME ServerInv, FreshInv, NEW r \in Requests, req[r].step = "scans", req[r].todo = {},
         FindsDry(r), Moves(r), req'[r].age = req[r].age, UNCHANGED <<scan, settled>>
  PROVE  /\ RequestFresh(r)'
         /\ FallsThrough => FallsThrough'
         /\ \A x \in Requests \ {r} : DryFresh(x)'
<1> DEFINE d == req[r].scans
           l == req[r].layer
           n == Newest(d)
           tile == Own(r)
<1>1. /\ d \in Drawings /\ d # Nothing /\ tile = Rendered(l, d) /\ Dry(tile)
      /\ l \in Layers /\ n \in Volumes \ {0} /\ TileKey(r) = <<l, n>>
      /\ tileCache[<<l, n>>] = Blank
      /\ tileCache' = [tileCache EXCEPT ![<<l, n>>] = tile]
  BY KeyFacts DEF FindsDry, Own
<1>2. tileCache \in [Layers \X (Volumes \ {0}) -> Pictures] /\ scan \in Drawings
  BY DEF ServerInv, TypeOK
<1>3. d = scan \/ settled <= 1 + req[r].age
  <2>1. ScansFresh(r)
    BY DEF FreshInv, RequestFresh
  <2> QED  BY <2>1, RightScans DEF ScansFresh
<1>4. req'[r].step = "frame" /\ req'[r].picture = Blank
  BY DEF FindsDry
<1>5. n = Newest(d)
  OBVIOUS
<1> HIDE DEF d, l, n, tile
<1>6. tile # Blank /\ tileCache'[<<l, n>>] = tile
  BY <1>1, <1>2, RenderedFacts
<1>7. Newest(scan)' = Newest(scan) /\ \A e : Dry(e)' = Dry(e)
  BY DEF Newest, Dry
<1>8. d = scan => FallsThrough'
  BY <1>1, <1>5, <1>6, <1>7 DEF FallsThrough
<1>9. RequestFresh(r)'
  <2>1. settled <= 1 + req[r].age => settled' <= 3 + req'[r].age
    BY Ages
  <2> QED
    BY <1>3, <1>4, <1>8, <2>1, BlankFacts
       DEF RequestFresh, ScansFresh, DryFresh, PictureFresh, FallFresh
<1>10. ASSUME FallsThrough PROVE FallsThrough'
  <2>1. CASE Newest(scan) = 0
    BY <1>7, <2>1 DEF FallsThrough
  <2>2. CASE Newest(scan) # 0
    <3>1. PICK m \in Layers : /\ tileCache[<<m, Newest(scan)>>] # Blank
                              /\ Dry(tileCache[<<m, Newest(scan)>>])
      BY <1>10, <2>2 DEF FallsThrough
    <3>2. Newest(scan) \in Volumes \ {0}
      BY <1>2, <2>2, NewestFacts
    <3>3. tileCache'[<<m, Newest(scan)>>] = tileCache[<<m, Newest(scan)>>]
      BY <1>1, <1>2, <3>1, <3>2
    <3> QED  BY <1>7, <3>1, <3>3 DEF FallsThrough
  <2> QED  BY <2>1, <2>2
<1>11. ASSUME NEW x \in Requests \ {r} PROVE DryFresh(x)'
  <2>1. req'[x] = req[x] /\ RequestFresh(x)
    BY DEF Moves, FreshInv
  <2>2. TileKey(x)' = TileKey(x)
    BY <2>1 DEF TileKey, Newest
  <2> SUFFICES ASSUME req[x].step = "encode", tileCache'[TileKey(x)] # Blank,
                      Dry(tileCache'[TileKey(x)])
               PROVE  settled <= 2 + req[x].age
    BY <2>1, <2>2, <1>7 DEF DryFresh
  <2>3. /\ req[x].todo = {} /\ req[x].scans # Nothing /\ ~Dry(Own(x))
        /\ req[x].age \in 0..1 /\ req[r].age \in 0..1 /\ settled \in Nat
    BY Ages DEF ServerInv, Sound
  <2>4. TileKey(x) \in Layers \X (Volumes \ {0}) /\ TileKey(x)[1] = req[x].layer
    BY <2>3, KeyFacts
  <2>5. CASE TileKey(x) = <<l, n>>
    <3>1. req[x].scans = scan \/ settled <= 1 + req[x].age
      BY <2>1, <2>3, RightScans DEF RequestFresh, ScansFresh
    <3>2. req[x].scans = scan => settled <= 1 + req[r].age
      <4>1. Own(x) = Rendered(l, req[x].scans)
        BY <2>4, <2>5 DEF Own
      <4> QED  BY <1>1, <1>3, <2>3, <4>1
    <3> QED  BY <2>3, <3>1, <3>2
  <2>6. CASE TileKey(x) # <<l, n>>
    <3>1. tileCache'[TileKey(x)] = tileCache[TileKey(x)]
      BY <1>1, <1>2, <2>4, <2>6
    <3> QED  BY <2>1, <3>1 DEF RequestFresh, DryFresh
  <2> QED  BY <2>5, <2>6
<1> QED  BY <1>9, <1>10, <1>11

LEMMA RenderFresh ==
  ASSUME ServerInv, FreshInv, NEW r \in Requests, RenderTile(r)
  PROVE  FreshInv'
<1>1. /\ UNCHANGED <<scan, settled, answers>>
      /\ ProviderFresh'
  BY DEF RenderTile, dataVars, FreshInv, ProviderFresh, Missing, Cached
<1>2. /\ req[r].step = "scans" /\ req[r].todo = {} /\ Moves(r)
      /\ req'[r].age = req[r].age /\ req'[r].layer = req[r].layer
      /\ req'[r].todo = req[r].todo
  BY RenderFacts
<1>3. RequestFresh(r) /\ (req[r].scans = scan \/ settled <= 1 + req[r].age)
  BY <1>2, RightScans DEF FreshInv, RequestFresh, ScansFresh
<1>4. CASE NoScans(r)
  <2>1. req[r].scans = scan => FallsThrough'
    <3>1. req[r].scans = scan => Newest(scan) = 0
      <4>1. scan \in Drawings
        BY DEF ServerInv, TypeOK
      <4> QED  BY <1>4, <4>1, NewestFacts DEF NoScans
    <3> QED  BY <1>1, <3>1 DEF FallsThrough, Newest
  <2>2. settled <= 1 + req[r].age => settled' <= 3 + req'[r].age
    BY <1>1, <1>2, Ages
  <2>3. RequestFresh(r)'
    BY <1>3, <1>4, <2>1, <2>2, BlankFacts
       DEF NoScans, RequestFresh, ScansFresh, DryFresh, PictureFresh, FallFresh
  <2> QED  BY <1>1, <1>2, <1>4, <2>3, FreshMoves DEF NoScans
<1>5. CASE TakesKept(r)
  BY <1>1, <1>2, <1>5, TakesKeptFresh, FreshMoves DEF TakesKept
<1>6. CASE FindsDry(r)
  BY <1>1, <1>2, <1>6, FindsDryFresh, FreshKept
<1>7. CASE ToEncode(r)
  <2>1. /\ req'[r].step = "encode" /\ req'[r].scans = req[r].scans /\ req'[r].picture = Blank
        /\ tileCache' = tileCache /\ tileCache[TileKey(r)] = Blank
    BY <1>7 DEF ToEncode
  <2>2. TileKey(r)' = TileKey(r)
    BY <1>2, <2>1 DEF TileKey, Newest
  <2>3. ScansFresh(r)'
    BY <1>1, <1>2, <1>3, <2>1 DEF RequestFresh, ScansFresh, ScansRight
  <2>4. RequestFresh(r)'
    BY <2>1, <2>2, <2>3, BlankFacts DEF RequestFresh, DryFresh, PictureFresh, FallFresh
  <2> QED  BY <1>1, <1>2, <2>1, <2>4, FreshMoves
<1> QED  BY <1>4, <1>5, <1>6, <1>7, RenderFacts

LEMMA EncodeFresh ==
  ASSUME ServerInv, FreshInv, NEW r \in Requests, EncodeTile(r)
  PROVE  FreshInv'
<1> DEFINE d == req[r].scans
           l == req[r].layer
           n == Newest(d)
           tile == Own(r)
<1>1. /\ UNCHANGED <<scan, settled, answers>>
      /\ ProviderFresh'
  BY DEF EncodeTile, dataVars, FreshInv, ProviderFresh, Missing, Cached
<1>2. /\ req[r].step = "encode" /\ req[r].todo = {} /\ d # Nothing /\ ~Dry(tile)
      /\ Moves(r) /\ req'[r].age = req[r].age /\ req'[r].step = "colorize"
      /\ req'[r].picture = tile
      /\ tileCache' = [tileCache EXCEPT ![TileKey(r)] = tile]
  BY EncodeFacts
<1>3. /\ d \in Drawings /\ l \in Layers /\ n \in Volumes \ {0}
      /\ TileKey(r) = <<l, n>> /\ tile = Rendered(l, d)
  BY <1>2, KeyFacts DEF Own
<1>4. tileCache \in [Layers \X (Volumes \ {0}) -> Pictures] /\ scan \in Drawings
  BY DEF ServerInv, TypeOK
<1>5. RequestFresh(r) /\ req[r].age \in 0..1 /\ settled \in Nat
  BY Ages DEF FreshInv
<1>6. d = scan \/ settled <= 1 + req[r].age
  BY <1>2, <1>5, RightScans DEF RequestFresh, ScansFresh
<1>7. n = Newest(d)
  OBVIOUS
<1> HIDE DEF d, l, n, tile
<1>8. \A e : Dry(e)' = Dry(e) /\ Newest(scan)' = Newest(scan) /\ Newest(d) = n
  BY <1>1, <1>7 DEF Newest, Dry
<1>9. req'[r].picture.layer = l /\ req'[r].picture.drawing = d /\ l # "frame"
  BY <1>2, <1>3, RenderedFacts, ServerAssumption
<1>10. RequestFresh(r)'
  <2>1. Newest(req'[r].picture.drawing) = Newest(scan) \/ settled' <= 1 + req'[r].age
    BY <1>1, <1>2, <1>6, <1>9
  <2>2. PictureFresh(r)'
    BY <1>1, <2>1 DEF PictureFresh, Newest
  <2> QED  BY <1>2, <1>9, <2>2 DEF RequestFresh, ScansFresh, DryFresh, FallFresh
<1>11. ASSUME FallsThrough PROVE FallsThrough' \/ settled <= 3
  <2>1. CASE Newest(scan) = 0
    BY <1>1, <2>1 DEF FallsThrough, Newest
  <2>2. CASE Newest(scan) # 0
    <3>1. PICK m \in Layers : /\ tileCache[<<m, Newest(scan)>>] # Blank
                              /\ Dry(tileCache[<<m, Newest(scan)>>])
      BY <1>11, <2>2 DEF FallsThrough
    <3>2. Newest(scan) \in Volumes \ {0}
      BY <1>4, <2>2, NewestFacts
    <3>3. CASE <<m, Newest(scan)>> = <<l, n>>
      <4>1. settled <= 2 + req[r].age
        BY <1>2, <1>3, <1>5, <3>1, <3>3 DEF RequestFresh, DryFresh
      <4> QED  BY <1>5, <4>1
    <3>4. CASE <<m, Newest(scan)>> # <<l, n>>
      <4>1. tileCache'[<<m, Newest(scan)>>] = tileCache[<<m, Newest(scan)>>]
        BY <1>2, <1>3, <1>4, <3>1, <3>2, <3>4
      <4> QED  BY <1>8, <3>1, <4>1 DEF FallsThrough
    <3> QED  BY <3>3, <3>4
  <2> QED  BY <2>1, <2>2
<1>12. ASSUME NEW x \in Requests \ {r} PROVE DryFresh(x)'
  <2>1. req'[x] = req[x] /\ RequestFresh(x)
    BY <1>2 DEF Moves, FreshInv
  <2>2. TileKey(x)' = TileKey(x)
    BY <2>1 DEF TileKey, Newest
  <2> SUFFICES ASSUME req[x].step = "encode", tileCache'[TileKey(x)] # Blank,
                      Dry(tileCache'[TileKey(x)])
               PROVE  settled <= 2 + req[x].age
    BY <1>1, <1>8, <2>1, <2>2 DEF DryFresh
  <2>3. TileKey(x) \in Layers \X (Volumes \ {0})
    <3>1. req[x].scans # Nothing
      BY DEF ServerInv, Sound
    <3> QED  BY <3>1, KeyFacts
  <2>4. TileKey(x) # <<l, n>>
    BY <1>2, <1>3, <1>4
  <2>5. tileCache'[TileKey(x)] = tileCache[TileKey(x)]
    BY <1>2, <1>3, <1>4, <2>3, <2>4
  <2> QED  BY <2>1, <2>5 DEF RequestFresh, DryFresh
<1> QED  BY <1>1, <1>2, <1>10, <1>11, <1>12, FreshKept

LEMMA FreshNext == ServerInv /\ ServerInv' /\ FreshInv /\ [Next]_vars => FreshInv'
<1> SUFFICES ASSUME ServerInv, ServerInv', FreshInv, [Next]_vars PROVE FreshInv'
  OBVIOUS
<1>1. CASE RefreshActive
  <2>1. ProviderFresh'
    BY <1>1 DEF RefreshActive, dataVars, FreshInv, ProviderFresh, Missing, Cached
  <2> QED  BY <1>1, <2>1, FreshStays DEF RefreshActive, dataVars
<1>2. ASSUME NEW s \in Stations, OtherTile(s) PROVE FreshInv'
  <2>1. ProviderFresh'
    BY <1>2, RememberFresh DEF OtherTile, dataVars, FreshInv
  <2> QED  BY <1>2, <2>1, FreshStays DEF OtherTile, dataVars
<1>3. CASE Lapse
  <2>1. UNCHANGED <<scan, active, settled, activeStations, refreshed, tileCache, req>>
    BY <1>3 DEF Lapse, dataVars
  <2>2. ASSUME NEW x \in Stations
        PROVE  /\ scanCache'[x] = scanCache[x] \/ scanCache'[x].volume = 0
               /\ missCache'[x] = missCache[x] \/ missCache'[x] = Absent
    BY <1>3 DEF Lapse, NoScan, ServerInv, TypeOK
  <2>3. ProviderFresh'
    BY <2>1, <2>2 DEF FreshInv, ProviderFresh, Missing, Cached
  <2> QED  BY <1>3, <2>1, <2>3, FreshStays DEF Lapse
<1>4. ASSUME NEW r \in Requests, RequestStep(r) PROVE FreshInv'
  BY <1>4, AskFresh, LookUpFresh, ReadScanFresh, RenderFresh, EncodeFresh, ReadFrameFresh,
     ColorizeFresh DEF RequestStep
<1>5. CASE UNCHANGED vars
  <2>1. ProviderFresh'
    BY <1>5 DEF vars, dataVars, cacheVars, FreshInv, ProviderFresh, Missing, Cached
  <2> QED  BY <1>5, <2>1, FreshStays DEF vars, dataVars, cacheVars
<1> QED  BY <1>1, <1>2, <1>3, <1>4, <1>5, DataFresh, MinuteFresh DEF Next

LEMMA FreshInit == Init => FreshInv
<1> SUFFICES ASSUME Init PROVE FreshInv
  OBVIOUS
<1>1. ProviderFresh
  BY DEF Init, ProviderFresh, Missing, Cached, Nothing
<1>2. \A r \in Requests : req[r] = Idle
  BY DEF Init
<1>3. AnswerFresh
  BY BlankFacts DEF Init, AnswerFresh
<1> QED
  BY <1>1, <1>2, <1>3, BlankFacts
     DEF FreshInv, RequestFresh, ScansFresh, DryFresh, PictureFresh, FallFresh

\* Seven minutes after the scans last changed, every answer is drawn from the
\* newest scan there is, or from the frame where the drawing for that scan is
\* empty, whatever the four caches held and however many requests overlapped
\* (server/index.ts, NexradScanProvider, server/nexrad-tile.ts).
THEOREM ScansSettleHolds == Settling >= 7 => (Spec => []ScansSettle)
<1> SUFFICES ASSUME Settling >= 7 PROVE Spec => []ScansSettle
  OBVIOUS
<1>1. ServerInv /\ FreshInv => ScansSettle
  <2> SUFFICES ASSUME ServerInv, FreshInv, settled = Settling, NEW p \in Shown
               PROVE  \/ p.layer # "frame" /\ Newest(p.drawing) = Newest(scan)
                      \/ p.layer = "frame" /\ FallsThrough
    BY DEF ScansSettle, FallsThrough
  <2>1. p # Blank /\ (p = answers.picture \/ \E r \in Requests : p = req[r].picture)
    BY DEF Shown
  <2>2. CASE p = answers.picture
    <3>1. ~(settled <= 2 + answers.age) /\ ~(settled <= 4 + answers.age)
      BY Ages
    <3> QED  BY <2>1, <2>2, <3>1 DEF FreshInv, AnswerFresh
  <2>3. ASSUME NEW r \in Requests, p = req[r].picture
        PROVE  \/ p.layer # "frame" /\ Newest(p.drawing) = Newest(scan)
               \/ p.layer = "frame" /\ FallsThrough
    <3>1. ~(settled <= 1 + req[r].age) /\ ~(settled <= 3 + req[r].age)
      BY Ages
    <3> QED  BY <2>1, <2>3, <3>1 DEF FreshInv, RequestFresh, PictureFresh, FallFresh
  <2> QED  BY <2>1, <2>2, <2>3
<1>2. FreshInv /\ ServerInv /\ ServerInv' /\ [Next]_vars => FreshInv'
  BY FreshNext
<1> QED  BY <1>1, <1>2, FreshInit, ServerHolds, PTL DEF Spec
=============================================================================
