----------------------------- MODULE LiveSweeps -----------------------------
(***************************************************************************)
(* Live sweeps: browsers tell the WebSocket handler their viewports, the   *)
(* sweep manager subscribes the poller to the stations in any of them, and *)
(* each chunk that comes back with radials is broadcast as a wedge to the  *)
(* clients that have its station in view.  All of this is one process: a   *)
(* message, a close and the emission of a chunk each run to completion.    *)
(***************************************************************************)
EXTENDS ChunkPoller, Sequences

CONSTANT Clients

VARIABLES
  clients,         \* the connected clients
  view,            \* [Clients -> the stations of a client's viewport]
  viewportStations,\* the sweep manager's union of them
  sweepState,      \* [stations -> [volume, chunks received]]
  received         \* [Clients -> [Stations -> the wedges it got, in order]] since
                   \* the station came into its view

sweepVars == <<clients, view, viewportStations, sweepState, received>>
vars == <<pollerVars, sweepVars>>

SweepTypeOK ==
  /\ clients \in SUBSET Clients
  /\ view \in [Clients -> SUBSET Stations]
  /\ viewportStations \in SUBSET Stations
  /\ DOMAIN sweepState \in SUBSET Stations
  /\ \A s \in DOMAIN sweepState :
       sweepState[s] \in [volume : 1..Volumes, got : SUBSET BaseChunks]
  /\ received \in [Clients -> [Stations -> Seq(Chunks)]]

TypeOK == PollerTypeOK /\ SweepTypeOK

Init ==
  /\ PollerInit
  /\ clients = {}
  /\ view = [c \in Clients |-> {}]
  /\ viewportStations = {}
  /\ sweepState = [s \in {} |-> [volume |-> 1, got |-> {}]]
  /\ received = [c \in Clients |-> [s \in Stations |-> <<>>]]

-----------------------------------------------------------------------------
\* updateSubscriptions and setViewportStations: stations new to the union are
\* subscribed, stations gone from it unsubscribed and their sweeps dropped.
UpdateSubscriptions ==
  LET union == UNION {view'[c] : c \in clients'}
  IN /\ viewportStations' = union
     /\ Resubscribe(union \ viewportStations, viewportStations \ union)
     /\ sweepState' = [s \in (DOMAIN sweepState) \ (viewportStations \ union) |->
                         sweepState[s]]

\* What a client has received of a station is counted from the moment the
\* station came into view.
Recount(c, S) ==
  received' = [received EXCEPT ![c] =
                 [s \in Stations |-> IF s \in S \cap view[c] THEN @[s] ELSE <<>>]]

Connect(c) ==
  /\ c \notin clients
  /\ clients' = clients \cup {c}
  /\ UNCHANGED <<pollerVars, view, viewportStations, sweepState, received>>

\* handleViewport: the stations of the new viewport; none below zoom 8.
Viewport(c, S) ==
  /\ c \in clients
  /\ S # view[c]
  /\ view' = [view EXCEPT ![c] = S]
  /\ UNCHANGED clients
  /\ UpdateSubscriptions
  /\ Recount(c, S)
  /\ UNCHANGED <<feedVars, faults, pollVars>>

\* Mutation: a closed connection leaves the subscriptions alone.
CloseSilently(c) ==
  /\ c \in clients
  /\ clients' = clients \ {c}
  /\ view' = [view EXCEPT ![c] = {}]
  /\ Recount(c, {})
  /\ UNCHANGED <<pollerVars, viewportStations, sweepState>>

Close(c) ==
  /\ c \in clients
  /\ clients' = clients \ {c}
  /\ view' = [view EXCEPT ![c] = {}]
  /\ UpdateSubscriptions
  /\ Recount(c, {})
  /\ UNCHANGED <<feedVars, faults, pollVars>>

\* broadcastWedge.
Broadcast(s, i) ==
  received' = [c \in Clients |->
                 IF c \in clients /\ s \in view[c]
                 THEN [received[c] EXCEPT ![s] = Append(@, i)]
                 ELSE received[c]]

\* handleChunk: a chunk without radials of the base sweep is ignored; another
\* volume than the last one starts a new sweep.
HandleChunk(s, i) ==
  IF Num(i) \notin BaseChunks THEN UNCHANGED sweepVars
  ELSE LET before == IF s \in DOMAIN sweepState /\ sweepState[s].volume = Vol(i)
                     THEN sweepState[s].got ELSE {}
       IN /\ sweepState' = [r \in (DOMAIN sweepState) \cup {s} |->
                              IF r = s
                              THEN [volume |-> Vol(i), got |-> before \cup {Num(i)}]
                              ELSE sweepState[r]]
          /\ Broadcast(s, i)
          /\ UNCHANGED <<clients, view, viewportStations>>

ChunkEmitted(s) == \E i \in pkeys[s] : PollEmit(s, i) /\ HandleChunk(s, i)

ChunkLost(s) == (\E i \in pkeys[s] : PollLost(s, i)) /\ UNCHANGED sweepVars

PollWork(s) ==
  \/ ChunkEmitted(s)
  \/ (PollList(s) \/ PollDone(s)) /\ UNCHANGED sweepVars

LoopWork == (PollCycle \/ PollBatch) /\ UNCHANGED sweepVars

Next ==
  \/ LoopWork
  \/ \E s \in Stations :
       \/ PollWork(s)
       \/ ChunkLost(s)
       \/ (Publish(s) \/ Age(s) \/ PollListFail(s)) /\ UNCHANGED sweepVars
  \/ \E c \in Clients : Connect(c) \/ Close(c) \/ \E S \in SUBSET Stations : Viewport(c, S)

Spec == Init /\ [][Next]_vars

\* The timer of the poll loop fires and every download has a timeout.
FairSpec == Spec /\ WF_vars(LoopWork) /\ \A s \in Stations : WF_vars(PollWork(s))

-----------------------------------------------------------------------------
\* The poller is subscribed to exactly the stations some client has in view,
\* after any history of viewports, zooms and closed connections.
SubscriptionsMatch ==
  /\ viewportStations = UNION {view[c] : c \in clients}
  /\ subscribed = viewportStations
  /\ subscribed \subseteq DOMAIN seenKeys

\* "Mark seen before processing to avoid double-emit on errors": a client gets
\* each wedge of a station in its view once, and in the order of publication:
\* never one of an older volume after one of a newer, although subscriptions
\* change in the middle of a poll.
WedgesInOrder ==
  \A c \in Clients : \A s \in Stations :
    \A m, n \in DOMAIN received[c][s] : m < n => received[c][s][m] < received[c][s][n]

\* A chunk of a live sweep that no poll has yet marked seen reaches a client
\* that keeps its station in view, unless it grows too old or a call fails.
WedgeDelivered ==
  \A c \in Clients : \A s \in Stations : \A i \in Chunks :
    ( /\ c \in clients /\ s \in view[c]
      /\ i <= published[s] /\ Fresh(s, i) /\ Num(i) \in BaseChunks
      /\ i \notin seenKeys[s] \cup pseen[s] )
    ~> \/ \E n \in DOMAIN received[c][s] : received[c][s][n] = i
       \/ s \notin view[c] \/ ~Fresh(s, i) \/ faults > 0

=============================================================================
