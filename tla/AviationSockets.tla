-------------------------- MODULE AviationSockets --------------------------
(***************************************************************************)
(* The sockets of /ws/aviation (src/situation/ws/aviation.ts).  A client   *)
(* subscribes under an id of its own choice; the handler keeps one entry   *)
(* per id and each socket remembers the id it used last.                   *)
(***************************************************************************)
EXTENDS RadarAnalysis

CONSTANTS
  Airports, Sockets, ClientIds,
  Thresholds,      \* the values of thresholds.dbz clients ask for, in dBZ
  NoId, NoEntry,
  MaxSubscribes    \* bound on subscribe messages

ASSUME SocketsAssumption ==
  /\ NoId \notin ClientIds
  /\ NoEntry \notin [ws : Sockets, watchlist : SUBSET Airports, dbz : Thresholds,
                     alive : BOOLEAN]
  /\ Thresholds \subseteq Nat
  /\ MaxSubscribes \in Nat

VARIABLES
  socket,          \* [Sockets -> life of the connection]; a closing one has
                   \* lost its peer, its close event is still to come
  clientId,        \* [Sockets -> the id of the last subscribe, NoId]
  clients,         \* the table: [ClientIds -> entry, NoEntry]
  subscribes,      \* subscribe messages so far
  usedIds,         \* history: [Sockets -> ids it has subscribed under]
  owesPong,        \* [Sockets -> has it a ping it has not answered]
  cutOff,          \* history: sockets the server terminated although they owed
                   \* no pong
  told             \* history: [Sockets -> [Airports -> ramp status a message
                   \* has last told the socket's last subscription of, "none"]]

socketVars == <<socket, clientId, clients, subscribes, usedIds, owesPong, cutOff, told>>

Entry == [ws : Sockets, watchlist : SUBSET Airports, dbz : Thresholds, alive : BOOLEAN]

Untold == [x \in Airports |-> "none"]

SocketsTypeOK ==
  /\ socket \in [Sockets -> {"new", "open", "closing", "closed"}]
  /\ clientId \in [Sockets -> ClientIds \cup {NoId}]
  /\ clients \in [ClientIds -> Entry \cup {NoEntry}]
  /\ subscribes \in 0..MaxSubscribes
  /\ usedIds \in [Sockets -> SUBSET ClientIds]
  /\ owesPong \in [Sockets -> BOOLEAN]
  /\ cutOff \in SUBSET Sockets
  /\ told \in [Sockets -> [Airports -> RampStatus \cup {"none"}]]

SocketsInit ==
  /\ socket = [s \in Sockets |-> "new"]
  /\ clientId = [s \in Sockets |-> NoId]
  /\ clients = [c \in ClientIds |-> NoEntry]
  /\ subscribes = 0
  /\ usedIds = [s \in Sockets |-> {}]
  /\ owesPong = [s \in Sockets |-> FALSE]
  /\ cutOff = {}
  /\ told = [s \in Sockets |-> Untold]

Ids == {c \in ClientIds : clients[c] # NoEntry}

\* Mutation: only entries that have answered the last ping count.
WatchedAlive == UNION {clients[c].watchlist : c \in {d \in Ids : clients[d].alive}}

getWatchedAirports == UNION {clients[c].watchlist : c \in Ids}

Connect(s) ==
  /\ socket[s] = "new"
  /\ socket' = [socket EXCEPT ![s] = "open"]
  /\ UNCHANGED <<clientId, clients, subscribes, usedIds, owesPong, cutOff, told>>

\* A subscribe message: unknown airports are dropped, an entry under the same
\* id is replaced whoever made it, one the socket made under another id stays.
Subscribe(s, c, watchlist, dbz) ==
  /\ socket[s] = "open"
  /\ subscribes < MaxSubscribes
  /\ subscribes' = subscribes + 1
  /\ clientId' = [clientId EXCEPT ![s] = c]
  /\ clients' = [clients EXCEPT ![c] =
       [ws |-> s, watchlist |-> watchlist, dbz |-> dbz, alive |-> TRUE]]
  /\ usedIds' = [usedIds EXCEPT ![s] = @ \cup {c}]
  /\ told' = [told EXCEPT ![s] = Untold]
  /\ UNCHANGED <<socket, owesPong, cutOff>>

\* The pong of the socket vouches for the id it used last only.
Pong(s) ==
  /\ socket[s] = "open" /\ owesPong[s]
  /\ owesPong' = [owesPong EXCEPT ![s] = FALSE]
  /\ clients' = IF clientId[s] \in Ids
                THEN [clients EXCEPT ![clientId[s]].alive = TRUE] ELSE clients
  /\ UNCHANGED <<socket, clientId, subscribes, usedIds, cutOff, told>>

\* The peer goes away; the close event follows.
Hangup(s) ==
  /\ socket[s] = "open"
  /\ socket' = [socket EXCEPT ![s] = "closing"]
  /\ UNCHANGED <<clientId, clients, subscribes, usedIds, owesPong, cutOff, told>>

\* The close event deletes the entry under the socket's last id, although a
\* newer socket may have taken the id over.
Close(s) ==
  /\ socket[s] = "closing"
  /\ socket' = [socket EXCEPT ![s] = "closed"]
  /\ clients' = IF clientId[s] = NoId THEN clients
                ELSE [clients EXCEPT ![clientId[s]] = NoEntry]
  /\ UNCHANGED <<clientId, subscribes, usedIds, owesPong, cutOff, told>>

Silent == {c \in Ids : ~clients[c].alive}

\* Sockets the loop over the table terminates, and those it pings before it
\* does or instead.
Terminated == {clients[c].ws : c \in Silent}
Pinged     == {clients[c].ws : c \in Ids \ Silent}

\* Mutation: an entry is silent when it was when it subscribed.
PingImpatient ==
  /\ Ids # {}
  /\ clients' = [c \in ClientIds |-> NoEntry]
  /\ socket' = [s \in Sockets |->
       IF s \in Pinged /\ socket[s] = "open" THEN "closing" ELSE socket[s]]
  /\ cutOff' = cutOff \cup {s \in Pinged : socket[s] = "open" /\ ~owesPong[s]}
  /\ UNCHANGED <<clientId, subscribes, usedIds, owesPong, told>>

\* pingAll, every 30 s: an entry that has not answered since the last round
\* takes its socket down with it.
PingAll ==
  /\ Ids # {}
  /\ clients' = [c \in ClientIds |->
       IF c \notin Ids \ Silent THEN NoEntry ELSE [clients[c] EXCEPT !.alive = FALSE]]
  /\ socket' = [s \in Sockets |->
       IF s \in Terminated /\ socket[s] = "open" THEN "closing" ELSE socket[s]]
  /\ cutOff' = cutOff \cup {s \in Terminated : socket[s] = "open" /\ ~owesPong[s]}
  /\ owesPong' = [s \in Sockets |-> owesPong[s] \/ (s \in Pinged /\ socket[s] = "open")]
  /\ UNCHANGED <<clientId, subscribes, usedIds, told>>

-----------------------------------------------------------------------------
\* Whether broadcastMessages sends message m to the entry.
Wants(c, m) ==
  /\ m.airport \in clients[c].watchlist
  /\ m.kind = "condition-change" => SeverityDbz(m.severity) >= clients[c].dbz

\* broadcastMessages for a set of messages, at most one per airport.
Broadcast(messages) ==
  told' = [s \in Sockets |-> [x \in Airports |->
    LET sent == {m \in messages : m.airport = x /\ socket[s] = "open" /\
                   \E c \in Ids : clients[c].ws = s /\ Wants(c, m)}
    IN IF sent = {} THEN told[s][x] ELSE (CHOOSE m \in sent : TRUE).ramp]]

\* The process ends: every connection is lost and the table with them.
ServerGone ==
  /\ socket' = [s \in Sockets |-> IF socket[s] = "new" THEN "new" ELSE "closed"]
  /\ clients' = [c \in ClientIds |-> NoEntry]
  /\ UNCHANGED <<clientId, subscribes, usedIds, owesPong, cutOff, told>>

\* Everything but subscribing.
SocketStep ==
  \/ \E s \in Sockets : Connect(s) \/ Pong(s) \/ Hangup(s) \/ Close(s)
  \/ PingAll

=============================================================================
