----------------------------- MODULE WebSocketHub -----------------------------
(***************************************************************************)
(* The server's WebSocket hub (server/src/websocket.js): upgrades that wait *)
(* for authentication, the two-way subscription registry, the per-         *)
(* connection message limit, the heartbeat that looks for half-open peers, *)
(* broadcasts, and the shutdown.                                           *)
(*                                                                         *)
(* The ws library is external: a connection that is closing may still hand *)
(* over messages it has received, its 'close' event comes last and is      *)
(* certain (a closing handshake nobody answers times out), and an upgrade  *)
(* that reaches a closing server is refused.                               *)
(***************************************************************************)
EXTENDS Naturals, FiniteSets

CONSTANTS
  Sockets,
  DidRooms,             \* rooms of single DIDs
  MaxSubscriptions,     \* MAX_SUBSCRIPTIONS_PER_CLIENT
  MessageLimit,         \* messages of one window
  MaxEvents             \* bound: events announced

\* What the constants have to be
HubConstants ==
  IsFiniteSet(DidRooms) /\ {MaxSubscriptions, MessageLimit, MaxEvents} \subseteq Nat

VARIABLES
  ws,        \* socket -> [state, alive: isAlive, peer: still there, count: of its rate limiter]
  rooms,     \* registry.rooms
  owned,     \* registry.sockets
  hub,       \* running, closing (close() awaits wss.close) or closed
  events,    \* events announced
  got        \* socket -> messages about events sent to it

hubVars == <<ws, rooms, owned, hub, events, got>>

Rooms == DidRooms \cup {"all", "analytics"}
Clients == {s \in Sockets : ws[s].state \in {"open", "closing"}}   \* wss.clients

HubTypeOK ==
  /\ ws \in [Sockets -> [state : {"none", "auth", "open", "closing", "closed", "refused"},
                         alive : BOOLEAN, peer : BOOLEAN, count : 0 .. MessageLimit + 1]]
  /\ rooms \in [Rooms -> SUBSET Sockets]
  /\ \A s \in Sockets : owned[s] \subseteq Rooms /\ Cardinality(owned[s]) <= MaxSubscriptions
  /\ hub \in {"running", "closing", "closed"}
  /\ events \in 0 .. MaxEvents

HubInit ==
  /\ ws = [s \in Sockets |-> [state |-> "none", alive |-> TRUE, peer |-> TRUE, count |-> 0]]
  /\ rooms = [r \in Rooms |-> {}] /\ owned = [s \in Sockets |-> {}]
  /\ hub = "running" /\ events = 0 /\ got = [s \in Sockets |-> 0]

-----------------------------------------------------------------------------
(* SubscriptionRegistry *)

\* The new rooms of R a loop over subscribe() admits, in whatever order R has
Admitted(s, R) ==
  {A \in SUBSET (R \ owned[s]) :
     /\ Cardinality(owned[s] \cup A) <= MaxSubscriptions
     /\ A = R \ owned[s] \/ Cardinality(owned[s] \cup A) = MaxSubscriptions}

Join(s, A) ==
  /\ owned' = [owned EXCEPT ![s] = @ \cup A]
  /\ rooms' = [r \in Rooms |-> IF r \in A THEN rooms[r] \cup {s} ELSE rooms[r]]

Mut_Leave(s, R) ==
  /\ owned' = [owned EXCEPT ![s] = @ \ R]
  /\ rooms' = rooms

Leave(s, R) ==
  /\ owned' = [owned EXCEPT ![s] = @ \ R]
  /\ rooms' = [r \in Rooms |-> IF r \in R \cap owned[s] THEN rooms[r] \ {s} ELSE rooms[r]]

RemoveAll(S) ==
  /\ owned' = [s \in Sockets |-> IF s \in S THEN {} ELSE owned[s]]
  /\ rooms' = [r \in Rooms |-> rooms[r] \ {s \in S : r \in owned[s]}]

-----------------------------------------------------------------------------
(* Connections *)

Upgrade(s) ==
  /\ ws[s].state = "none" /\ hub = "running"
  /\ ws' = [ws EXCEPT ![s].state = "auth"]
  /\ UNCHANGED <<rooms, owned, hub, events, got>>

Refused(s) ==
  /\ ws[s].state = "auth"
  /\ ws' = [ws EXCEPT ![s].state = "refused"]
  /\ UNCHANGED <<rooms, owned, hub, events, got>>

\* Authentication succeeds: the handshake subscribes to the DIDs of the URL,
\* unless the server is closing by now
Connected(s) ==
  /\ ws[s].state = "auth" /\ hub = "running"
  /\ ws' = [ws EXCEPT ![s].state = "open"]
  /\ \E D \in SUBSET DidRooms : \E A \in Admitted(s, D) : Join(s, A)
  /\ UNCHANGED <<hub, events, got>>

\* _onMessage, before or after the end of the rate limiter's window; a client
\* over its limit is closed, other messages change the registry or are answered
OnMessage(s) ==
  /\ s \in Clients /\ ws[s].peer
  /\ \E n \in {1, ws[s].count + 1} :
       IF n > MessageLimit
         THEN /\ ws' = [ws EXCEPT ![s].state = "closing", ![s].count = MessageLimit + 1]
              /\ UNCHANGED <<rooms, owned>>
         ELSE /\ ws' = [ws EXCEPT ![s].count = n]
              /\ \/ \E A \in UNION {Admitted(s, R) : R \in SUBSET Rooms} : Join(s, A)
                 \/ \E R \in SUBSET owned[s] \ {{}} : Leave(s, R)
  /\ UNCHANGED <<hub, events, got>>

PeerVanishes(s) ==
  /\ s \in Clients /\ ws[s].peer
  /\ ws' = [ws EXCEPT ![s].peer = FALSE]
  /\ UNCHANGED <<rooms, owned, hub, events, got>>

PeerCloses(s) ==
  /\ ws[s].state = "open" /\ ws[s].peer
  /\ ws' = [ws EXCEPT ![s].state = "closing"]
  /\ UNCHANGED <<rooms, owned, hub, events, got>>

\* The 'error' event; ws closes the connection afterwards
OnError(s) ==
  /\ s \in Clients
  /\ ws' = [ws EXCEPT ![s].state = "closing"]
  /\ RemoveAll({s})
  /\ UNCHANGED <<hub, events, got>>

\* The 'close' event: nothing of the connection matters any more
OnClose(s) ==
  /\ ws[s].state = "closing"
  /\ ws' = [ws EXCEPT ![s] = [state |-> "closed", alive |-> FALSE, peer |-> FALSE, count |-> 0]]
  /\ RemoveAll({s})
  /\ UNCHANGED <<hub, events, got>>

Pong(s) ==
  /\ s \in Clients /\ ws[s].peer /\ ~ws[s].alive
  /\ ws' = [ws EXCEPT ![s].alive = TRUE]
  /\ UNCHANGED <<rooms, owned, hub, events, got>>

Mut_Pinged(s) == [ws[s] EXCEPT !.alive = ws[s].state = "closing"]

\* What a heartbeat makes of one client: the first miss costs it isAlive, the
\* second the connection
Pinged(s) == IF ws[s].alive THEN [ws[s] EXCEPT !.alive = FALSE]
                            ELSE [ws[s] EXCEPT !.state = "closing"]

Heartbeat ==
  /\ hub = "running" /\ Clients # {}
  /\ ws' = [s \in Sockets |-> IF s \in Clients THEN Pinged(s) ELSE ws[s]]
  /\ RemoveAll({s \in Clients : ~ws[s].alive})
  /\ UNCHANGED <<hub, events, got>>

-----------------------------------------------------------------------------
(* Events and shutdown *)

\* roomsForEvent, and the room of the analytics summaries
Audience == {{"all"}} \cup {{"all", d} : d \in DidRooms} \cup {{"analytics"}}

\* broadcast: one message per recipient that is open
Sent(s, R) == IF ws[s].state = "open" /\ \E r \in R : s \in rooms[r] THEN 1 ELSE 0

\* Credential, DID and analytics events come from other parts of the server and
\* from a poll that may have begun before the shutdown
Broadcast ==
  /\ events < MaxEvents /\ events' = events + 1
  /\ \E R \in Audience : got' = [s \in Sockets |-> got[s] + Sent(s, R)]
  /\ UNCHANGED <<ws, rooms, owned, hub>>

CloseHub ==
  /\ hub = "running" /\ hub' = "closing"
  /\ ws' = [s \in Sockets |-> IF s \in Clients THEN [ws[s] EXCEPT !.state = "closing"]
                                               ELSE ws[s]]
  /\ UNCHANGED <<rooms, owned, events, got>>

CloseResolves ==
  /\ hub = "closing" /\ Clients = {} /\ hub' = "closed"
  /\ UNCHANGED <<ws, rooms, owned, events, got>>

HubNext ==
  \/ \E s \in Sockets :
       \/ Upgrade(s) \/ Refused(s) \/ Connected(s) \/ OnMessage(s) \/ OnError(s)
       \/ PeerVanishes(s) \/ PeerCloses(s) \/ OnClose(s) \/ Pong(s)
  \/ Heartbeat \/ Broadcast \/ CloseHub \/ CloseResolves

\* Timers fire and the library ends what is closing; peers owe nothing
HubFairness ==
  /\ WF_hubVars(Heartbeat) /\ WF_hubVars(CloseResolves)
  /\ \A s \in Sockets : WF_hubVars(OnClose(s))

HubSpec == HubInit /\ [][HubNext]_hubVars /\ HubFairness

-----------------------------------------------------------------------------
\* The registry's two indexes say the same, and only of connections that have
\* not ended: messages that arrive after a terminate, an error or the close for
\* flooding re-subscribe, and still nothing is kept of a closed socket
\* (websocket.js:122-165, 369-372, 563-565).
RegistryExact ==
  \A s \in Sockets : /\ \A r \in Rooms : s \in rooms[r] <=> r \in owned[s]
                     /\ owned[s] # {} => s \in Clients

\* "A socket subscribed to both the global room and a DID room receives the event
\* once, not twice" (websocket.js:498-499).
OncePerEvent == \A s \in Sockets : got[s] <= events

\* websocket.js: the registry holds exactly the subscriptions of live sockets, and a
\* socket is sent an event once, however many of its rooms match.
HubRegistryExact == HubTypeOK /\ RegistryExact /\ OncePerEvent

\* Once close() has begun no client is sent anything, although upgrades, polls and
\* announcements that were under way go on (websocket.js:612-630).
SilentOnceClosing == [][hub # "running" => got' = got]_hubVars

\* A peer that is gone without a word does not hold its connection for ever: two
\* heartbeats, or the shutdown, end it (websocket.js:557-573).
HalfOpenEnds ==
  []<>(\A s \in Clients : ws[s].peer)

\* The shutdown that waits for every connection to end does come to an end
\* (websocket.js:627-628).
CloseCompletes == hub = "closing" ~> hub = "closed"
=============================================================================
