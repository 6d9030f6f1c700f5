----------------------------- MODULE ServerProofs -----------------------------
(***************************************************************************)
(* Proofs about parts of the server: the WebSocket hub, the job queue, the *)
(* webhook deliveries and the streams of ledger events.  The parts share   *)
(* no state; each theorem is about the specification of one of them, for   *)
(* all values of its constants.                                            *)
(***************************************************************************)
EXTENDS WebSocketHub, JobQueue, WebhookDelivery, LedgerStreams, SelectionTheorems,
        FiniteSetTheorems, SequenceTheorems, TLAPS

-----------------------------------------------------------------------------
(* The WebSocket hub. *)

Connection == [state : {"none", "auth", "open", "closing", "closed", "refused"},
               alive : BOOLEAN, peer : BOOLEAN, count : 0 .. MessageLimit + 1]

\* The types, with those of the registry's maps and of the history.
HubTypes ==
  /\ ws \in [Sockets -> Connection]
  /\ rooms \in [Rooms -> SUBSET Sockets]
  /\ owned \in [Sockets -> SUBSET Rooms]
  /\ \A s \in Sockets : Cardinality(owned[s]) <= MaxSubscriptions
  /\ hub \in {"running", "closing", "closed"}
  /\ events \in 0 .. MaxEvents
  /\ got \in [Sockets -> Nat]

\* Shutting down leaves no connection open, and none opens afterwards.
ClosedToAll == hub # "running" => \A s \in Sockets : ws[s].state # "open"

HubInv == HubTypes /\ RegistryExact /\ OncePerEvent /\ ClosedToAll

LEMMA RoomsFinite ==
    ASSUME HubConstants, NEW S \in SUBSET Rooms
    PROVE  IsFiniteSet(S) /\ Cardinality(S) \in Nat
<1>1. IsFiniteSet(DidRooms \cup {"all"})
  BY FS_AddElement DEF HubConstants
<1>2. IsFiniteSet((DidRooms \cup {"all"}) \cup {"analytics"})
  BY <1>1, FS_AddElement
<1>3. Rooms = (DidRooms \cup {"all"}) \cup {"analytics"}
  BY DEF Rooms
<1> QED BY <1>2, <1>3, FS_Subset, FS_CardinalityType

LEMMA HubInitInv == HubConstants /\ HubInit => HubInv
<1> SUFFICES ASSUME HubConstants, HubInit PROVE HubInv
  OBVIOUS
<1>1. HubTypes
  <2>1. Cardinality({}) = 0
    BY FS_EmptySet
  <2>2. [state |-> "none", alive |-> TRUE, peer |-> TRUE, count |-> 0] \in Connection
    BY DEF Connection, HubConstants
  <2> QED BY <2>1, <2>2 DEF HubInit, HubTypes, HubConstants
<1>2. RegistryExact /\ OncePerEvent /\ ClosedToAll
  BY DEF HubInit, RegistryExact, OncePerEvent, ClosedToAll, HubConstants
<1> QED BY <1>1, <1>2 DEF HubInv

\* The registry's operations, for a socket that is (or is no longer) a client.
LEMMA JoinKeeps ==
    ASSUME HubConstants, HubTypes, RegistryExact, NEW s \in Sockets, NEW R \in SUBSET Rooms,
           NEW A \in Admitted(s, R), Join(s, A)
    PROVE  /\ rooms' \in [Rooms -> SUBSET Sockets]
           /\ owned' \in [Sockets -> SUBSET Rooms]
           /\ \A x \in Sockets : Cardinality(owned'[x]) <= MaxSubscriptions
           /\ \A x \in Sockets, r \in Rooms : x \in rooms'[r] <=> r \in owned'[x]
           /\ \A x \in Sockets \ {s} : owned'[x] = owned[x]
<1>1. A \in SUBSET Rooms /\ Cardinality(owned[s] \cup A) <= MaxSubscriptions
  BY DEF Admitted
<1>2. owned' = [owned EXCEPT ![s] = owned[s] \cup A]
  BY DEF Join
<1>3. rooms' = [r \in Rooms |-> IF r \in A THEN rooms[r] \cup {s} ELSE rooms[r]]
  BY DEF Join
<1>4. owned \in [Sockets -> SUBSET Rooms] /\ rooms \in [Rooms -> SUBSET Sockets]
  BY DEF HubTypes
<1>5. owned' \in [Sockets -> SUBSET Rooms] /\ rooms' \in [Rooms -> SUBSET Sockets]
  BY <1>1, <1>2, <1>3, <1>4
<1>6. \A x \in Sockets : Cardinality(owned'[x]) <= MaxSubscriptions
  BY <1>1, <1>2, <1>4 DEF HubTypes
<1>7. \A x \in Sockets, r \in Rooms : x \in rooms'[r] <=> r \in owned'[x]
  BY <1>1, <1>2, <1>3, <1>4 DEF RegistryExact
<1> QED BY <1>2, <1>4, <1>5, <1>6, <1>7

LEMMA LeaveKeeps ==
    ASSUME HubConstants, HubTypes, RegistryExact, NEW s \in Sockets, NEW R \in SUBSET Rooms,
           Leave(s, R)
    PROVE  /\ rooms' \in [Rooms -> SUBSET Sockets]
           /\ owned' \in [Sockets -> SUBSET Rooms]
           /\ \A x \in Sockets : Cardinality(owned'[x]) <= MaxSubscriptions
           /\ \A x \in Sockets, r \in Rooms : x \in rooms'[r] <=> r \in owned'[x]
           /\ \A x \in Sockets \ {s} : owned'[x] = owned[x]
<1>1. owned' = [owned EXCEPT ![s] = owned[s] \ R]
  BY DEF Leave
<1>2. rooms' = [r \in Rooms |-> IF r \in R \cap owned[s] THEN rooms[r] \ {s} ELSE rooms[r]]
  BY DEF Leave
<1>3. owned \in [Sockets -> SUBSET Rooms] /\ rooms \in [Rooms -> SUBSET Sockets]
  BY DEF HubTypes
<1>4. owned' \in [Sockets -> SUBSET Rooms] /\ rooms' \in [Rooms -> SUBSET Sockets]
  BY <1>1, <1>2, <1>3
<1>5. Cardinality(owned[s] \ R) <= MaxSubscriptions
  <2>1. IsFiniteSet(owned[s]) /\ Cardinality(owned[s]) \in Nat
        /\ Cardinality(owned[s] \ R) \in Nat
    BY <1>3, RoomsFinite
  <2>2. owned[s] \ R \in SUBSET owned[s]
    OBVIOUS
  <2>3. Cardinality(owned[s] \ R) <= Cardinality(owned[s])
    BY <2>1, <2>2, FS_Subset
  <2>4. Cardinality(owned[s]) <= MaxSubscriptions
    BY DEF HubTypes
  <2> QED BY <2>1, <2>3, <2>4 DEF HubConstants
<1>6. \A x \in Sockets : Cardinality(owned'[x]) <= MaxSubscriptions
  BY <1>1, <1>3, <1>5 DEF HubTypes
<1>7. \A x \in Sockets, r \in Rooms : x \in rooms'[r] <=> r \in owned'[x]
  BY <1>1, <1>2, <1>3 DEF RegistryExact
<1> QED BY <1>1, <1>3, <1>4, <1>6, <1>7

LEMMA RemoveAllKeeps ==
    ASSUME HubConstants, HubTypes, RegistryExact, NEW S \in SUBSET Sockets, RemoveAll(S)
    PROVE  /\ rooms' \in [Rooms -> SUBSET Sockets]
           /\ owned' \in [Sockets -> SUBSET Rooms]
           /\ \A x \in Sockets : Cardinality(owned'[x]) <= MaxSubscriptions
           /\ \A x \in Sockets, r \in Rooms : x \in rooms'[r] <=> r \in owned'[x]
           /\ \A x \in Sockets : owned'[x] = IF x \in S THEN {} ELSE owned[x]
<1>1. owned' = [x \in Sockets |-> IF x \in S THEN {} ELSE owned[x]]
  BY DEF RemoveAll
<1>2. rooms' = [r \in Rooms |-> rooms[r] \ {x \in S : r \in owned[x]}]
  BY DEF RemoveAll
<1>3. owned \in [Sockets -> SUBSET Rooms] /\ rooms \in [Rooms -> SUBSET Sockets]
  BY DEF HubTypes
<1>4. owned' \in [Sockets -> SUBSET Rooms] /\ rooms' \in [Rooms -> SUBSET Sockets]
  BY <1>1, <1>2, <1>3
<1>5. Cardinality({}) = 0
  BY FS_EmptySet
<1>6. \A x \in Sockets : Cardinality(owned'[x]) <= MaxSubscriptions
  BY <1>1, <1>5 DEF HubTypes, HubConstants
<1>7. \A x \in Sockets, r \in Rooms : x \in rooms'[r] <=> r \in owned'[x]
  BY <1>1, <1>2, <1>3 DEF RegistryExact
<1> QED BY <1>1, <1>4, <1>6, <1>7

\* What is left to show of a step that announces nothing.
LEMMA HubQuietStep ==
    ASSUME HubConstants, HubInv, UNCHANGED <<events, got>>,
           ws' \in [Sockets -> Connection], hub' \in {"running", "closing", "closed"},
           rooms' \in [Rooms -> SUBSET Sockets], owned' \in [Sockets -> SUBSET Rooms],
           \A x \in Sockets : Cardinality(owned'[x]) <= MaxSubscriptions,
           \A x \in Sockets, r \in Rooms : x \in rooms'[r] <=> r \in owned'[x],
           \A x \in Sockets : owned'[x] # {} => ws'[x].state \in {"open", "closing"},
           hub' # "running" => \A x \in Sockets : ws'[x].state # "open"
    PROVE  HubInv'
<1>1. HubTypes'
  BY DEF HubInv, HubTypes
<1>2. RegistryExact'
  BY DEF RegistryExact, Clients
<1>3. OncePerEvent' /\ ClosedToAll'
  BY DEF HubInv, OncePerEvent, ClosedToAll
<1> QED BY <1>1, <1>2, <1>3 DEF HubInv

\* The same of a step that leaves the registry alone.
LEMMA HubRegistryAlone ==
    ASSUME HubConstants, HubInv, UNCHANGED <<rooms, owned, events, got>>,
           ws' \in [Sockets -> Connection], hub' \in {"running", "closing", "closed"},
           \A x \in Clients : ws'[x].state \in {"open", "closing"},
           hub' # "running" => \A x \in Sockets : ws'[x].state # "open"
    PROVE  HubInv'
<1>1. /\ rooms' \in [Rooms -> SUBSET Sockets] /\ owned' \in [Sockets -> SUBSET Rooms]
      /\ \A x \in Sockets : Cardinality(owned'[x]) <= MaxSubscriptions
  BY DEF HubInv, HubTypes
<1>2. \A x \in Sockets, r \in Rooms : x \in rooms'[r] <=> r \in owned'[x]
  BY DEF HubInv, RegistryExact
<1>3. \A x \in Sockets : owned'[x] # {} => ws'[x].state \in {"open", "closing"}
  BY DEF HubInv, RegistryExact
<1> QED BY <1>1, <1>2, <1>3, HubQuietStep

\* The same of one socket's step.
LEMMA OneSocket ==
    ASSUME HubInv, NEW s \in Sockets, NEW c \in Connection, ws' = [ws EXCEPT ![s] = c]
    PROVE  /\ ws' \in [Sockets -> Connection] /\ ws'[s] = c
           /\ \A x \in Sockets \ {s} : ws'[x] = ws[x]
  BY DEF HubInv, HubTypes

LEMMA ConnectionWrites ==
    ASSUME NEW c \in Connection
    PROVE  /\ \A st \in {"none", "auth", "open", "closing", "closed", "refused"} :
                 /\ [c EXCEPT !.state = st] \in Connection
                 /\ [c EXCEPT !.state = st].state = st
           /\ \A b \in BOOLEAN : /\ [c EXCEPT !.alive = b] \in Connection
                                 /\ [c EXCEPT !.alive = b].state = c.state
                                 /\ [c EXCEPT !.peer = b] \in Connection
                                 /\ [c EXCEPT !.peer = b].state = c.state
           /\ \A n \in 0 .. MessageLimit + 1 :
                 /\ [c EXCEPT !.count = n] \in Connection
                 /\ [c EXCEPT !.count = n].state = c.state
                 /\ [c EXCEPT !.state = "closing", !.count = n] \in Connection
                 /\ [c EXCEPT !.state = "closing", !.count = n].state = "closing"
  BY DEF Connection

LEMMA HubStep == HubConstants /\ HubInv /\ [HubNext]_hubVars => HubInv'
<1> SUFFICES ASSUME HubConstants, HubInv, [HubNext]_hubVars PROVE HubInv'
  OBVIOUS
<1>0. /\ HubTypes /\ RegistryExact /\ OncePerEvent /\ ClosedToAll
      /\ \A s \in Sockets : ws[s] \in Connection
      /\ \A s \in Sockets : owned[s] # {} => ws[s].state \in {"open", "closing"}
      /\ hub \in {"running", "closing", "closed"}
  BY DEF HubInv, HubTypes, RegistryExact, Clients
<1>1. ASSUME NEW s \in Sockets, Upgrade(s) \/ Refused(s) \/ PeerCloses(s)
      PROVE  HubInv'
  <2>1. PICK st \in {"auth", "refused", "closing"} :
            /\ ws' = [ws EXCEPT ![s] = [ws[s] EXCEPT !.state = st]]
            /\ s \in Clients => st = "closing"
    BY <1>1 DEF Upgrade, Refused, PeerCloses, Clients
  <2>2. [ws[s] EXCEPT !.state = st] \in Connection /\ [ws[s] EXCEPT !.state = st].state = st
    BY <1>0 DEF Connection
  <2>3. /\ ws' \in [Sockets -> Connection] /\ ws'[s].state = st
        /\ \A x \in Sockets \ {s} : ws'[x] = ws[x]
    BY <2>1, <2>2, OneSocket
  <2>4. UNCHANGED <<rooms, owned, hub, events, got>>
    BY <1>1 DEF Upgrade, Refused, PeerCloses
  <2>5. \A x \in Clients : ws'[x].state \in {"open", "closing"}
    BY <2>1, <2>3 DEF Clients
  <2>6. hub' # "running" => \A x \in Sockets : ws'[x].state # "open"
    BY <1>0, <2>3, <2>4 DEF ClosedToAll
  <2> QED BY <1>0, <2>3, <2>4, <2>5, <2>6, HubRegistryAlone
<1>2. ASSUME NEW s \in Sockets, PeerVanishes(s) \/ Pong(s)
      PROVE  HubInv'
  <2>1. PICK c \in Connection : ws' = [ws EXCEPT ![s] = c] /\ c.state = ws[s].state
    <3>1. CASE PeerVanishes(s)
      <4> DEFINE c == [ws[s] EXCEPT !.peer = FALSE]
      <4>1. c \in Connection /\ c.state = ws[s].state
        BY <1>0 DEF Connection
      <4> QED BY <3>1, <4>1 DEF PeerVanishes
    <3>2. CASE Pong(s)
      <4> DEFINE c == [ws[s] EXCEPT !.alive = TRUE]
      <4>1. c \in Connection /\ c.state = ws[s].state
        BY <1>0 DEF Connection
      <4> QED BY <3>2, <4>1 DEF Pong
    <3> QED BY <1>2, <3>1, <3>2
  <2>2. /\ ws' \in [Sockets -> Connection] /\ ws'[s] = c
        /\ \A x \in Sockets \ {s} : ws'[x] = ws[x]
    BY <2>1, OneSocket
  <2>3. UNCHANGED <<rooms, owned, hub, events, got>>
    BY <1>2 DEF PeerVanishes, Pong
  <2>4. \A x \in Sockets : ws'[x].state = ws[x].state
    BY <2>1, <2>2
  <2>5. \A x \in Clients : ws'[x].state \in {"open", "closing"}
    BY <2>4 DEF Clients
  <2>6. hub' # "running" => \A x \in Sockets : ws'[x].state # "open"
    BY <1>0, <2>3, <2>4 DEF ClosedToAll
  <2> QED BY <1>0, <2>2, <2>3, <2>5, <2>6, HubRegistryAlone
<1>3. ASSUME NEW s \in Sockets, Connected(s)
      PROVE  HubInv'
  <2>1. /\ ws' = [ws EXCEPT ![s] = [ws[s] EXCEPT !.state = "open"]]
        /\ hub = "running" /\ UNCHANGED <<hub, events, got>>
    BY <1>3 DEF Connected
  <2>2. /\ ws' \in [Sockets -> Connection] /\ ws'[s].state = "open"
        /\ \A x \in Sockets \ {s} : ws'[x] = ws[x]
    <3> DEFINE c == [ws[s] EXCEPT !.state = "open"]
    <3>1. ws[s] \in Connection
      BY <1>0
    <3>2. c \in Connection /\ c.state = "open"
      BY <3>1 DEF Connection
    <3>3. ws' = [ws EXCEPT ![s] = c]
      BY <2>1
    <3> HIDE DEF c
    <3> QED BY <1>0, <3>2, <3>3, OneSocket
  <2>3. PICK D \in SUBSET DidRooms : \E A \in Admitted(s, D) : Join(s, A)
    BY <1>3 DEF Connected
  <2>4. D \in SUBSET Rooms
    BY DEF Rooms
  <2>5. /\ rooms' \in [Rooms -> SUBSET Sockets] /\ owned' \in [Sockets -> SUBSET Rooms]
        /\ \A x \in Sockets : Cardinality(owned'[x]) <= MaxSubscriptions
        /\ \A x \in Sockets, r \in Rooms : x \in rooms'[r] <=> r \in owned'[x]
        /\ \A x \in Sockets \ {s} : owned'[x] = owned[x]
    BY <1>0, <2>3, <2>4, JoinKeeps
  <2>6. \A x \in Sockets : owned'[x] # {} => ws'[x].state \in {"open", "closing"}
    BY <1>0, <2>2, <2>5
  <2> QED BY <2>1, <2>2, <2>5, <2>6, HubQuietStep
<1>4. ASSUME NEW s \in Sockets, OnMessage(s)
      PROVE  HubInv'
  <2>0. s \in Clients /\ UNCHANGED <<hub, events, got>>
    BY <1>4 DEF OnMessage
  <2>1. PICK n \in {1, ws[s].count + 1} :
          IF n > MessageLimit
            THEN /\ ws' = [ws EXCEPT ![s].state = "closing", ![s].count = MessageLimit + 1]
                 /\ UNCHANGED <<rooms, owned>>
            ELSE /\ ws' = [ws EXCEPT ![s].count = n]
                 /\ \/ \E A \in UNION {Admitted(s, R) : R \in SUBSET Rooms} : Join(s, A)
                    \/ \E R \in SUBSET owned[s] \ {{}} : Leave(s, R)
    BY <1>4 DEF OnMessage
  <2>2. n \in Nat /\ MessageLimit \in Nat /\ MessageLimit + 1 \in 0 .. MessageLimit + 1
    BY <1>0 DEF Connection, HubConstants
  <2>3. CASE n > MessageLimit
    <3> DEFINE c == [ws[s] EXCEPT !.state = "closing", !.count = MessageLimit + 1]
    <3>1. ws' = [ws EXCEPT ![s] = c] /\ UNCHANGED <<rooms, owned>>
      BY <1>0, <2>1, <2>3 DEF HubTypes, Connection
    <3>2. c \in Connection /\ c.state = "closing"
      BY <1>0, <2>2 DEF Connection
    <3> HIDE DEF c
    <3>3. /\ ws' \in [Sockets -> Connection] /\ ws'[s].state = "closing"
          /\ \A x \in Sockets \ {s} : ws'[x] = ws[x]
      BY <3>1, <3>2, OneSocket
    <3>4. \A x \in Clients : ws'[x].state \in {"open", "closing"}
      BY <3>3 DEF Clients
    <3>5. hub' # "running" => \A x \in Sockets : ws'[x].state # "open"
      BY <1>0, <2>0, <3>3 DEF ClosedToAll
    <3> QED BY <1>0, <2>0, <3>1, <3>3, <3>4, <3>5, HubRegistryAlone
  <2>4. CASE ~ (n > MessageLimit)
    <3>1. ws' = [ws EXCEPT ![s] = [ws[s] EXCEPT !.count = n]]
      BY <2>1, <2>4
    <3>2. n \in 0 .. MessageLimit + 1
      BY <2>2, <2>4
    <3>3. /\ ws' \in [Sockets -> Connection] /\ ws'[s].state = ws[s].state
          /\ \A x \in Sockets \ {s} : ws'[x] = ws[x]
      <4>1. /\ [ws[s] EXCEPT !.count = n] \in Connection
            /\ [ws[s] EXCEPT !.count = n].state = ws[s].state
        BY <1>0, <3>2 DEF Connection
      <4> QED BY <3>1, <4>1, OneSocket
    <3>4. /\ rooms' \in [Rooms -> SUBSET Sockets] /\ owned' \in [Sockets -> SUBSET Rooms]
          /\ \A x \in Sockets : Cardinality(owned'[x]) <= MaxSubscriptions
          /\ \A x \in Sockets, r \in Rooms : x \in rooms'[r] <=> r \in owned'[x]
          /\ \A x \in Sockets \ {s} : owned'[x] = owned[x]
      <4>1. CASE \E A \in UNION {Admitted(s, R) : R \in SUBSET Rooms} : Join(s, A)
        <5>1. PICK R \in SUBSET Rooms : \E A \in Admitted(s, R) : Join(s, A)
          BY <4>1
        <5> QED BY <1>0, <5>1, JoinKeeps
      <4>2. CASE \E R \in SUBSET owned[s] \ {{}} : Leave(s, R)
        <5>1. PICK R \in SUBSET owned[s] : Leave(s, R)
          BY <4>2
        <5>2. R \in SUBSET Rooms
          BY <1>0 DEF HubTypes
        <5> QED BY <1>0, <5>1, <5>2, LeaveKeeps
      <4> QED BY <2>1, <2>4, <4>1, <4>2
    <3>5. \A x \in Sockets : owned'[x] # {} => ws'[x].state \in {"open", "closing"}
      BY <1>0, <2>0, <3>3, <3>4 DEF Clients
    <3>6. hub' # "running" => \A x \in Sockets : ws'[x].state # "open"
      BY <1>0, <2>0, <3>3 DEF ClosedToAll
    <3> QED BY <1>0, <2>0, <3>3, <3>4, <3>5, <3>6, HubQuietStep
  <2> QED BY <2>3, <2>4
<1>5. ASSUME NEW s \in Sockets, OnError(s) \/ OnClose(s)
      PROVE  HubInv'
  <2>1. PICK c \in Connection : ws' = [ws EXCEPT ![s] = c] /\ c.state \in {"closing", "closed"}
    <3>1. [state |-> "closed", alive |-> FALSE, peer |-> FALSE, count |-> 0] \in Connection
      BY DEF Connection, HubConstants
    <3>2. /\ [ws[s] EXCEPT !.state = "closing"] \in Connection
          /\ [ws[s] EXCEPT !.state = "closing"].state = "closing"
      BY <1>0 DEF Connection
    <3>3. CASE OnError(s)
      BY <3>2, <3>3 DEF OnError
    <3>4. CASE OnClose(s)
      BY <3>1, <3>4 DEF OnClose
    <3> QED BY <1>5, <3>3, <3>4
  <2>2. /\ ws' \in [Sockets -> Connection] /\ ws'[s] = c
        /\ \A x \in Sockets \ {s} : ws'[x] = ws[x]
    BY <2>1, OneSocket
  <2>3. RemoveAll({s}) /\ UNCHANGED <<hub, events, got>>
    BY <1>5 DEF OnError, OnClose
  <2>4. /\ rooms' \in [Rooms -> SUBSET Sockets] /\ owned' \in [Sockets -> SUBSET Rooms]
        /\ \A x \in Sockets : Cardinality(owned'[x]) <= MaxSubscriptions
        /\ \A x \in Sockets, r \in Rooms : x \in rooms'[r] <=> r \in owned'[x]
        /\ \A x \in Sockets : owned'[x] = IF x \in {s} THEN {} ELSE owned[x]
    BY <1>0, <2>3, RemoveAllKeeps
  <2>5. \A x \in Sockets : owned'[x] # {} => ws'[x].state \in {"open", "closing"}
    BY <1>0, <2>2, <2>4
  <2>6. hub' # "running" => \A x \in Sockets : ws'[x].state # "open"
    BY <1>0, <2>1, <2>2, <2>3 DEF ClosedToAll
  <2> QED BY <1>0, <2>2, <2>3, <2>4, <2>5, <2>6, HubQuietStep
<1>6. CASE Heartbeat
  <2> DEFINE S == {s \in Clients : ~ws[s].alive}
  <2>1. /\ hub = "running" /\ RemoveAll(S) /\ UNCHANGED <<hub, events, got>>
        /\ ws' = [s \in Sockets |-> IF s \in Clients THEN Pinged(s) ELSE ws[s]]
    BY <1>6 DEF Heartbeat
  <2>2. \A s \in Clients : Pinged(s) \in Connection /\ Pinged(s).state \in {"open", "closing"}
    <3>1. SUFFICES ASSUME NEW s \in Clients
                   PROVE  Pinged(s) \in Connection /\ Pinged(s).state \in {"open", "closing"}
      OBVIOUS
    <3>2. ws[s] \in Connection /\ ws[s].state \in {"open", "closing"}
      BY <1>0 DEF Clients
    <3> QED BY <3>2, ConnectionWrites DEF Pinged
  <2>3. ws' \in [Sockets -> Connection]
    BY <1>0, <2>1, <2>2
  <2>4. S \in SUBSET Sockets
    BY DEF Clients
  <2> HIDE DEF S
  <2>5. /\ rooms' \in [Rooms -> SUBSET Sockets] /\ owned' \in [Sockets -> SUBSET Rooms]
        /\ \A x \in Sockets : Cardinality(owned'[x]) <= MaxSubscriptions
        /\ \A x \in Sockets, r \in Rooms : x \in rooms'[r] <=> r \in owned'[x]
        /\ \A x \in Sockets : owned'[x] = IF x \in S THEN {} ELSE owned[x]
    BY <1>0, <2>1, <2>4, RemoveAllKeeps
  <2>6. \A x \in Sockets : owned'[x] # {} => ws'[x].state \in {"open", "closing"}
    BY <1>0, <2>1, <2>2, <2>5 DEF Clients
  <2> QED BY <1>0, <2>1, <2>3, <2>5, <2>6, HubQuietStep
<1>7. CASE Broadcast
  <2>1. PICK R \in Audience : got' = [s \in Sockets |-> got[s] + Sent(s, R)]
    BY <1>7 DEF Broadcast
  <2>2. /\ events < MaxEvents /\ events' = events + 1
        /\ UNCHANGED <<ws, rooms, owned, hub>>
    BY <1>7 DEF Broadcast
  <2>3. \A s \in Sockets : Sent(s, R) \in {0, 1}
    BY DEF Sent
  <2>4. got' \in [Sockets -> Nat] /\ \A s \in Sockets : got'[s] <= got[s] + 1
    BY <1>0, <2>1, <2>3 DEF HubTypes
  <2>5. HubTypes'
    BY <1>0, <2>2, <2>4 DEF HubTypes, HubConstants
  <2>6. OncePerEvent'
    BY <1>0, <2>2, <2>4 DEF HubTypes, OncePerEvent, HubConstants
  <2>7. RegistryExact' /\ ClosedToAll'
    BY <1>0, <2>2 DEF RegistryExact, Clients, ClosedToAll
  <2> QED BY <2>5, <2>6, <2>7 DEF HubInv
<1>8. CASE CloseHub
  <2>1. /\ hub' = "closing" /\ UNCHANGED <<rooms, owned, events, got>>
        /\ ws' = [s \in Sockets |-> IF s \in Clients THEN [ws[s] EXCEPT !.state = "closing"]
                                                     ELSE ws[s]]
    BY <1>8 DEF CloseHub
  <2>2. \A s \in Sockets : /\ [ws[s] EXCEPT !.state = "closing"] \in Connection
                           /\ [ws[s] EXCEPT !.state = "closing"].state = "closing"
    BY <1>0, ConnectionWrites
  <2>3. ws' \in [Sockets -> Connection]
    BY <1>0, <2>1, <2>2
  <2>4. \A x \in Clients : ws'[x].state \in {"open", "closing"}
    BY <2>1, <2>2 DEF Clients
  <2>5. \A x \in Sockets : ws'[x].state # "open"
    BY <2>1, <2>2 DEF Clients
  <2> QED BY <2>1, <2>3, <2>4, <2>5, HubRegistryAlone
<1>9. CASE CloseResolves
  <2>1. hub = "closing" /\ hub' = "closed" /\ UNCHANGED <<ws, rooms, owned, events, got>>
    BY <1>9 DEF CloseResolves
  <2>2. ws' \in [Sockets -> Connection]
    BY <1>0, <2>1 DEF HubTypes
  <2> QED BY <1>0, <2>1, <2>2, HubRegistryAlone DEF Clients, ClosedToAll
<1>10. CASE UNCHANGED hubVars
  BY <1>0, <1>10 DEF hubVars, HubInv, HubTypes, RegistryExact, OncePerEvent, ClosedToAll,
                     Clients
<1> QED
  BY <1>1, <1>2, <1>3, <1>4, <1>5, <1>6, <1>7, <1>8, <1>9, <1>10 DEF HubNext

LEMMA HubInvHolds == HubConstants => (HubSpec => []HubInv)
<1> SUFFICES ASSUME HubConstants PROVE HubSpec => []HubInv
  OBVIOUS
<1>1. HubInit => HubInv
  BY HubInitInv
<1>2. HubInv /\ [HubNext]_hubVars => HubInv'
  BY HubStep
<1> QED BY <1>1, <1>2, PTL DEF HubSpec

\* websocket.js, for any number of sockets, rooms and events: the two indexes of the
\* subscription registry agree and keep nothing of a connection that has ended,
\* although messages of a closing connection may still subscribe, and a socket is sent
\* an event at most once.
THEOREM RegistryIsExact == HubConstants => (HubSpec => []HubRegistryExact)
<1> SUFFICES ASSUME HubConstants PROVE HubSpec => []HubRegistryExact
  OBVIOUS
<1>1. HubInv => HubRegistryExact
  BY DEF HubInv, HubTypes, HubRegistryExact, HubTypeOK, Connection
<1>2. HubSpec => []HubInv
  BY HubInvHolds
<1> QED BY <1>1, <1>2, PTL

\* close() of the hub: no step sends a client anything once the shutdown has begun,
\* since no connection is open any more and none can open.
THEOREM SilentWhenClosing == HubConstants => (HubSpec => SilentOnceClosing)
<1> SUFFICES ASSUME HubConstants PROVE HubSpec => SilentOnceClosing
  OBVIOUS
<1>1. HubInv /\ [HubNext]_hubVars => [hub # "running" => got' = got]_hubVars
  <2> SUFFICES ASSUME HubInv, [HubNext]_hubVars, hub # "running" PROVE got' = got
    OBVIOUS
  <2>1. CASE Broadcast
    <3>1. PICK R \in Audience : got' = [s \in Sockets |-> got[s] + Sent(s, R)]
      BY <2>1 DEF Broadcast
    <3>2. \A s \in Sockets : Sent(s, R) = 0
      BY DEF Sent, HubInv, ClosedToAll
    <3> QED BY <3>1, <3>2 DEF HubInv, HubTypes
  <2>2. CASE ~Broadcast
    BY <2>2 DEF HubNext, hubVars, Upgrade, Refused, Connected, OnMessage, OnError,
                PeerVanishes, PeerCloses, OnClose, Pong, Heartbeat, CloseHub, CloseResolves
  <2> QED BY <2>1, <2>2
<1>2. HubSpec => []HubInv
  BY HubInvHolds
<1> QED BY <1>1, <1>2, PTL DEF HubSpec, SilentOnceClosing

-----------------------------------------------------------------------------
(* The job queue. *)

\* The commands a worker may still have to send, by where it is: the rest of a
\* claim, of the count of an attempt, or of one of the three ways to settle.
Claims(x) ==
  /\ x.at = "load" /\ x.job \in Jobs
  /\ \E t \in Nat : x.todo \in {<<>>, <<ZAdd("processing", t)>>,
                                <<ZRem("pending"), ZAdd("processing", t)>>}
Runs(x) ==
  /\ x.at = "run" /\ x.job \in Jobs
  /\ x.todo \in {<<>>, <<Set("processing", x.attempts)>>}
Stops(x) == x.at \in {"catch", "fail"} /\ x.job \in Jobs /\ x.todo = <<>>
Rest(st, n, s, sc) ==
  {Settle(st, n, s, sc), <<ZRem("processing"), ZAdd(s, sc)>>, <<ZAdd(s, sc)>>}
Settles(x, st, s) ==
  /\ x.at = "loop" /\ x.job \in Jobs
  /\ \E n \in Nat, sc \in Nat : (s = "pending" => sc > 0) /\ x.todo \in Rest(st, n, s, sc)
Completes(x) == Settles(x, "completed", "completed")
Retries(x) == Settles(x, "delayed", "pending")
GivesUp(x) == Settles(x, "failed", "failed")

Slot(at, j, todo, n) == [at |-> at, job |-> j, todo |-> todo, attempts |-> n]

Shaped(x) ==
  /\ x.attempts \in Nat
  /\ x = Free \/ Claims(x) \/ Runs(x) \/ Stops(x) \/ Completes(x) \/ Retries(x) \/ GivesUp(x)

\* The types, with those of the workers; a worker that completes a job has run it.
JobTypes ==
  /\ JobTypeOK
  /\ score \in [Jobs -> Nat]
  /\ worker = [w \in Workers |-> worker[w]]
  /\ \A w \in Workers : Shaped(worker[w]) /\ (Completes(worker[w]) => worker[w].job \in ran)

\* A job without a record has not been added or, after a fault, has expired.
Stored ==
  faults = 0 => \A j \in Jobs : rec[j].status = "absent" =>
    /\ score[j] = 0 /\ j \notin zset["pending"] /\ j \notin adding
    /\ \A w \in Workers : worker[w].job # j

KeptInv == JobTypes /\ Stored /\ NothingForgotten /\ CompletedRan

LEMMA Lists ==
    ASSUME NEW a, NEW b, NEW c
    PROVE  /\ <<a>> # <<>> /\ <<a, b>> # <<>> /\ <<a, b, c>> # <<>>
           /\ Head(<<a>>) = a /\ Head(<<a, b>>) = a /\ Head(<<a, b, c>>) = a
           /\ Tail(<<a>>) = <<>> /\ Tail(<<a, b>>) = <<b>> /\ Tail(<<a, b, c>>) = <<b, c>>
           /\ Len(<<a>>) = 1 /\ Len(<<a, b>>) = 2 /\ Len(<<a, b, c>>) = 3
  OBVIOUS

\* Scores are positive, so a job that was added shows it.
LEMMA ScorePositive ==
    ASSUME JobConstants, NEW j \in Jobs, NEW at \in Nat \ {0}
    PROVE  Score(j, at) \in Nat \ {0}
<1>1. Priority[j] \in 0 .. 4 /\ ScoreBase \in Nat
  BY DEF JobConstants
<1>2. 4 - Priority[j] \in {0, 1, 2, 3, 4}
  BY <1>1
<1>3. (4 - Priority[j]) * ScoreBase \in Nat
  BY <1>1, <1>2
<1> QED BY <1>3 DEF Score

LEMMA RetryPositive ==
    ASSUME JobConstants, JobTypeOK, NEW j \in Jobs, NEW n \in Nat, n < MaxAttempts
    PROVE  RetryScore(j, n) \in Nat \ {0}
<1>1. now \in Nat \ {0}
  BY DEF JobTypeOK, JobConstants
<1>2. n \in 0 .. MaxAttempts
  BY DEF JobConstants
<1>3. RetryBackoff * 2 ^ n \in Nat
  BY <1>2 DEF JobConstants
<1>4. (RetryBackoff * 2 ^ n) \div 2 \in Nat
  BY <1>3
<1>5. now + (RetryBackoff * 2 ^ n) \div 2 \in Nat \ {0}
  BY <1>1, <1>4
<1> QED BY <1>5, ScorePositive DEF RetryScore

\* The effect of one command of worker w, which holds job j.
Claimed(w, j, t) ==      \* ZREM pending
  /\ worker[w].at = "load" /\ worker[w].todo = <<ZRem("pending"), ZAdd("processing", t)>>
  /\ zset' = [zset EXCEPT !["pending"] = @ \ {j}]
  /\ rec' = rec /\ score' = score
  /\ worker' = [worker EXCEPT ![w] =
       Slot("load", j, <<ZAdd("processing", t)>>, worker[w].attempts)]
Listed(w, j, t) ==       \* ZADD processing
  /\ worker[w].at = "load" /\ worker[w].todo = <<ZAdd("processing", t)>>
  /\ zset' = [zset EXCEPT !["processing"] = @ \cup {j}]
  /\ rec' = rec /\ score' = score
  /\ worker' = [worker EXCEPT ![w] = Slot("load", j, <<>>, worker[w].attempts)]
Counted(w, j) ==         \* SET processing
  /\ worker[w].at = "run" /\ worker[w].todo = <<Set("processing", worker[w].attempts)>>
  /\ rec' = [rec EXCEPT ![j] = [status |-> "processing", attempts |-> worker[w].attempts]]
  /\ zset' = zset /\ score' = score
  /\ worker' = [worker EXCEPT ![w] = Slot("run", j, <<>>, worker[w].attempts)]
Written(w, j, st, n, s, sc) ==   \* SET completed, delayed or failed
  /\ worker[w].at = "loop" /\ worker[w].todo = Settle(st, n, s, sc)
  /\ rec' = [rec EXCEPT ![j] = [status |-> st, attempts |-> n]]
  /\ zset' = zset /\ score' = score
  /\ worker' = [worker EXCEPT ![w] =
       Slot("loop", j, <<ZRem("processing"), ZAdd(s, sc)>>, worker[w].attempts)]
Taken(w, j, s, sc) ==    \* ZREM processing
  /\ worker[w].at = "loop" /\ worker[w].todo = <<ZRem("processing"), ZAdd(s, sc)>>
  /\ zset' = [zset EXCEPT !["processing"] = @ \ {j}]
  /\ rec' = rec /\ score' = score
  /\ worker' = [worker EXCEPT ![w] = Slot("loop", j, <<ZAdd(s, sc)>>, worker[w].attempts)]
Placed(w, j, s, sc) ==   \* ZADD completed, pending or failed
  /\ worker[w].at = "loop" /\ worker[w].todo = <<ZAdd(s, sc)>>
  /\ zset' = [zset EXCEPT ![s] = @ \cup {j}]
  /\ rec' = rec
  /\ score' = IF s = "pending" THEN [score EXCEPT ![j] = sc] ELSE score
  /\ worker' = [worker EXCEPT ![w] = Free]

Outcomes == {"completed", "delayed", "failed"}
Way(st, s) == <<st, s>> \in {<<"completed", "completed">>, <<"delayed", "pending">>,
                             <<"failed", "failed">>}

Effect(w, j) ==
  \/ \E t \in Nat : Claims(worker[w]) /\ (Claimed(w, j, t) \/ Listed(w, j, t))
  \/ Runs(worker[w]) /\ Counted(w, j)
  \/ \E st \in Outcomes, s \in SetNames, n, sc \in Nat :
       /\ Way(st, s) /\ Settles(worker[w], st, s) /\ (s = "pending" => sc > 0)
       /\ \/ Written(w, j, st, n, s, sc)
          \/ Taken(w, j, s, sc) \/ Placed(w, j, s, sc)

LEMMA SendEffect ==
    ASSUME JobTypes, NEW w \in Workers, Send(w)
    PROVE  worker[w].job \in Jobs /\ Effect(w, worker[w].job)
<1> DEFINE x == worker[w]
           j == x.job
           c == Head(x.todo)
<1>0. Shaped(x) /\ x.todo # <<>>
  BY DEF JobTypes, Send
<1>1. x # Free
  BY <1>0 DEF Free
<1>2. x.job \in Jobs
  BY <1>0, <1>1 DEF Shaped, Claims, Runs, Stops, Completes, Retries, GivesUp, Settles
<1>set. c.op = "SET" => /\ rec' = [rec EXCEPT ![j] = [status |-> c.status, attempts |-> c.attempts]]
                        /\ zset' = zset /\ score' = score
  BY DEF Send
<1>rem. c.op = "ZREM" => zset' = [zset EXCEPT ![c.set] = @ \ {j}] /\ rec' = rec /\ score' = score
  BY DEF Send
<1>add. c.op = "ZADD" => /\ zset' = [zset EXCEPT ![c.set] = @ \cup {j}] /\ rec' = rec
                         /\ score' = IF c.set = "pending" THEN [score EXCEPT ![j] = c.score] ELSE score
  BY DEF Send
<1>on. x.at # "loop" \/ Len(x.todo) # 1
         => worker' = [worker EXCEPT ![w] = Slot(x.at, j, Tail(x.todo), x.attempts)]
  BY DEF Send, Goto, Slot
<1>3. ASSUME Claims(x) PROVE Effect(w, j)
  <2>1. PICK t \in Nat : \/ x.todo = <<ZAdd("processing", t)>>
                         \/ x.todo = <<ZRem("pending"), ZAdd("processing", t)>>
    BY <1>0, <1>3 DEF Claims
  <2>2. x.at = "load"
    BY <1>3 DEF Claims
  <2>3. worker' = [worker EXCEPT ![w] = Slot("load", j, Tail(x.todo), x.attempts)]
    BY <1>on, <2>2
  <2>4. CASE x.todo = <<ZAdd("processing", t)>>
    <3>1. c = ZAdd("processing", t) /\ Tail(x.todo) = <<>>
      BY <2>4, Lists
    <3>2. /\ zset' = [zset EXCEPT !["processing"] = @ \cup {j}]
          /\ rec' = rec /\ score' = score
      BY <1>add, <3>1 DEF ZAdd
    <3> QED BY <1>3, <2>2, <2>3, <2>4, <3>1, <3>2 DEF Effect, Listed
  <2>5. CASE x.todo = <<ZRem("pending"), ZAdd("processing", t)>>
    <3>1. c = ZRem("pending") /\ Tail(x.todo) = <<ZAdd("processing", t)>>
      BY <2>5, Lists
    <3>2. /\ zset' = [zset EXCEPT !["pending"] = @ \ {j}]
          /\ rec' = rec /\ score' = score
      BY <1>rem, <3>1 DEF ZRem
    <3> QED BY <1>3, <2>2, <2>3, <2>5, <3>1, <3>2 DEF Effect, Claimed
  <2> QED BY <2>1, <2>4, <2>5
<1>4. ASSUME Runs(x) PROVE Effect(w, j)
  <2>1. x.at = "run" /\ x.todo = <<Set("processing", x.attempts)>>
    BY <1>0, <1>4 DEF Runs
  <2>2. c = Set("processing", x.attempts) /\ Tail(x.todo) = <<>>
    BY <2>1, Lists
  <2>3. worker' = [worker EXCEPT ![w] = Slot("run", j, Tail(x.todo), x.attempts)]
    BY <1>on, <2>1
  <2>4. /\ rec' = [rec EXCEPT ![j] = [status |-> "processing", attempts |-> x.attempts]]
        /\ zset' = zset /\ score' = score
    BY <1>set, <2>2 DEF Set
  <2> QED BY <1>4, <2>1, <2>2, <2>3, <2>4 DEF Effect, Counted
<1>5. ASSUME NEW st \in Outcomes, NEW s \in SetNames, Way(st, s), Settles(x, st, s)
      PROVE  Effect(w, j)
  <2>1. PICK n \in Nat, sc \in Nat : (s = "pending" => sc > 0) /\ x.todo \in Rest(st, n, s, sc)
    BY <1>5 DEF Settles
  <2>2. x.at = "loop"
    BY <1>5 DEF Settles
  <2>3. CASE x.todo = Settle(st, n, s, sc)
    <3>1. /\ c = Set(st, n) /\ Tail(x.todo) = <<ZRem("processing"), ZAdd(s, sc)>>
          /\ Len(x.todo) = 3
      BY <2>3, Lists DEF Settle
    <3>2. worker' = [worker EXCEPT ![w] = Slot("loop", j, Tail(x.todo), x.attempts)]
      BY <1>on, <2>2, <3>1
    <3>3. /\ rec' = [rec EXCEPT ![j] = [status |-> st, attempts |-> n]]
          /\ zset' = zset /\ score' = score
      BY <1>set, <3>1 DEF Set
    <3>4. Written(w, j, st, n, s, sc)
      BY <2>2, <2>3, <3>1, <3>2, <3>3 DEF Written
    <3> QED BY <1>5, <2>1, <3>4 DEF Effect
  <2>4. CASE x.todo = <<ZRem("processing"), ZAdd(s, sc)>>
    <3>1. /\ c = ZRem("processing") /\ Tail(x.todo) = <<ZAdd(s, sc)>> /\ Len(x.todo) = 2
      BY <2>4, Lists
    <3>2. worker' = [worker EXCEPT ![w] = Slot("loop", j, Tail(x.todo), x.attempts)]
      BY <1>on, <2>2, <3>1
    <3>3. /\ zset' = [zset EXCEPT !["processing"] = @ \ {j}]
          /\ rec' = rec /\ score' = score
      BY <1>rem, <3>1 DEF ZRem
    <3>4. Taken(w, j, s, sc)
      BY <2>2, <2>4, <3>1, <3>2, <3>3 DEF Taken
    <3> QED BY <1>5, <2>1, <3>4 DEF Effect
  <2>5. CASE x.todo = <<ZAdd(s, sc)>>
    <3>1. c = ZAdd(s, sc) /\ Len(x.todo) = 1
      BY <2>5, Lists
    <3>2. worker' = [worker EXCEPT ![w] = Free]
      BY <2>2, <3>1 DEF Send, Release
    <3>3. /\ zset' = [zset EXCEPT ![s] = @ \cup {j}]
          /\ rec' = rec
          /\ score' = IF s = "pending" THEN [score EXCEPT ![j] = sc] ELSE score
      BY <1>add, <3>1 DEF ZAdd
    <3>4. Placed(w, j, s, sc)
      BY <2>2, <2>5, <3>2, <3>3 DEF Placed
    <3> QED BY <1>5, <2>1, <3>4 DEF Effect
  <2> QED BY <2>1, <2>3, <2>4, <2>5 DEF Rest
<1>6. ~Stops(x)
  BY <1>0 DEF Stops
<1>7. /\ Way("completed", "completed") /\ Way("delayed", "pending") /\ Way("failed", "failed")
      /\ {"completed", "delayed", "failed"} \subseteq Outcomes
      /\ {"completed", "pending", "failed"} \subseteq SetNames
  BY DEF Way, Outcomes, SetNames
<1> QED BY <1>0, <1>1, <1>2, <1>3, <1>4, <1>5, <1>6, <1>7 DEF Shaped, Completes, Retries, GivesUp

LEMMA FreeShape == Shaped(Free) /\ ~Completes(Free) /\ Free.job = None
<1>1. Shaped(Free) /\ Free.job = None
  BY DEF Shaped, Free
<1>2. ASSUME Completes(Free) PROVE FALSE
  <2>1. PICK n \in Nat, sc \in Nat : Free.todo \in Rest("completed", n, "completed", sc)
    BY <1>2 DEF Completes, Settles
  <2> QED BY <2>1, Lists DEF Free, Rest, Settle
<1> QED BY <1>1, <1>2

\* A step that changes one worker's slot and keeps the others'.
LEMMA OneSlot ==
    ASSUME JobTypes, NEW w \in Workers, NEW y, worker' = [worker EXCEPT ![w] = y],
           Shaped(y), Completes(y) => y.job \in ran', ran \subseteq ran'
    PROVE  /\ worker' = [v \in Workers |-> worker'[v]]
           /\ \A v \in Workers : Shaped(worker'[v]) /\ (Completes(worker'[v]) => worker'[v].job \in ran')
           /\ worker'[w] = y /\ \A v \in Workers \ {w} : worker'[v] = worker[v]
<1>1. worker'[w] = y /\ \A v \in Workers \ {w} : worker'[v] = worker[v]
  BY DEF JobTypes
<1>2. worker' = [v \in Workers |-> worker'[v]]
  BY DEF JobTypes
<1>3. \A v \in Workers : Shaped(worker'[v]) /\ (Completes(worker'[v]) => worker'[v].job \in ran')
  <2> TAKE v \in Workers
  <2>1. CASE v = w
    BY <1>1, <2>1
  <2>2. CASE v # w
    BY <1>1, <2>2 DEF JobTypes
  <2> QED BY <2>1, <2>2
<1> QED BY <1>1, <1>2, <1>3

LEMMA SlotTypes ==
    ASSUME NEW y, Shaped(y)
    PROVE  y.at \in {"loop", "load", "run", "catch", "fail"} /\ y.job \in Jobs \cup {None}
  BY DEF Shaped, Free, Claims, Runs, Stops, Completes, Retries, GivesUp, Settles

\* The shapes a worker moves into.
LEMMA NewShapes ==
    ASSUME JobConstants, NEW j \in Jobs, NEW n \in Nat, NEW t \in Nat, NEW sc \in Nat
    PROVE  /\ Shaped(Slot("load", j, <<>>, n)) /\ ~Completes(Slot("load", j, <<>>, n))
           /\ \A todo \in {<<ZAdd("processing", t)>>, <<ZRem("pending"), ZAdd("processing", t)>>} :
                Shaped(Slot("load", j, todo, n)) /\ ~Completes(Slot("load", j, todo, n))
           /\ \A todo \in {<<>>, <<Set("processing", n)>>} :
                Shaped(Slot("run", j, todo, n)) /\ ~Completes(Slot("run", j, todo, n))
           /\ \A at \in {"catch", "fail"} :
                Shaped(Slot(at, j, <<>>, n)) /\ ~Completes(Slot(at, j, <<>>, n))
<1>1. \A todo \in {<<>>, <<ZAdd("processing", t)>>, <<ZRem("pending"), ZAdd("processing", t)>>} :
        Claims(Slot("load", j, todo, n))
  BY DEF Slot, Claims
<1>2. \A todo \in {<<>>, <<Set("processing", n)>>} : Runs(Slot("run", j, todo, n))
  BY DEF Slot, Runs
<1>3. \A at \in {"catch", "fail"} : Stops(Slot(at, j, <<>>, n))
  BY DEF Slot, Stops
<1>4. \A at, todo : Slot(at, j, todo, n).attempts = n /\ (at # "loop" => ~Completes(Slot(at, j, todo, n)))
  BY DEF Slot, Completes, Settles
<1> QED BY <1>1, <1>2, <1>3, <1>4 DEF Shaped

LEMMA RestLast ==
    ASSUME NEW st, NEW m, NEW s, NEW sc, NEW todo \in Rest(st, m, s, sc)
    PROVE  todo # <<>> /\ todo[Len(todo)] = ZAdd(s, sc)
<1> DEFINE a == Set(st, m)
           b == ZRem("processing")
           c == ZAdd(s, sc)
<1>1. todo \in {<<a, b, c>>, <<b, c>>, <<c>>}
  BY DEF Rest, Settle
<1> HIDE DEF a, b, c
<1>2. todo # <<>> /\ todo[Len(todo)] = c
  BY <1>1
<1> QED BY <1>2 DEF c

LEMMA SettleShape ==
    ASSUME NEW j \in Jobs, NEW n \in Nat, NEW st \in Outcomes, NEW s \in SetNames, Way(st, s),
           NEW m \in Nat, NEW sc \in Nat, s = "pending" => sc > 0,
           NEW todo \in Rest(st, m, s, sc)
    PROVE  /\ Settles(Slot("loop", j, todo, n), st, s) /\ Shaped(Slot("loop", j, todo, n))
           /\ Slot("loop", j, todo, n).job = j
           /\ Completes(Slot("loop", j, todo, n)) => st = "completed"
<1>1. Settles(Slot("loop", j, todo, n), st, s)
  BY DEF Slot, Settles
<1>2. Shaped(Slot("loop", j, todo, n))
  BY <1>1 DEF Shaped, Way, Completes, Retries, GivesUp, Slot
<1>3. ASSUME Completes(Slot("loop", j, todo, n)) PROVE st = "completed"
  <2>1. PICK b \in Nat, c \in Nat : todo \in Rest("completed", b, "completed", c)
    BY <1>3 DEF Completes, Settles, Slot
  <2>2. todo[Len(todo)] = ZAdd("completed", c)
    BY <2>1, RestLast
  <2>3. todo[Len(todo)] = ZAdd(s, sc)
    BY RestLast
  <2>4. s = "completed"
    BY <2>2, <2>3 DEF ZAdd
  <2> QED BY <2>4 DEF Way
<1> QED BY <1>1, <1>2, <1>3 DEF Slot

LEMMA SettleSlot ==
    ASSUME NEW j \in Jobs, NEW st \in Outcomes, NEW s \in SetNames, Way(st, s),
           NEW m \in Nat, NEW sc \in Nat, s = "pending" => sc > 0
    PROVE  LET y == Slot("loop", j, Settle(st, m, s, sc), 0)
           IN Shaped(y) /\ y.job = j /\ (Completes(y) => st = "completed")
<1>1. Settle(st, m, s, sc) \in Rest(st, m, s, sc)
  BY DEF Rest
<1> QED BY <1>1, SettleShape

LEMMA Ways ==
    /\ Way("completed", "completed") /\ Way("delayed", "pending") /\ Way("failed", "failed")
    /\ {"completed", "delayed", "failed"} \subseteq Outcomes
    /\ {"completed", "pending", "failed"} \subseteq SetNames
  BY DEF Way, Outcomes, SetNames

LEMMA KeptInit == JobConstants /\ JobInit => KeptInv
<1> SUFFICES ASSUME JobConstants, JobInit PROVE KeptInv
  OBVIOUS
<1>0. \A w \in Workers : worker[w] = Free
  BY DEF JobInit
<1>1. JobTypes
  <2>1. JobTypeOK
    BY <1>0 DEF JobInit, JobTypeOK, NoRecord, Free, JobConstants, SetNames
  <2> QED BY <1>0, <2>1, FreeShape DEF JobTypes, JobInit
<1>2. Stored /\ NothingForgotten /\ CompletedRan
  BY <1>0, FreeShape DEF JobInit, Stored, NothingForgotten, CompletedRan, Added, JobConstants, SetNames
<1> QED BY <1>1, <1>2 DEF KeptInv

\* Steps that move one worker and leave the records and the sets alone.
LEMMA WorkerMoves ==
    ASSUME JobConstants, KeptInv, NEW w \in Workers, NEW y,
           worker' = [worker EXCEPT ![w] = y], Shaped(y), Completes(y) => y.job \in ran',
           \/ y.job = worker[w].job
           \/ y.job = None /\ faults' # 0
           \/ worker[w] = Free /\ y.job \in zset["pending"],
           ran \subseteq ran', ran' \subseteq Jobs, faults' \in 0 .. MaxFaults, faults <= faults',
           now' = now, rec' = rec, score' = score, zset' = zset, adding' = adding, doubted' = doubted
    PROVE  KeptInv'
<1>1. JobTypes' /\ worker'[w] = y /\ \A v \in Workers \ {w} : worker'[v] = worker[v]
  BY OneSlot, SlotTypes DEF KeptInv, JobTypes, JobTypeOK
<1>2. faults' = 0 => faults = 0
  BY DEF KeptInv, JobTypes, JobTypeOK, JobConstants
<1>3. Stored'
  <2> SUFFICES ASSUME faults' = 0, NEW j \in Jobs, rec[j].status = "absent", NEW v \in Workers
               PROVE  score[j] = 0 /\ j \notin zset["pending"] /\ j \notin adding /\ worker'[v].job # j
    BY DEF Stored
  <2>1. /\ score[j] = 0 /\ j \notin zset["pending"] /\ j \notin adding
        /\ \A u \in Workers : worker[u].job # j
    BY <1>2 DEF KeptInv, Stored
  <2>2. CASE v = w
    BY <1>1, <2>1, <2>2
  <2>3. CASE v # w
    BY <1>1, <2>1, <2>3
  <2> QED BY <2>1, <2>2, <2>3
<1>4. NothingForgotten'
  <2> SUFFICES ASSUME faults' = 0, NEW j \in Jobs, Added(j)
               PROVE  Held(j)' \/ \E s \in SetNames : j \in zset[s]
    BY DEF NothingForgotten, Added
  <2>1. Held(j) \/ \E s \in SetNames : j \in zset[s]
    BY <1>2 DEF KeptInv, NothingForgotten
  <2>2. ASSUME NEW v \in Workers, worker[v].job = j PROVE Held(j)'
    <3>1. CASE v = w
      <4>1. y.job = j
        BY <2>2, <3>1, FreeShape DEF JobConstants
      <4> QED BY <1>1, <4>1 DEF Held
    <3>2. CASE v # w
      BY <1>1, <2>2, <3>2 DEF Held
    <3> QED BY <3>1, <3>2
  <2> QED BY <2>1, <2>2 DEF Held
<1>5. CompletedRan'
  BY DEF KeptInv, CompletedRan
<1> QED BY <1>1, <1>3, <1>4, <1>5 DEF KeptInv

LEMMA Holding ==
    ASSUME JobTypes, NEW w \in Workers
    PROVE  /\ worker[w].attempts \in Nat
           /\ worker[w].at # "loop" => worker[w].job \in Jobs
           /\ worker[w].at = "loop" /\ worker[w].todo = <<>> => worker[w] = Free
           /\ worker[w].job \in Jobs \cup {None}
<1>1. Shaped(worker[w])
  BY DEF JobTypes
<1>2. \A st, s : Settles(worker[w], st, s) => worker[w].todo # <<>>
  BY RestLast DEF Settles
<1>3. worker[w].at # "loop" => worker[w].job \in Jobs
  BY <1>1 DEF Shaped, Claims, Runs, Stops, Completes, Retries, GivesUp, Settles, Free
<1>4. worker[w].at = "loop" /\ worker[w].todo = <<>> => worker[w] = Free
  BY <1>1, <1>2 DEF Shaped, Claims, Runs, Stops, Completes, Retries, GivesUp
<1> QED BY <1>1, <1>3, <1>4, SlotTypes DEF Shaped

LEMMA KeptByPeek ==
    ASSUME JobConstants, KeptInv, NEW w \in Workers, Peek(w)
    PROVE  KeptInv'
<1>1. worker[w] = Free
  BY Holding DEF KeptInv, Peek
<1>2. PICK j \in zset["pending"] : worker' = [worker EXCEPT ![w] =
             Slot("load", j, <<ZRem("pending"), ZAdd("processing", now)>>, 0)]
  BY DEF Peek, Slot
<1>3. j \in Jobs /\ now \in Nat
  BY DEF KeptInv, JobTypes, JobTypeOK, JobConstants, SetNames
<1> DEFINE y == Slot("load", j, <<ZRem("pending"), ZAdd("processing", now)>>, 0)
<1>4. Shaped(y) /\ ~Completes(y) /\ y.job = j
  BY <1>3, NewShapes DEF Slot
<1>5. /\ ran' = ran /\ faults' = faults /\ ran \subseteq Jobs /\ faults \in 0 .. MaxFaults
      /\ faults <= faults
  BY DEF Peek, KeptInv, JobTypes, JobTypeOK, JobConstants
<1>6. /\ now' = now /\ rec' = rec /\ score' = score /\ zset' = zset /\ adding' = adding
      /\ doubted' = doubted
  BY DEF Peek
<1> QED BY <1>1, <1>2, <1>4, <1>5, <1>6, WorkerMoves

\* A step that goes on with the job in hand.
LEMMA KeptByGoto ==
    ASSUME JobConstants, KeptInv, NEW w \in Workers, NEW y,
           worker' = [worker EXCEPT ![w] = y], Shaped(y), y.job = worker[w].job,
           Completes(y) => y.job \in ran', ran' \in {ran, ran \cup {y.job}}, y.job \in Jobs,
           now' = now, rec' = rec, score' = score, zset' = zset, adding' = adding,
           faults' = faults, doubted' = doubted
    PROVE  KeptInv'
<1>1. ran \subseteq ran' /\ ran' \subseteq Jobs /\ faults' \in 0 .. MaxFaults /\ faults <= faults'
  BY DEF KeptInv, JobTypes, JobTypeOK, JobConstants
<1> QED BY <1>1, WorkerMoves

\* A step that gives up the job in hand, after a fault.
LEMMA KeptByRelease ==
    ASSUME JobConstants, KeptInv, NEW w \in Workers, Release(w), faults' # 0,
           faults' \in {faults, faults + 1}, faults' <= MaxFaults,
           now' = now, rec' = rec, score' = score, zset' = zset, adding' = adding, ran' = ran,
           doubted' = doubted
    PROVE  KeptInv'
<1>1. faults' \in 0 .. MaxFaults /\ faults <= faults'
  BY DEF KeptInv, JobTypes, JobTypeOK, JobConstants
<1>2. ran \subseteq ran' /\ ran' \subseteq Jobs
  BY DEF KeptInv, JobTypes, JobTypeOK
<1>3. worker' = [worker EXCEPT ![w] = Free] /\ Free.job = None
  BY FreeShape DEF Release
<1> QED BY <1>1, <1>2, <1>3, WorkerMoves, FreeShape

\* A record that is gone has expired, and that is a fault.
LEMMA GoneIsFault ==
    ASSUME KeptInv, NEW w \in Workers, worker[w].job \in Jobs, rec[worker[w].job] = NoRecord
    PROVE  faults # 0
  BY DEF KeptInv, Stored, NoRecord

LEMMA KeptByLoad ==
    ASSUME JobConstants, KeptInv, NEW w \in Workers, Load(w)
    PROVE  KeptInv'
<1> DEFINE j == worker[w].job
           n == rec[j].attempts + 1
<1>0. j \in Jobs /\ faults \in 0 .. MaxFaults /\ MaxFaults \in Nat
  BY Holding DEF KeptInv, JobTypes, JobTypeOK, Load, Ready, JobConstants
<1>1. n \in Nat
  BY <1>0 DEF KeptInv, JobTypes, JobTypeOK
<1>2. CASE rec[j] = NoRecord /\ Release(w)
  BY <1>0, <1>2, GoneIsFault, KeptByRelease DEF Load
<1>3. CASE Goto(w, "fail", <<>>, 0)
  BY <1>0, <1>3, NewShapes, KeptByGoto DEF Load, Goto, Slot
<1>4. CASE Goto(w, "run", <<Set("processing", n)>>, n)
  BY <1>0, <1>1, <1>4, NewShapes, KeptByGoto DEF Load, Goto, Slot
<1> QED BY <1>2, <1>3, <1>4 DEF Load

LEMMA KeptByHandler ==
    ASSUME JobConstants, KeptInv, NEW w \in Workers, HandlerDone(w) \/ HandlerFails(w)
    PROVE  KeptInv'
<1> DEFINE j == worker[w].job
           n == worker[w].attempts
<1>0. j \in Jobs /\ n \in Nat
  BY Holding DEF KeptInv, HandlerDone, HandlerFails, Ready
<1>1. CASE HandlerDone(w)
  <2> DEFINE y == Slot("loop", j, Settle("completed", n, "completed", 0), 0)
  <2>1. Shaped(y) /\ y.job = j
    BY <1>0, SettleSlot, Ways
  <2>2. worker' = [worker EXCEPT ![w] = y]
    BY <1>1 DEF HandlerDone, Goto, Slot
  <2> QED BY <1>0, <1>1, <2>1, <2>2, KeptByGoto DEF HandlerDone
<1>2. CASE HandlerFails(w)
  BY <1>0, <1>2, NewShapes, KeptByGoto DEF HandlerFails, Goto, Slot
<1> QED BY <1>1, <1>2

LEMMA KeptByCatch ==
    ASSUME JobConstants, KeptInv, NEW w \in Workers, Catch(w)
    PROVE  KeptInv'
<1> DEFINE j == worker[w].job
           r == rec[j]
<1>0. j \in Jobs /\ faults \in 0 .. MaxFaults /\ MaxFaults \in Nat
  BY Holding DEF KeptInv, JobTypes, JobTypeOK, Catch, Ready, JobConstants
<1>1. r.attempts \in Nat
  BY <1>0 DEF KeptInv, JobTypes, JobTypeOK
<1>2. CASE r = NoRecord /\ Release(w)
  BY <1>0, <1>2, GoneIsFault, KeptByRelease DEF Catch
<1>3. CASE r.attempts < MaxAttempts /\ Goto(w, "loop", Retry(w, r), 0)
  <2> DEFINE sc == RetryScore(j, r.attempts)
             y == Slot("loop", j, Settle("delayed", r.attempts, "pending", sc), 0)
  <2>1. sc \in Nat /\ sc > 0
    BY <1>0, <1>1, <1>3, RetryPositive DEF KeptInv, JobTypes
  <2>2. Shaped(y) /\ y.job = j /\ ~Completes(y)
    BY <1>0, <1>1, <2>1, SettleSlot, Ways
  <2>3. worker' = [worker EXCEPT ![w] = y]
    BY <1>3 DEF Goto, Slot, Retry
  <2> QED BY <1>0, <2>2, <2>3, KeptByGoto DEF Catch
<1>4. CASE Goto(w, "fail", <<>>, 0)
  BY <1>0, <1>4, NewShapes, KeptByGoto DEF Catch, Goto, Slot
<1> QED BY <1>2, <1>3, <1>4 DEF Catch

LEMMA KeptByMoveToFailed ==
    ASSUME JobConstants, KeptInv, NEW w \in Workers, MoveToFailed(w)
    PROVE  KeptInv'
<1> DEFINE j == worker[w].job
           r == rec[j]
<1>0. j \in Jobs /\ faults \in 0 .. MaxFaults /\ MaxFaults \in Nat
  BY Holding DEF KeptInv, JobTypes, JobTypeOK, MoveToFailed, Ready, JobConstants
<1>1. r.attempts \in Nat
  BY <1>0 DEF KeptInv, JobTypes, JobTypeOK
<1>2. CASE r = NoRecord /\ Release(w)
  BY <1>0, <1>2, GoneIsFault, KeptByRelease DEF MoveToFailed
<1>3. CASE Goto(w, "loop", Settle("failed", r.attempts, "failed", 0), 0)
  <2> DEFINE y == Slot("loop", j, Settle("failed", r.attempts, "failed", 0), 0)
  <2>1. Shaped(y) /\ y.job = j /\ ~Completes(y)
    BY <1>0, <1>1, SettleSlot, Ways
  <2>2. worker' = [worker EXCEPT ![w] = y]
    BY <1>3 DEF Goto, Slot
  <2> QED BY <1>0, <2>1, <2>2, KeptByGoto DEF MoveToFailed
<1> QED BY <1>2, <1>3 DEF MoveToFailed

LEMMA KeptByFault ==
    ASSUME JobConstants, KeptInv, NEW w \in Workers, JobCommandFails(w) \/ WorkerDies(w)
    PROVE  KeptInv'
<1>1. /\ worker[w].job \in Jobs /\ faults' = faults + 1 /\ faults' # 0 /\ faults' <= MaxFaults
      /\ faults' \in 0 .. MaxFaults /\ faults <= faults'
      /\ UNCHANGED <<now, rec, score, zset, adding, ran, doubted>> /\ ran \subseteq Jobs
  BY Holding DEF KeptInv, JobTypes, JobTypeOK, JobCommandFails, WorkerDies, JobConstants
<1>2. CASE Release(w)
  BY <1>1, <1>2, KeptByRelease
<1>3. CASE Goto(w, "catch", <<>>, 0)
  BY <1>1, <1>3, NewShapes, WorkerMoves DEF Goto, Slot
<1> QED BY <1>2, <1>3 DEF JobCommandFails, WorkerDies

\* The command that ends the try has an effect nobody sees.
LEMMA LateEffect ==
    ASSUME JobTypes, NEW w \in Workers, JobCommandLate(w)
    PROVE  /\ worker[w].job \in Jobs /\ worker[w].at = "loop"
           /\ \E s \in {"completed", "failed"} :
                /\ s = "completed" => Completes(worker[w])
                /\ zset' = [zset EXCEPT ![s] = @ \cup {worker[w].job}]
<1> DEFINE x == worker[w]
<1>0. Shaped(x) /\ x.at = "loop" /\ Len(x.todo) = 1 /\ InTry(w)
  BY DEF JobTypes, JobCommandLate
<1>1. PICK s \in {"completed", "failed"} : x.todo # <<>> /\ x.todo[Len(x.todo)] = ZAdd(s, 0)
  BY <1>0 DEF InTry
<1>2. x # Free
  BY <1>1 DEF Free
<1>3. PICK st \in Outcomes, q \in SetNames : Way(st, q) /\ Settles(x, st, q)
  BY <1>0, <1>2, Ways DEF Shaped, Claims, Runs, Stops, Completes, Retries, GivesUp
<1>4. PICK n \in Nat, sc \in Nat : x.todo \in Rest(st, n, q, sc)
  BY <1>3 DEF Settles
<1>5. x.todo[Len(x.todo)] = ZAdd(q, sc)
  BY <1>4, RestLast
<1>6. q = s
  BY <1>1, <1>5 DEF ZAdd
<1>7. x.todo = <<ZAdd(q, sc)>>
  BY <1>0, <1>4, Lists DEF Rest, Settle
<1>8. Head(x.todo).set = s
  BY <1>6, <1>7, Lists DEF ZAdd
<1>9. s = "completed" => Completes(x)
  BY <1>3, <1>6 DEF Way, Completes
<1>10. zset' = [zset EXCEPT ![s] = @ \cup {x.job}]
  BY <1>8 DEF JobCommandLate
<1> QED BY <1>0, <1>3, <1>9, <1>10 DEF Settles

LEMMA KeptByLate ==
    ASSUME JobConstants, KeptInv, NEW w \in Workers, JobCommandLate(w)
    PROVE  KeptInv'
<1> DEFINE j == worker[w].job
           y == Slot("catch", j, <<>>, 0)
<1>0. j \in Jobs
  BY LateEffect DEF KeptInv
<1>1. PICK s \in {"completed", "failed"} :
        /\ s = "completed" => Completes(worker[w])
        /\ zset' = [zset EXCEPT ![s] = @ \cup {j}]
  BY LateEffect DEF KeptInv
<1>2. /\ faults' \in 0 .. MaxFaults /\ faults' # 0 /\ doubted' \subseteq Jobs
      /\ now' = now /\ rec' = rec /\ score' = score /\ adding' = adding /\ ran' = ran
  BY <1>0 DEF KeptInv, JobTypes, JobTypeOK, JobCommandLate, JobConstants
<1>3. worker' = [worker EXCEPT ![w] = y]
  BY DEF JobCommandLate, Goto, Slot
<1>4. Shaped(y) /\ ~Completes(y)
  BY <1>0, NewShapes
<1>5. zset' \in [SetNames -> SUBSET Jobs]
  BY <1>0, <1>1 DEF KeptInv, JobTypes, JobTypeOK, SetNames
<1>6. JobTypes'
  BY <1>2, <1>3, <1>4, <1>5, OneSlot, SlotTypes DEF KeptInv, JobTypes, JobTypeOK
<1>7. CompletedRan'
  <2>1. s = "completed" => j \in ran
    BY <1>1 DEF KeptInv, JobTypes
  <2>2. zset'["completed"] \subseteq zset["completed"] \cup (IF s = "completed" THEN {j} ELSE {})
    BY <1>1 DEF KeptInv, JobTypes, JobTypeOK, SetNames
  <2> QED BY <1>2, <2>1, <2>2 DEF KeptInv, CompletedRan
<1> QED BY <1>2, <1>6, <1>7 DEF KeptInv, Stored, NothingForgotten

\* A command that leaves the job with its worker.
LEMMA KeptByCommand ==
    ASSUME JobConstants, KeptInv, NEW w \in Workers, NEW j \in Jobs, worker[w].job = j, NEW y,
           worker' = [worker EXCEPT ![w] = y], Shaped(y), y.job = j,
           Completes(y) => Completes(worker[w]),
           NEW st \in {"processing", "completed", "delayed", "failed"}, NEW n \in Nat,
           rec' \in {rec, [rec EXCEPT ![j] = [status |-> st, attempts |-> n]]},
           NEW p \in {"pending", "processing"},
           zset' \in {zset, [zset EXCEPT ![p] = @ \ {j}], [zset EXCEPT !["processing"] = @ \cup {j}]},
           score' = score, UNCHANGED <<now, adding, ran, doubted, faults>>
    PROVE  KeptInv'
<1>0. Completes(y) => y.job \in ran'
  BY DEF KeptInv, JobTypes
<1>1. /\ worker' = [v \in Workers |-> worker'[v]]
      /\ \A v \in Workers : Shaped(worker'[v]) /\ (Completes(worker'[v]) => worker'[v].job \in ran')
      /\ worker'[w] = y /\ \A v \in Workers \ {w} : worker'[v] = worker[v]
  BY <1>0, OneSlot DEF KeptInv
<1>2. \A v \in Workers : worker'[v].job = worker[v].job
  BY <1>1
<1>3. /\ zset' \in [SetNames -> SUBSET Jobs]
      /\ zset'["pending"] \subseteq zset["pending"] /\ zset'["completed"] = zset["completed"]
      /\ \A s \in SetNames, k \in Jobs \ {j} : k \in zset[s] => k \in zset'[s]
  BY DEF KeptInv, JobTypes, JobTypeOK, SetNames
<1>4. /\ \A k \in Jobs : rec'[k].status = "absent" => rec[k].status = "absent"
      /\ rec' \in [Jobs -> [status : {"absent", "queued", "processing", "delayed",
                                     "completed", "failed"}, attempts : Nat]]
  BY DEF KeptInv, JobTypes, JobTypeOK
<1>5. JobTypes'
  BY <1>1, <1>3, <1>4, SlotTypes DEF KeptInv, JobTypes, JobTypeOK
<1>6. Stored'
  BY <1>2, <1>3, <1>4 DEF KeptInv, Stored
<1>7. NothingForgotten'
  <2> SUFFICES ASSUME faults = 0, NEW k \in Jobs, Added(k)
               PROVE  Held(k)' \/ \E s \in SetNames : k \in zset'[s]
    BY DEF NothingForgotten, Added
  <2>1. Held(k) \/ \E s \in SetNames : k \in zset[s]
    BY DEF KeptInv, NothingForgotten
  <2>2. CASE k = j
    BY <1>1, <2>2 DEF Held
  <2>3. CASE k # j
    BY <1>2, <1>3, <2>1, <2>3 DEF Held
  <2> QED BY <2>2, <2>3
<1>8. CompletedRan'
  BY <1>3 DEF KeptInv, CompletedRan
<1> QED BY <1>5, <1>6, <1>7, <1>8 DEF KeptInv

\* The last command of a worker: its job is in a set again.
LEMMA KeptByPlacing ==
    ASSUME JobConstants, KeptInv, NEW w \in Workers, NEW j \in Jobs, worker[w].job = j,
           NEW st \in Outcomes, NEW s \in SetNames, NEW sc \in Nat, Way(st, s),
           Settles(worker[w], st, s), Placed(w, j, s, sc), UNCHANGED <<now, adding, ran, doubted, faults>>
    PROVE  KeptInv'
<1>1. /\ worker' = [v \in Workers |-> worker'[v]]
      /\ \A v \in Workers : Shaped(worker'[v]) /\ (Completes(worker'[v]) => worker'[v].job \in ran')
      /\ worker'[w] = Free /\ \A v \in Workers \ {w} : worker'[v] = worker[v]
  BY OneSlot, FreeShape DEF KeptInv, Placed
<1>2. \A v \in Workers : worker'[v].job = worker[v].job \/ worker'[v].job = None
  BY <1>1, FreeShape
<1>3. /\ zset' \in [SetNames -> SUBSET Jobs] /\ j \in zset'[s]
      /\ \A q \in SetNames : zset[q] \subseteq zset'[q] /\ zset'[q] \subseteq zset[q] \cup {j}
      /\ s # "completed" => zset'["completed"] = zset["completed"]
  BY DEF KeptInv, JobTypes, JobTypeOK, SetNames, Placed
<1>4. rec' = rec /\ score' \in [Jobs -> Nat] /\ \A k \in Jobs \ {j} : score'[k] = score[k]
  BY DEF KeptInv, JobTypes, JobTypeOK, Placed
<1>5. JobTypes'
  BY <1>1, <1>3, <1>4, SlotTypes DEF KeptInv, JobTypes, JobTypeOK
<1>6. Stored'
  <2> SUFFICES ASSUME faults = 0, NEW k \in Jobs, rec[k].status = "absent"
               PROVE  /\ score'[k] = 0 /\ k \notin zset'["pending"] /\ k \notin adding
                      /\ \A v \in Workers : worker'[v].job # k
    BY <1>4 DEF Stored
  <2>1. /\ score[k] = 0 /\ k \notin zset["pending"] /\ k \notin adding
        /\ \A v \in Workers : worker[v].job # k
    BY DEF KeptInv, Stored
  <2>2. k # j
    BY <2>1
  <2>3. k \notin zset'["pending"]
    BY <1>3, <2>1, <2>2 DEF SetNames
  <2> QED BY <1>2, <1>4, <2>1, <2>2, <2>3 DEF JobConstants
<1>7. NothingForgotten'
  <2> SUFFICES ASSUME faults = 0, NEW k \in Jobs, score'[k] # 0
               PROVE  Held(k)' \/ \E q \in SetNames : k \in zset'[q]
    BY DEF NothingForgotten, Added
  <2>1. CASE k = j
    BY <1>3, <2>1
  <2>2. CASE k # j
    <3>1. Held(k) \/ \E q \in SetNames : k \in zset[q]
      BY <1>4, <2>2 DEF KeptInv, NothingForgotten, Added
    <3>2. Held(k) => Held(k)'
      BY <1>1, <2>2 DEF Held
    <3> QED BY <1>3, <3>1, <3>2
  <2> QED BY <2>1, <2>2
<1>8. CompletedRan'
  <2>1. s = "completed" => j \in ran
    BY DEF KeptInv, JobTypes, Way, Completes
  <2> QED BY <1>3, <2>1 DEF KeptInv, CompletedRan, SetNames
<1> QED BY <1>5, <1>6, <1>7, <1>8 DEF KeptInv

LEMMA KeptBySend ==
    ASSUME JobConstants, KeptInv, NEW w \in Workers, Send(w)
    PROVE  KeptInv'
<1> DEFINE j == worker[w].job
           m == worker[w].attempts
<1>0. j \in Jobs /\ m \in Nat /\ UNCHANGED <<now, adding, ran, doubted, faults>>
  BY SendEffect, Holding DEF KeptInv, Send
<1>1. ASSUME NEW t \in Nat, Claimed(w, j, t) PROVE KeptInv'
  BY <1>0, <1>1, NewShapes, KeptByCommand DEF Claimed, Slot
<1>2. ASSUME NEW t \in Nat, Listed(w, j, t) PROVE KeptInv'
  BY <1>0, <1>2, NewShapes, KeptByCommand DEF Listed, Slot
<1>3. ASSUME Counted(w, j) PROVE KeptInv'
  BY <1>0, <1>3, NewShapes, KeptByCommand DEF Counted, Slot
<1>4. ASSUME NEW st \in Outcomes, NEW s \in SetNames, NEW n \in Nat, NEW sc \in Nat,
             Way(st, s), Settles(worker[w], st, s), s = "pending" => sc > 0
      PROVE  /\ Written(w, j, st, n, s, sc) => KeptInv'
             /\ Taken(w, j, s, sc) => KeptInv'
             /\ Placed(w, j, s, sc) => KeptInv'
  <2>1. \A todo \in Rest(st, n, s, sc) :
          LET y == Slot("loop", j, todo, m)
          IN Shaped(y) /\ y.job = j /\ (Completes(y) => Completes(worker[w]))
    <3> TAKE todo \in Rest(st, n, s, sc)
    <3> DEFINE y == Slot("loop", j, todo, m)
    <3>0. Way(st, s) /\ (s = "pending" => sc > 0) /\ j \in Jobs /\ m \in Nat
      BY <1>0, <1>4
    <3> HIDE DEF j, m
    <3>1. Shaped(y) /\ y.job = j /\ (Completes(y) => st = "completed")
      BY <3>0, SettleShape
    <3>2. st = "completed" => s = "completed"
      BY <1>4 DEF Way
    <3> QED BY <1>4, <3>1, <3>2 DEF Completes
  <2>2. /\ <<ZRem("processing"), ZAdd(s, sc)>> \in Rest(st, n, s, sc)
        /\ <<ZAdd(s, sc)>> \in Rest(st, n, s, sc)
        /\ st \in {"processing", "completed", "delayed", "failed"}
    BY <1>4 DEF Rest, Outcomes
  <2>3. ASSUME Written(w, j, st, n, s, sc) PROVE KeptInv'
    BY <1>0, <2>1, <2>2, <2>3, KeptByCommand DEF Written
  <2>4. ASSUME Taken(w, j, s, sc) PROVE KeptInv'
    BY <1>0, <2>1, <2>2, <2>4, KeptByCommand DEF Taken
  <2>5. ASSUME Placed(w, j, s, sc) PROVE KeptInv'
    BY <1>0, <1>4, <2>5, KeptByPlacing
  <2> QED BY <2>3, <2>4, <2>5
<1> QED BY <1>1, <1>2, <1>3, <1>4, SendEffect DEF Effect, KeptInv

LEMMA KeptByProducer ==
    ASSUME JobConstants, KeptInv, NEW j \in Jobs,
           AddStore(j) \/ AddEnqueue(j) \/ AddDies(j) \/ RecordExpires(j)
    PROVE  KeptInv'
<1>0. worker' = worker /\ ran' = ran /\ now' = now /\ doubted' = doubted
  BY DEF AddStore, AddEnqueue, AddDies, RecordExpires
<1>1. CASE AddStore(j)
  <2>1. now + Delay[j] \in Nat \ {0}
    <3>1. now \in Nat \ {0} /\ Delay[j] \in Nat
      BY DEF JobConstants, KeptInv, JobTypes, JobTypeOK
    <3> QED BY <3>1
  <2>2. score' \in [Jobs -> Nat] /\ \A k \in Jobs \ {j} : score'[k] = score[k]
    BY <1>1, <2>1, ScorePositive DEF AddStore, KeptInv, JobTypes
  <2>3. /\ rec'[j].status = "queued" /\ \A k \in Jobs \ {j} : rec'[k] = rec[k]
        /\ rec' \in [Jobs -> [status : {"absent", "queued", "processing", "delayed",
                                       "completed", "failed"}, attempts : Nat]]
    BY <1>1 DEF AddStore, KeptInv, JobTypes, JobTypeOK
  <2>4. JobTypes'
    BY <1>0, <1>1, <2>2, <2>3 DEF AddStore, KeptInv, JobTypes, JobTypeOK
  <2>5. Stored'
    BY <1>0, <1>1, <2>2, <2>3 DEF AddStore, KeptInv, Stored
  <2>6. NothingForgotten' /\ CompletedRan'
    BY <1>0, <1>1, <2>2 DEF AddStore, KeptInv, NothingForgotten, Added, Held, CompletedRan
  <2> QED BY <2>4, <2>5, <2>6 DEF KeptInv
<1>2. CASE AddEnqueue(j)
  <2>1. /\ zset' \in [SetNames -> SUBSET Jobs] /\ j \in zset'["pending"]
        /\ \A s \in SetNames : zset[s] \subseteq zset'[s] /\ zset'[s] \subseteq zset[s] \cup {j}
        /\ zset'["completed"] = zset["completed"]
    BY <1>2 DEF AddEnqueue, KeptInv, JobTypes, JobTypeOK, SetNames
  <2>2. JobTypes'
    BY <1>0, <1>2, <2>1 DEF AddEnqueue, KeptInv, JobTypes, JobTypeOK
  <2>3. Stored'
    BY <1>0, <1>2, <2>1 DEF AddEnqueue, KeptInv, Stored, SetNames
  <2>4. NothingForgotten'
    BY <1>0, <1>2, <2>1 DEF AddEnqueue, KeptInv, NothingForgotten, Added, Held, SetNames
  <2>5. CompletedRan'
    BY <1>0, <2>1 DEF KeptInv, CompletedRan
  <2> QED BY <2>2, <2>3, <2>4, <2>5 DEF KeptInv
<1>3. CASE AddDies(j)
  BY <1>0, <1>3 DEF AddDies, KeptInv, JobTypes, JobTypeOK, Stored, NothingForgotten, CompletedRan, JobConstants
<1>4. CASE RecordExpires(j)
  <2>1. rec' \in [Jobs -> [status : {"absent", "queued", "processing", "delayed",
                                     "completed", "failed"}, attempts : Nat]]
    BY <1>4 DEF RecordExpires, KeptInv, JobTypes, JobTypeOK, NoRecord
  <2>2. faults' \in 0 .. MaxFaults /\ faults' # 0
    BY <1>4 DEF RecordExpires, KeptInv, JobTypes, JobTypeOK, JobConstants
  <2> QED BY <1>0, <1>4, <2>1, <2>2
          DEF RecordExpires, KeptInv, JobTypes, JobTypeOK, Stored, NothingForgotten, CompletedRan
<1> QED BY <1>1, <1>2, <1>3, <1>4

LEMMA KeptByNext ==
    ASSUME JobConstants, KeptInv, [JobNext]_jobVars
    PROVE  KeptInv'
<1>1. CASE UNCHANGED jobVars
  BY <1>1 DEF jobVars, KeptInv, JobTypes, JobTypeOK, Stored, NothingForgotten, Added, Held, CompletedRan
<1>2. CASE Clock
  BY <1>2 DEF Clock, KeptInv, JobTypes, JobTypeOK, Stored, NothingForgotten, Added, Held, CompletedRan, JobConstants
<1>3. ASSUME NEW w \in Workers, WorkerStep(w) \/ JobCommandFails(w) \/ JobCommandLate(w) \/ WorkerDies(w)
      PROVE  KeptInv'
  BY <1>3, KeptByPeek, KeptBySend, KeptByLoad, KeptByHandler, KeptByCatch, KeptByMoveToFailed,
     KeptByFault, KeptByLate DEF WorkerStep
<1> QED BY <1>1, <1>2, <1>3, KeptByProducer DEF JobNext

-----------------------------------------------------------------------------
(* The job queue with one worker. *)

Settled(j) == j \in zset["completed"] \/ j \in zset["failed"]
Astray(j) == Settled(j) /\ j \notin doubted

\* A claim of which nothing has been sent yet
Claiming(x) == x.at = "load" /\ \E t \in Nat : x.todo = <<ZRem("pending"), ZAdd("processing", t)>>

\* A job not yet added is nowhere.
Fresh ==
  \A j \in Jobs : score[j] = 0 =>
    /\ j \notin adding /\ j \notin zset["pending"] /\ ~Settled(j)
    /\ \A w \in Workers : worker[w].job # j

\* A job is with its producer, pending, with the worker, or settled, unless a command
\* that settled it was reported failed; only a claim just begun finds it still
\* pending.
Apart ==
  /\ \A j \in Jobs : j \in adding =>
       j \notin zset["pending"] /\ ~Settled(j) /\ \A w \in Workers : worker[w].job # j
  /\ \A j \in Jobs : j \in zset["pending"] => ~Astray(j)
  /\ \A w \in Workers : worker[w].job \in Jobs =>
       ~Astray(worker[w].job) /\ (worker[w].job \in zset["pending"] => Claiming(worker[w]))

\* What a worker with slot x has done and will do stays within the attempts
\* allowed, when a are counted in the record of its job.
Within(x, a) ==
  /\ x.attempts <= MaxAttempts
  /\ x.at = "load" => a < MaxAttempts
  /\ \A st, n, s, sc : x.todo = Settle(st, n, s, sc) =>
       n <= MaxAttempts /\ (s = "pending" => n < MaxAttempts)
  /\ \A s, sc : /\ x.at = "loop" /\ s = "pending"
                /\ x.todo \in {<<ZRem("processing"), ZAdd(s, sc)>>, <<ZAdd(s, sc)>>}
                => a < MaxAttempts

Bounded ==
  /\ \A j \in Jobs : /\ rec[j].attempts <= MaxAttempts
                     /\ j \in adding \/ j \in zset["pending"] => rec[j].attempts < MaxAttempts
  /\ \A w \in Workers : worker[w].job \in Jobs => Within(worker[w], rec[worker[w].job].attempts)

OneInv == Fresh /\ Apart /\ Bounded

LEMMA OneInit == JobConstants /\ JobInit => OneInv
<1> SUFFICES ASSUME JobConstants, JobInit PROVE OneInv
  OBVIOUS
<1>1. \A w \in Workers : worker[w].job \notin Jobs
  BY FreeShape DEF JobInit, JobConstants
<1>2. \A s \in SetNames : zset[s] = {}
  BY DEF JobInit
<1>3. \A j \in Jobs : rec[j].attempts = 0
  BY DEF JobInit, NoRecord
<1> QED BY <1>1, <1>2, <1>3 DEF OneInv, Fresh, Apart, Bounded, Settled, SetNames, JobInit, JobConstants

LEMMA Only ==
    ASSUME SingleWorker, NEW w \in Workers, JobTypes, NEW y, worker' = [worker EXCEPT ![w] = y]
    PROVE  \A v \in Workers : v = w /\ worker'[v] = y
  BY DEF SingleWorker, JobTypes

\* Steps of the worker that change neither records nor sets.
LEMMA OneByMove ==
    ASSUME JobConstants, SingleWorker, JobTypes, OneInv, NEW w \in Workers, NEW y,
           worker' = [worker EXCEPT ![w] = y],
           y.job \in Jobs =>
             /\ y.job = worker[w].job
             /\ ~Claiming(worker[w]) \/ y.job \notin zset["pending"]
             /\ Within(y, rec[y.job].attempts),
           y.job \in Jobs \cup {None},
           rec' = rec, score' = score, zset' = zset, adding' = adding, doubted' = doubted
    PROVE  OneInv'
<1>1. \A v \in Workers : v = w /\ worker'[v] = y
  BY Only
<1>2. \A j \in Jobs : (Settled(j)' <=> Settled(j)) /\ (Astray(j)' <=> Astray(j))
  BY DEF Settled, Astray
<1>3. \A j \in Jobs : y.job = j => worker[w].job = j
  OBVIOUS
<1>4. Fresh'
  BY <1>1, <1>2, <1>3 DEF OneInv, Fresh
<1>5. y.job \in Jobs => ~Astray(y.job) /\ y.job \notin zset["pending"]
  BY <1>3 DEF OneInv, Apart
<1>6. Apart'
  BY <1>1, <1>2, <1>3, <1>5 DEF OneInv, Apart
<1>7. Bounded'
  BY <1>1 DEF OneInv, Bounded
<1> QED BY <1>4, <1>6, <1>7 DEF OneInv

LEMMA FreeMove == Free.job = None /\ (JobConstants => Free.job \notin Jobs)
  BY FreeShape DEF JobConstants

LEMMA OneByRelease ==
    ASSUME JobConstants, SingleWorker, JobTypes, OneInv, NEW w \in Workers, Release(w),
           rec' = rec, score' = score, zset' = zset, adding' = adding, doubted' = doubted
    PROVE  OneInv'
  BY OneByMove, FreeMove DEF Release

\* Slots the worker moves to, and the attempts they stand for.
LEMMA WithinSlots ==
    ASSUME NEW j, NEW a \in Nat, NEW n \in Nat, n <= MaxAttempts, JobConstants
    PROVE  /\ \A at \in {"run", "catch", "fail"} : Within(Slot(at, j, <<>>, n), a)
           /\ Within(Slot("run", j, <<Set("processing", n)>>, n), a)
           /\ a < MaxAttempts =>
                /\ Within(Slot("load", j, <<>>, n), a)
                /\ \A t : /\ Within(Slot("load", j, <<ZAdd("processing", t)>>, n), a)
                          /\ Within(Slot("load", j, <<ZRem("pending"), ZAdd("processing", t)>>, n), a)
<1>1. \A at, todo : LET x == Slot(at, j, todo, n)
                    IN x.at = at /\ x.todo = todo /\ x.attempts = n
  BY DEF Slot
<1>2. \A st, m, s, sc : /\ Settle(st, m, s, sc) # <<>> /\ Len(Settle(st, m, s, sc)) = 3
                        /\ \A a1 : <<a1>> # Settle(st, m, s, sc)
                        /\ \A a1, a2 : <<a1, a2>> # Settle(st, m, s, sc)
  BY DEF Settle
<1> QED BY <1>1, <1>2 DEF Within, JobConstants

LEMMA Zero == JobConstants => 0 \in Nat /\ 0 <= MaxAttempts
  BY DEF JobConstants

LEMMA WithinStop ==
    ASSUME JobConstants, NEW j, NEW a \in Nat, NEW at \in {"run", "catch", "fail"},
           NEW n \in Nat, n <= MaxAttempts
    PROVE  Within(Slot(at, j, <<>>, n), a)
  BY WithinSlots

LEMMA WithinRun ==
    ASSUME JobConstants, NEW j, NEW a \in Nat, NEW n \in Nat, n <= MaxAttempts
    PROVE  Within(Slot("run", j, <<Set("processing", n)>>, n), a)
  BY WithinSlots

LEMMA WithinClaim ==
    ASSUME JobConstants, NEW j, NEW a \in Nat, NEW n \in Nat, n <= MaxAttempts, NEW t, a < MaxAttempts
    PROVE  /\ Within(Slot("load", j, <<>>, n), a)
           /\ Within(Slot("load", j, <<ZAdd("processing", t)>>, n), a)
           /\ Within(Slot("load", j, <<ZRem("pending"), ZAdd("processing", t)>>, n), a)
  BY WithinSlots

LEMMA WithinSettle ==
    ASSUME JobConstants, NEW j, NEW a \in Nat, NEW b \in Nat, b <= MaxAttempts,
           NEW n \in Nat, NEW st, NEW s, NEW sc
    PROVE  /\ n <= MaxAttempts /\ (s = "pending" => n < MaxAttempts) =>
                Within(Slot("loop", j, Settle(st, n, s, sc), b), a)
           /\ (s = "pending" => a < MaxAttempts) =>
                /\ Within(Slot("loop", j, <<ZRem("processing"), ZAdd(s, sc)>>, b), a)
                /\ Within(Slot("loop", j, <<ZAdd(s, sc)>>, b), a)
<1>1. \A at, todo : LET x == Slot(at, j, todo, b)
                    IN x.at = at /\ x.todo = todo /\ x.attempts = b
  BY DEF Slot
<1>2. \A st2, m, s2, sc2 : Settle(st2, m, s2, sc2) = Settle(st, n, s, sc) => m = n /\ s2 = s
  <2> TAKE st2, m, s2, sc2
  <2> HAVE Settle(st2, m, s2, sc2) = Settle(st, n, s, sc)
  <2>1. Set(st2, m) = Set(st, n) /\ ZAdd(s2, sc2) = ZAdd(s, sc)
    BY DEF Settle
  <2> QED BY <2>1 DEF Set, ZAdd
<1>3. \A st2, m, s2, sc2, a1, a2 : <<a1>> # Settle(st2, m, s2, sc2) /\ <<a1, a2>> # Settle(st2, m, s2, sc2)
  BY DEF Settle
<1>4. \A s2, sc2 : ZAdd(s2, sc2) = ZAdd(s, sc) => s2 = s
  BY DEF ZAdd
<1>5. \A a1, a2, b1, b2 : <<a1>> # <<b1, b2>> /\ (<<a1>> = <<b1>> => a1 = b1)
                          /\ (<<a1, a2>> = <<b1, b2>> => a2 = b2)
  OBVIOUS
<1>6. ASSUME n <= MaxAttempts, s = "pending" => n < MaxAttempts
      PROVE  Within(Slot("loop", j, Settle(st, n, s, sc), b), a)
  BY <1>1, <1>2, <1>3, <1>6 DEF Within
<1>7. ASSUME s = "pending" => a < MaxAttempts
      PROVE  /\ Within(Slot("loop", j, <<ZRem("processing"), ZAdd(s, sc)>>, b), a)
             /\ Within(Slot("loop", j, <<ZAdd(s, sc)>>, b), a)
  BY <1>1, <1>3, <1>4, <1>5, <1>7 DEF Within
<1> QED BY <1>6, <1>7

LEMMA WithinOutcome ==
    ASSUME JobConstants, NEW j, NEW a \in Nat, NEW n \in Nat, NEW st, NEW s, NEW sc,
           n <= MaxAttempts, s = "pending" => n < MaxAttempts
    PROVE  Within(Slot("loop", j, Settle(st, n, s, sc), 0), a)
  BY Zero, WithinSettle

LEMMA OneByPeek ==
    ASSUME JobConstants, SingleWorker, JobTypes, OneInv, NEW w \in Workers, Peek(w)
    PROVE  OneInv'
<1>1. PICK j \in zset["pending"] : worker' = [worker EXCEPT ![w] =
             Slot("load", j, <<ZRem("pending"), ZAdd("processing", now)>>, 0)]
  BY DEF Peek, Slot
<1> DEFINE y == Slot("load", j, <<ZRem("pending"), ZAdd("processing", now)>>, 0)
<1>2. j \in Jobs /\ now \in Nat /\ rec[j].attempts \in Nat /\ MaxAttempts \in Nat
  BY DEF JobTypes, JobTypeOK, JobConstants, SetNames
<1>3. rec[j].attempts < MaxAttempts
  BY <1>2 DEF OneInv, Bounded
<1>4. y.job = j /\ Claiming(y)
  BY <1>2 DEF Slot, Claiming
<1>5. Within(y, rec[j].attempts)
  BY <1>2, <1>3, Zero, WithinClaim
<1>6. \A v \in Workers : v = w /\ worker'[v] = y
  BY <1>1, Only
<1>7. rec' = rec /\ score' = score /\ zset' = zset /\ adding' = adding
      /\ \A k \in Jobs : (Settled(k)' <=> Settled(k)) /\ (Astray(k)' <=> Astray(k))
  BY DEF Peek, Settled, Astray
<1>8. Fresh'
  BY <1>1, <1>2, <1>4, <1>6, <1>7 DEF OneInv, Fresh
<1>9. Apart'
  BY <1>1, <1>2, <1>4, <1>6, <1>7 DEF OneInv, Apart
<1>10. Bounded'
  BY <1>4, <1>5, <1>6, <1>7 DEF OneInv, Bounded
<1> QED BY <1>8, <1>9, <1>10 DEF OneInv

LEMMA NotClaiming ==
    ASSUME NEW x, x.at # "load" \/ x.todo = <<>>
    PROVE  ~Claiming(x)
  BY Lists DEF Claiming

\* The bounds, for the job in the worker's hands.
LEMMA InHand ==
    ASSUME JobConstants, JobTypes, OneInv, NEW w \in Workers, worker[w].job \in Jobs
    PROVE  /\ Within(worker[w], rec[worker[w].job].attempts)
           /\ rec[worker[w].job].attempts \in Nat /\ rec[worker[w].job].attempts <= MaxAttempts
           /\ worker[w].attempts \in Nat /\ worker[w].attempts <= MaxAttempts
           /\ MaxAttempts \in Nat /\ 0 <= MaxAttempts
<1>1. Within(worker[w], rec[worker[w].job].attempts)
  BY DEF OneInv, Bounded
<1>2. rec[worker[w].job].attempts \in Nat /\ rec[worker[w].job].attempts <= MaxAttempts
  BY DEF OneInv, Bounded, JobTypes, JobTypeOK
<1> QED BY <1>1, <1>2, Holding DEF Within, JobConstants

LEMMA OneByWork ==
    ASSUME JobConstants, SingleWorker, JobTypes, OneInv, NEW w \in Workers,
           Load(w) \/ HandlerDone(w) \/ HandlerFails(w) \/ Catch(w) \/ MoveToFailed(w)
    PROVE  OneInv'
<1> DEFINE x == worker[w]
           j == x.job
           a == rec[j].attempts
<1>0. rec' = rec /\ score' = score /\ zset' = zset /\ adding' = adding /\ doubted' = doubted
  BY DEF Load, HandlerDone, HandlerFails, Catch, MoveToFailed
<1>1. j \in Jobs /\ x.todo = <<>> /\ x.at # "loop"
  BY Holding DEF Load, HandlerDone, HandlerFails, Catch, MoveToFailed, Ready
<1>2. ~Claiming(x)
  BY <1>1, NotClaiming
<1>3. Within(x, a) /\ a \in Nat /\ a <= MaxAttempts /\ x.attempts \in Nat
      /\ x.attempts <= MaxAttempts /\ MaxAttempts \in Nat
  BY <1>1, InHand
<1>4. CASE Release(w)
  BY <1>0, <1>4, OneByRelease
<1>5. ASSUME NEW at, NEW todo, NEW n, Goto(w, at, todo, n), Within(Slot(at, j, todo, n), a)
      PROVE  OneInv'
  <2>1. worker' = [worker EXCEPT ![w] = Slot(at, j, todo, n)] /\ Slot(at, j, todo, n).job = j
    BY <1>5 DEF Goto, Slot
  <2> QED BY <1>0, <1>1, <1>2, <1>5, <2>1, OneByMove
<1>6. CASE Load(w)
  <2>1. a < MaxAttempts
    BY <1>3, <1>6 DEF Load, Ready, Within
  <2>2. /\ Within(Slot("fail", j, <<>>, 0), a)
        /\ Within(Slot("run", j, <<Set("processing", a + 1)>>, a + 1), a)
    <3>1. a + 1 \in Nat /\ a + 1 <= MaxAttempts
      BY <1>3, <2>1
    <3> QED BY <1>3, <3>1, Zero, WithinStop, WithinRun
  <2> QED BY <1>4, <1>5, <1>6, <2>2 DEF Load
<1>7. CASE HandlerDone(w)
  <2>1. Within(Slot("loop", j, Settle("completed", x.attempts, "completed", 0), 0), a)
    BY <1>3, WithinOutcome
  <2> QED BY <1>5, <1>7, <2>1 DEF HandlerDone
<1>8. CASE HandlerFails(w)
  <2>1. Within(Slot("catch", j, <<>>, 0), a)
    BY <1>3, Zero, WithinStop
  <2> QED BY <1>5, <1>8, <2>1 DEF HandlerFails
<1>9. CASE Catch(w)
  <2>1. CASE a < MaxAttempts /\ Goto(w, "loop", Retry(w, rec[j]), 0)
    <3>1. Within(Slot("loop", j, Settle("delayed", a, "pending", RetryScore(j, a)), 0), a)
      BY <1>3, <2>1, WithinOutcome
    <3> QED BY <1>5, <2>1, <3>1 DEF Retry
  <2>2. CASE Goto(w, "fail", <<>>, 0)
    <3>1. Within(Slot("fail", j, <<>>, 0), a)
      BY <1>3, Zero, WithinStop
    <3> QED BY <1>5, <2>2, <3>1
  <2> QED BY <1>4, <1>9, <2>1, <2>2 DEF Catch
<1>10. CASE MoveToFailed(w)
  <2>1. Within(Slot("loop", j, Settle("failed", a, "failed", 0), 0), a)
    BY <1>3, WithinOutcome
  <2> QED BY <1>4, <1>5, <1>10, <2>1 DEF MoveToFailed
<1> QED BY <1>6, <1>7, <1>8, <1>9, <1>10

LEMMA OneByFault ==
    ASSUME JobConstants, SingleWorker, JobTypes, OneInv, NEW w \in Workers,
           JobCommandFails(w) \/ WorkerDies(w)
    PROVE  OneInv'
<1> DEFINE x == worker[w]
           j == x.job
           y == Slot("catch", j, <<>>, 0)
<1>0. /\ rec' = rec /\ score' = score /\ zset' = zset /\ adding' = adding /\ j \in Jobs
      /\ doubted' = doubted
  BY Holding DEF JobCommandFails, WorkerDies
<1>1. CASE Release(w)
  BY <1>0, <1>1, OneByRelease
<1>2. CASE JobCommandFails(w) /\ ~Release(w)
  <2>1. /\ Goto(w, "catch", <<>>, 0)
        /\ \/ x.at = "run"
           \/ x.at = "load" /\ x.todo = <<>>
           \/ x.at = "fail"
           \/ \E s \in {"completed", "failed"} : x.todo[Len(x.todo)] = ZAdd(s, 0)
    BY <1>2 DEF JobCommandFails, InTry
  <2>2. ~Claiming(x)
    <3> SUFFICES ASSUME NEW t \in Nat, x.at = "load",
                        x.todo = <<ZRem("pending"), ZAdd("processing", t)>>
                 PROVE  FALSE
      BY DEF Claiming
    <3>1. x.todo # <<>> /\ x.todo[Len(x.todo)] = ZAdd("processing", t)
      OBVIOUS
    <3> QED BY <2>1, <3>1 DEF ZAdd
  <2>3. Within(y, rec[j].attempts)
    BY <1>0, InHand, WithinStop
  <2>4. worker' = [worker EXCEPT ![w] = y] /\ y.job = j
    BY <2>1 DEF Goto, Slot
  <2> QED BY <1>0, <2>2, <2>3, <2>4, OneByMove
<1> QED BY <1>1, <1>2 DEF WorkerDies

\* A command after which the worker still holds its job.
LEMMA OneByCommand ==
    ASSUME JobConstants, SingleWorker, JobTypes, OneInv, NEW w \in Workers, NEW j \in Jobs,
           worker[w].job = j, NEW y, worker' = [worker EXCEPT ![w] = y], y.job = j,
           score' = score, adding' = adding, doubted' = doubted,
           NEW a \in Nat, a <= MaxAttempts, rec'[j].attempts = a, Within(y, a),
           \A k \in Jobs \ {j} : rec'[k] = rec[k],
           j \notin zset'["pending"], zset'["pending"] \subseteq zset["pending"],
           zset'["completed"] = zset["completed"], zset'["failed"] = zset["failed"]
    PROVE  OneInv'
<1>1. \A v \in Workers : v = w /\ worker'[v] = y
  <2>1. \A v \in Workers : v = w
    BY Only
  <2>2. worker'[w] = y
    BY DEF JobTypes
  <2> QED BY <2>1, <2>2
<1>2. \A k \in Jobs : (Settled(k)' <=> Settled(k)) /\ (Astray(k)' <=> Astray(k))
  BY DEF Settled, Astray
<1>3. Fresh'
  BY <1>1, <1>2 DEF OneInv, Fresh
<1>4. Apart'
  BY <1>1, <1>2 DEF OneInv, Apart
<1>5. Bounded'
  <2>1. j \notin adding
    BY DEF OneInv, Apart
  <2>2. \A k \in Jobs : /\ rec'[k].attempts <= MaxAttempts
                        /\ k \in adding' \/ k \in zset'["pending"] => rec'[k].attempts < MaxAttempts
    BY <2>1 DEF OneInv, Bounded
  <2> QED BY <1>1, <2>2 DEF Bounded
<1> QED BY <1>3, <1>4, <1>5 DEF OneInv

LEMMA OneByPlacing ==
    ASSUME JobConstants, SingleWorker, JobTypes, OneInv, NEW w \in Workers, NEW j \in Jobs,
           worker[w].job = j, NEW st \in Outcomes, NEW s \in SetNames, NEW sc \in Nat, Way(st, s),
           s = "pending" => sc > 0, Placed(w, j, s, sc), adding' = adding,
           doubted' = doubted
    PROVE  OneInv'
<1>1. \A v \in Workers : v = w /\ worker'[v] = Free
  BY Only DEF Placed
<1>2. Free.job \notin Jobs
  BY FreeMove
<1>3. score[j] # 0 /\ score'[j] # 0 /\ \A k \in Jobs \ {j} : score'[k] = score[k]
  BY DEF OneInv, Fresh, Placed, JobTypes
<1>4. /\ rec' = rec
      /\ \A q \in SetNames : zset'[q] = IF q = s THEN zset[q] \cup {j} ELSE zset[q]
  BY DEF Placed, JobTypes, JobTypeOK
<1>5. worker[w].at = "loop" => j \notin zset["pending"] /\ ~Astray(j) /\ j \notin adding
  BY DEF OneInv, Apart, Claiming
<1>6. worker[w].at = "loop" /\ worker[w].todo = <<ZAdd(s, sc)>>
  BY DEF Placed
<1>7. s = "pending" => rec[j].attempts < MaxAttempts
  <2>1. Within(worker[w], rec[j].attempts)
    BY InHand
  <2> QED BY <1>6, <2>1 DEF Within
<1>8. Fresh'
  BY <1>1, <1>2, <1>3, <1>4 DEF OneInv, Fresh, Settled, SetNames
<1>9. Apart'
  BY <1>1, <1>2, <1>4, <1>5, <1>6 DEF OneInv, Apart, Settled, Astray, SetNames
<1>10. Bounded'
  BY <1>1, <1>2, <1>4, <1>7 DEF OneInv, Bounded, SetNames
<1> QED BY <1>8, <1>9, <1>10 DEF OneInv

LEMMA OneByLate ==
    ASSUME JobConstants, SingleWorker, JobTypes, OneInv, NEW w \in Workers, JobCommandLate(w)
    PROVE  OneInv'
<1>0. PICK j \in Jobs : j = worker[w].job /\ worker[w].at = "loop"
  BY LateEffect
<1> DEFINE y == Slot("catch", j, <<>>, 0)
<1>1. PICK s \in {"completed", "failed"} : zset' = [zset EXCEPT ![s] = @ \cup {j}]
  BY <1>0, LateEffect
<1>2. rec' = rec /\ score' = score /\ adding' = adding /\ doubted' = doubted \cup {j}
  BY <1>0 DEF JobCommandLate
<1>3. worker' = [worker EXCEPT ![w] = y] /\ y.job = j
  BY <1>0 DEF JobCommandLate, Goto, Slot
<1>4. \A v \in Workers : v = w /\ worker'[v] = y
  BY <1>3, Only
<1>5. zset'["pending"] = zset["pending"]
      /\ \A k \in Jobs \ {j} : (Settled(k)' <=> Settled(k)) /\ (Astray(k)' <=> Astray(k))
  BY <1>1, <1>2 DEF JobTypes, JobTypeOK, SetNames, Settled, Astray
<1>6. ~Astray(j)'
  BY <1>2 DEF Astray
<1>7. score[j] # 0 /\ j \notin adding /\ j \notin zset["pending"]
  BY <1>0 DEF OneInv, Fresh, Apart, Claiming
<1>8. Fresh'
  BY <1>2, <1>3, <1>4, <1>5, <1>7 DEF OneInv, Fresh
<1>9. Apart'
  BY <1>2, <1>3, <1>4, <1>5, <1>6, <1>7 DEF OneInv, Apart
<1>10. Within(y, rec[j].attempts)
  BY <1>0, InHand, WithinStop
<1>11. Bounded'
  BY <1>2, <1>3, <1>4, <1>5, <1>10 DEF OneInv, Bounded
<1> QED BY <1>8, <1>9, <1>11 DEF OneInv

LEMMA OneBySend ==
    ASSUME JobConstants, SingleWorker, JobTypes, OneInv, NEW w \in Workers, Send(w)
    PROVE  OneInv'
<1> DEFINE x == worker[w]
           j == x.job
           m == x.attempts
           a == rec[j].attempts
<1>0. j \in Jobs /\ adding' = adding /\ doubted' = doubted /\ Effect(w, j)
  BY SendEffect DEF Send
<1>1. /\ Within(x, a) /\ a \in Nat /\ a <= MaxAttempts /\ m \in Nat
      /\ m <= MaxAttempts /\ MaxAttempts \in Nat
  BY <1>0, InHand
<1>2. zset \in [SetNames -> SUBSET Jobs] /\ DOMAIN rec = Jobs
  BY DEF JobTypes, JobTypeOK
<1>3. ~Claiming(x) => j \notin zset["pending"]
  BY <1>0 DEF OneInv, Apart
<1>4. ASSUME NEW t \in Nat, Claims(x), Claimed(w, j, t) PROVE OneInv'
  <2> DEFINE y == Slot("load", j, <<ZAdd("processing", t)>>, m)
  <2>1. worker' = [worker EXCEPT ![w] = y] /\ y.job = j
    BY <1>4 DEF Claimed, Slot
  <2>2. a < MaxAttempts
    BY <1>1, <1>4 DEF Claimed, Within
  <2>3. Within(y, a)
    BY <1>1, <2>2, WithinClaim
  <2>4. /\ j \notin zset'["pending"] /\ zset'["pending"] \subseteq zset["pending"]
        /\ zset'["completed"] = zset["completed"] /\ zset'["failed"] = zset["failed"]
        /\ rec' = rec /\ score' = score
    BY <1>2, <1>4 DEF Claimed, SetNames
  <2> QED BY <1>0, <1>1, <2>1, <2>3, <2>4, OneByCommand
<1>5. ASSUME NEW t \in Nat, Claims(x), Listed(w, j, t) PROVE OneInv'
  <2> DEFINE y == Slot("load", j, <<>>, m)
  <2>1. worker' = [worker EXCEPT ![w] = y] /\ y.job = j
    BY <1>5 DEF Listed, Slot
  <2>2. a < MaxAttempts
    BY <1>1, <1>5 DEF Listed, Within
  <2>3. Within(y, a)
    BY <1>1, <2>2, WithinClaim
  <2>4. ~Claiming(x)
    BY <1>5 DEF Listed, Claiming
  <2>5. /\ j \notin zset'["pending"] /\ zset'["pending"] \subseteq zset["pending"]
        /\ zset'["completed"] = zset["completed"] /\ zset'["failed"] = zset["failed"]
        /\ rec' = rec /\ score' = score
    BY <1>2, <1>3, <1>5, <2>4 DEF Listed, SetNames
  <2> QED BY <1>0, <1>1, <2>1, <2>3, <2>5, OneByCommand
<1>6. ASSUME Runs(x), Counted(w, j) PROVE OneInv'
  <2> DEFINE y == Slot("run", j, <<>>, m)
  <2>1. worker' = [worker EXCEPT ![w] = y] /\ y.job = j
    BY <1>6 DEF Counted, Slot
  <2>2. Within(y, m)
    BY <1>1, WithinStop
  <2>3. ~Claiming(x)
    BY <1>6 DEF Counted, Claiming
  <2>4. /\ zset' = zset /\ score' = score /\ rec'[j].attempts = m
        /\ \A k \in Jobs \ {j} : rec'[k] = rec[k]
    BY <1>0, <1>2, <1>6 DEF Counted
  <2> QED BY <1>0, <1>1, <1>3, <2>1, <2>2, <2>3, <2>4, OneByCommand
<1>7. ASSUME NEW st \in Outcomes, NEW s \in SetNames, NEW n \in Nat, NEW sc \in Nat,
             Way(st, s), s = "pending" => sc > 0,
             Written(w, j, st, n, s, sc) \/ Taken(w, j, s, sc) \/ Placed(w, j, s, sc)
      PROVE  OneInv'
  <2>0. x.at = "loop" /\ ~Claiming(x)
    BY <1>7 DEF Written, Taken, Placed, Claiming
  <2>1. CASE Written(w, j, st, n, s, sc)
    <3> DEFINE y == Slot("loop", j, <<ZRem("processing"), ZAdd(s, sc)>>, m)
    <3>1. worker' = [worker EXCEPT ![w] = y] /\ y.job = j
      BY <2>1 DEF Written, Slot
    <3>2. n <= MaxAttempts /\ (s = "pending" => n < MaxAttempts)
      BY <1>1, <2>1 DEF Written, Within
    <3>3. Within(y, n)
      BY <1>1, <3>2, WithinSettle
    <3>4. /\ zset' = zset /\ score' = score /\ rec'[j].attempts = n
          /\ \A k \in Jobs \ {j} : rec'[k] = rec[k]
      BY <1>0, <1>2, <2>1 DEF Written
    <3> QED BY <1>0, <1>3, <2>0, <3>1, <3>2, <3>3, <3>4, OneByCommand
  <2>2. CASE Taken(w, j, s, sc)
    <3> DEFINE y == Slot("loop", j, <<ZAdd(s, sc)>>, m)
    <3>1. worker' = [worker EXCEPT ![w] = y] /\ y.job = j
      BY <2>2 DEF Taken, Slot
    <3>2. s = "pending" => a < MaxAttempts
      BY <1>1, <2>2 DEF Taken, Within
    <3>3. Within(y, a)
      BY <1>1, <3>2, WithinSettle
    <3>4. /\ zset'["pending"] = zset["pending"]
          /\ zset'["completed"] = zset["completed"] /\ zset'["failed"] = zset["failed"]
          /\ rec' = rec /\ score' = score
      BY <1>2, <2>2 DEF Taken, SetNames
    <3> QED BY <1>0, <1>1, <1>3, <2>0, <3>1, <3>3, <3>4, OneByCommand
  <2>3. CASE Placed(w, j, s, sc)
    BY <1>0, <1>7, <2>3, OneByPlacing
  <2> QED BY <1>7, <2>1, <2>2, <2>3
<1> QED BY <1>0, <1>4, <1>5, <1>6, <1>7 DEF Effect

LEMMA OneByProducer ==
    ASSUME JobConstants, JobTypes, OneInv, NEW j \in Jobs,
           AddStore(j) \/ AddEnqueue(j) \/ AddDies(j) \/ RecordExpires(j)
    PROVE  OneInv'
<1>0. worker' = worker /\ doubted' = doubted /\ DOMAIN rec = Jobs /\ zset \in [SetNames -> SUBSET Jobs]
      /\ MaxAttempts \in Nat /\ 0 < MaxAttempts
  BY DEF AddStore, AddEnqueue, AddDies, RecordExpires, JobTypes, JobTypeOK, JobConstants
<1>1. CASE AddStore(j)
  <2>1. now + Delay[j] \in Nat \ {0}
    <3>1. now \in Nat \ {0} /\ Delay[j] \in Nat
      BY DEF JobConstants, JobTypes, JobTypeOK
    <3> QED BY <3>1
  <2>2. score'[j] # 0 /\ \A k \in Jobs \ {j} : score'[k] = score[k]
    BY <1>1, <2>1, ScorePositive DEF AddStore, JobTypes
  <2>3. /\ rec'[j].attempts = 0 /\ \A k \in Jobs \ {j} : rec'[k] = rec[k]
        /\ adding' = adding \cup {j} /\ zset' = zset
        /\ \A k \in Jobs : (Settled(k)' <=> Settled(k)) /\ (Astray(k)' <=> Astray(k))
    BY <1>0, <1>1 DEF AddStore, Settled, Astray
  <2>4. j \notin zset["pending"] /\ ~Settled(j) /\ \A w \in Workers : worker[w].job # j
    BY <1>1 DEF AddStore, OneInv, Fresh
  <2>5. Fresh'
    BY <1>0, <2>2, <2>3 DEF OneInv, Fresh
  <2>6. Apart'
    BY <1>0, <2>3, <2>4 DEF OneInv, Apart, Astray
  <2>7. Bounded'
    BY <1>0, <2>3, <2>4 DEF OneInv, Bounded
  <2> QED BY <2>5, <2>6, <2>7 DEF OneInv
<1>2. CASE AddEnqueue(j)
  <2>1. /\ zset'["pending"] = zset["pending"] \cup {j} /\ adding' = adding \ {j} /\ j \in adding
        /\ rec' = rec /\ score' = score /\ \A k \in Jobs : (Settled(k)' <=> Settled(k)) /\ (Astray(k)' <=> Astray(k))
    BY <1>0, <1>2 DEF AddEnqueue, Settled, Astray, SetNames
  <2>2. ~Settled(j) /\ \A w \in Workers : worker[w].job # j
    BY <2>1 DEF OneInv, Apart
  <2>3. Fresh'
    BY <1>0, <2>1 DEF OneInv, Fresh
  <2>4. Apart'
    BY <1>0, <2>1, <2>2 DEF OneInv, Apart, Astray
  <2>5. Bounded'
    BY <1>0, <2>1 DEF OneInv, Bounded
  <2> QED BY <2>3, <2>4, <2>5 DEF OneInv
<1>3. CASE AddDies(j)
  <2>1. /\ adding' = adding \ {j} /\ zset' = zset
        /\ rec' = rec /\ score' = score /\ \A k \in Jobs : (Settled(k)' <=> Settled(k)) /\ (Astray(k)' <=> Astray(k))
    BY <1>0, <1>3 DEF AddDies, Settled, Astray
  <2> QED BY <1>0, <2>1 DEF OneInv, Fresh, Apart, Bounded
<1>4. CASE RecordExpires(j)
  <2>1. /\ adding' = adding /\ zset' = zset /\ score' = score
        /\ \A k \in Jobs : (Settled(k)' <=> Settled(k)) /\ (Astray(k)' <=> Astray(k))
        /\ rec'[j].attempts = 0 /\ \A k \in Jobs \ {j} : rec'[k] = rec[k]
    BY <1>0, <1>4 DEF RecordExpires, Settled, Astray, NoRecord
  <2>2. Fresh' /\ Apart'
    BY <1>0, <2>1 DEF OneInv, Fresh, Apart
  <2>3. ASSUME NEW w \in Workers, worker[w].job = j PROVE Within(worker[w], 0)
    BY <1>0, <2>3, InHand DEF Within
  <2>4. Bounded'
    BY <1>0, <2>1, <2>3 DEF OneInv, Bounded
  <2> QED BY <2>2, <2>4 DEF OneInv
<1> QED BY <1>1, <1>2, <1>3, <1>4

LEMMA OneByNext ==
    ASSUME JobConstants, SingleWorker, JobTypes, OneInv, [JobNext]_jobVars
    PROVE  OneInv'
<1>1. CASE UNCHANGED jobVars \/ Clock
  <2>1. /\ rec' = rec /\ score' = score /\ zset' = zset /\ adding' = adding /\ worker' = worker
        /\ doubted' = doubted
    BY <1>1 DEF jobVars, Clock
  <2> QED BY <2>1 DEF OneInv, Fresh, Apart, Bounded, Settled, Astray
<1>2. ASSUME NEW w \in Workers, WorkerStep(w) \/ JobCommandFails(w) \/ JobCommandLate(w) \/ WorkerDies(w)
      PROVE  OneInv'
  BY <1>2, OneByPeek, OneBySend, OneByWork, OneByFault, OneByLate DEF WorkerStep
<1> QED BY <1>1, <1>2, OneByProducer DEF JobNext

-----------------------------------------------------------------------------
(* The contract with producers. *)

\* What a job's standing depends on.
Same(k) ==
  /\ (score'[k] = 0) <=> (score[k] = 0)
  /\ Open(k)' <=> Open(k)
  /\ (k \in zset'["completed"]) <=> (k \in zset["completed"])
  /\ (k \in zset'["failed"]) <=> (k \in zset["failed"])

LEMMA StandingOf ==
    ASSUME NEW k
    PROVE  /\ "accepted" \in Standing(k) <=> score[k] # 0
           /\ "open" \in Standing(k) <=> Open(k)
           /\ "completed" \in Standing(k) <=> k \in zset["completed"]
           /\ "failed" \in Standing(k) <=> k \in zset["failed"]
           /\ Standing(k) \subseteq {"accepted", "open", "completed", "failed"}
  BY DEF Standing, Added

LEMMA StandingAfter ==
    ASSUME NEW k
    PROVE  /\ "accepted" \in Standing(k)' <=> score'[k] # 0
           /\ "open" \in Standing(k)' <=> Open(k)'
           /\ "completed" \in Standing(k)' <=> k \in zset'["completed"]
           /\ "failed" \in Standing(k)' <=> k \in zset'["failed"]
           /\ Standing(k)' \subseteq {"accepted", "open", "completed", "failed"}
  BY DEF Standing, Added

LEMMA StandingSame ==
    ASSUME NEW k, Same(k)
    PROVE  Standing(k)' = Standing(k)
<1>1. \A x \in {"accepted", "open", "completed", "failed"} : x \in Standing(k)' <=> x \in Standing(k)
  BY StandingOf, StandingAfter DEF Same
<1> QED BY <1>1, StandingOf, StandingAfter

\* A job that loses nothing but that somebody will look at it.
LEMMA StandingCloses ==
    ASSUME NEW k, (score'[k] = 0) <=> (score[k] = 0), Open(k)' => Open(k),
           (k \in zset'["completed"]) <=> (k \in zset["completed"]),
           (k \in zset'["failed"]) <=> (k \in zset["failed"])
    PROVE  Standing(k)' \in {Standing(k), Standing(k) \ {"open"}}
<1>1. CASE Same(k)
  BY <1>1, StandingSame
<1>2. CASE ~Same(k)
  <2>1. \A x \in {"accepted", "open", "completed", "failed"} :
          x \in Standing(k)' <=> x \in Standing(k) \ {"open"}
    BY <1>2, StandingOf, StandingAfter DEF Same
  <2>2. Standing(k)' = Standing(k) \ {"open"}
    BY <2>1, StandingOf, StandingAfter
  <2> QED BY <2>2
<1> QED BY <1>1, <1>2

\* Nothing changes for any producer.
LEMMA StandingStutters ==
    ASSUME \A k \in Jobs : Same(k), ran' = ran, doubted' = doubted, faults' = faults
    PROVE  UNCHANGED Contract!contractVars
<1>1. \A k \in Jobs : Standing(k)' = Standing(k)
  BY StandingSame
<1> QED BY <1>1 DEF Contract!contractVars

\* Something fails, and the job in hand may be left where it is.
LEMMA FaultRefines ==
    ASSUME NEW j \in Jobs, \A k \in Jobs \ {j} : Same(k), faults' # 0,
           score'[j] = 0 <=> score[j] = 0, Open(j)' => Open(j),
           j \in zset'["completed"] <=> j \in zset["completed"],
           j \in zset'["failed"] <=> j \in zset["failed"],
           ran' = ran, doubted' = doubted
    PROVE  Contract!ContractNext
<1>1. \A k \in Jobs \ {j} : Standing(k)' = Standing(k)
  BY StandingSame
<1>2. Standing(j)' \in {Standing(j), Standing(j) \ {"open"}}
  BY StandingCloses
<1>3. (faults' # 0) = TRUE
  OBVIOUS
<1>4. [k \in Jobs |-> Standing(k)]' \in {[k \in Jobs |-> Standing(k)],
                                         [[k \in Jobs |-> Standing(k)] EXCEPT ![j] = @ \ {"open"}]}
  BY <1>1, <1>2
<1>5. Contract!Fault(j)
  BY <1>3, <1>4 DEF Contract!Fault
<1> QED BY <1>5 DEF Contract!ContractNext

\* The others' standing, in a step of worker w that concerns job j alone.
LEMMA OthersSame ==
    ASSUME JobTypes, NEW w \in Workers, NEW j \in Jobs, NEW y,
           worker' = [worker EXCEPT ![w] = y], y.job \in {j, None}, worker[w].job \in {j, None},
           None \notin Jobs, adding' = adding,
           \A k \in Jobs \ {j} : score'[k] = score[k],
           \A k \in Jobs \ {j}, s \in SetNames : k \in zset'[s] <=> k \in zset[s]
    PROVE  \A k \in Jobs \ {j} : Same(k)
<1>1. worker'[w] = y /\ \A v \in Workers \ {w} : worker'[v] = worker[v]
  BY DEF JobTypes
<1>2. \A k \in Jobs \ {j} : Open(k)' <=> Open(k)
  BY <1>1 DEF Open, Held, SetNames
<1> QED BY <1>2 DEF Same, SetNames

\* A step that keeps the job in hand, or takes up or gives back a pending one.
LEMMA KeepsOpen ==
    ASSUME JobTypes, NEW w \in Workers, NEW j \in Jobs, NEW y,
           worker' = [worker EXCEPT ![w] = y], y.job \in {j, None}, worker[w].job \in {j, None},
           worker[w].job = j \/ j \in zset["pending"],
           y.job = j \/ j \in zset'["pending"],
           None \notin Jobs, adding' = adding,
           \A k \in Jobs \ {j} : score'[k] = score[k], score'[j] = 0 <=> score[j] = 0,
           \A k \in Jobs \ {j}, s \in SetNames : k \in zset'[s] <=> k \in zset[s],
           j \in zset'["completed"] <=> j \in zset["completed"],
           j \in zset'["failed"] <=> j \in zset["failed"]
    PROVE  \A k \in Jobs : Same(k)
<1>1. \A k \in Jobs \ {j} : Same(k)
  BY OthersSame
<1>2. worker'[w] = y
  BY DEF JobTypes
<1>3. Open(j) /\ Open(j)'
  BY <1>2 DEF Open, Held
<1>4. Same(j)
  BY <1>3 DEF Same
<1> QED BY <1>1, <1>4

LEMMA AddIsAccept ==
    ASSUME JobConstants, JobTypes, OneInv, NEW j \in Jobs, AddStore(j)
    PROVE  Contract!Accept(j)
<1>1. now + Delay[j] \in Nat \ {0}
  <2>1. now \in Nat \ {0} /\ Delay[j] \in Nat
    BY DEF JobConstants, JobTypes, JobTypeOK
  <2> QED BY <2>1
<1>2. /\ score'[j] # 0 /\ (\A k \in Jobs \ {j} : score'[k] = score[k]) /\ zset' = zset
      /\ ran' = ran /\ doubted' = doubted /\ faults' = faults /\ worker' = worker
      /\ adding' = adding \cup {j}
  BY <1>1, ScorePositive DEF AddStore, JobTypes
<1>3. /\ score[j] = 0 /\ ~Settled(j) /\ ~Open(j)
  BY DEF AddStore, OneInv, Fresh, Open, Held
<1>4. Open(j)' /\ \A k \in Jobs \ {j} : Open(k)' <=> Open(k)
  BY <1>2 DEF Open, Held
<1>5. \A k \in Jobs \ {j} : Standing(k)' = Standing(k)
  BY <1>2, <1>4, StandingSame DEF Same
<1>6. Standing(j) = {}
  BY <1>3, StandingOf DEF Settled
<1>7. Standing(j)' = {"accepted", "open"}
  BY <1>2, <1>3, <1>4, StandingAfter DEF Settled
<1> QED BY <1>2, <1>5, <1>6, <1>7 DEF Contract!Accept

LEMMA PlacingCloses ==
    ASSUME JobConstants, SingleWorker, JobTypes, OneInv, CompletedRan', NEW w \in Workers,
           NEW j \in Jobs, worker[w].job = j, NEW s \in SetNames, NEW sc \in Nat, NEW st,
           Way(st, s), s = "pending" => sc > 0, Placed(w, j, s, sc),
           ran' = ran, doubted' = doubted, faults' = faults, adding' = adding
    PROVE  Contract!Close(j) \/ UNCHANGED Contract!contractVars
<1>1. score[j] # 0 /\ score'[j] # 0 /\ \A k \in Jobs \ {j} : score'[k] = score[k]
  BY DEF OneInv, Fresh, Placed, JobTypes
<1>2. \A q \in SetNames : zset'[q] = IF q = s THEN zset[q] \cup {j} ELSE zset[q]
  BY DEF Placed, JobTypes, JobTypeOK
<1>3. ~Astray(j) /\ j \notin adding /\ j \notin zset["pending"]
  BY DEF OneInv, Apart, Placed, Claiming
<1>4. worker' = [worker EXCEPT ![w] = Free] /\ Free.job = None /\ None \notin Jobs
  BY FreeMove DEF Placed, JobConstants
<1>5. \A k \in Jobs \ {j}, q \in SetNames : k \in zset'[q] <=> k \in zset[q]
  BY <1>2
<1>6. \A k \in Jobs \ {j} : Same(k)
  BY <1>1, <1>4, <1>5, OthersSame
<1>7. CASE s = "pending"
  <2>1. /\ j \in zset'["pending"] /\ (j \in zset'["completed"] <=> j \in zset["completed"])
        /\ (j \in zset'["failed"] <=> j \in zset["failed"])
    BY <1>2, <1>7 DEF SetNames
  <2>2. \A k \in Jobs : Same(k)
    BY <1>1, <1>4, <1>5, <2>1, KeepsOpen
  <2> QED BY <2>2, StandingStutters
<1>8. CASE s # "pending"
  <2>1. s \in {"completed", "failed"}
    BY <1>8 DEF Way
  <2>2. \A v \in Workers : worker'[v] = Free
    BY <1>4, Only
  <2>3. Open(j) /\ ~Open(j)'
    <3>1. j \notin zset'["pending"]
      BY <1>2, <1>3, <1>8 DEF SetNames
    <3>2. Open(j)
      BY DEF Open, Held
    <3> QED BY <1>3, <1>4, <2>2, <3>1, <3>2 DEF Open, Held
  <2>4. s = "completed" => j \in ran
    BY <1>2 DEF CompletedRan, SetNames
  <2>5. /\ j \in zset'["completed"] <=> (s = "completed" \/ j \in zset["completed"])
        /\ j \in zset'["failed"] <=> (s = "failed" \/ j \in zset["failed"])
    BY <1>2 DEF SetNames
  <2>6. \A x \in {"accepted", "open", "completed", "failed"} :
          x \in Standing(j)' <=> x \in (Standing(j) \ {"open"}) \cup {s}
    BY <1>1, <2>1, <2>3, <2>5, StandingOf, StandingAfter
  <2>7. Standing(j)' = (Standing(j) \ {"open"}) \cup {s}
    BY <2>1, <2>6, StandingOf, StandingAfter
  <2>8. Standing(j) \cap {"completed", "failed"} # {} => j \in doubted
    BY <1>3, StandingOf DEF Astray, Settled
  <2>9. \A k \in Jobs \ {j} : Standing(k)' = Standing(k)
    BY <1>6, StandingSame
  <2>10. "open" \in Standing(j)
    BY <2>3, StandingOf
  <2>11. [k \in Jobs |-> Standing(k)]' =
           [[k \in Jobs |-> Standing(k)] EXCEPT ![j] = (@ \ {"open"}) \cup {s}]
    BY <2>7, <2>9
  <2>12. Contract!MayList(j, s)
    BY <2>4, <2>10 DEF Contract!MayList
  <2>13. Contract!Close(j)
    BY <2>1, <2>8, <2>11, <2>12 DEF Contract!Close, Contract!Lists
  <2> QED BY <2>13
<1> QED BY <1>7, <1>8

LEMMA SendRefines ==
    ASSUME JobConstants, SingleWorker, JobTypes, OneInv, CompletedRan', NEW w \in Workers, Send(w)
    PROVE  [Contract!ContractNext]_(Contract!contractVars)
<1> DEFINE j == worker[w].job
<1>0. /\ j \in Jobs /\ Effect(w, j) /\ ran' = ran /\ zset \in [SetNames -> SUBSET Jobs]
      /\ doubted' = doubted /\ faults' = faults /\ adding' = adding /\ None \notin Jobs
  BY SendEffect DEF Send, JobTypes, JobTypeOK, JobConstants
<1>1. ASSUME score' = score, NEW y, worker' = [worker EXCEPT ![w] = y], y.job = j,
             NEW p \in {"pending", "processing"},
             zset' \in {zset, [zset EXCEPT ![p] = @ \ {j}], [zset EXCEPT ![p] = @ \cup {j}]}
      PROVE  UNCHANGED Contract!contractVars
  <2>1. /\ \A k \in Jobs \ {j}, s \in SetNames : k \in zset'[s] <=> k \in zset[s]
        /\ j \in zset'["completed"] <=> j \in zset["completed"]
        /\ j \in zset'["failed"] <=> j \in zset["failed"]
    BY <1>0, <1>1 DEF SetNames
  <2>2. \A k \in Jobs : Same(k)
    BY <1>0, <1>1, <2>1, KeepsOpen
  <2> QED BY <1>0, <2>2, StandingStutters
<1>2. ASSUME NEW t, Claimed(w, j, t) \/ Listed(w, j, t) PROVE UNCHANGED Contract!contractVars
  BY <1>1, <1>2 DEF Claimed, Listed, Slot
<1>3. ASSUME Counted(w, j) PROVE UNCHANGED Contract!contractVars
  BY <1>1, <1>3 DEF Counted, Slot
<1>4. ASSUME NEW st, NEW n, NEW s, NEW sc, Written(w, j, st, n, s, sc) \/ Taken(w, j, s, sc)
      PROVE  UNCHANGED Contract!contractVars
  BY <1>1, <1>4 DEF Written, Taken, Slot
<1>5. ASSUME NEW st \in Outcomes, NEW s \in SetNames, NEW sc \in Nat, Way(st, s),
             s = "pending" => sc > 0, Placed(w, j, s, sc)
      PROVE  [Contract!ContractNext]_(Contract!contractVars)
  BY <1>0, <1>5, PlacingCloses DEF Contract!ContractNext
<1> QED BY <1>0, <1>2, <1>3, <1>4, <1>5 DEF Effect

\* A step of the worker that touches no record and no set.
LEMMA MoveRefines ==
    ASSUME JobConstants, JobTypes, NEW w \in Workers, worker[w].job \in Jobs,
           zset' = zset, score' = score, adding' = adding, doubted' = doubted, ran' = ran,
           \/ Release(w) /\ faults' # 0
           \/ \E at, todo, n : Goto(w, at, todo, n) /\ (faults' = faults \/ faults' # 0)
    PROVE  [Contract!ContractNext]_(Contract!contractVars)
<1> DEFINE j == worker[w].job
<1>0. None \notin Jobs
  BY DEF JobConstants
<1>1. CASE Release(w) /\ faults' # 0
  <2>1. worker' = [worker EXCEPT ![w] = Free] /\ Free.job = None
    BY <1>1, FreeMove DEF Release
  <2>2. \A k \in Jobs \ {j} : Same(k)
    BY <1>0, <2>1, OthersSame
  <2>3. Open(j)
    BY DEF Open, Held
  <2> QED BY <1>1, <2>2, <2>3, FaultRefines
<1>2. ASSUME NEW at, NEW todo, NEW n, Goto(w, at, todo, n), faults' = faults \/ faults' # 0
      PROVE  [Contract!ContractNext]_(Contract!contractVars)
  <2> DEFINE y == Slot(at, j, todo, n)
  <2>1. worker' = [worker EXCEPT ![w] = y] /\ y.job = j
    BY <1>2 DEF Goto, Slot
  <2>2. \A k \in Jobs : Same(k)
    BY <1>0, <2>1, KeepsOpen
  <2>3. CASE faults' = faults
    BY <2>2, <2>3, StandingStutters
  <2>4. CASE faults' # 0
    <3>1. Contract!ContractNext
      BY <2>2, <2>4, FaultRefines DEF Same
    <3> QED BY <3>1
  <2> QED BY <1>2, <2>3, <2>4
<1> QED BY <1>1, <1>2

LEMMA PeekRefines ==
    ASSUME JobConstants, JobTypes, NEW w \in Workers, Peek(w)
    PROVE  UNCHANGED Contract!contractVars
<1>1. PICK j \in zset["pending"] : worker' = [worker EXCEPT ![w] =
             Slot("load", j, <<ZRem("pending"), ZAdd("processing", now)>>, 0)]
  BY DEF Peek, Slot
<1> DEFINE y == Slot("load", j, <<ZRem("pending"), ZAdd("processing", now)>>, 0)
<1>2. j \in Jobs /\ y.job = j /\ None \notin Jobs
  BY DEF JobTypes, JobTypeOK, SetNames, Slot, JobConstants
<1>3. worker[w].job = None
  BY Holding, FreeShape DEF Peek
<1>4. /\ zset' = zset /\ score' = score /\ adding' = adding /\ ran' = ran
      /\ doubted' = doubted /\ faults' = faults
  BY DEF Peek
<1>5. \A k \in Jobs : Same(k)
  BY <1>1, <1>2, <1>3, <1>4, KeepsOpen
<1> QED BY <1>4, <1>5, StandingStutters

LEMMA WorkRefines ==
    ASSUME JobConstants, KeptInv, NEW w \in Workers,
           Load(w) \/ HandlerFails(w) \/ Catch(w) \/ MoveToFailed(w)
    PROVE  [Contract!ContractNext]_(Contract!contractVars)
<1>0. /\ zset' = zset /\ score' = score /\ adding' = adding /\ doubted' = doubted /\ ran' = ran
      /\ faults' = faults
  BY DEF Load, HandlerFails, Catch, MoveToFailed
<1>1. worker[w].job \in Jobs /\ JobTypes
  BY Holding DEF KeptInv, Load, HandlerFails, Catch, MoveToFailed, Ready
<1>2. \/ Release(w) /\ rec[worker[w].job] = NoRecord
      \/ \E at, todo, n : Goto(w, at, todo, n)
  BY DEF Load, HandlerFails, Catch, MoveToFailed
<1>3. Release(w) /\ rec[worker[w].job] = NoRecord => faults' # 0
  BY <1>0, <1>1, GoneIsFault
<1> QED BY <1>0, <1>1, <1>2, <1>3, MoveRefines

LEMMA LostRefines ==
    ASSUME JobConstants, JobTypes, NEW w \in Workers, JobCommandFails(w) \/ WorkerDies(w)
    PROVE  [Contract!ContractNext]_(Contract!contractVars)
<1>0. /\ zset' = zset /\ score' = score /\ adding' = adding /\ doubted' = doubted /\ ran' = ran
  BY DEF JobCommandFails, WorkerDies
<1>1. worker[w].job \in Jobs /\ faults' # 0
  BY Holding DEF JobCommandFails, WorkerDies, JobTypes, JobTypeOK, JobConstants
<1>2. Release(w) \/ \E at, todo, n : Goto(w, at, todo, n)
  BY DEF JobCommandFails, WorkerDies
<1> QED BY <1>0, <1>1, <1>2, MoveRefines

LEMMA LateRefines ==
    ASSUME JobConstants, JobTypes, CompletedRan', NEW w \in Workers, JobCommandLate(w)
    PROVE  [Contract!ContractNext]_(Contract!contractVars)
<1>0. PICK j \in Jobs : j = worker[w].job /\ None \notin Jobs
  BY LateEffect DEF JobConstants
<1> DEFINE y == Slot("catch", j, <<>>, 0)
<1>1. PICK s \in {"completed", "failed"} : zset' = [zset EXCEPT ![s] = @ \cup {j}]
  BY <1>0, LateEffect
<1>2. /\ score' = score /\ adding' = adding /\ ran' = ran
      /\ doubted' = doubted \cup {j} /\ faults' # 0
  BY <1>0 DEF JobCommandLate, JobTypes, JobTypeOK, JobConstants
<1>3. worker' = [worker EXCEPT ![w] = y] /\ y.job = j
  BY <1>0 DEF JobCommandLate, Goto, Slot
<1>4. \A q \in SetNames : zset'[q] = IF q = s THEN zset[q] \cup {j} ELSE zset[q]
  BY <1>1 DEF JobTypes, JobTypeOK, SetNames
<1>5. \A k \in Jobs \ {j} : Same(k)
  <2>1. \A k \in Jobs \ {j}, q \in SetNames : k \in zset'[q] <=> k \in zset[q]
    BY <1>4
  <2> QED BY <1>0, <1>2, <1>3, <2>1, OthersSame
<1>6. Open(j) /\ Open(j)'
  <2>1. worker'[w] = y
    BY <1>3 DEF JobTypes
  <2> QED BY <1>0, <1>3, <2>1 DEF Open, Held
<1>7. /\ j \in zset'["completed"] <=> (s = "completed" \/ j \in zset["completed"])
      /\ j \in zset'["failed"] <=> (s = "failed" \/ j \in zset["failed"])
  BY <1>4 DEF SetNames
<1>8. \A x \in {"accepted", "open", "completed", "failed"} :
        x \in Standing(j)' <=> x \in Standing(j) \cup {s}
  BY <1>2, <1>6, <1>7, StandingOf, StandingAfter
<1>9. Standing(j)' = Standing(j) \cup {s}
  BY <1>8, StandingOf, StandingAfter
<1>10. \A k \in Jobs \ {j} : Standing(k)' = Standing(k)
  BY <1>5, StandingSame
<1>11. [k \in Jobs |-> Standing(k)]' = [[k \in Jobs |-> Standing(k)] EXCEPT ![j] = @ \cup {s}]
  BY <1>9, <1>10
<1>12. s = "completed" => j \in ran
  BY <1>2, <1>7 DEF CompletedRan
<1>13. "open" \in Standing(j)
  BY <1>6, StandingOf
<1>14. Contract!MayList(j, s)
  BY <1>0, <1>12, <1>13 DEF Contract!MayList
<1>15. (faults' # 0) = TRUE
  BY <1>2
<1>16. Contract!Doubt(j)
  BY <1>2, <1>11, <1>14, <1>15 DEF Contract!Doubt, Contract!Lists
<1> QED BY <1>0, <1>16 DEF Contract!ContractNext

LEMMA ReturnRefines ==
    ASSUME JobConstants, JobTypes, NEW w \in Workers, HandlerDone(w)
    PROVE  Contract!Return(worker[w].job) /\ worker[w].job \in Jobs
<1> DEFINE j == worker[w].job
<1>1. j \in Jobs /\ None \notin Jobs
  BY Holding DEF HandlerDone, Ready, JobConstants
<1>2. /\ score' = score /\ zset' = zset /\ adding' = adding /\ doubted' = doubted
      /\ faults' = faults /\ ran' = ran \cup {j}
  BY DEF HandlerDone
<1> DEFINE y == Slot("loop", j, Settle("completed", worker[w].attempts, "completed", 0), 0)
<1>3. worker' = [worker EXCEPT ![w] = y] /\ y.job = j
  BY DEF HandlerDone, Goto, Slot
<1>4. \A k \in Jobs : Same(k)
  BY <1>1, <1>2, <1>3, KeepsOpen
<1>5. \A k \in Jobs : Standing(k)' = Standing(k)
  BY <1>4, StandingSame
<1>6. Open(j)
  BY DEF Open, Held
<1>7. "open" \in Standing(j)
  BY <1>6, StandingOf
<1> QED BY <1>1, <1>2, <1>5, <1>7 DEF Contract!Return

LEMMA ProducerRefines ==
    ASSUME JobConstants, JobTypes, OneInv, NEW j \in Jobs,
           AddStore(j) \/ AddEnqueue(j) \/ AddDies(j) \/ RecordExpires(j)
    PROVE  [Contract!ContractNext]_(Contract!contractVars)
<1>1. CASE AddStore(j)
  BY <1>1, AddIsAccept DEF Contract!ContractNext
<1>2. CASE AddEnqueue(j)
  <2>1. /\ score' = score /\ ran' = ran /\ doubted' = doubted /\ faults' = faults /\ worker' = worker
        /\ adding' = adding \ {j} /\ j \in adding
        /\ zset'["completed"] = zset["completed"] /\ zset'["failed"] = zset["failed"]
        /\ zset'["pending"] = zset["pending"] \cup {j}
    BY <1>2 DEF AddEnqueue, JobTypes, JobTypeOK, SetNames
  <2>2. \A k \in Jobs : Open(k)' <=> Open(k)
    BY <2>1 DEF Open, Held
  <2>3. \A k \in Jobs : Same(k)
    BY <2>1, <2>2 DEF Same
  <2> QED BY <2>1, <2>3, StandingStutters
<1>3. CASE AddDies(j) \/ RecordExpires(j)
  <2>1. /\ score' = score /\ ran' = ran /\ doubted' = doubted /\ faults' # 0 /\ worker' = worker
        /\ adding' \in {adding, adding \ {j}} /\ zset' = zset
    BY <1>3 DEF AddDies, RecordExpires, JobTypes, JobTypeOK, JobConstants
  <2>2. (\A k \in Jobs \ {j} : Open(k)' <=> Open(k)) /\ (Open(j)' => Open(j))
    BY <2>1 DEF Open, Held
  <2>3. \A k \in Jobs \ {j} : Same(k)
    BY <2>1, <2>2 DEF Same
  <2> QED BY <2>1, <2>2, <2>3, FaultRefines
<1> QED BY <1>1, <1>2, <1>3

LEMMA StepRefines ==
    ASSUME JobConstants, SingleWorker, KeptInv, OneInv, KeptInv', [JobNext]_jobVars
    PROVE  [Contract!ContractNext]_(Contract!contractVars)
<1>0. JobTypes /\ CompletedRan'
  BY DEF KeptInv
<1>1. CASE UNCHANGED jobVars \/ Clock
  <2>1. /\ score' = score /\ zset' = zset /\ adding' = adding /\ worker' = worker
        /\ ran' = ran /\ doubted' = doubted /\ faults' = faults
    BY <1>1 DEF jobVars, Clock
  <2>2. \A k \in Jobs : Same(k)
    BY <2>1 DEF Same, Open, Held
  <2> QED BY <2>1, <2>2, StandingStutters
<1>2. ASSUME NEW j \in Jobs, AddStore(j) \/ AddEnqueue(j) \/ AddDies(j) \/ RecordExpires(j)
      PROVE  [Contract!ContractNext]_(Contract!contractVars)
  BY <1>0, <1>2, ProducerRefines
<1>3. ASSUME NEW w \in Workers,
             WorkerStep(w) \/ JobCommandFails(w) \/ JobCommandLate(w) \/ WorkerDies(w)
      PROVE  [Contract!ContractNext]_(Contract!contractVars)
  <2>1. CASE HandlerDone(w)
    BY <1>0, <2>1, ReturnRefines DEF Contract!ContractNext
  <2>2. CASE Peek(w) \/ Send(w)
    BY <1>0, <2>2, PeekRefines, SendRefines
  <2>3. CASE Load(w) \/ HandlerFails(w) \/ Catch(w) \/ MoveToFailed(w)
    BY <2>3, WorkRefines
  <2>4. CASE JobCommandFails(w) \/ JobCommandLate(w) \/ WorkerDies(w)
    BY <1>0, <2>4, LostRefines, LateRefines
  <2> QED BY <1>3, <2>1, <2>2, <2>3, <2>4 DEF WorkerStep
<1> QED BY <1>1, <1>2, <1>3 DEF JobNext

LEMMA InitRefines ==
    ASSUME JobConstants, JobInit
    PROVE  Contract!ContractInit
<1>1. \A j \in Jobs : ~Open(j) /\ score[j] = 0 /\ j \notin zset["completed"] /\ j \notin zset["failed"]
  BY FreeMove DEF JobInit, Open, Held, SetNames
<1>2. \A j \in Jobs : Standing(j) = {}
  BY <1>1, StandingOf
<1> QED BY <1>2 DEF Contract!ContractInit, JobInit

LEMMA KeptInvHolds == JobConstants => (JobSpec => []KeptInv)
<1> SUFFICES ASSUME JobConstants PROVE JobSpec => []KeptInv
  OBVIOUS
<1>1. JobInit => KeptInv
  BY KeptInit
<1>2. KeptInv /\ [JobNext]_jobVars => KeptInv'
  BY KeptByNext
<1> QED BY <1>1, <1>2, PTL DEF JobSpec

LEMMA OneInvHolds == JobConstants /\ SingleWorker => (JobSpec => [](KeptInv /\ OneInv))
<1> SUFFICES ASSUME JobConstants, SingleWorker PROVE JobSpec => [](KeptInv /\ OneInv)
  OBVIOUS
<1>1. JobInit => KeptInv /\ OneInv
  BY KeptInit, OneInit
<1>2. KeptInv /\ OneInv /\ [JobNext]_jobVars => (KeptInv /\ OneInv)'
  BY KeptByNext, OneByNext DEF KeptInv
<1> QED BY <1>1, <1>2, PTL DEF JobSpec

\* job-queue.js: with any number of workers, whatever commands interleave, fail or are
\* cut off by a crash: without faults no added job is outside every set and every
\* hand, and a job listed as completed has a handler run behind it; with one worker no
\* job is given more attempts than it is allowed.
THEOREM JobsAreKept == JobConstants => (JobSpec => []JobsKept)
<1> SUFFICES ASSUME JobConstants PROVE JobSpec => []JobsKept
  OBVIOUS
<1>1. CASE SingleWorker
  <2>1. KeptInv /\ OneInv => JobsKept
    BY DEF KeptInv, JobTypes, OneInv, Bounded, JobsKept, AttemptsBounded
  <2> QED BY <1>1, <2>1, OneInvHolds, PTL
<1>2. CASE ~SingleWorker
  <2>1. KeptInv => JobsKept
    BY <1>2 DEF KeptInv, JobTypes, JobsKept, AttemptsBounded
  <2> QED BY <2>1, KeptInvHolds, PTL
<1> QED BY <1>1, <1>2

\* job-queue.js: one worker keeps the contract with producers.  An accepted job stays
\* open until it is closed for good, it is listed as completed only after a handler
\* run that returned, it ends on neither list only if something failed, and it is
\* worked on again while listed, or listed twice, only if the command that listed it
\* took effect and was reported failed.
THEOREM OneWorkerKeepsContract == JobConstants /\ SingleWorker => (JobSpec => JobContractKept)
<1> SUFFICES ASSUME JobConstants, SingleWorker PROVE JobSpec => JobContractKept
  OBVIOUS
<1>1. JobInit => Contract!ContractInit
  BY InitRefines
<1>2. KeptInv /\ OneInv /\ KeptInv' /\ [JobNext]_jobVars => [Contract!ContractNext]_(Contract!contractVars)
  BY StepRefines
<1>3. JobSpec => [](KeptInv /\ OneInv)
  BY OneInvHolds
<1> QED BY <1>1, <1>2, <1>3, PTL DEF JobSpec, JobContractKept, Contract!JobContractSpec

-----------------------------------------------------------------------------
(* The webhook deliveries. *)

Slots == [task : Tasks, posted : {"no", "ok", "failed"}]

HookShape ==
  /\ hooks \subseteq Hooks
  /\ edit \in [Edits -> [at : {"due", "read", "done"}, has : SUBSET Hooks]]
  /\ trig \in [Events -> [at : {"due", "read", "sent"}, has : SUBSET Hooks]]
  /\ overlapped \in BOOLEAN /\ drained \in BOOLEAN
  /\ fate \in [Deliveries -> Fates] /\ logFailures \in 0 .. MaxLogFailures

InQueue(d, q) == \E i \in 1 .. Len(q) : q[i].delivery = d
InSlot(d, run) == \E x \in run : x.task.delivery = d
OnTimer(d, ts) == \E t \in ts : t.delivery = d

\* The open deliveries are spread over queue, slots and timers, each in one place and
\* there once
PlaceTypes(q, run, ts) ==
  /\ q \in Seq(Tasks) /\ run \in SUBSET Slots /\ ts \in SUBSET Tasks
  /\ IsFiniteSet(run) /\ Cardinality(run) <= Concurrency
OnceEach(q, run, ts) ==
  /\ \A i, k \in 1 .. Len(q) : q[i].delivery = q[k].delivery => i = k
  /\ \A x, y \in run : x.task.delivery = y.task.delivery => x = y
  /\ \A t, u \in ts : t.delivery = u.delivery => t = u
OnePlace(q, run, ts) ==
  \A d \in Deliveries : /\ ~(InQueue(d, q) /\ InSlot(d, run))
                        /\ ~(InQueue(d, q) /\ OnTimer(d, ts))
                        /\ ~(InSlot(d, run) /\ OnTimer(d, ts))
OpenPlaced(q, run, ts, f) ==
  \A d \in Deliveries : f[d] = "open" <=> InQueue(d, q) \/ InSlot(d, run) \/ OnTimer(d, ts)
TasksPlaced(q, run, ts, f) == /\ PlaceTypes(q, run, ts) /\ OnceEach(q, run, ts)
                         /\ OnePlace(q, run, ts) /\ OpenPlaced(q, run, ts, f)

\* Before its event is sent nothing became of a delivery
NotYetSent == \A v \in Events, h \in Hooks : trig[v].at # "sent" => fate[<<v, h>>] = "none"

HookInv == /\ HookShape /\ TasksPlaced(sendq, running, timers, fate) /\ NotYetSent
           /\ NoIdleSlot /\ SubscriptionsKept

-----------------------------------------------------------------------------
\* processQueue moves the oldest tasks to the free slots: every task keeps a place, and
\* something waits only if no slot is left.
LEMMA StartPlaces ==
    ASSUME NEW q, NEW run, NEW ts, NEW f, TasksPlaced(q, run, ts, f), Start(q, run)
    PROVE  TasksPlaced(sendq', running', ts, f) /\ NoIdleSlot'
<1> DEFINE free == Concurrency - Cardinality(run)
           n == IF free > Len(q) THEN Len(q) ELSE free
           slot(i) == [task |-> q[i], posted |-> "no"]
           first == {slot(i) : i \in 1 .. n}
<1>0. /\ q \in Seq(Tasks) /\ Len(q) \in Nat /\ run \in SUBSET Slots /\ ts \in SUBSET Tasks
      /\ IsFiniteSet(run) /\ Cardinality(run) <= Concurrency /\ Cardinality(run) \in Nat
      /\ Concurrency \in Nat /\ \A i \in 1 .. Len(q) : q[i] \in Tasks
  BY HooksAssumption, FS_CardinalityType DEF TasksPlaced, PlaceTypes
<1>1. n \in Nat /\ n <= Len(q) /\ n <= free /\ (n = Len(q) \/ n = free)
  BY <1>0
<1>2. sendq' = SubSeq(q, n + 1, Len(q)) /\ running' = run \cup first
  BY DEF Start
<1> HIDE DEF n
<1>3. /\ sendq' \in Seq(Tasks) /\ Len(sendq') = Len(q) - n
      /\ \A i \in 1 .. Len(q) - n : sendq'[i] = q[n + i]
  <2>1. \A i \in (n + 1) .. Len(q) : q[i] \in Tasks
    BY <1>0, <1>1
  <2>2. /\ SubSeq(q, n + 1, Len(q)) \in Seq(Tasks)
        /\ Len(SubSeq(q, n + 1, Len(q))) = IF n + 1 <= Len(q) THEN Len(q) - (n + 1) + 1 ELSE 0
        /\ \A i \in 1 .. Len(q) - (n + 1) + 1 : SubSeq(q, n + 1, Len(q))[i] = q[n + 1 + i - 1]
    <3>1. n + 1 \in Int /\ Len(q) \in Int
      BY <1>0, <1>1
    <3> QED BY <2>1, <3>1, SubSeqProperties
  <2>3. Len(q) - (n + 1) + 1 = Len(q) - n /\ \A i \in 1 .. Len(q) - n : n + 1 + i - 1 = n + i
    BY <1>0, <1>1
  <2>4. Len(sendq') = Len(q) - n /\ sendq' \in Seq(Tasks)
    BY <1>0, <1>1, <1>2, <2>2
  <2>5. \A i \in 1 .. Len(q) - n : sendq'[i] = q[n + i]
    <3> SUFFICES ASSUME NEW i \in 1 .. Len(q) - n PROVE sendq'[i] = q[n + i]
      OBVIOUS
    <3>1. i \in 1 .. Len(q) - (n + 1) + 1 /\ n + 1 + i - 1 = n + i
      BY <2>3
    <3>2. sendq'[i] = q[n + 1 + i - 1]
      BY <1>2, <2>2, <3>1
    <3> QED BY <3>1, <3>2
  <2> QED BY <2>4, <2>5
<1>4. /\ \A i, k \in 1 .. Len(q) : q[i].delivery = q[k].delivery => i = k
      /\ \A x, y \in run : x.task.delivery = y.task.delivery => x = y
      /\ \A t, u \in ts : t.delivery = u.delivery => t = u
  BY DEF TasksPlaced, OnceEach
<1>5. /\ first \in SUBSET Slots
      /\ \A x \in first : \E i \in 1 .. n : x = slot(i) /\ x.task = q[i]
      /\ \A i \in 1 .. n : slot(i) \in first /\ slot(i).task = q[i]
  BY <1>0, <1>1 DEF Slots
<1>6. IsFiniteSet(first) /\ Cardinality(first) = n
  <2> DEFINE g == [i \in 1 .. n |-> slot(i)]
  <2>1. g \in [1 .. n -> first] /\ \A x \in first : \E i \in 1 .. n : g[i] = x
    OBVIOUS
  <2>2. \A i, k \in 1 .. n : g[i] = g[k] => i = k
    <3>1. \A i \in 1 .. n : i \in 1 .. Len(q) /\ g[i].task = q[i]
      BY <1>0, <1>1
    <3> QED BY <1>4, <3>1
  <2>3. g \in Bijection(1 .. n, first)
    BY <2>1, <2>2 DEF Bijection, Injection, Surjection, IsInjective
  <2>4. IsFiniteSet(1 .. n) /\ Cardinality(1 .. n) = n
    BY <1>1, FS_Interval
  <2> HIDE DEF g
  <2>5. ExistsBijection(1 .. n, first)
    BY <2>3 DEF ExistsBijection
  <2> QED BY <2>4, <2>5, FS_Bijection
<1> HIDE DEF first, slot
<1>7. \A d : InSlot(d, first) <=> \E i \in 1 .. n : q[i].delivery = d
  BY <1>5 DEF InSlot
<1>8. \A d : InQueue(d, sendq') <=> \E i \in n + 1 .. Len(q) : q[i].delivery = d
  <2>1. ASSUME NEW d, NEW i \in 1 .. Len(sendq'), sendq'[i].delivery = d
        PROVE  \E k \in n + 1 .. Len(q) : q[k].delivery = d
    <3>1. n + i \in n + 1 .. Len(q) /\ sendq'[i] = q[n + i]
      BY <1>0, <1>1, <1>3, <2>1
    <3> QED BY <2>1, <3>1
  <2>2. ASSUME NEW d, NEW k \in n + 1 .. Len(q), q[k].delivery = d
        PROVE  \E i \in 1 .. Len(sendq') : sendq'[i].delivery = d
    <3>1. k - n \in 1 .. Len(sendq') /\ sendq'[k - n] = q[n + (k - n)] /\ n + (k - n) = k
      BY <1>0, <1>1, <1>3, <2>2
    <3> QED BY <2>2, <3>1
  <2> QED BY <2>1, <2>2 DEF InQueue
<1>9. \A d : InQueue(d, q) <=> InQueue(d, sendq') \/ InSlot(d, first)
  <2>1. \A i : i \in 1 .. Len(q) <=> i \in 1 .. n \/ i \in n + 1 .. Len(q)
    BY <1>0, <1>1
  <2> QED BY <1>7, <1>8, <2>1 DEF InQueue
<1>10. \A d : ~(InQueue(d, sendq') /\ InSlot(d, first))
  <2>1. \A i \in 1 .. n, k \in n + 1 .. Len(q) : i \in 1 .. Len(q) /\ k \in 1 .. Len(q) /\ i # k
    BY <1>0, <1>1
  <2> QED BY <1>4, <1>7, <1>8, <2>1
<1>11. \A d : InSlot(d, running') <=> InSlot(d, run) \/ InSlot(d, first)
  BY <1>2 DEF InSlot
<1>12. \A x \in Slots : x.task.delivery \in Deliveries
  BY DEF Slots, Tasks
<1>13. \A x \in run, y \in first : x.task.delivery # y.task.delivery
  BY <1>0, <1>9, <1>12 DEF TasksPlaced, OnePlace, InSlot
<1>18. IsFiniteSet(running') /\ Cardinality(running') = Cardinality(run) + n
  <2>1. run \cap first = {}
    BY <1>13
  <2>2. Cardinality(run \cap first) = 0
    BY <2>1, FS_EmptySet
  <2>3. /\ IsFiniteSet(run \cup first)
        /\ Cardinality(run \cup first) = Cardinality(run) + Cardinality(first) - Cardinality(run \cap first)
    BY <1>0, <1>6, FS_Union
  <2> QED BY <1>0, <1>1, <1>2, <1>6, <2>2, <2>3
<1>14. PlaceTypes(sendq', running', ts)
  BY <1>0, <1>1, <1>2, <1>3, <1>5, <1>18 DEF PlaceTypes
<1>15. OnceEach(sendq', running', ts)
  <2>1. \A i, k \in 1 .. Len(sendq') : sendq'[i].delivery = sendq'[k].delivery => i = k
    <3> SUFFICES ASSUME NEW i \in 1 .. Len(sendq'), NEW k \in 1 .. Len(sendq'),
                        sendq'[i].delivery = sendq'[k].delivery
                 PROVE  i = k
      OBVIOUS
    <3>1. n + i \in 1 .. Len(q) /\ n + k \in 1 .. Len(q) /\ q[n + i].delivery = q[n + k].delivery
      BY <1>0, <1>1, <1>3
    <3>2. n + i = n + k
      BY <1>4, <3>1
    <3> QED BY <1>0, <1>1, <3>2
  <2>2. \A x, y \in first : x.task.delivery = y.task.delivery => x = y
    <3>1. \A i \in 1 .. n : i \in 1 .. Len(q)
      BY <1>0, <1>1
    <3> QED BY <1>4, <1>5, <3>1
  <2>3. \A x, y \in running' : x.task.delivery = y.task.delivery => x = y
    BY <1>2, <1>4, <1>13, <2>2
  <2> QED BY <1>4, <2>1, <2>3 DEF OnceEach
<1>16. OnePlace(sendq', running', ts) /\ OpenPlaced(sendq', running', ts, f)
  BY <1>9, <1>10, <1>11 DEF TasksPlaced, OnePlace, OpenPlaced
<1>17. NoIdleSlot'
  <2>2. CASE n = Len(q)
    <3>1. Len(sendq') = 0
      BY <1>0, <1>3, <2>2
    <3> QED BY <1>3, <3>1 DEF NoIdleSlot
  <2>3. CASE n = free
    BY <1>0, <1>18, <2>3 DEF NoIdleSlot
  <2> QED BY <1>1, <2>2, <2>3
<1> QED BY <1>14, <1>15, <1>16, <1>17 DEF TasksPlaced

-----------------------------------------------------------------------------
\* A task that leaves its slot: the others keep their places, and its delivery is the
\* only one that is in none.
LEMMA SlotFreed ==
    ASSUME TasksPlaced(sendq, running, timers, fate), NEW x \in running
    PROVE  /\ PlaceTypes(sendq, running \ {x}, timers) /\ OnceEach(sendq, running \ {x}, timers)
           /\ OnePlace(sendq, running \ {x}, timers)
           /\ x.task \in Tasks /\ x.task.delivery \in Deliveries /\ fate[x.task.delivery] = "open"
           /\ \A d \in Deliveries :
                InQueue(d, sendq) \/ InSlot(d, running \ {x}) \/ OnTimer(d, timers)
                <=> fate[d] = "open" /\ d # x.task.delivery
<1>1. x \in Slots /\ x.task \in Tasks /\ x.task.delivery \in Deliveries
  BY DEF TasksPlaced, PlaceTypes, Slots, Tasks
<1>2. \A d : InSlot(d, running) <=> InSlot(d, running \ {x}) \/ d = x.task.delivery
  BY DEF InSlot
<1>3. ~InSlot(x.task.delivery, running \ {x})
  BY DEF InSlot, TasksPlaced, OnceEach
<1>4. IsFiniteSet(running \ {x}) /\ Cardinality(running \ {x}) <= Concurrency
  <2>1. IsFiniteSet(running) /\ Cardinality(running) \in Nat /\ Cardinality(running) <= Concurrency
    BY FS_CardinalityType DEF TasksPlaced, PlaceTypes
  <2>2. IsFiniteSet(running \ {x}) /\ Cardinality(running \ {x}) = Cardinality(running) - 1
    BY <2>1, FS_RemoveElement
  <2> QED BY <2>1, <2>2, HooksAssumption
<1>5. PlaceTypes(sendq, running \ {x}, timers) /\ OnceEach(sendq, running \ {x}, timers)
  BY <1>4 DEF TasksPlaced, PlaceTypes, OnceEach
<1>6. OnePlace(sendq, running \ {x}, timers)
  BY <1>2 DEF TasksPlaced, OnePlace
<1>7. fate[x.task.delivery] = "open"
  BY <1>1, <1>2 DEF TasksPlaced, OpenPlaced
<1>8. ASSUME NEW d \in Deliveries
      PROVE  InQueue(d, sendq) \/ InSlot(d, running \ {x}) \/ OnTimer(d, timers)
             <=> fate[d] = "open" /\ d # x.task.delivery
  BY <1>1, <1>2, <1>3 DEF TasksPlaced, OnePlace, OpenPlaced
<1> QED BY <1>1, <1>5, <1>6, <1>7, <1>8

-----------------------------------------------------------------------------
LEMMA HookInitInv == HookInit => HookInv
<1> SUFFICES ASSUME HookInit PROVE HookInv
  OBVIOUS
<1>1. HookShape
  <2>1. hooks \subseteq Hooks /\ overlapped \in BOOLEAN /\ drained \in BOOLEAN
    BY DEF HookInit
  <2>2. edit \in [Edits -> [at : {"due", "read", "done"}, has : SUBSET Hooks]]
    BY DEF HookInit
  <2>3. trig \in [Events -> [at : {"due", "read", "sent"}, has : SUBSET Hooks]]
    BY DEF HookInit
  <2>4. fate \in [Deliveries -> Fates] /\ logFailures \in 0 .. MaxLogFailures
    BY HooksAssumption DEF HookInit, Fates
  <2> QED BY <2>1, <2>2, <2>3, <2>4 DEF HookShape
<1>2. PlaceTypes(sendq, running, timers)
  BY HooksAssumption, FS_EmptySet DEF HookInit, PlaceTypes
<1>3. OnceEach(sendq, running, timers) /\ OnePlace(sendq, running, timers)
  BY DEF HookInit, OnceEach, OnePlace, InQueue, InSlot, OnTimer
<1>4. OpenPlaced(sendq, running, timers, fate)
  BY DEF HookInit, OpenPlaced, InQueue, InSlot, OnTimer
<1>5. NotYetSent /\ NoIdleSlot
  BY DEF HookInit, NotYetSent, NoIdleSlot, Deliveries
<1>6. SubscriptionsKept
  BY DEF HookInit, SubscriptionsKept
<1> QED BY <1>1, <1>2, <1>3, <1>4, <1>5, <1>6 DEF HookInv, TasksPlaced

\* The subscription file
LEMMA EditKeeps ==
    ASSUME HookInv, NEW e \in Edits, EditReads(e) \/ EditWrites(e)
    PROVE  HookInv'
<1>1. /\ UNCHANGED <<trig, sendq, running, timers, fate, drained, logFailures>>
      /\ HookShape /\ TasksPlaced(sendq, running, timers, fate) /\ NotYetSent /\ NoIdleSlot
      /\ SubscriptionsKept
  BY DEF EditReads, EditWrites, HookInv
<1>2. TasksPlaced(sendq, running, timers, fate)' /\ NotYetSent' /\ NoIdleSlot'
  BY <1>1 DEF NotYetSent, NoIdleSlot
<1>3. e.hook \in Hooks
  BY HooksAssumption
<1>4. CASE EditReads(e)
  <2>1. HookShape'
    BY <1>1, <1>4 DEF HookShape, EditReads
  <2>2. SubscriptionsKept'
    BY <1>1, <1>4 DEF HookShape, EditReads, SubscriptionsKept
  <2> QED BY <1>2, <2>1, <2>2 DEF HookInv
<1>5. CASE EditWrites(e)
  <2>1. HookShape'
    BY <1>1, <1>3, <1>5 DEF HookShape, EditWrites
  <2>2. SubscriptionsKept'
    <3> SUFFICES ASSUME NEW c \in Edits, ~overlapped', edit'[c].at = "done",
                        \A f \in Edits : f # c /\ f.hook = c.hook => edit'[f].at = "due"
                 PROVE  c.hook \in hooks' <=> c.kind = "create"
      BY DEF SubscriptionsKept
    <3>1. ~overlapped /\ hooks = edit[e].has
      BY <1>1, <1>5 DEF EditWrites, HookShape
    <3>2. edit'[e].at = "done" /\ \A f \in Edits : f # e => edit'[f] = edit[f]
      BY <1>1, <1>5 DEF EditWrites, HookShape
    <3>3. CASE c = e
      BY <1>5, <3>1, <3>3 DEF EditWrites
    <3>4. CASE c # e
      <4>1. c.hook # e.hook
        BY <3>2, <3>4
      <4>2. c.hook \in hooks' <=> c.hook \in hooks
        BY <1>5, <3>1, <4>1 DEF EditWrites
      <4>3. edit[c].at = "done" /\ \A f \in Edits : f # c /\ f.hook = c.hook => edit[f].at = "due"
        BY <3>2, <3>4, <4>1
      <4> QED BY <1>1, <3>1, <4>2, <4>3 DEF SubscriptionsKept
    <3> QED BY <3>3, <3>4
  <2> QED BY <1>2, <2>1, <2>2 DEF HookInv
<1> QED BY <1>4, <1>5

\* Steps that leave the file and its edits alone keep what is said of them.
LEMMA FileUntouched ==
    ASSUME HookInv, UNCHANGED <<hooks, edit, overlapped>> PROVE SubscriptionsKept'
BY DEF HookInv, SubscriptionsKept

LEMMA TriggerReadsKeeps ==
    ASSUME HookInv, NEW v \in Events, TriggerReads(v) PROVE HookInv'
<1>1. HookShape'
  BY DEF HookInv, HookShape, TriggerReads
<1>2. TasksPlaced(sendq, running, timers, fate)' /\ NoIdleSlot'
  BY DEF HookInv, TriggerReads, NoIdleSlot
<1>3. NotYetSent'
  BY DEF HookInv, HookShape, TriggerReads, NotYetSent
<1>4. SubscriptionsKept'
  BY FileUntouched DEF TriggerReads
<1> QED BY <1>1, <1>2, <1>3, <1>4 DEF HookInv

-----------------------------------------------------------------------------
\* Tasks of deliveries that have no place yet join the queue at its end.
LEMMA Enqueued ==
    ASSUME NEW q, NEW run, NEW ts, NEW new \in Seq(Tasks),
           PlaceTypes(q, run, ts), OnceEach(q, run, ts), OnePlace(q, run, ts),
           \A i, k \in 1 .. Len(new) : new[i].delivery = new[k].delivery => i = k,
           \A d : InQueue(d, new) => ~InQueue(d, q) /\ ~InSlot(d, run) /\ ~OnTimer(d, ts)
    PROVE  /\ PlaceTypes(q \o new, run, ts) /\ OnceEach(q \o new, run, ts)
           /\ OnePlace(q \o new, run, ts)
           /\ \A d : InQueue(d, q \o new) <=> InQueue(d, q) \/ InQueue(d, new)
<1> DEFINE all == q \o new
<1>0. q \in Seq(Tasks) /\ Len(q) \in Nat /\ Len(new) \in Nat
  BY DEF PlaceTypes
<1>1. /\ all \in Seq(Tasks) /\ Len(all) = Len(q) + Len(new)
      /\ \A i \in 1 .. Len(q) + Len(new) :
           all[i] = IF i <= Len(q) THEN q[i] ELSE new[i - Len(q)]
  BY <1>0, ConcatProperties
<1> HIDE DEF all
<1>2. ASSUME NEW i \in 1 .. Len(all)
      PROVE  \/ i \in 1 .. Len(q) /\ all[i] = q[i]
             \/ i - Len(q) \in 1 .. Len(new) /\ all[i] = new[i - Len(q)]
  BY <1>0, <1>1
<1>3. \A i \in 1 .. Len(q) : i \in 1 .. Len(all) /\ all[i] = q[i]
  BY <1>0, <1>1
<1>4. ASSUME NEW k \in 1 .. Len(new)
      PROVE  Len(q) + k \in 1 .. Len(all) /\ all[Len(q) + k] = new[k]
  <2>1. Len(q) + k \in 1 .. Len(q) + Len(new) /\ ~(Len(q) + k <= Len(q)) /\ Len(q) + k - Len(q) = k
    BY <1>0
  <2> QED BY <1>1, <2>1
<1>5. \A d : InQueue(d, all) <=> InQueue(d, q) \/ InQueue(d, new)
  <2>1. ASSUME NEW d, InQueue(d, all) PROVE InQueue(d, q) \/ InQueue(d, new)
    <3>1. PICK i \in 1 .. Len(all) : all[i].delivery = d
      BY <2>1 DEF InQueue
    <3>2. CASE i \in 1 .. Len(q) /\ all[i] = q[i]
      BY <3>1, <3>2 DEF InQueue
    <3>3. CASE i - Len(q) \in 1 .. Len(new) /\ all[i] = new[i - Len(q)]
      BY <3>1, <3>3 DEF InQueue
    <3> QED BY <1>2, <3>2, <3>3
  <2>2. ASSUME NEW d, InQueue(d, q) PROVE InQueue(d, all)
    BY <1>3, <2>2 DEF InQueue
  <2>3. ASSUME NEW d, InQueue(d, new) PROVE InQueue(d, all)
    <3>1. PICK k \in 1 .. Len(new) : new[k].delivery = d
      BY <2>3 DEF InQueue
    <3>2. Len(q) + k \in 1 .. Len(all) /\ all[Len(q) + k].delivery = d
      BY <1>4, <3>1
    <3> QED BY <3>2 DEF InQueue
  <2> QED BY <2>1, <2>2, <2>3
<1>6. OnceEach(all, run, ts)
  <2>1. ASSUME NEW i \in 1 .. Len(all), NEW k \in 1 .. Len(all), all[i].delivery = all[k].delivery
        PROVE  i = k
    <3>1. CASE i \in 1 .. Len(q) /\ all[i] = q[i] /\ k \in 1 .. Len(q) /\ all[k] = q[k]
      BY <2>1, <3>1 DEF OnceEach
    <3>2. CASE i \in 1 .. Len(q) /\ all[i] = q[i] /\ k - Len(q) \in 1 .. Len(new) /\ all[k] = new[k - Len(q)]
      <4>1. InQueue(all[i].delivery, q) /\ InQueue(all[k].delivery, new)
        BY <3>2 DEF InQueue
      <4> QED BY <2>1, <4>1
    <3>3. CASE k \in 1 .. Len(q) /\ all[k] = q[k] /\ i - Len(q) \in 1 .. Len(new) /\ all[i] = new[i - Len(q)]
      <4>1. InQueue(all[k].delivery, q) /\ InQueue(all[i].delivery, new)
        BY <3>3 DEF InQueue
      <4> QED BY <2>1, <4>1
    <3>4. CASE /\ i - Len(q) \in 1 .. Len(new) /\ all[i] = new[i - Len(q)]
               /\ k - Len(q) \in 1 .. Len(new) /\ all[k] = new[k - Len(q)]
      <4>1. i - Len(q) = k - Len(q)
        BY <2>1, <3>4
      <4> QED BY <1>0, <4>1
    <3> QED BY <1>2, <3>1, <3>2, <3>3, <3>4
  <2> QED BY <2>1 DEF OnceEach
<1>7. OnePlace(all, run, ts)
  BY <1>5 DEF OnePlace
<1>8. PlaceTypes(all, run, ts)
  BY <1>1 DEF PlaceTypes
<1> QED BY <1>5, <1>6, <1>7, <1>8 DEF all

LEMMA TriggerEnqueuesKeeps ==
    ASSUME HookInv, NEW v \in Events, TriggerEnqueues(v) PROVE HookInv'
<1> DEFINE S == trig[v].has
<1>1. /\ HookShape /\ TasksPlaced(sendq, running, timers, fate) /\ NotYetSent
      /\ trig[v].at = "read" /\ S \in SUBSET Hooks
  BY DEF HookInv, HookShape, TriggerEnqueues
<1>2. PICK q \in [1 .. Cardinality(S) -> S] :
        /\ {q[i] : i \in DOMAIN q} = S
        /\ Start(sendq \o [i \in DOMAIN q |-> Task(<<v, q[i]>>, 1)], running)
  BY DEF TriggerEnqueues
<1> DEFINE new == [i \in DOMAIN q |-> Task(<<v, q[i]>>, 1)]
<1>3. IsFiniteSet(S) /\ Cardinality(S) \in Nat
  BY <1>1, HooksAssumption, FS_Subset, FS_CardinalityType
<1>4. \A i, k \in 1 .. Cardinality(S) : q[i] = q[k] => i = k
  <2>1. q \in Surjection(1 .. Cardinality(S), S)
    BY <1>2 DEF Surjection
  <2>2. IsFiniteSet(1 .. Cardinality(S)) /\ Cardinality(1 .. Cardinality(S)) = Cardinality(S)
    <3>1. /\ IsFiniteSet(1 .. Cardinality(S))
          /\ Cardinality(1 .. Cardinality(S)) =
               IF 1 > Cardinality(S) THEN 0 ELSE Cardinality(S) - 1 + 1
      BY <1>3, FS_Interval
    <3> QED BY <1>3, <3>1
  <2>3. q \in Injection(1 .. Cardinality(S), S)
    BY <2>1, <2>2, FS_SurjSameCardinalityImpliesInj
  <2> QED BY <2>3 DEF Injection, IsInjective
<1>5. /\ DOMAIN q = 1 .. Cardinality(S)
      /\ \A i \in 1 .. Cardinality(S) : q[i] \in S /\ <<v, q[i]>> \in Deliveries
  BY <1>1 DEF Deliveries
<1>6. /\ new \in Seq(Tasks) /\ Len(new) = Cardinality(S)
      /\ \A i \in 1 .. Cardinality(S) : new[i].delivery = <<v, q[i]>>
  <2>1. \A i \in 1 .. Cardinality(S) : Task(<<v, q[i]>>, 1) \in Tasks
    BY <1>5, HooksAssumption DEF Task, Tasks
  <2>2. new \in [1 .. Cardinality(S) -> Tasks]
    BY <1>5, <2>1
  <2>3. new \in Seq(Tasks) /\ Len(new) = Cardinality(S)
    <3> HIDE DEF new
    <3> QED BY <1>3, <2>2
  <2>4. \A i \in 1 .. Cardinality(S) : new[i].delivery = <<v, q[i]>>
    BY <1>5 DEF Task
  <2> QED BY <2>3, <2>4
<1>7. Start(sendq \o new, running)
  BY <1>2
<1>8. \A d : InQueue(d, new) <=> \E h \in S : d = <<v, h>>
  <2>1. \A h \in S : \E i \in 1 .. Cardinality(S) : q[i] = h
    BY <1>2, <1>5
  <2> HIDE DEF new, S
  <2>2. ASSUME NEW d, InQueue(d, new) PROVE \E h \in S : d = <<v, h>>
    <3>1. PICK i \in 1 .. Cardinality(S) : new[i].delivery = d
      BY <1>6, <2>2 DEF InQueue
    <3> QED BY <1>5, <1>6, <3>1
  <2>3. ASSUME NEW h \in S PROVE InQueue(<<v, h>>, new)
    <3>1. PICK i \in 1 .. Cardinality(S) : q[i] = h
      BY <2>1
    <3>2. i \in 1 .. Len(new) /\ new[i].delivery = <<v, h>>
      BY <1>6, <3>1
    <3> QED BY <3>2 DEF InQueue
  <2> QED BY <2>2, <2>3
<1> HIDE DEF new
<1>9. \A i, k \in 1 .. Len(new) : new[i].delivery = new[k].delivery => i = k
  BY <1>4, <1>6
<1>10. \A h \in S : <<v, h>> \in Deliveries /\ fate[<<v, h>>] = "none"
  BY <1>1 DEF NotYetSent, Deliveries
<1>11. \A d : InQueue(d, new) => ~InQueue(d, sendq) /\ ~InSlot(d, running) /\ ~OnTimer(d, timers)
  BY <1>1, <1>8, <1>10 DEF TasksPlaced, OpenPlaced
<1>12. /\ PlaceTypes(sendq \o new, running, timers) /\ OnceEach(sendq \o new, running, timers)
       /\ OnePlace(sendq \o new, running, timers)
       /\ \A d : InQueue(d, sendq \o new) <=> InQueue(d, sendq) \/ InQueue(d, new)
  BY <1>1, <1>6, <1>9, <1>11, Enqueued DEF TasksPlaced
<1>13. \A d \in Deliveries : fate'[d] = IF \E h \in S : d = <<v, h>> THEN "open" ELSE fate[d]
  <2>1. \A d \in Deliveries : (\E h \in S : d = <<v, h>>) <=> d[1] = v /\ d[2] \in S
    BY DEF Deliveries
  <2> QED BY <2>1 DEF TriggerEnqueues
<1>14. OpenPlaced(sendq \o new, running, timers, fate')
  BY <1>1, <1>8, <1>12, <1>13 DEF TasksPlaced, OpenPlaced
<1>15. TasksPlaced(sendq \o new, running, timers, fate')
  BY <1>12, <1>14 DEF TasksPlaced
<1>16. TasksPlaced(sendq', running', timers, fate') /\ NoIdleSlot'
  BY <1>7, <1>15, StartPlaces
<1>17. timers' = timers /\ UNCHANGED <<hooks, edit, overlapped, drained, logFailures>>
  BY DEF TriggerEnqueues
<1>18. HookShape'
  <2>1. fate' \in [Deliveries -> Fates]
    BY <1>1 DEF TriggerEnqueues, HookShape, Fates
  <2>2. trig' \in [Events -> [at : {"due", "read", "sent"}, has : SUBSET Hooks]]
    BY <1>1 DEF TriggerEnqueues, HookShape
  <2> QED BY <1>1, <1>17, <2>1, <2>2 DEF HookShape
<1>19. NotYetSent'
  <2> SUFFICES ASSUME NEW w \in Events, NEW h \in Hooks, trig'[w].at # "sent"
               PROVE  fate'[<<w, h>>] = "none"
    BY DEF NotYetSent
  <2>1. w # v /\ trig'[w] = trig[w]
    BY <1>1 DEF TriggerEnqueues, HookShape
  <2>2. <<w, h>> \in Deliveries /\ fate[<<w, h>>] = "none"
    BY <1>1, <2>1 DEF NotYetSent, Deliveries
  <2> QED BY <1>13, <2>1, <2>2
<1>20. SubscriptionsKept'
  BY <1>17, FileUntouched
<1> QED BY <1>16, <1>17, <1>18, <1>19, <1>20 DEF HookInv

-----------------------------------------------------------------------------
\* What a delivery's end leaves to show: the file, the triggers and the types follow.
LEMMA FateMoves ==
    ASSUME HookInv, UNCHANGED <<hooks, edit, overlapped, trig>>,
           drained' \in BOOLEAN, logFailures' \in 0 .. MaxLogFailures,
           fate' \in [Deliveries -> Fates],
           \A d \in Deliveries : fate'[d] # fate[d] => fate[d] = "open",
           TasksPlaced(sendq', running', timers', fate'), NoIdleSlot'
    PROVE  HookInv'
<1>1. HookShape'
  BY DEF HookInv, HookShape
<1>2. NotYetSent'
  <2> SUFFICES ASSUME NEW v \in Events, NEW h \in Hooks, trig[v].at # "sent"
               PROVE  fate'[<<v, h>>] = "none"
    BY DEF NotYetSent
  <2>1. <<v, h>> \in Deliveries /\ fate[<<v, h>>] = "none"
    BY DEF HookInv, NotYetSent, Deliveries
  <2> QED BY <2>1
<1>3. SubscriptionsKept'
  BY FileUntouched
<1> QED BY <1>1, <1>2, <1>3 DEF HookInv

LEMMA PostKeeps ==
    ASSUME HookInv, NEW x \in running, Post(x) PROVE HookInv'
<1>1. /\ TasksPlaced(sendq, running, timers, fate) /\ HookShape /\ NoIdleSlot
      /\ UNCHANGED <<hooks, edit, overlapped, trig, sendq, timers, fate, drained, logFailures>>
  BY DEF HookInv, Post
<1>2. PICK p \in {"ok", "failed"} : running' = (running \ {x}) \cup {[x EXCEPT !.posted = p]}
  BY DEF Post
<1> DEFINE y == [x EXCEPT !.posted = p]
<1>3. x \in Slots /\ y \in Slots /\ y.task = x.task
  BY <1>1 DEF TasksPlaced, PlaceTypes, Slots
<1> HIDE DEF y
<1>4. running' = (running \ {x}) \cup {y}
  BY <1>2 DEF y
<1>5. /\ PlaceTypes(sendq, running \ {x}, timers) /\ OnceEach(sendq, running \ {x}, timers)
      /\ \A z \in running \ {x} : z.task.delivery # x.task.delivery
  BY <1>1, SlotFreed DEF TasksPlaced, OnceEach
<1>6. \A d : InSlot(d, running') <=> InSlot(d, running)
  BY <1>3, <1>4 DEF InSlot
<1>7. IsFiniteSet(running') /\ Cardinality(running') = Cardinality(running)
  <2>1. IsFiniteSet(running) /\ Cardinality(running) \in Nat
    BY <1>1, FS_CardinalityType DEF TasksPlaced, PlaceTypes
  <2>2. IsFiniteSet(running \ {x}) /\ Cardinality(running \ {x}) = Cardinality(running) - 1
    BY <2>1, FS_RemoveElement
  <2>3. y \notin running \ {x}
    BY <1>3, <1>5
  <2>4. /\ IsFiniteSet((running \ {x}) \cup {y})
        /\ Cardinality((running \ {x}) \cup {y}) = Cardinality(running \ {x}) + 1
    BY <2>2, <2>3, FS_AddElement
  <2> QED BY <1>4, <2>1, <2>2, <2>4
<1>8. PlaceTypes(sendq, running', timers)
  BY <1>1, <1>3, <1>4, <1>7 DEF TasksPlaced, PlaceTypes
<1>9. OnceEach(sendq, running', timers)
  BY <1>3, <1>4, <1>5 DEF OnceEach
<1>10. OnePlace(sendq, running', timers) /\ OpenPlaced(sendq, running', timers, fate)
  BY <1>1, <1>6 DEF TasksPlaced, OnePlace, OpenPlaced
<1>11. TasksPlaced(sendq', running', timers', fate')
  BY <1>1, <1>8, <1>9, <1>10 DEF TasksPlaced
<1>12. NoIdleSlot'
  BY <1>1, <1>7 DEF NoIdleSlot
<1> QED BY <1>1, <1>11, <1>12, FateMoves DEF HookShape

\* The slot is handed on and the delivery has ended
LEMMA SlotEnds ==
    ASSUME HookInv, NEW x \in running, NEW end \in Fates \ {"open"},
           Start(sendq, running \ {x}), fate' = [fate EXCEPT ![x.task.delivery] = end],
           UNCHANGED <<hooks, edit, overlapped, trig, timers, drained>>,
           logFailures' \in 0 .. MaxLogFailures
    PROVE  HookInv'
<1>1. TasksPlaced(sendq, running, timers, fate) /\ HookShape
  BY DEF HookInv
<1>2. /\ PlaceTypes(sendq, running \ {x}, timers) /\ OnceEach(sendq, running \ {x}, timers)
      /\ OnePlace(sendq, running \ {x}, timers)
      /\ x.task \in Tasks /\ x.task.delivery \in Deliveries /\ fate[x.task.delivery] = "open"
      /\ \A d \in Deliveries :
           InQueue(d, sendq) \/ InSlot(d, running \ {x}) \/ OnTimer(d, timers)
           <=> fate[d] = "open" /\ d # x.task.delivery
  <2>1. /\ PlaceTypes(sendq, running \ {x}, timers) /\ OnceEach(sendq, running \ {x}, timers)
        /\ OnePlace(sendq, running \ {x}, timers)
    BY <1>1, SlotFreed
  <2>2. x.task \in Tasks /\ x.task.delivery \in Deliveries
    BY <1>1 DEF TasksPlaced, PlaceTypes, Slots, Tasks
  <2>4. fate[x.task.delivery] = "open"
    BY <1>1, <2>2 DEF TasksPlaced, OpenPlaced, InSlot
  <2>3. ASSUME NEW d \in Deliveries
        PROVE  InQueue(d, sendq) \/ InSlot(d, running \ {x}) \/ OnTimer(d, timers)
               <=> fate[d] = "open" /\ d # x.task.delivery
    BY <1>1, SlotFreed
  <2> QED BY <2>1, <2>2, <2>3, <2>4
<1>3. /\ fate' \in [Deliveries -> Fates] /\ drained' \in BOOLEAN
      /\ \A d \in Deliveries : fate'[d] = IF d = x.task.delivery THEN end ELSE fate[d]
  BY <1>1, <1>2 DEF HookShape
<1>4. TasksPlaced(sendq, running \ {x}, timers, fate')
  BY <1>2, <1>3 DEF TasksPlaced, OpenPlaced
<1>5. TasksPlaced(sendq', running', timers', fate') /\ NoIdleSlot'
  BY <1>4, StartPlaces
<1> QED BY <1>2, <1>3, <1>5, FateMoves

LEMMA LoggedKeeps ==
    ASSUME HookInv, NEW x \in running, Logged(x) PROVE HookInv'
<1> DEFINE again == [x.task EXCEPT !.attempt = @ + 1]
<1>1. /\ TasksPlaced(sendq, running, timers, fate) /\ HookShape /\ x \in Slots /\ x.task \in Tasks
      /\ x.task.delivery \in Deliveries
  BY SlotFreed DEF HookInv, TasksPlaced, PlaceTypes
<1>2. /\ Start(sendq, running \ {x}) /\ logFailures' = logFailures
      /\ UNCHANGED <<hooks, edit, overlapped, trig, drained>> /\ x.posted \in {"ok", "failed"}
      /\ x.task.attempt \in 1 .. MaxRetries
  BY <1>1 DEF Logged, Slots, Tasks
<1>3. logFailures' \in 0 .. MaxLogFailures
  BY <1>1, <1>2 DEF HookShape
<1>4. CASE x.posted = "ok"
  <2>1. fate' = [fate EXCEPT ![x.task.delivery] = "delivered"] /\ timers' = timers
    BY <1>4 DEF Logged
  <2> QED BY <1>2, <1>3, <2>1, SlotEnds DEF Fates
<1>5. CASE x.posted = "failed" /\ x.task.attempt = MaxRetries
  <2>1. fate' = [fate EXCEPT ![x.task.delivery] = "exhausted"] /\ timers' = timers
    BY <1>5, HooksAssumption DEF Logged
  <2> QED BY <1>2, <1>3, <2>1, SlotEnds DEF Fates
<1>6. CASE x.posted = "failed" /\ x.task.attempt # MaxRetries
  <2>1. x.task.attempt < MaxRetries /\ x.task.attempt + 1 \in 1 .. MaxRetries
    BY <1>2, <1>6, HooksAssumption
  <2>2. again \in Tasks /\ again.delivery = x.task.delivery
    BY <1>1, <2>1 DEF Tasks
  <2>3. timers' = timers \cup {again}
    BY <1>6, <2>1 DEF Logged
  <2>4. fate' = fate
    BY <1>1, <1>6 DEF Logged, HookShape
  <2> HIDE DEF again
  <2>5. /\ PlaceTypes(sendq, running \ {x}, timers) /\ OnceEach(sendq, running \ {x}, timers)
        /\ OnePlace(sendq, running \ {x}, timers) /\ fate[x.task.delivery] = "open"
        /\ \A d \in Deliveries :
             InQueue(d, sendq) \/ InSlot(d, running \ {x}) \/ OnTimer(d, timers)
             <=> fate[d] = "open" /\ d # x.task.delivery
    <3>1. /\ PlaceTypes(sendq, running \ {x}, timers) /\ OnceEach(sendq, running \ {x}, timers)
          /\ OnePlace(sendq, running \ {x}, timers)
      BY <1>1, SlotFreed
    <3>2. fate[x.task.delivery] = "open"
      BY <1>1 DEF TasksPlaced, OpenPlaced, InSlot
    <3>3. ASSUME NEW d \in Deliveries
          PROVE  InQueue(d, sendq) \/ InSlot(d, running \ {x}) \/ OnTimer(d, timers)
                 <=> fate[d] = "open" /\ d # x.task.delivery
      BY <1>1, SlotFreed
    <3> QED BY <3>1, <3>2, <3>3
  <2>6. \A d : OnTimer(d, timers') <=> OnTimer(d, timers) \/ d = x.task.delivery
    BY <2>2, <2>3 DEF OnTimer
  <2>7. PlaceTypes(sendq, running \ {x}, timers')
    BY <2>2, <2>3, <2>5 DEF PlaceTypes
  <2>8. OnceEach(sendq, running \ {x}, timers')
    <3>1. \A t \in timers : t.delivery # again.delivery
      BY <1>1, <2>2, <2>5 DEF OnTimer
    <3> QED BY <2>3, <2>5, <3>1 DEF OnceEach
  <2>9. OnePlace(sendq, running \ {x}, timers') /\ OpenPlaced(sendq, running \ {x}, timers', fate)
    BY <1>1, <2>5, <2>6 DEF OnePlace, OpenPlaced
  <2>10. TasksPlaced(sendq, running \ {x}, timers', fate)
    BY <2>7, <2>8, <2>9 DEF TasksPlaced
  <2>11. TasksPlaced(sendq', running', timers', fate') /\ NoIdleSlot'
    BY <1>2, <2>4, <2>10, StartPlaces
  <2> QED BY <1>1, <1>2, <1>3, <2>4, <2>11, FateMoves DEF HookShape
<1> QED BY <1>2, <1>4, <1>5, <1>6

LEMMA LogFailsKeeps ==
    ASSUME HookInv, NEW x \in running, LogFails(x) PROVE HookInv'
<1>1. logFailures' \in 0 .. MaxLogFailures
  BY HooksAssumption DEF HookInv, HookShape, LogFails
<1>2. PICK end \in {"delivered", "unlogged"} : fate' = [fate EXCEPT ![x.task.delivery] = end]
  BY DEF LogFails
<1> QED BY <1>1, <1>2, SlotEnds DEF LogFails, Fates

LEMMA RetryDueKeeps ==
    ASSUME HookInv, NEW t \in timers, RetryDue(t) PROVE HookInv'
<1>1. TasksPlaced(sendq, running, timers, fate) /\ HookShape /\ t \in Tasks
  BY DEF HookInv, TasksPlaced, PlaceTypes
<1>2. /\ timers' = timers \ {t} /\ Start(Append(sendq, t), running)
      /\ UNCHANGED <<hooks, edit, overlapped, trig, fate, drained, logFailures>>
  BY DEF RetryDue
<1> DEFINE new == <<t>>
<1>3. new \in Seq(Tasks) /\ Len(new) = 1 /\ new[1] = t /\ Append(sendq, t) = sendq \o new
  BY <1>1, AppendIsConcat DEF TasksPlaced, PlaceTypes
<1> HIDE DEF new
<1>4. \A d : InQueue(d, new) <=> d = t.delivery
  BY <1>3 DEF InQueue
<1>5. t.delivery \in Deliveries /\ OnTimer(t.delivery, timers)
  BY <1>1 DEF Tasks, OnTimer
<1>6. \A d : OnTimer(d, timers) <=> OnTimer(d, timers') \/ d = t.delivery
  BY <1>2 DEF OnTimer
<1>7. ~OnTimer(t.delivery, timers')
  BY <1>1, <1>2 DEF OnTimer, TasksPlaced, OnceEach
<1>8. /\ PlaceTypes(sendq, running, timers') /\ OnceEach(sendq, running, timers')
      /\ OnePlace(sendq, running, timers')
  BY <1>1, <1>2, <1>6 DEF TasksPlaced, PlaceTypes, OnceEach, OnePlace
<1>9. ~InQueue(t.delivery, sendq) /\ ~InSlot(t.delivery, running)
  BY <1>1, <1>5 DEF TasksPlaced, OnePlace
<1>10. /\ PlaceTypes(sendq \o new, running, timers') /\ OnceEach(sendq \o new, running, timers')
       /\ OnePlace(sendq \o new, running, timers')
       /\ \A d : InQueue(d, sendq \o new) <=> InQueue(d, sendq) \/ InQueue(d, new)
  <2>1. \A i, k \in 1 .. Len(new) : new[i].delivery = new[k].delivery => i = k
    BY <1>3
  <2>2. \A d : InQueue(d, new) => ~InQueue(d, sendq) /\ ~InSlot(d, running) /\ ~OnTimer(d, timers')
    BY <1>4, <1>7, <1>9
  <2> QED BY <1>3, <1>8, <2>1, <2>2, Enqueued
<1>11. OpenPlaced(sendq \o new, running, timers', fate)
  BY <1>1, <1>4, <1>6, <1>10 DEF TasksPlaced, OpenPlaced
<1>12. TasksPlaced(sendq \o new, running, timers', fate)
  BY <1>10, <1>11 DEF TasksPlaced
<1>13. TasksPlaced(sendq', running', timers', fate') /\ NoIdleSlot'
  BY <1>2, <1>3, <1>12, StartPlaces
<1> QED BY <1>1, <1>2, <1>13, FateMoves DEF HookShape

LEMMA DrainKeeps ==
    ASSUME HookInv, Drain PROVE HookInv'
<1>1. /\ TasksPlaced(sendq, running, timers, fate) /\ HookShape /\ sendq \in Seq(Tasks)
      /\ drained' = TRUE /\ timers' = {} /\ sendq' = <<>>
      /\ UNCHANGED <<hooks, edit, overlapped, trig, running, logFailures>>
  BY DEF HookInv, Drain, TasksPlaced, PlaceTypes
<1>2. /\ \A d \in Deliveries : fate'[d] = IF InQueue(d, sendq) \/ OnTimer(d, timers)
                                         THEN "dropped" ELSE fate[d]
      /\ fate' \in [Deliveries -> Fates]
  <2>1. \A d : d \in {t.delivery : t \in timers} \cup {sendq[i].delivery : i \in DOMAIN sendq}
                <=> InQueue(d, sendq) \/ OnTimer(d, timers)
    BY <1>1 DEF InQueue, OnTimer
  <2>2. fate' = [d \in Deliveries |->
           IF InQueue(d, sendq) \/ OnTimer(d, timers) THEN "dropped" ELSE fate[d]]
    BY <2>1 DEF Drain
  <2> QED BY <1>1, <2>2 DEF HookShape, Fates
<1>3. \A d : ~InQueue(d, <<>>) /\ ~OnTimer(d, {})
  BY DEF InQueue, OnTimer
<1>4. PlaceTypes(<<>>, running, {}) /\ OnceEach(<<>>, running, {}) /\ OnePlace(<<>>, running, {})
  BY <1>1, <1>3 DEF TasksPlaced, PlaceTypes, OnceEach, OnePlace
<1>5. OpenPlaced(<<>>, running, {}, fate')
  BY <1>1, <1>2, <1>3 DEF TasksPlaced, OpenPlaced, OnePlace
<1>6. TasksPlaced(sendq', running', timers', fate')
  BY <1>1, <1>4, <1>5 DEF TasksPlaced
<1>7. NoIdleSlot'
  BY <1>1 DEF NoIdleSlot
<1>8. \A d \in Deliveries : fate'[d] # fate[d] => fate[d] = "open"
  BY <1>1, <1>2 DEF TasksPlaced, OpenPlaced
<1> QED BY <1>1, <1>2, <1>6, <1>7, <1>8, FateMoves DEF HookShape

-----------------------------------------------------------------------------
LEMMA HookStepKeeps == HookInv /\ [HookNext]_hookVars => HookInv'
<1> SUFFICES ASSUME HookInv, [HookNext]_hookVars PROVE HookInv'
  OBVIOUS
<1>1. ASSUME NEW e \in Edits, EditReads(e) \/ EditWrites(e) PROVE HookInv'
  BY <1>1, EditKeeps
<1>2. ASSUME NEW v \in Events, TriggerReads(v) \/ TriggerEnqueues(v) PROVE HookInv'
  BY <1>2, TriggerReadsKeeps, TriggerEnqueuesKeeps
<1>3. ASSUME NEW x \in running, Handle(x) PROVE HookInv'
  BY <1>3, PostKeeps, LoggedKeeps, LogFailsKeeps DEF Handle
<1>4. ASSUME NEW t \in timers, RetryDue(t) PROVE HookInv'
  BY <1>4, RetryDueKeeps
<1>5. CASE Drain
  BY <1>5, DrainKeeps
<1>6. CASE UNCHANGED hookVars
  <2>1. UNCHANGED <<hooks, edit, overlapped, trig, sendq, running, timers, fate, drained, logFailures>>
    BY <1>6 DEF hookVars
  <2>2. HookShape' /\ NotYetSent' /\ NoIdleSlot'
    BY <2>1 DEF HookInv, HookShape, NotYetSent, NoIdleSlot
  <2>3. TasksPlaced(sendq', running', timers', fate')
    BY <2>1 DEF HookInv
  <2>4. SubscriptionsKept'
    BY <2>1, FileUntouched
  <2> QED BY <2>2, <2>3, <2>4 DEF HookInv
<1> QED BY <1>1, <1>2, <1>3, <1>4, <1>5, <1>6 DEF HookNext, Deliver

\* A set whose members are all the same one is counted at a glance
LEMMA CountOne ==
    ASSUME NEW S, \A x, y \in S : x = y
    PROVE  Cardinality(S) = IF S = {} THEN 0 ELSE 1
<1>1. CASE S = {}
  BY <1>1, FS_EmptySet
<1>2. CASE S # {}
  <2>1. PICK x : x \in S
    BY <1>2
  <2>2. S = {x}
    BY <2>1
  <2> QED BY <1>2, <2>2, FS_Singleton
<1> QED BY <1>1, <1>2

LEMMA HookInvTracks == HookInv => DeliveriesTracked
<1> SUFFICES ASSUME HookInv PROVE DeliveriesTracked
  OBVIOUS
<1>1. /\ TasksPlaced(sendq, running, timers, fate) /\ HookShape /\ sendq \in Seq(Tasks)
      /\ running \in SUBSET Slots /\ timers \in SUBSET Tasks /\ DOMAIN sendq = 1 .. Len(sendq)
      /\ Cardinality(running) <= Concurrency
  BY DEF HookInv, TasksPlaced, PlaceTypes
<1>2. HookTypeOK
  <2>1. \A e \in Edits : edit[e].at \in {"due", "read", "done"}
    BY <1>1 DEF HookShape
  <2>2. \A i \in DOMAIN sendq : sendq[i] \in Tasks
    BY <1>1
  <2>3. \A x \in running : x.task \in Tasks /\ x.posted \in {"no", "ok", "failed"}
    BY <1>1 DEF Slots
  <2> QED BY <1>1, <2>1, <2>2, <2>3 DEF HookTypeOK, HookShape
<1>3. OneTaskPerOpenDelivery
  <2> SUFFICES ASSUME NEW d \in Deliveries
               PROVE  InFlight(d) = IF fate[d] = "open" THEN 1 ELSE 0
    BY DEF OneTaskPerOpenDelivery
  <2> DEFINE A == {i \in DOMAIN sendq : sendq[i].delivery = d}
             B == {x \in running : x.task.delivery = d}
             C == {t \in timers : t.delivery = d}
  <2>1. /\ A # {} <=> InQueue(d, sendq)
        /\ B # {} <=> InSlot(d, running)
        /\ C # {} <=> OnTimer(d, timers)
    BY <1>1 DEF InQueue, InSlot, OnTimer
  <2>2. (\A i, k \in A : i = k) /\ (\A x, y \in B : x = y) /\ (\A t, u \in C : t = u)
    BY <1>1 DEF TasksPlaced, OnceEach
  <2>3. InFlight(d) = Cardinality(A) + Cardinality(B) + Cardinality(C)
    BY DEF InFlight
  <2> HIDE DEF A, B, C
  <2>4. /\ Cardinality(A) = IF A = {} THEN 0 ELSE 1
        /\ Cardinality(B) = IF B = {} THEN 0 ELSE 1
        /\ Cardinality(C) = IF C = {} THEN 0 ELSE 1
    BY <2>2, CountOne
  <2>5. fate[d] = "open" <=> A # {} \/ B # {} \/ C # {}
    BY <1>1, <2>1 DEF TasksPlaced, OpenPlaced
  <2>6. A = {} \/ B = {}
    BY <1>1, <2>1 DEF TasksPlaced, OnePlace
  <2>7. (A = {} \/ C = {}) /\ (B = {} \/ C = {})
    BY <1>1, <2>1 DEF TasksPlaced, OnePlace
  <2> QED BY <2>3, <2>4, <2>5, <2>6, <2>7
<1> QED BY <1>2, <1>3 DEF DeliveriesTracked, HookInv

\* Whatever subscriptions, events, slots and attempts there are, and however edits,
\* triggers, posts, retries and drain interleave: an open delivery has exactly one
\* task, no slot is idle while one waits, and a confirmed edit of the subscriptions is
\* lost only to one that overlapped it (webhooks.js:89-115, 188-233, 290-336).
THEOREM DeliveriesAreTracked == HookSpec => []DeliveriesTracked
<1>1. HookInit => HookInv
  BY HookInitInv
<1>2. HookInv /\ [HookNext]_hookVars => HookInv'
  BY HookStepKeeps
<1>3. HookInv => DeliveriesTracked
  BY HookInvTracks
<1> QED BY <1>1, <1>2, <1>3, PTL DEF HookSpec

-----------------------------------------------------------------------------
(* The streams of ledger events. *)

\* A page in hand holds the events from the cursor on, in order, up to its last one; at
\* the limit it may lack some of that one's ledger
PageSound(p, from) ==
  /\ p \in Seq(Event) /\ Ascending(p)
  /\ \A i \in DOMAIN p : LedgerOf[p[i]] >= from
  /\ \A e \in Event : p # <<>> /\ LedgerOf[e] >= from /\ LedgerOf[e] <= LedgerOf[p[Len(p)]]
       => InSeq(e, p) \/ (Len(p) = PageLimit /\ LedgerOf[e] = LedgerOf[p[Len(p)]])

\* The events before ledger n that the client wants were sent or cut
PassedBy(n) == \A e \in Wanted : LedgerOf[e] < n => WasSent(e) \/ LedgerOf[e] \in cut

StreamInv ==
  /\ StreamTypeOK /\ (page # Idle => PageSound(page, nextLedger))
  /\ SentInOrderOnce /\ \A i \in DOMAIN sent : LedgerOf[sent[i]] < Reached
  /\ PassedBy(Reached)
  /\ open => PassedBy(nextLedger) /\ Reached <= nextLedger

LEMMA LedgersAre ==
    /\ Len(LedgerOf) \in Nat /\ Len(LedgerOf) > 0 /\ Event = 1 .. Len(LedgerOf)
    /\ Last \in Nat /\ 0 \notin Event /\ Event \subseteq Nat
    /\ \A e \in Event : LedgerOf[e] \in Nat /\ LedgerOf[e] > 0 /\ LedgerOf[e] <= Last
    /\ \A d, e \in Event : LedgerOf[d] < LedgerOf[e] => d < e
<1>1. Len(LedgerOf) \in Nat /\ Len(LedgerOf) > 0 /\ Event = 1 .. Len(LedgerOf)
  BY StreamAssumption DEF Event
<1>2. Len(LedgerOf) \in Event /\ \A e \in Event : LedgerOf[e] \in Nat /\ LedgerOf[e] > 0
  BY <1>1, StreamAssumption DEF Event
<1>3. \A e \in Event : LedgerOf[e] <= Last
  BY <1>1, <1>2, StreamAssumption DEF Last
<1>4. \A d, e \in Event : LedgerOf[d] < LedgerOf[e] => d < e
  BY <1>1, <1>2, StreamAssumption
<1> QED BY <1>1, <1>2, <1>3, <1>4 DEF Last

\* What the node answers from the cursor on.
LEMMA PageIs ==
    ASSUME NEW from \in Nat, head \in Nat
    PROVE  PageSound(PageFrom(from), from)
<1> DEFINE p == PageFrom(from)
           id == [e \in Event |-> e]
           J == {e \in Event : LedgerOf[e] \in from .. head}
           seen == Filtered(id, J)
           n == IF Len(seen) < PageLimit THEN Len(seen) ELSE PageLimit
<1>1. id \in Seq(Event) /\ DOMAIN id = Event /\ Ascending(id)
  BY LedgersAre DEF Ascending
<1>2. \A e \in Event : id[e] = e
  OBVIOUS
<1>3. /\ seen \in Seq(Event) /\ Ascending(seen)
      /\ \A j \in DOMAIN seen : \E i \in J : seen[j] = id[i]
      /\ \A i \in J : InSeq(id[i], seen)
  <2>1. J \in SUBSET DOMAIN id
    BY <1>1
  <2> HIDE DEF id, J
  <2> QED BY <1>1, <2>1, ChosenIs, LedgersAre
<1>4. p = SubSeq(seen, 1, n)
  BY DEF PageFrom
<1>5. /\ \A j \in DOMAIN seen : seen[j] \in J
      /\ \A e \in J : InSeq(e, seen)
  BY <1>2, <1>3
<1> HIDE DEF seen, id, p
<1>6. DOMAIN seen = 1 .. Len(seen) /\ Len(seen) \in Nat
  BY <1>3
<1>7. n \in 0 .. Len(seen) /\ n <= PageLimit /\ PageLimit \in Nat \ {0}
  BY <1>6, StreamAssumption
<1>8. n # PageLimit => n = Len(seen)
  BY <1>6, <1>7
<1> HIDE DEF n
<1>9. p \in Seq(Event) /\ Len(p) = n /\ DOMAIN p = 1 .. n /\ \A i \in 1 .. n : p[i] = seen[i]
  BY <1>3, <1>4, <1>6, <1>7
<1>10. Ascending(p)
  BY <1>3, <1>6, <1>7, <1>9 DEF Ascending
<1>11. \A i \in DOMAIN p : LedgerOf[p[i]] >= from /\ LedgerOf[p[i]] <= head /\ p[i] \in Event
  BY <1>5, <1>6, <1>7, <1>9, LedgersAre
<1>12. ASSUME NEW e \in Event, p # <<>>, LedgerOf[e] >= from, LedgerOf[e] <= LedgerOf[p[Len(p)]]
       PROVE  InSeq(e, p) \/ (Len(p) = PageLimit /\ LedgerOf[e] = LedgerOf[p[Len(p)]])
  <2>1. n > 0 /\ n \in DOMAIN p /\ p[n] \in Event
    BY <1>7, <1>9, <1>11, <1>12
  <2>2. LedgerOf[e] \in Nat /\ LedgerOf[p[n]] \in Nat /\ LedgerOf[p[n]] <= head
    BY <1>11, <2>1, LedgersAre
  <2>3. e \in J
    BY <1>9, <1>12, <2>2
  <2>4. PICK k \in DOMAIN seen : seen[k] = e
    BY <1>5, <2>3 DEF InSeq
  <2>5. CASE k <= n
    <3>1. k \in 1 .. n
      BY <1>6, <2>5
    <3> QED BY <1>9, <2>4, <3>1 DEF InSeq
  <2>6. CASE ~(k <= n)
    <3>1. n < k /\ n # Len(seen) /\ n \in DOMAIN seen
      BY <1>6, <1>7, <2>1, <2>6
    <3>2. p[n] < e
      BY <1>3, <1>9, <2>1, <2>4, <3>1 DEF Ascending
    <3>3. p[n] <= e
      BY <2>1, <3>2, LedgersAre
    <3>4. LedgerOf[p[n]] <= LedgerOf[e]
      BY <2>1, <3>3, StreamAssumption
    <3> QED BY <1>8, <1>9, <1>12, <2>2, <3>1, <3>4
  <2> QED BY <2>5, <2>6
<1> QED BY <1>9, <1>10, <1>11, <1>12 DEF PageSound, p


\* What a page sends and how far it moves the cursor.
LEMMA ForwardedIs ==
    ASSUME nextLedger \in Nat, cut \subseteq 1 .. Last, NEW p, PageSound(p, nextLedger), nextLedger <= Last + 1
    PROVE  /\ Forwarded(p) \in Seq(Event) /\ Ascending(Forwarded(p))
           /\ Advanced(p) \in Nat /\ nextLedger <= Advanced(p) /\ Advanced(p) <= Last + 1
           /\ cut \subseteq Cuts(p) /\ Cuts(p) \subseteq 1 .. Last
           /\ \A j \in DOMAIN Forwarded(p) : /\ LedgerOf[Forwarded(p)[j]] >= nextLedger
                                             /\ LedgerOf[Forwarded(p)[j]] < Advanced(p)
           /\ \A e \in Wanted : LedgerOf[e] >= nextLedger /\ LedgerOf[e] < Advanced(p)
                => InSeq(e, Forwarded(p)) \/ e \in Bare(p) \/ LedgerOf[e] \in Cuts(p)
<1> DEFINE F == Forwarded(p)  R == Dated(p)
           J == {i \in DOMAIN p : p[i] \notin Skipped \cup Unledgered}
           K == {i \in DOMAIN p : p[i] \notin Unreadable \cup Unledgered}
<1>1. /\ p \in Seq(Event) /\ Ascending(p)
      /\ \A i \in DOMAIN p : LedgerOf[p[i]] >= nextLedger
      /\ \A e \in Event : p # <<>> /\ LedgerOf[e] >= nextLedger /\ LedgerOf[e] <= LedgerOf[p[Len(p)]]
           => InSeq(e, p) \/ (Len(p) = PageLimit /\ LedgerOf[e] = LedgerOf[p[Len(p)]])
  BY DEF PageSound
<1>2. /\ F \in Seq(Event) /\ Ascending(F)
      /\ \A j \in DOMAIN F : \E i \in J : F[j] = p[i]
      /\ \A i \in J : InSeq(p[i], F)
  <2>1. J \in SUBSET DOMAIN p /\ F = Filtered(p, J)
    BY DEF Forwarded
  <2> HIDE DEF J, F
  <2> QED BY <1>1, <2>1, ChosenIs, LedgersAre
<1>3. /\ R \in Seq(Event) /\ Ascending(R)
      /\ \A j \in DOMAIN R : \E i \in K : R[j] = p[i]
      /\ \A i \in K : InSeq(p[i], R)
  <2>1. K \in SUBSET DOMAIN p /\ R = Filtered(p, K)
    BY DEF Dated
  <2> HIDE DEF K, R
  <2> QED BY <1>1, <2>1, ChosenIs, LedgersAre
<1>4. /\ DOMAIN p = 1 .. Len(p) /\ Len(p) \in Nat /\ \A i \in DOMAIN p : p[i] \in Event
      /\ DOMAIN R = 1 .. Len(R) /\ Len(R) \in Nat /\ \A i \in DOMAIN R : R[i] \in Event
  BY <1>1, <1>3
<1>5. Last \in Nat /\ \A e \in Event : LedgerOf[e] \in Nat /\ LedgerOf[e] > 0 /\ LedgerOf[e] <= Last
  BY LedgersAre
<1>6. /\ R # <<>> /\ LedgerOf[R[Len(R)]] >= nextLedger => Advanced(p) = LedgerOf[R[Len(R)]] + 1
      /\ R = <<>> => Advanced(p) = nextLedger \/ (nextLedger = 0 /\ Advanced(p) = 1)
  BY DEF Advanced
<1> HIDE DEF R, F
<1>7. \A j \in DOMAIN R : R[j] \in Event /\ LedgerOf[R[j]] >= nextLedger
  BY <1>1, <1>3, <1>4
<1>8. CASE R = <<>>
  <2>1. Advanced(p) = nextLedger \/ (nextLedger = 0 /\ Advanced(p) = 1)
    BY <1>6, <1>8
  <2>2. J = {}
    <3>1. J \subseteq K /\ \A i \in K : FALSE
      BY <1>3, <1>8 DEF InSeq, Skipped
    <3> QED BY <3>1
  <2>3. DOMAIN F = {}
    BY <1>2, <2>2
  <2>4. \A e \in Wanted : LedgerOf[e] \in Nat /\ LedgerOf[e] > 0
    BY <1>5 DEF Wanted
  <2>5. cut \subseteq Cuts(p) /\ Cuts(p) \subseteq 1 .. Last
    <3>1. Len(p) = PageLimit => Len(p) \in DOMAIN p
      BY <1>4, StreamAssumption
    <3>2. Len(p) = PageLimit => LedgerOf[p[Len(p)]] \in 1 .. Last
      BY <1>4, <1>5, <3>1
    <3> QED BY <3>2 DEF Cuts
  <2> QED BY <1>2, <1>5, <2>1, <2>3, <2>4, <2>5 DEF F
<1>9. CASE R # <<>>
  <2>1. Len(R) \in DOMAIN R
    BY <1>3, <1>4, <1>9
  <2> DEFINE l == LedgerOf[R[Len(R)]]
  <2>2. l \in Nat /\ l <= Last /\ l >= nextLedger /\ Advanced(p) = l + 1
    BY <1>5, <1>6, <1>7, <1>9, <2>1
  <2>3. PICK k \in K : R[Len(R)] = p[k]
    BY <1>3, <2>1
  <2>4. k \in DOMAIN p /\ p # <<>> /\ Len(p) \in DOMAIN p
    BY <1>4, <2>3
  <2>5. l <= LedgerOf[p[Len(p)]] /\ LedgerOf[p[Len(p)]] \in 1 .. Last
    <3>1. p[k] <= p[Len(p)]
      <4>1. CASE k = Len(p)
        BY <1>4, <2>4, <4>1, LedgersAre
      <4>2. CASE k # Len(p)
        <5>1. k < Len(p)
          BY <1>4, <2>4, <4>2
        <5> QED BY <1>1, <1>4, <2>4, <5>1, LedgersAre DEF Ascending
      <4> QED BY <4>1, <4>2
    <3>2. LedgerOf[p[k]] <= LedgerOf[p[Len(p)]]
      BY <1>4, <2>4, <3>1, StreamAssumption
    <3> QED BY <1>4, <1>5, <2>3, <2>4, <3>2
  <2>6. cut \subseteq Cuts(p) /\ Cuts(p) \subseteq 1 .. Last
    BY <2>5 DEF Cuts
  <2>7. ASSUME NEW j \in DOMAIN F PROVE LedgerOf[F[j]] >= nextLedger /\ LedgerOf[F[j]] < l + 1
    <3>1. PICK i \in J : F[j] = p[i]
      BY <1>2
    <3>2. i \in K /\ i \in DOMAIN p
      BY DEF Skipped
    <3>3. PICK m \in DOMAIN R : R[m] = p[i]
      BY <1>3, <3>2 DEF InSeq
    <3>4. R[m] <= R[Len(R)]
      <4>1. R[m] \in Nat /\ R[Len(R)] \in Nat
        <5>1. R[m] \in Event /\ R[Len(R)] \in Event
          BY <1>4, <2>1
        <5> QED BY <5>1, LedgersAre
      <4>2. m = Len(R) \/ m < Len(R)
        BY <1>4
      <4>3. m < Len(R) => R[m] < R[Len(R)]
        BY <1>3, <2>1 DEF Ascending
      <4> QED BY <4>1, <4>2, <4>3
    <3>5. LedgerOf[R[m]] <= l
      BY <1>4, <2>1, <3>3, <3>4, StreamAssumption
    <3> QED BY <1>1, <1>4, <1>5, <2>2, <3>1, <3>2, <3>3, <3>5
  <2>8. ASSUME NEW e \in Wanted, LedgerOf[e] >= nextLedger, LedgerOf[e] < l + 1
        PROVE  InSeq(e, F) \/ e \in Bare(p) \/ LedgerOf[e] \in Cuts(p)
    <3>1. e \in Event /\ e \notin Skipped
      BY DEF Wanted
    <3>2. LedgerOf[e] <= LedgerOf[p[Len(p)]]
      BY <1>5, <2>2, <2>5, <2>8, <3>1
    <3>3. InSeq(e, p) \/ (Len(p) = PageLimit /\ LedgerOf[e] = LedgerOf[p[Len(p)]])
      BY <1>1, <2>4, <2>8, <3>1, <3>2
    <3>4. CASE InSeq(e, p)
      <4>1. PICK i \in DOMAIN p : p[i] = e
        BY <3>4 DEF InSeq
      <4>2. i \in J \/ e \in Unledgered \ Skipped
        BY <3>1, <4>1
      <4>3. e \in Unledgered \ Skipped => e \in Bare(p)
        BY <4>1 DEF Bare
      <4> QED BY <1>2, <4>1, <4>2, <4>3
    <3>5. CASE Len(p) = PageLimit /\ LedgerOf[e] = LedgerOf[p[Len(p)]]
      BY <3>5 DEF Cuts
    <3> QED BY <3>3, <3>4, <3>5
  <2> HIDE DEF l
  <2>9. /\ F \in Seq(Event) /\ Ascending(F)
        /\ Advanced(p) \in Nat /\ nextLedger <= Advanced(p) /\ Advanced(p) <= Last + 1
    BY <1>2, <1>5, <2>2
  <2> QED BY <2>2, <2>6, <2>7, <2>8, <2>9 DEF F
<1> QED BY <1>8, <1>9

\* Events of later ledgers after what was sent keep the order.
LEMMA SentGrows ==
    ASSUME NEW s \in Seq(Event), NEW t \in Seq(Event), Ascending(s), Ascending(t), NEW n \in Nat,
           \A i \in DOMAIN s : LedgerOf[s[i]] < n, \A i \in DOMAIN t : LedgerOf[t[i]] >= n
    PROVE  /\ s \o t \in Seq(Event) /\ Ascending(s \o t)
           /\ \A i \in DOMAIN (s \o t) : \/ \E j \in DOMAIN s : (s \o t)[i] = s[j]
                                         \/ \E j \in DOMAIN t : (s \o t)[i] = t[j]
           /\ \A e : InSeq(e, s) \/ InSeq(e, t) => InSeq(e, s \o t)
<1> DEFINE a == Len(s)  b == Len(t)  u == s \o t
<1>1. /\ a \in Nat /\ b \in Nat /\ DOMAIN s = 1 .. a /\ DOMAIN t = 1 .. b
      /\ \A i \in 1 .. a : s[i] \in Event /\ \A j \in 1 .. b : t[j] \in Event
  OBVIOUS
<1>2. /\ u \in Seq(Event) /\ DOMAIN u = 1 .. a + b
      /\ \A i \in 1 .. a : u[i] = s[i]
      /\ \A i \in a + 1 .. a + b : u[i] = t[i - a]
  OBVIOUS
<1> HIDE DEF a, b, u
<1>3. \A i \in 1 .. a + b : i \notin 1 .. a => i \in a + 1 .. a + b /\ i - a \in 1 .. b
  BY <1>1
<1>4. \A i \in DOMAIN s, j \in DOMAIN t : s[i] < t[j]
  <2> SUFFICES ASSUME NEW i \in DOMAIN s, NEW j \in DOMAIN t PROVE s[i] < t[j]
    OBVIOUS
  <2>1. s[i] \in Event /\ t[j] \in Event /\ LedgerOf[s[i]] < n /\ LedgerOf[t[j]] >= n
    BY <1>1
  <2>2. LedgerOf[s[i]] < LedgerOf[t[j]]
    BY <2>1, LedgersAre
  <2> QED BY <2>1, <2>2, LedgersAre
<1>5. Ascending(u)
  <2> SUFFICES ASSUME NEW i \in 1 .. a + b, NEW j \in 1 .. a + b, i < j PROVE u[i] < u[j]
    BY <1>2 DEF Ascending
  <2>1. CASE j \in 1 .. a
    <3>1. i \in 1 .. a
      BY <1>1, <2>1
    <3> QED BY <1>1, <1>2, <2>1, <3>1 DEF Ascending
  <2>2. CASE j \notin 1 .. a /\ i \in 1 .. a
    BY <1>1, <1>2, <1>3, <1>4, <2>2
  <2>3. CASE j \notin 1 .. a /\ i \notin 1 .. a
    <3>1. i - a \in DOMAIN t /\ j - a \in DOMAIN t /\ i - a < j - a
      BY <1>1, <1>3, <2>3
    <3>2. t[i - a] < t[j - a]
      BY <3>1 DEF Ascending
    <3> QED BY <1>2, <1>3, <2>3, <3>2
  <2> QED BY <2>1, <2>2, <2>3
<1>6. \A i \in DOMAIN u : \/ \E j \in DOMAIN s : u[i] = s[j]
                          \/ \E j \in DOMAIN t : u[i] = t[j]
  BY <1>1, <1>2, <1>3
<1>7. ASSUME NEW e, InSeq(e, s) \/ InSeq(e, t) PROVE InSeq(e, u)
  <2>1. CASE InSeq(e, s)
    <3>1. PICK i \in 1 .. a : s[i] = e
      BY <1>1, <2>1 DEF InSeq
    <3>2. i \in 1 .. a + b
      BY <1>1
    <3> QED BY <1>2, <3>1, <3>2 DEF InSeq
  <2>2. CASE InSeq(e, t)
    <3>1. PICK i \in 1 .. b : t[i] = e
      BY <1>1, <2>2 DEF InSeq
    <3>2. i + a \in 1 .. a + b /\ i + a \in a + 1 .. a + b /\ (i + a) - a = i
      BY <1>1
    <3> QED BY <1>2, <3>1, <3>2 DEF InSeq
  <2> QED BY <1>7, <2>1, <2>2
<1> QED BY <1>2, <1>5, <1>6, <1>7 DEF u

LEMMA StreamInvInit == StreamInit => StreamInv
<1> SUFFICES ASSUME StreamInit PROVE StreamInv
  OBVIOUS
<1>1. StreamTypeOK
  BY LedgersAre, StreamAssumption DEF StreamInit, StreamTypeOK
<1>2. DOMAIN sent = {} /\ Reached = 0 /\ nextLedger = 0 /\ page = Idle
  BY DEF StreamInit, Reached
<1>3. PassedBy(0)
  BY LedgersAre DEF PassedBy, Wanted
<1> QED BY <1>1, <1>2, <1>3 DEF StreamInv, SentInOrderOnce

\* The parts of the invariant that say what the client has, for a step that sends nothing.
LEMMA NothingSent ==
    ASSUME StreamInv, StreamTypeOK', UNCHANGED <<sent, bare>>, cut \subseteq cut', page' = Idle \/ PageSound(page', nextLedger'),
           Reached' = Reached \/ (open /\ Reached' = nextLedger),
           open' => \/ nextLedger' = Reached'
                    \/ open /\ Reached' = Reached /\ nextLedger' >= nextLedger
                       /\ \A e \in Wanted : LedgerOf[e] >= nextLedger /\ LedgerOf[e] < nextLedger'
                            => LedgerOf[e] \in cut'
    PROVE  StreamInv'
<1>1. /\ nextLedger \in Nat /\ nextLedger' \in Nat /\ Reached \in Nat /\ Reached' \in Nat
      /\ \A e \in Wanted : LedgerOf[e] \in Nat
      /\ \A i \in DOMAIN sent : LedgerOf[sent[i]] \in Nat
  <2>1. /\ nextLedger \in Nat /\ nextLedger' \in Nat /\ cursor \in Nat /\ cursor' \in Nat
        /\ \A i \in DOMAIN sent : sent[i] \in Event
    BY DEF StreamInv, StreamTypeOK
  <2>2. Reached \in Nat /\ Reached' \in Nat
    BY <2>1 DEF Reached
  <2>3. \A e \in Event : LedgerOf[e] \in Nat
    BY LedgersAre
  <2> QED BY <2>1, <2>2, <2>3 DEF Wanted
<1>2. page' # Idle => PageSound(page', nextLedger')
  OBVIOUS
<1>3. SentInOrderOnce'
  BY DEF StreamInv, SentInOrderOnce
<1>4. ASSUME NEW n \in Nat, PassedBy(n) PROVE \A e \in Wanted : LedgerOf[e] < n => WasSent(e)' \/ LedgerOf[e] \in cut'
  BY <1>4 DEF PassedBy, WasSent
<1>5. PassedBy(Reached) /\ (open => PassedBy(nextLedger) /\ Reached <= nextLedger)
  BY DEF StreamInv
<1>6. PassedBy(Reached)'
  BY <1>1, <1>4, <1>5 DEF PassedBy
<1>7. \A i \in DOMAIN sent' : LedgerOf[sent'[i]] < Reached'
  BY <1>1, <1>5 DEF StreamInv
<1>8. ASSUME open' PROVE PassedBy(nextLedger)' /\ Reached' <= nextLedger'
  <2>1. CASE nextLedger' = Reached'
    BY <1>1, <1>6, <2>1 DEF PassedBy
  <2>2. CASE /\ open /\ Reached' = Reached /\ nextLedger' >= nextLedger
             /\ \A e \in Wanted : LedgerOf[e] >= nextLedger /\ LedgerOf[e] < nextLedger'
                  => LedgerOf[e] \in cut'
    <3>1. \A e \in Wanted : LedgerOf[e] < nextLedger => WasSent(e)' \/ LedgerOf[e] \in cut'
      BY <1>1, <1>4, <1>5, <2>2
    <3> QED BY <1>1, <1>5, <2>2, <3>1 DEF PassedBy
  <2> QED BY <1>8, <2>1, <2>2
<1> QED BY <1>2, <1>3, <1>6, <1>7, <1>8 DEF StreamInv

\* A page reaches the client, who holds the cursor after it.
LEMMA PageSent ==
    ASSUME StreamInv, StreamTypeOK', open, page # Idle, page' = Idle, cut' = Cuts(page),
           Write(page), nextLedger' = Advanced(page), Reached' = nextLedger'
    PROVE  StreamInv'
<1> DEFINE F == Forwarded(page)
<1>1. /\ nextLedger \in Nat /\ nextLedger <= Last + 1 /\ Reached \in Nat /\ Reached <= nextLedger
      /\ sent \in Seq(Event) /\ Ascending(sent) /\ \A e \in Event : LedgerOf[e] \in Nat
      /\ cut \subseteq 1 .. Last /\ PageSound(page, nextLedger) /\ PassedBy(nextLedger)
  BY LedgersAre DEF StreamInv, StreamTypeOK, Reached, SentInOrderOnce, Ascending
<1>2. /\ F \in Seq(Event) /\ Ascending(F)
      /\ nextLedger' \in Nat /\ nextLedger <= nextLedger' /\ cut \subseteq cut'
      /\ \A j \in DOMAIN F : LedgerOf[F[j]] >= nextLedger /\ LedgerOf[F[j]] < nextLedger'
      /\ \A e \in Wanted : LedgerOf[e] >= nextLedger /\ LedgerOf[e] < nextLedger'
                => InSeq(e, F) \/ e \in Bare(page) \/ LedgerOf[e] \in cut'
  BY <1>1, ForwardedIs
<1> HIDE DEF F
<1>3. \A i \in DOMAIN sent : sent[i] \in Event /\ LedgerOf[sent[i]] < nextLedger
  BY <1>1 DEF StreamInv
<1>4. /\ Ascending(sent \o F)
      /\ \A i \in DOMAIN (sent \o F) : \/ \E j \in DOMAIN sent : (sent \o F)[i] = sent[j]
                                       \/ \E j \in DOMAIN F : (sent \o F)[i] = F[j]
      /\ \A e : InSeq(e, sent) \/ InSeq(e, F) => InSeq(e, sent \o F)
  BY <1>1, <1>2, <1>3, SentGrows
<1>5. sent' = sent \o F
  BY DEF F, Write
<1>11. /\ \A e \in Unledgered : bare[e] > 0 \/ e \in Bare(page) => bare'[e] > 0
       /\ \A e \in Bare(page) : e \in Unledgered
  <2>1. \A e \in Unledgered : bare[e] \in 0 .. 2
    BY DEF StreamInv, StreamTypeOK
  <2> QED BY <2>1 DEF Write, Bare
<1>6. SentInOrderOnce'
  BY <1>4, <1>5 DEF SentInOrderOnce, Ascending
<1>7. \A i \in DOMAIN sent' : LedgerOf[sent'[i]] < Reached'
  BY <1>1, <1>2, <1>3, <1>4, <1>5
<1>8. PassedBy(nextLedger)'
  <2> SUFFICES ASSUME NEW e \in Wanted, LedgerOf[e] < nextLedger'
               PROVE  WasSent(e)' \/ LedgerOf[e] \in cut'
    BY DEF PassedBy, Wanted
  <2>1. LedgerOf[e] \in Nat
    BY <1>1 DEF Wanted
  <2>2. CASE LedgerOf[e] < nextLedger
    <3>1. WasSent(e) \/ LedgerOf[e] \in cut
      BY <1>1, <2>2 DEF PassedBy
    <3>2. InSeq(e, sent) => InSeq(e, sent')
      BY <1>4, <1>5
    <3> QED BY <1>2, <1>11, <3>1, <3>2 DEF WasSent, InSeq
  <2>3. CASE LedgerOf[e] >= nextLedger
    <3>1. InSeq(e, F) \/ e \in Bare(page) \/ LedgerOf[e] \in cut'
      BY <1>2, <2>3
    <3>2. InSeq(e, F) => InSeq(e, sent')
      BY <1>4, <1>5
    <3> QED BY <1>11, <3>1, <3>2 DEF WasSent, InSeq
  <2> QED BY <1>1, <2>1, <2>2, <2>3
<1>9. PassedBy(Reached)'
  BY <1>8 DEF PassedBy
<1>10. Reached' <= nextLedger'
  BY <1>2
<1> QED BY <1>6, <1>7, <1>8, <1>9, <1>10 DEF StreamInv

\* Every step keeps the types.
LEMMA StreamTypeStep ==
    ASSUME StreamInv, StreamNext PROVE StreamTypeOK'
<1>1. StreamTypeOK /\ Last \in Nat /\ MaxFailures \in Nat
  BY LedgersAre, StreamAssumption DEF StreamInv
<1>2. CASE LedgerCloses
  BY <1>1, <1>2 DEF LedgerCloses, StreamTypeOK
<1>3. \A n \in Nat : PageFrom(n) \in Seq(Event)
  <2>1. head \in Nat
    BY <1>1 DEF StreamTypeOK
  <2> QED BY <2>1, PageIs DEF PageSound
<1>4. CASE Poll
  BY <1>1, <1>3, <1>4 DEF Poll, StreamTypeOK
<1>5. ASSUME page # Idle
      PROVE  /\ Forwarded(page) \in Seq(Event) /\ Advanced(page) \in 0 .. Last + 1
             /\ Cuts(page) \subseteq 1 .. Last
  <2>1. nextLedger \in Nat /\ cut \subseteq 1 .. Last /\ nextLedger <= Last + 1 /\ PageSound(page, nextLedger)
    BY <1>1, <1>5 DEF StreamTypeOK, StreamInv
  <2> QED BY <1>1, <2>1, ForwardedIs
<1>6. page # Idle => sent \o Forwarded(page) \in Seq(Event)
  BY <1>1, <1>5 DEF StreamTypeOK
<1>13. ASSUME Write(page) PROVE bare' \in [Unledgered -> 0 .. 2]
  <2>1. \A e \in Unledgered : bare[e] \in 0 .. 2
    BY <1>1 DEF StreamTypeOK
  <2>2. \A e \in Unledgered : (IF e \in Bare(page) /\ bare[e] < 2 THEN bare[e] + 1 ELSE bare[e]) \in 0 .. 2
    BY <2>1
  <2> QED BY <1>13, <2>2 DEF Write
<1>7. CASE Forward
  <2>1. /\ page # Idle /\ page' = Idle /\ cut' = Cuts(page)
        /\ UNCHANGED <<transport, head, open, cursor, failures>>
        /\ nextLedger' = Advanced(page) \/ nextLedger' = nextLedger
        /\ Write(page) \/ UNCHANGED <<sent, bare>>
    BY <1>7 DEF Forward
  <2>2. sent' \in Seq(Event) /\ bare' \in [Unledgered -> 0 .. 2]
    BY <1>1, <1>6, <1>13, <2>1 DEF Write, StreamTypeOK
  <2> QED BY <1>1, <1>5, <2>1, <2>2 DEF StreamTypeOK
<1>8. CASE Answer
  <2>1. /\ page # Idle /\ page' = Idle /\ cut' = Cuts(page) /\ nextLedger' = Advanced(page)
        /\ UNCHANGED <<transport, head>>
    BY <1>8 DEF Answer
  <2>2. /\ failures' = failures \/ (failures < MaxFailures /\ failures' = failures + 1)
        /\ cursor' = cursor \/ cursor' = nextLedger'
        /\ Write(page) \/ UNCHANGED <<sent, bare>>
    BY <1>8 DEF Answer
  <2>5. sent' \in Seq(Event) /\ bare' \in [Unledgered -> 0 .. 2]
    BY <1>1, <1>6, <1>13, <2>1, <2>2 DEF Write, StreamTypeOK
  <2>3. open' \in BOOLEAN
    BY <1>1, <1>8 DEF Answer, StreamTypeOK
  <2>4. failures' \in 0 .. MaxFailures
    BY <1>1, <2>2 DEF StreamTypeOK
  <2> QED BY <1>1, <1>5, <2>1, <2>2, <2>3, <2>4, <2>5 DEF StreamTypeOK
<1>9. CASE Deadline
  BY <1>1, <1>9 DEF Deadline, StreamTypeOK
<1>10. CASE PollFails
  BY <1>1, <1>10 DEF PollFails, StreamTypeOK
<1>11. CASE Close
  <2>1. failures' \in 0 .. MaxFailures
    BY <1>1, <1>11 DEF Close, StreamTypeOK
  <2>2. open' \in BOOLEAN /\ UNCHANGED <<transport, head, nextLedger, page, cursor, sent, bare, cut>>
    BY <1>11 DEF Close
  <2> QED BY <1>1, <2>1, <2>2 DEF StreamTypeOK
<1>12. CASE AskAgain
  BY <1>1, <1>3, <1>12 DEF AskAgain, StreamTypeOK
<1> QED BY <1>2, <1>4, <1>7, <1>8, <1>9, <1>10, <1>11, <1>12 DEF StreamNext

LEMMA StreamInvStep == StreamInv /\ [StreamNext]_streamVars => StreamInv'
<1> SUFFICES ASSUME StreamInv, [StreamNext]_streamVars PROVE StreamInv'
  OBVIOUS
<1>1. /\ head \in Nat /\ nextLedger \in Nat /\ cursor \in Nat /\ nextLedger <= Last + 1 /\ open \in BOOLEAN
      /\ cut \subseteq 1 .. Last /\ transport \in {"sse", "hub", "longpoll"}
      /\ page # Idle => PageSound(page, nextLedger)
  BY DEF StreamInv, StreamTypeOK
<1>2. \A e \in Wanted : LedgerOf[e] \in Nat
  BY LedgersAre DEF Wanted
<1>3. CASE UNCHANGED streamVars
  BY <1>3 DEF StreamInv, StreamTypeOK, SentInOrderOnce, PassedBy, Reached, streamVars, WasSent
<1>4. ASSUME StreamNext, UNCHANGED <<sent, bare, cut, transport, nextLedger, cursor>>,
             page' = Idle \/ page' = page \/ page' = PageFrom(nextLedger), open' => open
      PROVE  StreamInv'
  <2>1. StreamTypeOK'
    BY <1>4, StreamTypeStep
  <2>2. page' = Idle \/ PageSound(page', nextLedger')
    BY <1>1, <1>4, PageIs
  <2>3. Reached' = Reached
    BY <1>4 DEF Reached
  <2>4. open' => /\ open /\ nextLedger' >= nextLedger
                 /\ \A e \in Wanted : LedgerOf[e] >= nextLedger /\ LedgerOf[e] < nextLedger'
                      => LedgerOf[e] \in cut'
    BY <1>1, <1>2, <1>4
  <2> QED BY <1>4, <2>1, <2>2, <2>3, <2>4, NothingSent
<1>5. CASE LedgerCloses
  BY <1>4, <1>5 DEF LedgerCloses, StreamNext
<1>6. CASE Poll
  BY <1>4, <1>6 DEF Poll, StreamNext
<1>7. CASE PollFails
  BY <1>4, <1>7 DEF PollFails, StreamNext
<1>8. CASE Close
  BY <1>4, <1>8 DEF Close, StreamNext
<1>9. CASE Forward
  <2>1. /\ page # Idle /\ page' = Idle /\ cut' = Cuts(page) /\ transport # "longpoll" /\ transport' = transport /\ open' = open
        /\ StreamTypeOK'
    BY <1>9, StreamTypeStep DEF Forward, StreamNext
  <2>2. Reached = nextLedger /\ Reached' = nextLedger'
    BY <2>1 DEF Reached
  <2>3. CASE open
    <3>1. nextLedger' = Advanced(page) /\ Write(page)
      BY <1>9, <2>3 DEF Forward
    <3> QED BY <2>1, <2>2, <2>3, <3>1, PageSent
  <2>4. CASE ~open
    <3>1. UNCHANGED <<nextLedger, sent, bare>>
      BY <1>9, <2>4 DEF Forward
    <3>2. cut \subseteq cut'
      BY <1>1, <2>1, ForwardedIs
    <3> QED BY <2>1, <2>2, <2>4, <3>1, <3>2, NothingSent
  <2> QED BY <2>3, <2>4
<1>10. CASE Answer
  <2>1. /\ page # Idle /\ page' = Idle /\ cut' = Cuts(page) /\ transport = "longpoll" /\ transport' = transport
        /\ nextLedger' = Advanced(page) /\ StreamTypeOK'
    BY <1>10, StreamTypeStep DEF Answer, StreamNext
  <2>2. Reached = cursor /\ Reached' = cursor'
    BY <2>1 DEF Reached
  <2>3. /\ cut \subseteq cut' /\ nextLedger' \in Nat /\ nextLedger' >= nextLedger
        /\ \A e \in Wanted : LedgerOf[e] >= nextLedger /\ LedgerOf[e] < nextLedger'
                => InSeq(e, Forwarded(page)) \/ e \in Bare(page) \/ LedgerOf[e] \in cut'
    BY <1>1, <2>1, ForwardedIs
  <2>4. CASE open /\ cursor' = nextLedger' /\ Write(page)
    BY <2>1, <2>2, <2>4, PageSent
  <2>5. CASE UNCHANGED <<cursor, sent, bare>> /\ ~open'
    BY <2>1, <2>2, <2>3, <2>5, NothingSent
  <2>6. CASE UNCHANGED <<open, cursor, sent, bare>> /\ Forwarded(page) = <<>> /\ Bare(page) = {} /\ open
    <3>1. \A e \in Wanted : LedgerOf[e] >= nextLedger /\ LedgerOf[e] < nextLedger' => LedgerOf[e] \in cut'
      BY <2>3, <2>6 DEF InSeq
    <3> QED BY <2>1, <2>2, <2>3, <2>6, <3>1, NothingSent
  <2>7. \/ open /\ cursor' = nextLedger' /\ Write(page)
        \/ UNCHANGED <<cursor, sent, bare>> /\ ~open'
        \/ UNCHANGED <<open, cursor, sent, bare>> /\ Forwarded(page) = <<>> /\ Bare(page) = {} /\ open
    BY <1>1, <1>10 DEF Answer
  <2> QED BY <2>4, <2>5, <2>6, <2>7
<1>11. CASE Deadline
  <2>1. /\ open /\ ~open' /\ UNCHANGED <<transport, nextLedger, page, sent, bare, cut>> /\ StreamTypeOK'
        /\ transport = "longpoll" /\ cursor' = nextLedger
    BY <1>11, StreamTypeStep DEF Deadline, StreamNext
  <2>2. Reached' = nextLedger
    BY <2>1 DEF Reached
  <2> QED BY <1>1, <2>1, <2>2, NothingSent
<1>12. CASE AskAgain
  <2>1. /\ UNCHANGED <<transport, cursor, sent, bare, cut>> /\ StreamTypeOK' /\ transport = "longpoll"
        /\ nextLedger' = cursor /\ page' = PageFrom(cursor)
    BY <1>12, StreamTypeStep DEF AskAgain, StreamNext
  <2>2. Reached' = Reached /\ nextLedger' = Reached'
    BY <2>1 DEF Reached
  <2>3. PageSound(page', nextLedger')
    BY <1>1, <2>1, PageIs
  <2> QED BY <2>1, <2>2, <2>3, NothingSent
<1> QED BY <1>3, <1>5, <1>6, <1>7, <1>8, <1>9, <1>10, <1>11, <1>12 DEF StreamNext

\* No transport sends a client an event that has a ledger twice or out of order, and the
\* cursor passes one it should get, with a ledger or without, only where a full page ended
\* inside its ledger, through failed polls, lost answers, deadlines and resumed long polls
\* (sse.js, websocket.js, long-poll.js).
THEOREM EventsAreSentInOrder == StreamSpec => []EventsSentInOrder
<1>1. StreamInv => EventsSentInOrder
  BY DEF StreamInv, EventsSentInOrder, PassedBy, PassedOnlyAtCut
<1> QED BY <1>1, StreamInvInit, StreamInvStep, PTL DEF StreamSpec
=============================================================================
