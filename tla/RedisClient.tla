----------------------------- MODULE RedisClient -----------------------------
(***************************************************************************)
(* The server's own Redis client (server/src/redis-client.js): a connect   *)
(* loop with retries shared by its callers, a FIFO of commands whose       *)
(* replies are matched to them by position alone, one timer per command,   *)
(* and a reconnect timer armed when the socket drops.                      *)
(*                                                                         *)
(* A command is named by the call that issues it; a reply by the command   *)
(* Redis computed it for.  Redis answers one connection's commands in the  *)
(* order they were written.  The handshake is the AUTH command; SELECT has *)
(* the same shape and is left out.                                         *)
(***************************************************************************)
EXTENDS Naturals, Sequences, FiniteSets, SequencesExt

CONSTANTS
  Commands,        \* the calls of command(), each made at most once
  Auth, Quit,      \* the handshake's AUTH and the QUIT of quit()
  MaxRetries,      \* maxRetries of _connectWithRetry
  MaxDrops,        \* bound: socket failures of one behaviour
  MaxConnects      \* bound: connect() calls from outside the client

NoReply == "none"
Sent == Commands \cup {Auth, Quit}

\* What the constants may be
RedisConstants ==
  /\ MaxRetries \in Nat \ {0} /\ {MaxDrops, MaxConnects} \subseteq Nat

VARIABLES
  connected,       \* this.connected, with this.socket set
  attempt,         \* the retry loop's attempt, 0 when no connect is in flight
  phase,           \* "wait" (backoff), "tcp", "auth" of that attempt
  redisPending,    \* this.pending: entries awaiting a reply, oldest first
  wire,            \* commands written whose reply has not arrived
  buffer,          \* this.buffer: replies received and not consumed
  outcome,         \* command -> "idle", "waiting", "failed" or "done"
  reply,           \* command -> the command whose reply it was resolved with
  reconnecting, timerArmed, awaitsConnect,  \* _scheduleReconnect/_attemptReconnect
  redisClosed,     \* this.closed
  drops, connects  \* bounds used

redisVars == <<connected, attempt, phase, redisPending, wire, buffer, outcome,
               reply, reconnecting, timerArmed, awaitsConnect, redisClosed,
               drops, connects>>

reconnectVars == <<reconnecting, timerArmed, awaitsConnect>>
boundVars == <<drops, connects>>

RedisTypeOK ==
  /\ connected \in BOOLEAN /\ redisClosed \in BOOLEAN
  /\ attempt \in 0 .. MaxRetries /\ phase \in {"wait", "tcp", "auth"}
  /\ redisPending \in Seq(Sent) /\ wire \in Seq(Sent) /\ buffer \in Seq(Sent)
  /\ outcome \in [Sent -> {"idle", "waiting", "failed", "done"}]
  /\ reply \in [Sent -> Sent \cup {NoReply}]
  /\ reconnecting \in BOOLEAN /\ timerArmed \in BOOLEAN
  /\ awaitsConnect \in BOOLEAN
  /\ drops \in 0 .. MaxDrops /\ connects \in 0 .. MaxConnects

RedisInit ==
  /\ connected = FALSE /\ redisClosed = FALSE
  /\ attempt = 0 /\ phase = "wait"
  /\ redisPending = <<>> /\ wire = <<>> /\ buffer = <<>>
  /\ outcome = [c \in Sent |-> "idle"] /\ reply = [c \in Sent |-> NoReply]
  /\ reconnecting = FALSE /\ timerArmed = FALSE /\ awaitsConnect = FALSE
  /\ drops = 0 /\ connects = 0

-----------------------------------------------------------------------------
(* The connect loop *)

\* _connectWithRetry begins: one loop however many callers await it
BeginLoop == attempt' = 1 /\ phase' = "wait"

\* connect() called by a user of the client, DidCache.connect or _reconnect
Connect ==
  /\ ~connected /\ attempt = 0 /\ connects < MaxConnects
  /\ connects' = connects + 1
  /\ BeginLoop
  /\ UNCHANGED <<connected, redisPending, wire, buffer, outcome, reply,
                 reconnectVars, redisClosed, drops>>

\* _scheduleReconnect
ScheduleReconnect == reconnecting' = TRUE /\ timerArmed' = TRUE

Mut_LoopRejects ==
  /\ attempt' = 0 /\ phase' = "wait"
  /\ awaitsConnect' = FALSE
  /\ UNCHANGED <<reconnecting, timerArmed>>

\* The loop's promise rejects; _attemptReconnect's catch schedules the next try
LoopRejects ==
  /\ attempt' = 0 /\ phase' = "wait"
  /\ awaitsConnect' = FALSE
  /\ IF awaitsConnect THEN ScheduleReconnect
                      ELSE UNCHANGED <<reconnecting, timerArmed>>

\* One attempt fails: back off and try again, or give up after maxRetries
AttemptFails ==
  \/ /\ attempt < MaxRetries
     /\ attempt' = attempt + 1 /\ phase' = "wait"
     /\ UNCHANGED reconnectVars
  \/ /\ attempt = MaxRetries
     /\ LoopRejects

\* The loop's promise resolves; _attemptReconnect clears its flag
LoopResolves ==
  /\ attempt' = 0 /\ phase' = "wait"
  /\ awaitsConnect' = FALSE
  /\ reconnecting' = IF awaitsConnect THEN FALSE ELSE reconnecting
  /\ UNCHANGED timerArmed

\* The backoff ends: a closed client throws out of the loop, else _openSocket
OpenSocket ==
  /\ attempt > 0 /\ phase = "wait"
  /\ \/ /\ redisClosed /\ LoopRejects
     \/ /\ ~redisClosed /\ phase' = "tcp"
        /\ UNCHANGED <<attempt, reconnectVars>>
  /\ UNCHANGED <<connected, redisPending, wire, buffer, outcome, reply,
                 redisClosed, boundVars>>

\* The socket cannot be or connectTimeoutMs passes
OpenFails ==
  /\ attempt > 0 /\ phase = "tcp"
  /\ AttemptFails
  /\ UNCHANGED <<connected, redisPending, wire, buffer, outcome, reply,
                 redisClosed, boundVars>>

\* onReady: the client counts as connected and sends AUTH
SocketReady ==
  /\ attempt > 0 /\ phase = "tcp"
  /\ connected' = TRUE /\ phase' = "auth"
  /\ redisPending' = Append(redisPending, Auth)
  /\ wire' = <<Auth>>
  /\ outcome' = [outcome EXCEPT ![Auth] = "waiting"]
  /\ UNCHANGED <<attempt, buffer, reply, reconnectVars, redisClosed,
                 boundVars>>

-----------------------------------------------------------------------------
(* Socket failure and automatic reconnection *)

Mut_RejectAll(entries) == UNCHANGED outcome

\* Every entry of pending is rejected
RejectAll(entries) ==
  outcome' = [c \in Sent |-> IF c \in Range(entries) THEN "failed" ELSE outcome[c]]

\* _onSocketFailure, after its early return, on a socket that delivers no more
DropSocket ==
  /\ connected' = FALSE
  /\ buffer' = <<>> /\ wire' = <<>>
  /\ RejectAll(redisPending)
  /\ redisPending' = <<>>

\* What a dropped socket does to the connect loop and to the reconnect timer.
\* During the handshake the rejected AUTH also fails the running attempt, whose
\* last failure is caught by _attemptReconnect.
RetryAfterDrop ==
  LET fails == phase = "auth"
      last  == fails /\ attempt = MaxRetries
  IN /\ attempt' = IF last THEN 0 ELSE IF fails THEN attempt + 1 ELSE attempt
     /\ phase' = IF fails THEN "wait" ELSE phase
     /\ awaitsConnect' = (awaitsConnect /\ ~last)
     /\ IF (~redisClosed /\ ~reconnecting) \/ (last /\ awaitsConnect)
          THEN ScheduleReconnect ELSE UNCHANGED <<reconnecting, timerArmed>>

\* The error or close event of the live socket
SocketFailure ==
  /\ connected /\ drops < MaxDrops
  /\ drops' = drops + 1
  /\ DropSocket
  /\ RetryAfterDrop
  /\ UNCHANGED <<reply, redisClosed, connects>>

\* The reconnect timer fires: _attemptReconnect joins or starts a connect loop
AttemptReconnect ==
  /\ timerArmed /\ timerArmed' = FALSE
  /\ \/ /\ redisClosed \/ connected
        /\ reconnecting' = FALSE
        /\ UNCHANGED <<awaitsConnect, attempt, phase>>
     \/ /\ ~redisClosed /\ ~connected
        /\ awaitsConnect' = TRUE
        /\ IF attempt = 0 THEN BeginLoop ELSE UNCHANGED <<attempt, phase>>
        /\ UNCHANGED reconnecting
  /\ UNCHANGED <<connected, redisPending, wire, buffer, outcome, reply,
                 redisClosed, boundVars>>

-----------------------------------------------------------------------------
(* Commands and replies *)

\* command(): rejected at once when not connected, else queued and written
Command(c) ==
  /\ outcome[c] = "idle"
  /\ \/ /\ ~connected
        /\ outcome' = [outcome EXCEPT ![c] = "failed"]
        /\ UNCHANGED <<redisPending, wire>>
     \/ /\ connected
        /\ outcome' = [outcome EXCEPT ![c] = "waiting"]
        /\ redisPending' = Append(redisPending, c)
        /\ wire' = Append(wire, c)
  /\ UNCHANGED <<connected, attempt, phase, buffer, reply, reconnectVars,
                 redisClosed, boundVars>>

\* _onData: replies are paired with pending entries by position, and what has
\* no entry to go to stays in the buffer
OnData ==
  /\ wire # <<>>
  /\ LET buf == Append(buffer, Head(wire))
         n   == IF Len(buf) < Len(redisPending) THEN Len(buf) ELSE Len(redisPending)
         got == SubSeq(redisPending, 1, n)
     IN /\ wire' = Tail(wire)
        /\ buffer' = SubSeq(buf, n + 1, Len(buf))
        /\ redisPending' = SubSeq(redisPending, n + 1, Len(redisPending))
        /\ outcome' = [c \in Sent |-> IF c \in Range(got) THEN "done" ELSE outcome[c]]
        /\ reply' = [c \in Sent |->
             IF c \in Range(got) THEN buf[CHOOSE i \in 1 .. n : got[i] = c]
             ELSE reply[c]]
        /\ IF phase = "auth" /\ Auth \in Range(got) THEN LoopResolves
           ELSE UNCHANGED <<attempt, phase, reconnectVars>>
  /\ UNCHANGED <<connected, redisClosed, boundVars>>

\* The handshake fails: the socket is destroyed, and its close event finds
\* either nothing to do or the commands issued meanwhile
HandshakeFails(rest) ==
  /\ connected' = FALSE
  /\ wire' = <<>>
  /\ redisPending' = <<>>
  /\ RejectAll(<<Auth>> \o rest)
  /\ IF rest = <<>> THEN AttemptFails /\ UNCHANGED buffer
                    ELSE RetryAfterDrop /\ buffer' = <<>>

\* Redis refuses the password: AUTH is answered with an error
AuthRefused ==
  /\ phase = "auth" /\ wire # <<>>
  /\ drops < MaxDrops /\ drops' = drops + 1
  /\ HandshakeFails(Tail(redisPending))
  /\ UNCHANGED <<reply, redisClosed, connects>>

\* commandTimeoutMs passes for the oldest entry, which leaves pending; its
\* reply may still be on its way
CommandTimeout ==
  /\ redisPending # <<>>
  /\ IF Head(redisPending) = Auth /\ phase = "auth"
       THEN HandshakeFails(Tail(redisPending))
       ELSE /\ outcome' = [outcome EXCEPT ![Head(redisPending)] = "failed"]
            /\ redisPending' = Tail(redisPending)
            /\ UNCHANGED <<connected, attempt, phase, wire, buffer, reconnectVars>>
  /\ UNCHANGED <<reply, redisClosed, boundVars>>

\* quit(): no reconnect any more; QUIT goes out if there is a connection
QuitBegins ==
  /\ ~redisClosed
  /\ redisClosed' = TRUE /\ reconnecting' = FALSE /\ timerArmed' = FALSE
  /\ IF connected
       THEN /\ redisPending' = Append(redisPending, Quit)
            /\ wire' = Append(wire, Quit)
            /\ outcome' = [outcome EXCEPT ![Quit] = "waiting"]
       ELSE UNCHANGED <<redisPending, wire, outcome>>
  /\ UNCHANGED <<connected, attempt, phase, buffer, reply, awaitsConnect,
                 boundVars>>

\* The awaited QUIT is answered or rejected: the socket goes, with its commands
QuitEnds ==
  /\ connected
  /\ outcome[Quit] \in {"done", "failed"}
  /\ DropSocket
  /\ UNCHANGED <<attempt, phase, reply, reconnectVars, redisClosed,
                 boundVars>>

RedisNext ==
  \/ Connect \/ OpenSocket \/ OpenFails \/ SocketReady
  \/ SocketFailure \/ AttemptReconnect
  \/ \E c \in Commands : Command(c)
  \/ OnData \/ AuthRefused \/ CommandTimeout
  \/ QuitBegins \/ QuitEnds

\* Timers fire and the loop continues.  A socket that keeps being opened is
\* eventually accepted, and its handshake eventually answered in time.
RedisFairness ==
  /\ WF_redisVars(OpenSocket) /\ WF_redisVars(AttemptReconnect)
  /\ WF_redisVars(CommandTimeout) /\ WF_redisVars(OpenFails)
  /\ SF_redisVars(SocketReady)
  /\ SF_redisVars(OnData /\ phase = "auth")

RedisSpec == RedisInit /\ [][RedisNext]_redisVars /\ RedisFairness

-----------------------------------------------------------------------------
(* Properties *)

\* The reconnecting flag, which silences _onSocketFailure, is never left set
\* with nothing behind it: a timer is armed or _attemptReconnect is awaiting a
\* connect loop (redis-client.js:244, 257, 306, 325).
ReconnectFlagBacked == reconnecting => timerArmed \/ (awaitsConnect /\ attempt > 0)

\* redis-client.js: the client never loses the way back to a connection; the flag
\* that keeps it from scheduling a reconnect has one behind it.
RedisFlagBacked == RedisTypeOK /\ ReconnectFlagBacked

\* Every issued command settles: its reply, its timer or the socket failure
\* resolves or rejects it (redis-client.js:238-241, 336-340, 357).
CommandsSettle ==
  \A c \in Commands : outcome[c] = "waiting" ~> outcome[c] \in {"done", "failed"}

\* An armed reconnect timer leads to an open socket, through as many rounds of
\* failed attempts as it takes, unless the client is closed
\* (redis-client.js:287-327).
ReconnectSucceeds == timerArmed ~> connected \/ redisClosed

\* A resolved command was given its own reply: an error or a value reaches
\* "exactly the one in-flight command" it belongs to (redis-client.js:46-47).
RepliesMatchCommands ==
  \A c \in Commands : outcome[c] = "done" => reply[c] = c
=============================================================================
