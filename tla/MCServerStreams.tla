--------------------------- MODULE MCServerStreams ---------------------------
(***************************************************************************)
(* What the server announces to others, checked side by side in one run:   *)
(* the WebSocket hub, the streams of ledger events and the message broker. *)
(* The parts share no state here: a behaviour belongs to one of them and   *)
(* the others stay as created.                                             *)
(***************************************************************************)
EXTENDS WebSocketHub, LedgerStreams

VARIABLES
  part,
  pending, inflight, locks, dedup, dead, log, torn, timers, handler, concurrency, closed, up,
  published, unlogged, buried, cutOff, slipped, done, brokerFaults, redrives

EventLedgers == <<1, 1, 1, 2, 3, 3, 4>>

B == INSTANCE MessageBroker WITH
       Messages <- {"a", "b"}, DedupKey <- [a |-> "k", b |-> "k"],
       OrderingKey <- [a |-> "o", b |-> "o"], Priority <- [a |-> 5, b |-> 8],
       Delay <- [a |-> 0, b |-> 1], MaxConcurrency <- 2, MaxRetries <- 1, Backoff <- 1,
       DedupWindow <- 0, MaxBrokerFaults <- 1, MaxRedrives <- 1
brokerVars == <<pending, inflight, locks, dedup, dead, log, torn, timers, handler,
                concurrency, closed, up, published, unlogged, buried, cutOff, slipped,
                done, brokerFaults, redrives>>
serverVars == <<part, hubVars, streamVars, brokerVars>>

ASSUME HubAssumption == HubConstants

Init == /\ part \in {"hub", "ledger", "broker"}
        /\ HubInit /\ StreamInit /\ B!BrokerInit
        /\ part = "ledger" \/ transport = "sse"

Hub == /\ part = "hub" /\ HubNext
       /\ UNCHANGED <<part, streamVars, brokerVars>>
Ledger == /\ part = "ledger" /\ StreamNext
          /\ UNCHANGED <<part, hubVars, brokerVars>>
Broker == /\ part = "broker" /\ B!BrokerNext
          /\ UNCHANGED <<part, hubVars, streamVars>>
Next == Hub \/ Ledger \/ Broker

On(p, A) == part = p /\ A

\* Each part's own fairness, as its module states it
Fairness ==
  /\ WF_hubVars(On("hub", Heartbeat)) /\ WF_hubVars(On("hub", CloseResolves))
  /\ \A s \in Sockets : WF_hubVars(On("hub", OnClose(s)))
  /\ WF_streamVars(On("ledger", Poll)) /\ WF_streamVars(On("ledger", AskAgain))
  /\ WF_streamVars(On("ledger", LedgerCloses))
  /\ SF_streamVars(On("ledger", Forward)) /\ SF_streamVars(On("ledger", open /\ Answer))
  /\ WF_brokerVars(On("broker", B!TimerFires)) /\ WF_brokerVars(On("broker", B!Tick))
  /\ \A m \in {"a", "b"} : WF_brokerVars(On("broker",
        \E r \in inflight : r.id = m /\ (B!Acked(r) \/ B!Rejected(r))))

Spec == Init /\ [][Next]_serverVars /\ Fairness

-----------------------------------------------------------------------------
\* websocket.js: nothing is sent once the hub is closing, close() ends, and a
\* half-open connection is ended by the heartbeat.
HubShutsDown == SilentOnceClosing /\ CloseCompletes /\ HalfOpenEnds

\* messaging/index.js: one message per ordering key is being handled, one that can
\* be taken has a timer or a handler that will pump again but for a slip of the clock,
\* a published message survives crashes until it is settled but for a compaction cut
\* short, and without faults it is handled to its end once.
MessagesKept ==
  /\ B!BrokerTypeOK
  /\ B!OneInFlightPerKey /\ B!NothingStranded /\ B!KeptUntilSettled /\ B!DoneOnce

\* sse.js, long-poll.js, messaging/index.js: a wanted event reaches a client that
\* stays, or is cut, or lies behind a full page without ledgers, and a queued message
\* is done or a dead letter in the end, or stands still after a slip of the clock.
EventsDelivered ==
  /\ part = "ledger" => EventsArrive
  /\ part = "broker" => B!MessagesSettle
=============================================================================
