----------------------------- MODULE MessageBroker -----------------------------
(***************************************************************************)
(* One queue of the in-process message broker with its dead-letter queue   *)
(* and its log on disk (server/src/messaging/index.js): publishing with    *)
(* deduplication, the pump that hands messages to the handler by priority  *)
(* and one at a time per ordering key, retries with backoff, dead letters  *)
(* and their redrive, and the replay of the log by the next process.       *)
(*                                                                         *)
(* Times are ticks still to go; a timer may fire late.  The log is kept as *)
(* what a replay makes of it: the messages published and neither acked nor *)
(* dead, in order, and whether one of its lines is torn.                   *)
(***************************************************************************)
EXTENDS Naturals, Sequences, FiniteSets, SequencesExt

CONSTANTS
  Messages,
  DedupKey, OrderingKey, Priority, Delay,   \* message -> its options
  MaxConcurrency, MaxRetries, Backoff, DedupWindow,
  MaxBrokerFaults,   \* bound: crashes and failed appends to the log
  MaxRedrives        \* bound

NoKey == "none"

VARIABLES
  pending,    \* [id, attempts, wait], by priority, then age
  inflight,   \* the same records
  locks,      \* orderingLocks
  dedup,      \* key -> ticks until the entry is purged, 0 without one
  dead,       \* ids in the dead-letter queue
  log,        \* ids a replay would find open
  torn,       \* a line of the log is torn
  timers,     \* ticks until each pump timer is due
  handler, concurrency, closed,
  up,         \* the process runs: its broker was constructed
  published,  \* history: ids for which publish returned one
  unlogged,   \* history: ids whose publish threw in the append
  buried,     \* history: ids that have been dead letters
  cutOff,     \* history: ids that a compaction of the log has lost
  slipped,    \* history: a message came due while the last pump ran
  done,       \* id -> times its handler resolved
  brokerFaults, redrives

brokerVars == <<pending, inflight, locks, dedup, dead, log, torn, timers, handler, concurrency, closed, up,
                published, unlogged, buried, cutOff, slipped, done, brokerFaults, redrives>>
queueVars == <<pending, inflight, locks, timers, slipped>>
historyVars == <<published, unlogged, buried, cutOff>>

Ids(S) == {r.id : r \in S}
Queued == ToSet(pending)

BrokerTypeOK ==
  /\ \A r \in Queued \cup inflight : r.id \in Messages /\ r.attempts \in 0 .. MaxRetries + 1
  /\ locks \subseteq {OrderingKey[m] : m \in Messages} \ {NoKey}
  /\ dead \subseteq Messages /\ ToSet(log) \subseteq Messages
  /\ {handler, closed, up, torn, slipped} \subseteq BOOLEAN /\ concurrency \in 1 .. MaxConcurrency

BrokerInit ==
  /\ pending = <<>> /\ inflight = {} /\ locks = {} /\ timers = {}
  /\ dedup = [k \in {DedupKey[m] : m \in Messages} |-> 0]
  /\ dead = {} /\ log = <<>> /\ handler = FALSE /\ concurrency = 1 /\ closed = FALSE
  /\ torn = FALSE /\ up = TRUE /\ slipped = FALSE
  /\ published = {} /\ unlogged = {} /\ buried = {} /\ cutOff = {} /\ done = [m \in Messages |-> 0]
  /\ brokerFaults = 0 /\ redrives = 0

-----------------------------------------------------------------------------
\* enqueue: after all messages of at least its priority
Enqueued(q, r) ==
  SelectSeq(q, LAMBDA x : Priority[x.id] >= Priority[r.id]) \o <<r>>
    \o SelectSeq(q, LAMBDA x : Priority[x.id] < Priority[r.id])

EnqueuedAll(q, ids) == FoldSeq(LAMBDA m, acc : Enqueued(acc, [id |-> m, attempts |-> 0, wait |-> 0]),
                               q, ids)

\* next(): the messages that are due and not behind their ordering key
Takeable(q, ks) == {i \in DOMAIN q : q[i].wait = 0 /\ OrderingKey[q[i].id] \notin ks}

\* The pump over a queue: deliveries while there are free slots
Pumped(q, fly, ks, n) ==
  LET P[k \in 0 .. n] ==
        IF k = 0 THEN [q |-> q, fly |-> fly, ks |-> ks]
        ELSE LET s == P[k - 1]
                 T == Takeable(s.q, s.ks)
             IN IF Cardinality(s.fly) >= n \/ T = {} THEN s
                ELSE LET i == CHOOSE i \in T : \A j \in T : i <= j
                         r == s.q[i]
                     IN [q |-> RemoveAt(s.q, i),
                         fly |-> s.fly \cup {[r EXCEPT !.attempts = @ + 1]},
                         ks |-> s.ks \cup ({OrderingKey[r.id]} \ {NoKey})]
  IN P[n]

Waits(q) == {q[i].wait : i \in DOMAIN q}
Mut_Armed(q, ts) == ts

\* A timer for the earliest message, when none is due
Armed(q, ts) ==
  LET W == Waits(q)
  IN IF W = {} \/ 0 \in W THEN ts ELSE ts \cup {CHOOSE w \in W : \A v \in W : w <= v}

\* The earliest messages come due after next() has read the clock and before it is
\* read for the timer, which is then not set
Slips(q, ts) ==
  /\ 1 \in Waits(q) /\ 0 \notin Waits(q) /\ slipped' = TRUE /\ timers' = ts
  /\ pending' = [i \in DOMAIN q |-> IF q[i].wait = 1 THEN [q[i] EXCEPT !.wait = 0] ELSE q[i]]

\* #pump after the queue, the slots and the locks have become q, fly and ks
Pump(q, fly, ks, ts, h, n) ==
  LET s == Pumped(q, fly, ks, n) IN
  IF ~h \/ closed
    THEN pending' = q /\ inflight' = fly /\ locks' = ks /\ timers' = ts /\ UNCHANGED slipped
    ELSE /\ inflight' = s.fly /\ locks' = s.ks
         /\ \/ pending' = s.q /\ timers' = Armed(s.q, ts) /\ slipped' = FALSE
            \/ Slips(s.q, ts)

-----------------------------------------------------------------------------
New(m) == [id |-> m, attempts |-> 0, wait |-> Delay[m]]

Fresh(m) == /\ up /\ ~closed /\ m \notin published \cup unlogged
            /\ dedup[DedupKey[m]] = 0
            /\ dedup' = [dedup EXCEPT ![DedupKey[m]] = DedupWindow + 1]

\* publish of a message that is no duplicate; a duplicate returns null
Publish(m) ==
  /\ Fresh(m)
  /\ published' = published \cup {m} /\ log' = Append(log, m)
  /\ Pump(Enqueued(pending, New(m)), inflight, locks, timers, handler, concurrency)
  /\ UNCHANGED <<dead, torn, handler, concurrency, closed, up, unlogged, buried, cutOff, done,
                 brokerFaults, redrives>>

\* appendFileSync throws, or is cut short by the end of the process: some of the line
\* may stand in the file, and the next line is glued to it
AppendFails ==
  /\ brokerFaults < MaxBrokerFaults /\ brokerFaults' = brokerFaults + 1
  /\ torn' \in {torn, TRUE}

\* The append throws to the publisher, after the message was queued
PublishThrows(m) ==
  /\ Fresh(m) /\ AppendFails
  /\ unlogged' = unlogged \cup {m} /\ pending' = Enqueued(pending, New(m))
  /\ UNCHANGED <<inflight, locks, dead, log, timers, slipped, handler, concurrency, closed, up,
                 published, buried, cutOff, done, redrives>>

\* The finally of #deliver
Settled(r, q) ==
  Pump(q, inflight \ {r}, locks \ {OrderingKey[r.id]}, timers, handler, concurrency)

\* The handler resolves and the ack is logged
Acked(r) ==
  /\ r \in inflight
  /\ done' = [done EXCEPT ![r.id] = @ + 1]
  /\ log' = SelectSeq(log, LAMBDA m : m # r.id)
  /\ Settled(r, pending)
  /\ UNCHANGED <<dedup, dead, torn, handler, concurrency, closed, up, historyVars, brokerFaults, redrives>>

Exhausted(r) == r.attempts > MaxRetries

Mut_Caught(r) ==
  IF Exhausted(r)
    THEN /\ dead' = dead \cup {r.id} /\ buried' = buried \cup {r.id}
         /\ log' = SelectSeq(log, LAMBDA m : m # r.id)
         /\ Settled(r, pending)
    ELSE /\ Settled(r, Enqueued(pending, [r EXCEPT !.wait = Backoff, !.attempts = 0]))
         /\ UNCHANGED <<dead, buried, log>>

\* The catch of #deliver
Caught(r) ==
  IF Exhausted(r)
    THEN /\ dead' = dead \cup {r.id} /\ buried' = buried \cup {r.id}
         /\ log' = SelectSeq(log, LAMBDA m : m # r.id)
         /\ Settled(r, pending)
    ELSE /\ Settled(r, Enqueued(pending, [r EXCEPT !.wait = Backoff]))
         /\ UNCHANGED <<dead, buried, log>>

Rejected(r) ==
  /\ r \in inflight /\ Caught(r)
  /\ UNCHANGED <<dedup, torn, handler, concurrency, closed, up, published, unlogged, cutOff, done,
                 brokerFaults, redrives>>

\* The append of the ack throws inside the try: a success that is caught
AckThrows(r) ==
  /\ r \in inflight /\ AppendFails
  /\ done' = [done EXCEPT ![r.id] = @ + 1]
  /\ Caught(r)
  /\ UNCHANGED <<dedup, handler, concurrency, closed, up, published, unlogged, cutOff, redrives>>

TimerFires ==
  /\ 0 \in timers
  /\ Pump(pending, inflight, locks, timers \ {0}, handler, concurrency)
  /\ UNCHANGED <<dedup, dead, log, torn, handler, concurrency, closed, up, historyVars, done,
                 brokerFaults, redrives>>

Consume ==
  /\ up /\ ~handler /\ handler' = TRUE
  /\ Pump(pending, inflight, locks, timers, TRUE, concurrency)
  /\ UNCHANGED <<dedup, dead, log, torn, concurrency, closed, up, historyVars, done, brokerFaults,
                 redrives>>

Unsubscribe ==
  /\ handler /\ handler' = FALSE
  /\ UNCHANGED <<queueVars, dedup, dead, log, torn, concurrency, closed, up, historyVars, done,
                 brokerFaults, redrives>>

SetConcurrency(n) ==
  /\ up /\ n # concurrency /\ concurrency' = n
  /\ Pump(pending, inflight, locks, timers, handler, n)
  /\ UNCHANGED <<dedup, dead, log, torn, handler, closed, up, historyVars, done, brokerFaults, redrives>>

\* redriveDeadLetters: back to the queue, and not to the log
Redrive ==
  /\ dead # {} /\ redrives < MaxRedrives /\ redrives' = redrives + 1
  /\ dead' = {}
  /\ Pump(EnqueuedAll(pending, SetToSeq(dead)), inflight, locks, timers, handler, concurrency)
  /\ UNCHANGED <<dedup, log, torn, handler, concurrency, closed, up, historyVars, done, brokerFaults>>

Close ==
  /\ up /\ ~closed /\ closed' = TRUE /\ timers' = {}
  /\ UNCHANGED <<pending, inflight, locks, slipped, dedup, dead, log, torn, handler, concurrency,
                 up, historyVars, done, brokerFaults, redrives>>

\* The process ends, and with it all it has in memory
Dies ==
  /\ up /\ up' = FALSE /\ AppendFails
  /\ pending' = <<>> /\ inflight' = {} /\ locks' = {} /\ timers' = {} /\ slipped' = FALSE
  /\ dedup' = [k \in DOMAIN dedup |-> 0] /\ dead' = {}
  /\ handler' = FALSE /\ concurrency' = 1 /\ closed' = FALSE
  /\ UNCHANGED <<log, historyVars, redrives>>

Crash == Dies /\ UNCHANGED done

\* The append of the dead letter throws out of #deliver: no one handles the
\* rejection, which ends the process after the finally
DeadThrows(r) ==
  /\ r \in inflight /\ Exhausted(r) /\ Dies
  /\ done' \in {done, [done EXCEPT ![r.id] = @ + 1]}

Replayed == EnqueuedAll(<<>>, log)

\* The next process replays the log and has no consumer yet; over a torn line the
\* constructor throws, and no process comes up
Replay ==
  /\ ~up /\ ~torn /\ up' = TRUE /\ pending' = Replayed
  /\ UNCHANGED <<inflight, locks, timers, slipped, dedup, dead, log, torn, handler, concurrency,
                 closed, historyVars, done, brokerFaults, redrives>>

\* The compaction empties the log and writes it again: it throws or the process
\* ends when a part of it is written.  Each time loses some of the log, which bounds
\* how often it happens.
CompactionFails ==
  /\ ~up /\ ~torn /\ torn' \in BOOLEAN
  /\ \E n \in 0 .. Len(log) - 1 :
       /\ log' = SubSeq(log, 1, n)
       /\ cutOff' = cutOff \cup ToSet(SubSeq(log, n + 1, Len(log)))
  /\ UNCHANGED <<queueVars, dedup, dead, handler, concurrency, closed, up, published, unlogged,
                 buried, done, brokerFaults, redrives>>

Less(n) == IF n = 0 THEN 0 ELSE n - 1

Tick ==
  /\ (\E r \in Queued : r.wait > 0) \/ (\E t \in timers : t > 0) \/ (\E k \in DOMAIN dedup : dedup[k] > 0)
  /\ pending' = [i \in DOMAIN pending |-> [pending[i] EXCEPT !.wait = Less(@)]]
  /\ timers' = {Less(t) : t \in timers}
  /\ dedup' = [k \in DOMAIN dedup |-> Less(dedup[k])]
  /\ UNCHANGED <<inflight, locks, slipped, dead, log, torn, handler, concurrency, closed, up,
                 historyVars, done, brokerFaults, redrives>>

BrokerNext ==
  \/ \E m \in Messages : Publish(m) \/ PublishThrows(m)
  \/ \E r \in inflight : Acked(r) \/ Rejected(r) \/ AckThrows(r) \/ DeadThrows(r)
  \/ \E n \in 1 .. MaxConcurrency : SetConcurrency(n)
  \/ TimerFires \/ Consume \/ Unsubscribe \/ Redrive \/ Close \/ Tick
  \/ Crash \/ Replay \/ CompactionFails

\* Timers fire, time passes and handlers come to an end
BrokerFairness ==
  /\ WF_brokerVars(TimerFires) /\ WF_brokerVars(Tick)
  /\ \A m \in Messages : WF_brokerVars(\E r \in inflight : r.id = m /\ (Acked(r) \/ Rejected(r)))

BrokerSpec == BrokerInit /\ [][BrokerNext]_brokerVars /\ BrokerFairness

-----------------------------------------------------------------------------
Keyed(S) == {r \in S : OrderingKey[r.id] # NoKey}

\* "one in-flight message per key" (messaging/index.js:17): whatever is retried,
\* buried, replayed or pumped by a timer, the held locks are exactly the keys of
\* the messages in flight, each held by one.
OneInFlightPerKey ==
  /\ locks = {OrderingKey[r.id] : r \in Keyed(inflight)}
  /\ \A r, s \in Keyed(inflight) : OrderingKey[r.id] = OrderingKey[s.id] => r = s

\* While a consumer listens, a queued message waits for one in flight or for a timer
\* that is due no later than it (messaging/index.js:200-214, 237-241).  A wake-up is
\* lost in two ways only: a publish that threw leaves its message to the next pump,
\* and so does a pump during which a message comes due, between the reads of the
\* clock at lines 60 and 208.
NothingStranded ==
  handler /\ ~closed /\ unlogged = {} /\ ~slipped =>
    \A r \in Queued : inflight # {} \/ \E t \in timers : t <= r.wait

\* A published message is queued or in flight until it is acked or dead-lettered,
\* through crashes and failed appends: it is in the log while no process is up, and
\* the replay brings it back.  A dead letter is in no log, not even once it is
\* redriven, and a compaction that does not end loses what it had not written
\* (messaging/index.js:102-129, 253-277).
KeptUntilSettled ==
  \A m \in published :
    \/ done[m] > 0 \/ m \in buried \cup cutOff
    \/ IF up THEN m \in Ids(Queued \cup inflight) ELSE m \in ToSet(log)

\* In a broker that stays up and can write its log, a handler resolves once per
\* message at the most.
DoneOnce == brokerFaults = 0 => \A m \in Messages : done[m] <= 1

\* A queued message, redriven ones included, is acked or dead-lettered in the end,
\* however often its handler rejects, as long as a consumer listens
\* (messaging/index.js:216-242), unless the queue comes to stand still after a pump
\* during which it came due (lines 60 and 208): nothing is in flight, no timer is
\* set, and only another call to the broker pumps again.
StandsStill == slipped /\ inflight = {} /\ timers = {}
MessagesSettle ==
  \A m \in Messages : m \in Ids(Queued) ~>
    done[m] > 0 \/ m \in dead \/ ~handler \/ closed \/ m \in unlogged \/ StandsStill
=============================================================================
