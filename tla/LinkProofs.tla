------------------------------ MODULE LinkProofs ------------------------------
(***************************************************************************)
(* Proofs about the server's links to what it depends on: the circuit      *)
(* breaker before the ledger, the Redis client, the DID cache and the      *)
(* database pool, for any number of callers and any thresholds.            *)
(***************************************************************************)
EXTENDS CircuitBreaker, RedisClient, DidCache, DatabasePool,
        SequenceTheorems, FiniteSetTheorems, TLAPS

-----------------------------------------------------------------------------
(* The circuit breaker. *)

\* While CLOSED the count of failures is part of an unbroken streak.  In
\* HALF_OPEN a success ends the streak and leaves the count, which is why the
\* count says nothing there.
CountWithinStreak == breaker = "CLOSED" => failures <= streak

BreakerInv == BreakerTypeOK /\ ClosedBelowThreshold /\ CountWithinStreak

LEMMA BreakerInitInv == BreakerConstants /\ BreakerInit => BreakerInv
<1> SUFFICES ASSUME BreakerConstants, BreakerInit PROVE BreakerInv
  OBVIOUS
<1>1. rpcUp \in BOOLEAN /\ strays \in 0 .. MaxStrays
  <2>1. rpcUp \in BOOLEAN
    BY DEF BreakerInit
  <2>2. strays \in 0 .. MaxStrays
    BY DEF BreakerInit, BreakerConstants
  <2> QED BY <2>1, <2>2
<1> QED
  BY <1>1 DEF BreakerConstants, BreakerInit, BreakerInv, BreakerTypeOK,
              ClosedBelowThreshold, CountWithinStreak

LEMMA BreakerStep ==
    ASSUME BreakerConstants, BreakerInv, [BreakerNext]_breakerVars
    PROVE  /\ BreakerInv'
           /\ breaker = "CLOSED" /\ breaker' = "OPEN" => streak' >= FailureThreshold
<1> DEFINE Goal == /\ BreakerInv'
                   /\ breaker = "CLOSED" /\ breaker' = "OPEN"
                        => streak' >= FailureThreshold
<1> USE DEF BreakerConstants, BreakerInv, BreakerTypeOK, ClosedBelowThreshold,
            CountWithinStreak
<1>1. ASSUME NEW c \in Callers, Call(c) PROVE Goal
  <2>1. rpcUp' \in BOOLEAN /\ strays' \in 0 .. MaxStrays
    BY <1>1 DEF Call
  <2> QED BY <1>1, <2>1 DEF Call
<1>2. ASSUME NEW c \in Callers, CommandOk(c) PROVE Goal
  <2>1. rpcUp' \in BOOLEAN /\ strays' \in 0 .. MaxStrays
    BY <1>2 DEF CommandOk
  <2> QED BY <1>2, <2>1 DEF CommandOk, OnSuccess
<1>3. ASSUME NEW c \in Callers, CommandRetried(c) PROVE Goal
  <2>1. rpcUp' \in BOOLEAN /\ strays' \in 0 .. MaxStrays
    BY <1>3 DEF CommandRetried, MayFail
  <2> QED BY <1>3, <2>1 DEF CommandRetried
<1>4. ASSUME NEW c \in Callers, NEW t \in BOOLEAN, CommandFails(c, t) PROVE Goal
  <2>1. rpcUp' \in BOOLEAN /\ strays' \in 0 .. MaxStrays
    BY <1>4 DEF CommandFails, MayFail
  <2>2. orphan' \subseteq Callers /\ call' \in [Callers -> {"idle", "running"}]
    BY <1>4 DEF CommandFails
  <2>3. tries' = tries /\ OnFailure /\ streak' = UpTo(streak + 1, FailureThreshold)
    BY <1>4 DEF CommandFails
  <2> QED BY <2>1, <2>2, <2>3 DEF OnFailure, UpTo
<1>5. ASSUME NEW c \in Callers, OrphanEnds(c) PROVE Goal
  <2>1. rpcUp' \in BOOLEAN /\ strays' \in 0 .. MaxStrays
    BY <1>5 DEF OrphanEnds
  <2> QED BY <1>5, <2>1 DEF OrphanEnds
<1>6. ASSUME Tick PROVE Goal
  <2>1. rpcUp' \in BOOLEAN /\ strays' \in 0 .. MaxStrays
    BY <1>6 DEF Tick
  <2> QED BY <1>6, <2>1 DEF Tick
<1>7. ASSUME RpcRecovers PROVE Goal
  <2>1. rpcUp' \in BOOLEAN /\ strays' \in 0 .. MaxStrays
    BY <1>7 DEF RpcRecovers
  <2> QED BY <1>7, <2>1 DEF RpcRecovers
<1>8. ASSUME UNCHANGED breakerVars PROVE Goal
  <2>1. rpcUp' \in BOOLEAN /\ strays' \in 0 .. MaxStrays
    BY <1>8 DEF breakerVars
  <2> QED BY <1>8, <2>1 DEF breakerVars
<1> HIDE DEF Goal
<1>9. Goal
  BY <1>1, <1>2, <1>3, <1>4, <1>5, <1>6, <1>7, <1>8 DEF BreakerNext
<1> QED BY <1>9 DEF Goal

LEMMA BreakerAlways == BreakerConstants => (BreakerSpec => []BreakerInv)
<1> SUFFICES ASSUME BreakerConstants PROVE BreakerSpec => []BreakerInv
  OBVIOUS
<1>1. BreakerInit => BreakerInv
  BY BreakerInitInv
<1>2. BreakerInv /\ [BreakerNext]_breakerVars => BreakerInv'
  BY BreakerStep
<1> QED BY <1>1, <1>2, PTL DEF BreakerSpec

\* A CLOSED breaker is below its threshold, and trips only on a full streak of
\* consecutive failures, in whatever order concurrent calls end: for any number of
\* callers and any thresholds.
THEOREM TripsOnlyOnStreak ==
    BreakerConstants => (BreakerSpec => BreakerCountsStreak)
<1> SUFFICES ASSUME BreakerConstants
             PROVE  BreakerSpec => BreakerCountsStreak
  OBVIOUS
<1>1. BreakerInv /\ [BreakerNext]_breakerVars
        => [breaker = "CLOSED" /\ breaker' = "OPEN"
              => streak' >= FailureThreshold]_breakerVars
  BY BreakerStep
<1>2. BreakerInv => BreakerTypeOK /\ ClosedBelowThreshold
  BY DEF BreakerInv
<1> QED
  BY <1>1, <1>2, BreakerAlways, PTL
  DEF BreakerSpec, TripsOnConsecutiveFailures, BreakerCountsStreak

-----------------------------------------------------------------------------
(* The DID cache. *)

\* A document older than the ledger's that a reader is about to store was
\* written over since, or its DID was invalidated under that reader.
CarrierKnown(r) ==
    reader[r].step = "set" /\ reader[r].doc # ledger[reader[r].did]
      => reader[r].did \in dirty \cup exposed

CacheInv ==
    /\ CacheTypeOK /\ AvailableIsUsable /\ StaleOnlyByRace
    /\ \A r \in Readers : CarrierKnown(r)

ReaderState == [step : {"idle", "get", "invoke", "set"}, did : Dids, doc : Versions,
                warms : BOOLEAN]

LEMMA IdleReader == CacheConstants => Idle \in ReaderState /\ Idle.step = "idle"
<1> SUFFICES ASSUME CacheConstants PROVE Idle \in ReaderState /\ Idle.step = "idle"
  OBVIOUS
<1>1. (CHOOSE d \in Dids : TRUE) \in Dids
  BY DEF CacheConstants
<1> QED
  BY <1>1 DEF Idle, ReaderState, Versions, Empty, CacheConstants

LEMMA CacheInitInv == CacheConstants /\ CacheInit => CacheInv
<1> SUFFICES ASSUME CacheConstants, CacheInit PROVE CacheInv
  OBVIOUS
<1>1. redisUp \in BOOLEAN /\ available \in BOOLEAN /\ reconnectRuns \in BOOLEAN
  BY DEF CacheInit
<1>2. \A r \in Readers : reader[r] \in ReaderState /\ reader[r].step = "idle"
  BY IdleReader DEF CacheInit
<1>3. reader \in [Readers -> ReaderState]
  BY <1>2 DEF CacheInit
<1>4. CacheTypeOK
  BY <1>1, <1>3 DEF CacheInit, CacheTypeOK, CacheConstants, ReaderState, Versions, Empty
<1>5. AvailableIsUsable /\ StaleOnlyByRace
  BY DEF CacheInit, AvailableIsUsable, StaleOnlyByRace, CacheConstants, Empty
<1> QED
  BY <1>2, <1>4, <1>5 DEF CacheInv, CarrierKnown

\* The failure count: whatever is recorded, available means usable.
LEMMA FailuresCounted ==
    ASSUME CacheConstants, CacheTypeOK, AvailableIsUsable,
           RecordFailure \/ Succeeded \/ Quiet
    PROVE  /\ AvailableIsUsable'
           /\ cacheFailures' \in 0 .. CacheFailureThreshold + 1
           /\ available' \in BOOLEAN /\ reconnectRuns' \in BOOLEAN
<1>1. available' \in BOOLEAN /\ reconnectRuns' \in BOOLEAN
  BY DEF RecordFailure, Succeeded, Quiet, CacheTypeOK
<1> QED
  BY <1>1 DEF RecordFailure, Succeeded, Quiet, CacheTypeOK, AvailableIsUsable,
              CacheConstants

\* A step of one reader that stores nothing, or stores what it carried.
LEMMA ReaderMoves ==
    ASSUME CacheConstants, CacheInv, NEW r \in Readers,
           RecordFailure \/ Succeeded \/ Quiet,
           UNCHANGED <<redisUp, outages, ledger, dirty, exposed>>,
           NEW q \in ReaderState, reader' = [reader EXCEPT ![r] = q],
           q.step = "set" /\ q.doc # ledger[q.did] => q.did \in dirty \cup exposed,
           \/ entry' = entry
           \/ /\ reader[r].step = "set"
              /\ entry' = [entry EXCEPT ![reader[r].did] = reader[r].doc]
    PROVE  CacheInv'
<1> USE DEF CacheInv
<1>1. /\ AvailableIsUsable' /\ cacheFailures' \in 0 .. CacheFailureThreshold + 1
      /\ available' \in BOOLEAN /\ reconnectRuns' \in BOOLEAN
  BY FailuresCounted
<1>2. reader \in [Readers -> ReaderState]
  BY DEF CacheTypeOK, ReaderState
<1>3. reader' \in [Readers -> ReaderState]
  BY <1>2
<1>4. reader[r].did \in Dids /\ reader[r].doc \in Versions
  BY <1>2 DEF ReaderState
<1>5. entry' \in [Dids -> Versions]
  BY <1>4 DEF CacheTypeOK
<1>6. redisUp' \in BOOLEAN
  BY DEF CacheTypeOK
<1>7. CacheTypeOK'
  BY <1>1, <1>3, <1>5, <1>6 DEF CacheTypeOK, ReaderState
<1>8. \A p \in Readers : CarrierKnown(p)'
  BY <1>2 DEF CarrierKnown
<1>9. StaleOnlyByRace'
  BY <1>4 DEF StaleOnlyByRace, CarrierKnown, CacheTypeOK
<1> QED BY <1>1, <1>7, <1>8, <1>9

\* Entries are dropped, and with them what made their staleness known, unless a
\* reader carries an old document.
LEMMA EntriesDropped ==
    ASSUME CacheConstants, CacheInv, NEW ds \in SUBSET Dids, Drop(ds), Quiet,
           UNCHANGED <<redisUp, outages, ledger, reader>>,
           dirty' \in {dirty, dirty \ ds}
    PROVE  CacheInv'
<1> USE DEF CacheInv
<1>1. /\ AvailableIsUsable' /\ cacheFailures' \in 0 .. CacheFailureThreshold + 1
      /\ available' \in BOOLEAN /\ reconnectRuns' \in BOOLEAN
  BY FailuresCounted
<1>2. \A d \in Dids : entry'[d] = IF d \in ds THEN Empty ELSE entry[d]
  BY DEF Drop
<1>3. entry' \in [Dids -> Versions]
  BY DEF Drop, CacheTypeOK, Versions, Empty, CacheConstants
<1>4. redisUp' \in BOOLEAN
  BY DEF CacheTypeOK
<1>5. /\ exposed' = (exposed \ ds) \cup (ds \cap Carried(reader))
      /\ exposed' \subseteq Dids /\ dirty' \subseteq Dids
  BY DEF Drop, CacheTypeOK, Carried
<1>6. CacheTypeOK'
  BY <1>1, <1>3, <1>4, <1>5 DEF CacheTypeOK
<1>7. \A d \in Dids \ ds : d \in dirty \cup exposed => d \in dirty' \cup exposed'
  BY <1>5
<1>8. StaleOnlyByRace'
  BY <1>2, <1>7 DEF StaleOnlyByRace
<1>9. ASSUME NEW p \in Readers PROVE CarrierKnown(p)'
  <2>1. reader[p].did \in Dids
    BY DEF CacheTypeOK
  <2>2. reader[p].step = "set" /\ reader[p].doc # ledger[reader[p].did]
          => reader[p].did \in Carried(reader)
    BY <2>1 DEF Carried
  <2> QED
    BY <1>5, <1>7, <2>1, <2>2 DEF CarrierKnown
<1> QED BY <1>1, <1>6, <1>8, <1>9

LEMMA CacheStep ==
    ASSUME CacheConstants, CacheInv, [CacheNext]_cacheVars
    PROVE  CacheInv'
<1>1. /\ CacheTypeOK /\ reader \in [Readers -> ReaderState]
      /\ Idle \in ReaderState /\ Idle.step = "idle"
  BY IdleReader DEF CacheInv, CacheTypeOK, ReaderState
<1>2. ASSUME NEW r \in Readers, NEW d \in Dids, NEW w \in BOOLEAN, ResolveDid(r, d, w)
      PROVE  CacheInv'
  <2> DEFINE q == [step |-> IF Usable THEN "get" ELSE "invoke", did |-> d, doc |-> Empty,
                   warms |-> w]
  <2>1. q \in ReaderState /\ q.step # "set"
    BY DEF ReaderState, Versions, Empty, CacheConstants
  <2>2. reader' = [reader EXCEPT ![r] = q] /\ Quiet
        /\ UNCHANGED <<redisUp, outages, ledger, entry, dirty, exposed>>
    BY <1>2 DEF ResolveDid
  <2> HIDE DEF q
  <2> QED BY <2>1, <2>2, ReaderMoves
<1>3. ASSUME NEW r \in Readers, GotEntry(r) PROVE CacheInv'
  <2> DEFINE e == entry[reader[r].did]
             q1 == [reader[r] EXCEPT !.step = "set", !.doc = e, !.warms = FALSE]
             q2 == [reader[r] EXCEPT !.step = "invoke"]
  <2>1. reader[r] \in ReaderState /\ reader[r].did \in Dids /\ e \in Versions
    BY <1>1 DEF ReaderState, CacheTypeOK
  <2>2. q1 \in ReaderState /\ q1.did = reader[r].did /\ q1.doc = e
    BY <2>1 DEF ReaderState
  <2>3. q2 \in ReaderState /\ q2.step = "invoke"
    BY <2>1 DEF ReaderState
  <2>4. \/ redisUp /\ e # Empty /\ reader' = [reader EXCEPT ![r] = q1]
        \/ reader' = [reader EXCEPT ![r] = q2]
        \/ reader' = [reader EXCEPT ![r] = Idle]
    BY <1>3 DEF GotEntry
  <2>5. /\ RecordFailure \/ Succeeded \/ Quiet
        /\ UNCHANGED <<redisUp, outages, ledger, entry, dirty, exposed>>
    BY <1>3 DEF GotEntry
  <2>6. e # Empty /\ e # ledger[reader[r].did] => reader[r].did \in dirty \cup exposed
    BY <2>1 DEF CacheInv, StaleOnlyByRace
  <2>7. q1.step = "set" /\ e # Empty /\ q1.doc # ledger[q1.did]
           => q1.did \in dirty \cup exposed
    BY <2>2, <2>6
  <2> HIDE DEF q1, q2, e
  <2> QED BY <1>1, <2>2, <2>3, <2>4, <2>5, <2>7, ReaderMoves
<1>4. ASSUME NEW r \in Readers, Invoked(r) PROVE CacheInv'
  <2> DEFINE e == ledger[reader[r].did]
             q == [reader[r] EXCEPT !.step = "set", !.doc = e]
  <2>1. reader[r] \in ReaderState /\ reader[r].did \in Dids /\ e \in Versions
    BY <1>1 DEF ReaderState, CacheTypeOK
  <2>2. q \in ReaderState /\ q.did = reader[r].did /\ q.doc = e
    BY <2>1 DEF ReaderState
  <2>3. /\ reader' = [reader EXCEPT ![r] = q] \/ reader' = [reader EXCEPT ![r] = Idle]
        /\ Quiet /\ UNCHANGED <<redisUp, outages, ledger, entry, dirty, exposed>>
    BY <1>4 DEF Invoked, Holds
  <2>4. q.doc = ledger[q.did]
    BY <2>2
  <2> HIDE DEF q, e
  <2> QED BY <1>1, <2>2, <2>3, <2>4, ReaderMoves
<1>5. ASSUME NEW r \in Readers, SetDone(r) PROVE CacheInv'
  <2> DEFINE q == [reader[r] EXCEPT !.warms = FALSE]
  <2>1. reader[r] \in ReaderState
    BY <1>1
  <2>2. q \in ReaderState /\ q.did = reader[r].did /\ q.doc = reader[r].doc
    BY <2>1 DEF ReaderState
  <2>3. /\ reader' = [reader EXCEPT ![r] = q] \/ reader' = [reader EXCEPT ![r] = Idle]
        /\ RecordFailure \/ Succeeded \/ Quiet
        /\ reader[r].step = "set"
        /\ \/ entry' = entry
           \/ entry' = [entry EXCEPT ![reader[r].did] = reader[r].doc]
        /\ UNCHANGED <<redisUp, outages, ledger, dirty, exposed>>
    BY <1>5 DEF SetDone
  <2>4. q.doc # ledger[q.did] => q.did \in dirty \cup exposed
    BY <2>2, <2>3 DEF CacheInv, CarrierKnown
  <2> HIDE DEF q
  <2> QED BY <1>1, <2>2, <2>3, <2>4, ReaderMoves
<1>6. ASSUME NEW d \in Dids, Write(d) PROVE CacheInv'
  <2>1. redisUp' \in BOOLEAN /\ available' \in BOOLEAN /\ reconnectRuns' \in BOOLEAN
    BY <1>1, <1>6 DEF Write, CacheTypeOK
  <2>2. ledger' \in [Dids -> Versions] /\ dirty' = dirty \cup {d}
    BY <1>1, <1>6 DEF Write, CacheTypeOK, Versions, CacheConstants
  <2>3. CacheTypeOK'
    BY <1>1, <1>6, <2>1, <2>2 DEF Write, CacheTypeOK
  <2>4. \A b \in Dids \ {d} : ledger'[b] = ledger[b]
    BY <1>1, <1>6 DEF Write, CacheTypeOK
  <2>5. StaleOnlyByRace' /\ AvailableIsUsable'
    BY <1>6, <2>2, <2>4 DEF Write, CacheInv, StaleOnlyByRace, AvailableIsUsable
  <2>6. \A r \in Readers : reader[r].did \in Dids
    BY <1>1 DEF ReaderState
  <2>7. \A r \in Readers : CarrierKnown(r)'
    BY <1>6, <2>2, <2>4, <2>6 DEF Write, CacheInv, CarrierKnown
  <2> QED BY <2>3, <2>5, <2>7 DEF CacheInv
<1>7. ASSUME RecordFailure \/ Quiet,
             UNCHANGED <<redisUp, outages, ledger, entry, reader, dirty, exposed>>
      PROVE  CacheInv'
  <2>1. /\ AvailableIsUsable' /\ cacheFailures' \in 0 .. CacheFailureThreshold + 1
        /\ available' \in BOOLEAN /\ reconnectRuns' \in BOOLEAN
    BY <1>7, FailuresCounted DEF CacheInv
  <2>2. redisUp' \in BOOLEAN
    BY <1>1, <1>7 DEF CacheTypeOK
  <2> QED
    BY <1>1, <1>7, <2>1, <2>2 DEF CacheInv, CacheTypeOK, StaleOnlyByRace, CarrierKnown
<1>8. ASSUME NEW d \in Dids, Invalidate(d) PROVE CacheInv'
  <2>1. CASE redisUp
    BY <1>8, <2>1, EntriesDropped DEF Invalidate
  <2>2. CASE ~redisUp
    BY <1>7, <1>8, <2>2 DEF Invalidate
  <2> QED BY <2>1, <2>2
<1>9. ASSUME NEW d \in Dids, Expire(d) PROVE CacheInv'
  BY <1>9, EntriesDropped DEF Expire, Quiet
<1>10. ASSUME InvalidateAll PROVE CacheInv'
  <2>1. CASE redisUp
    <3>1. dirty' = dirty \ Dids
      BY <1>1, <1>10, <2>1 DEF InvalidateAll, CacheTypeOK
    <3> QED BY <1>10, <2>1, <3>1, EntriesDropped DEF InvalidateAll
  <2>2. CASE ~redisUp
    BY <1>7, <1>10, <2>2 DEF InvalidateAll
  <2> QED BY <2>1, <2>2
<1>11. ASSUME RedisDown \/ RedisBack \/ Reconnect PROVE CacheInv'
  <2>1. redisUp' \in BOOLEAN /\ available' \in BOOLEAN /\ reconnectRuns' \in BOOLEAN
    BY <1>1, <1>11 DEF RedisDown, RedisBack, Reconnect, CacheTypeOK
  <2>2. CacheTypeOK'
    BY <1>1, <1>11, <2>1 DEF RedisDown, RedisBack, Reconnect, CacheTypeOK, CacheConstants
  <2>3. AvailableIsUsable'
    <3>1. UNCHANGED <<available, cacheFailures>> \/ cacheFailures' = 0
      BY <1>11 DEF RedisDown, RedisBack, Reconnect
    <3>2. 0 < CacheFailureThreshold
      BY DEF CacheConstants
    <3> QED BY <3>1, <3>2, Zenon DEF CacheInv, AvailableIsUsable
  <2>4. UNCHANGED <<ledger, entry, reader, dirty, exposed>>
    BY <1>11 DEF RedisDown, RedisBack, Reconnect
  <2> QED
    BY <2>2, <2>3, <2>4 DEF CacheInv, StaleOnlyByRace, CarrierKnown
<1>12. ASSUME UNCHANGED cacheVars PROVE CacheInv'
  BY <1>7, <1>12 DEF cacheVars, Quiet
<1> QED
  BY <1>2, <1>3, <1>4, <1>5, <1>6, <1>8, <1>9, <1>10, <1>11, <1>12 DEF CacheNext

\* A document served from Redis is older than the ledger's only because nobody
\* invalidated it or the invalidation passed a reader on its way to set(), and a
\* cache that counts as available is consulted: for any readers, DIDs, outages
\* and failure threshold.
THEOREM CacheStaleness == CacheConstants => (CacheSpec => []CacheStaleOnlyByRace)
<1> SUFFICES ASSUME CacheConstants PROVE CacheSpec => []CacheStaleOnlyByRace
  OBVIOUS
<1>1. CacheInit => CacheInv
  BY CacheInitInv
<1>2. CacheInv /\ [CacheNext]_cacheVars => CacheInv'
  BY CacheStep
<1>3. CacheInv => CacheStaleOnlyByRace
  BY DEF CacheInv, CacheStaleOnlyByRace
<1> QED BY <1>1, <1>2, <1>3, PTL DEF CacheSpec

-----------------------------------------------------------------------------
(* The Redis client: the connect loop, then the queues of commands. *)

LoopState ==
    /\ attempt \in 0 .. MaxRetries /\ phase \in {"wait", "tcp", "auth"}
    /\ reconnecting \in BOOLEAN /\ timerArmed \in BOOLEAN /\ awaitsConnect \in BOOLEAN
    /\ ReconnectFlagBacked

QueueState ==
    /\ redisPending \in Seq(Sent) /\ wire \in Seq(Sent) /\ buffer \in Seq(Sent)
    /\ outcome \in [Sent -> {"idle", "waiting", "failed", "done"}]
    /\ reply \in [Sent -> Sent \cup {NoReply}]

SocketState ==
    /\ connected \in BOOLEAN /\ redisClosed \in BOOLEAN
    /\ drops \in 0 .. MaxDrops /\ connects \in 0 .. MaxConnects

LEMMA RedisParts ==
    /\ RedisTypeOK /\ ReconnectFlagBacked <=> LoopState /\ QueueState /\ SocketState
    /\ (RedisTypeOK /\ ReconnectFlagBacked)' <=> (LoopState /\ QueueState /\ SocketState)'
  BY DEF RedisTypeOK, LoopState, QueueState, SocketState

\* The two ends of the loop, whoever awaits it.  A reconnect that does not await
\* the loop has its timer armed, so nothing is lost with the loop.
LEMMA LoopEnds ==
    ASSUME RedisConstants, LoopState, LoopRejects \/ LoopResolves
    PROVE  LoopState'
<1>1. attempt' = 0 /\ phase' = "wait" /\ awaitsConnect' = FALSE
  BY DEF LoopRejects, LoopResolves
<1>2. reconnecting' \in BOOLEAN /\ timerArmed' \in BOOLEAN
  BY DEF LoopRejects, LoopResolves, LoopState, ScheduleReconnect
<1>3. reconnecting' => timerArmed'
  <2>1. CASE LoopRejects
    <3>1. CASE awaitsConnect
      BY <2>1, <3>1 DEF LoopRejects, ScheduleReconnect
    <3>2. CASE ~awaitsConnect
      <4>1. reconnecting' = reconnecting /\ timerArmed' = timerArmed
        BY <2>1, <3>2 DEF LoopRejects
      <4> QED BY <3>2, <4>1 DEF LoopState, ReconnectFlagBacked
    <3> QED BY <3>1, <3>2
  <2>2. CASE LoopResolves
    BY <2>2 DEF LoopResolves, LoopState, ReconnectFlagBacked
  <2> QED BY <2>1, <2>2
<1>4. attempt' \in 0 .. MaxRetries
  BY <1>1 DEF RedisConstants
<1> QED
  BY <1>1, <1>2, <1>3, <1>4 DEF LoopState, ReconnectFlagBacked

\* The loop goes on with another attempt or another phase of the same.
LEMMA LoopGoesOn ==
    ASSUME RedisConstants, LoopState, attempt' \in 0 .. MaxRetries, attempt' >= attempt,
           phase' \in {"wait", "tcp", "auth"}, UNCHANGED reconnectVars
    PROVE  LoopState'
<1>1. attempt > 0 => attempt' > 0
  BY DEF LoopState, RedisConstants
<1>2. reconnecting' = reconnecting /\ timerArmed' = timerArmed /\ awaitsConnect' = awaitsConnect
  BY DEF reconnectVars
<1>3. ReconnectFlagBacked'
  BY <1>1, <1>2 DEF LoopState, ReconnectFlagBacked
<1>4. reconnecting' \in BOOLEAN /\ timerArmed' \in BOOLEAN /\ awaitsConnect' \in BOOLEAN
  BY <1>2 DEF LoopState
<1> QED BY <1>3, <1>4 DEF LoopState

LEMMA LoopAfterFailure ==
    ASSUME RedisConstants, LoopState, AttemptFails
    PROVE  LoopState'
<1>1. CASE attempt < MaxRetries
  <2>1. attempt' = attempt + 1 /\ phase' = "wait" /\ UNCHANGED reconnectVars
    BY <1>1 DEF AttemptFails, LoopState, RedisConstants
  <2>2. attempt' \in 0 .. MaxRetries /\ attempt' >= attempt
    BY <1>1, <2>1 DEF LoopState, RedisConstants
  <2> QED BY <2>1, <2>2, LoopGoesOn
<1>2. CASE ~(attempt < MaxRetries)
  BY <1>2, LoopEnds DEF AttemptFails
<1> QED BY <1>1, <1>2

LEMMA LoopAfterDrop ==
    ASSUME RedisConstants, LoopState, redisClosed \in BOOLEAN, RetryAfterDrop
    PROVE  LoopState'
<1> DEFINE fails == phase = "auth"
           last == fails /\ attempt = MaxRetries
           schedules == (~redisClosed /\ ~reconnecting) \/ (last /\ awaitsConnect)
<1>1. /\ attempt' = IF last THEN 0 ELSE IF fails THEN attempt + 1 ELSE attempt
      /\ phase' = IF fails THEN "wait" ELSE phase
      /\ awaitsConnect' = (awaitsConnect /\ ~last)
      /\ schedules => reconnecting' = TRUE /\ timerArmed' = TRUE
      /\ ~schedules => reconnecting' = reconnecting /\ timerArmed' = timerArmed
  BY DEF RetryAfterDrop, ScheduleReconnect
<1>2. attempt' \in 0 .. MaxRetries /\ phase' \in {"wait", "tcp", "auth"}
  BY <1>1 DEF LoopState, RedisConstants
<1>3. ~last /\ attempt > 0 => attempt' > 0
  BY <1>1 DEF LoopState, RedisConstants
<1>4. awaitsConnect' \in BOOLEAN
  BY <1>1
<1>5. reconnecting' \in BOOLEAN /\ timerArmed' \in BOOLEAN
  BY <1>1 DEF LoopState
<1>6. ReconnectFlagBacked'
  <2>1. CASE schedules
    BY <1>1, <2>1 DEF ReconnectFlagBacked
  <2>2. CASE ~schedules
    <3> HIDE DEF last
    <3>1. last => ~awaitsConnect
      BY <2>2
    <3>2. /\ awaitsConnect' = (awaitsConnect /\ ~last)
          /\ reconnecting' = reconnecting /\ timerArmed' = timerArmed
      BY <1>1, <2>2
    <3> QED BY <1>3, <3>1, <3>2, Zenon DEF ReconnectFlagBacked, LoopState
  <2> QED BY <2>1, <2>2
<1> QED BY <1>2, <1>4, <1>5, <1>6 DEF LoopState

LEMMA SentCommands == Auth \in Sent /\ Quit \in Sent /\ Commands \subseteq Sent
  BY DEF Sent

\* What the steps write into the queues.
LEMMA Rejected ==
    ASSUME QueueState, NEW q, RejectAll(q)
    PROVE  outcome' \in [Sent -> {"idle", "waiting", "failed", "done"}]
  BY DEF QueueState, RejectAll

LEMMA Delivered ==
    ASSUME QueueState, SocketState, LoopState, RedisConstants, OnData
    PROVE  QueueState' /\ LoopState'
<1> DEFINE buf == Append(buffer, Head(wire))
           n == IF Len(buf) < Len(redisPending) THEN Len(buf) ELSE Len(redisPending)
           got == SubSeq(redisPending, 1, n)
<1>1. Head(wire) \in Sent /\ Tail(wire) \in Seq(Sent)
  BY DEF QueueState, OnData
<1>2. buf \in Seq(Sent) /\ redisPending \in Seq(Sent)
  BY <1>1 DEF QueueState
<1>3. /\ wire' = Tail(wire)
      /\ buffer' = SubSeq(buf, n + 1, Len(buf))
      /\ redisPending' = SubSeq(redisPending, n + 1, Len(redisPending))
      /\ outcome' = [c \in Sent |-> IF c \in Range(got) THEN "done" ELSE outcome[c]]
      /\ reply' = [c \in Sent |-> IF c \in Range(got) THEN buf[CHOOSE i \in 1 .. n : got[i] = c]
                                  ELSE reply[c]]
      /\ LoopResolves \/ UNCHANGED <<attempt, phase, reconnectVars>>
  BY DEF OnData
<1> HIDE DEF buf
<1>4. n \in Nat /\ n <= Len(buf) /\ n <= Len(redisPending)
  BY <1>2
<1>5. got \in Seq(Sent) /\ DOMAIN got = 1 .. n
  BY <1>2, <1>4
<1> HIDE DEF n, got
<1>6. buffer' \in Seq(Sent) /\ redisPending' \in Seq(Sent)
  BY <1>2, <1>3, <1>4
<1>7. ASSUME NEW c \in Range(got) PROVE buf[CHOOSE i \in 1 .. n : got[i] = c] \in Sent
  <2>1. \E i \in 1 .. n : got[i] = c
    BY <1>5 DEF Range
  <2>2. (CHOOSE i \in 1 .. n : got[i] = c) \in 1 .. n
    BY <2>1
  <2> HIDE DEF Range
  <2> QED BY <1>2, <1>4, <2>2
<1>8. reply' \in [Sent -> Sent \cup {NoReply}]
  BY <1>3, <1>7 DEF QueueState
<1>9. outcome' \in [Sent -> {"idle", "waiting", "failed", "done"}]
  BY <1>3 DEF QueueState
<1>10. LoopState'
  <2>1. CASE LoopResolves
    BY <2>1, LoopEnds
  <2>2. CASE UNCHANGED <<attempt, phase, reconnectVars>>
    BY <2>2, LoopGoesOn DEF LoopState, RedisConstants
  <2> QED BY <1>3, <2>1, <2>2
<1> QED
  BY <1>1, <1>3, <1>6, <1>8, <1>9, <1>10 DEF QueueState

LEMMA HandshakeOver ==
    ASSUME RedisConstants, LoopState, QueueState, SocketState, NEW rest,
           HandshakeFails(rest), reply' = reply
    PROVE  LoopState' /\ QueueState' /\ connected' = FALSE
<1>1. LoopState'
  BY LoopAfterFailure, LoopAfterDrop DEF HandshakeFails, SocketState
<1>2. buffer' \in Seq(Sent)
  <2>1. buffer' = buffer \/ buffer' = <<>>
    BY DEF HandshakeFails
  <2>2. buffer \in Seq(Sent) /\ <<>> \in Seq(Sent)
    BY DEF QueueState
  <2> QED BY <2>1, <2>2, Zenon
<1>3. outcome' \in [Sent -> {"idle", "waiting", "failed", "done"}]
  BY Rejected DEF HandshakeFails
<1> QED
  BY <1>1, <1>2, <1>3 DEF HandshakeFails, QueueState

LEMMA RedisStep ==
    ASSUME RedisConstants, LoopState, QueueState, SocketState, [RedisNext]_redisVars
    PROVE  LoopState' /\ QueueState' /\ SocketState'
<1> DEFINE Goal == LoopState' /\ QueueState' /\ SocketState'
<1> USE SentCommands
<1>1. ASSUME UNCHANGED <<attempt, phase, reconnectVars>> PROVE LoopState'
  BY <1>1, LoopGoesOn DEF LoopState, RedisConstants
<1>2. ASSUME UNCHANGED <<redisPending, wire, buffer, outcome, reply>> PROVE QueueState'
  BY <1>2 DEF QueueState
<1>3. ASSUME UNCHANGED <<redisClosed, drops, connects>>, connected' \in BOOLEAN
      PROVE  SocketState'
  BY <1>3 DEF SocketState
<1>4. ASSUME Connect PROVE Goal
  <2>1. attempt' = 1 /\ phase' = "wait" /\ UNCHANGED reconnectVars
    BY <1>4 DEF Connect, BeginLoop
  <2>2. attempt' \in 0 .. MaxRetries /\ attempt' >= attempt
    BY <1>4, <2>1 DEF Connect, RedisConstants
  <2>3. connected' \in BOOLEAN /\ redisClosed' \in BOOLEAN
    BY <1>4 DEF Connect, SocketState
  <2>4. drops' \in 0 .. MaxDrops /\ connects' \in 0 .. MaxConnects
    BY <1>4 DEF Connect, SocketState, RedisConstants
  <2> QED BY <1>2, <1>4, <2>1, <2>2, <2>3, <2>4, LoopGoesOn DEF Connect, SocketState
<1>5. ASSUME OpenSocket PROVE Goal
  <2>1. LoopState'
    <3>1. CASE LoopRejects
      BY <3>1, LoopEnds
    <3>2. CASE phase' = "tcp" /\ UNCHANGED <<attempt, reconnectVars>>
      BY <3>2, LoopGoesOn DEF LoopState, RedisConstants
    <3> QED BY <1>5, <3>1, <3>2 DEF OpenSocket
  <2>2. SocketState'
    BY <1>3, <1>5 DEF OpenSocket, boundVars, SocketState
  <2> QED BY <1>2, <1>5, <2>1, <2>2 DEF OpenSocket
<1>6. ASSUME OpenFails PROVE Goal
  BY <1>2, <1>3, <1>6, LoopAfterFailure DEF OpenFails, boundVars, SocketState
<1>7. ASSUME SocketReady PROVE Goal
  <2>1. LoopState'
    BY <1>7, LoopGoesOn DEF SocketReady, LoopState, RedisConstants
  <2>2. SocketState'
    BY <1>3, <1>7 DEF SocketReady, boundVars, SocketState
  <2>3. wire' \in Seq(Sent)
    BY <1>7 DEF SocketReady
  <2>4. redisPending' \in Seq(Sent)
    BY <1>7 DEF SocketReady, QueueState
  <2>5. outcome' \in [Sent -> {"idle", "waiting", "failed", "done"}]
    BY <1>7 DEF SocketReady, QueueState
  <2> QED BY <1>7, <2>1, <2>2, <2>3, <2>4, <2>5 DEF SocketReady, QueueState
<1>8. ASSUME SocketFailure PROVE Goal
  <2>1. LoopState'
    BY <1>8, LoopAfterDrop DEF SocketFailure, SocketState
  <2>2. QueueState'
    BY <1>8, Rejected DEF SocketFailure, DropSocket, QueueState
  <2>3. connected' \in BOOLEAN /\ redisClosed' \in BOOLEAN
    BY <1>8 DEF SocketFailure, DropSocket, SocketState
  <2>4. drops' \in 0 .. MaxDrops /\ connects' \in 0 .. MaxConnects
    BY <1>8 DEF SocketFailure, SocketState, RedisConstants
  <2> QED BY <2>1, <2>2, <2>3, <2>4 DEF SocketState
<1>9. ASSUME AttemptReconnect PROVE Goal
  <2>1. attempt' \in 0 .. MaxRetries /\ phase' \in {"wait", "tcp", "auth"}
    BY <1>9 DEF AttemptReconnect, BeginLoop, LoopState, RedisConstants
  <2>2. /\ timerArmed' = FALSE
        /\ \/ reconnecting' = FALSE /\ awaitsConnect' = awaitsConnect
           \/ reconnecting' = reconnecting /\ awaitsConnect' = TRUE /\ attempt' > 0
    BY <1>9 DEF AttemptReconnect, BeginLoop, LoopState, RedisConstants
  <2>3. reconnecting' \in BOOLEAN /\ timerArmed' \in BOOLEAN /\ awaitsConnect' \in BOOLEAN
    BY <2>2 DEF LoopState
  <2>4. ReconnectFlagBacked'
    BY <2>2 DEF ReconnectFlagBacked
  <2>5. LoopState'
    BY <2>1, <2>3, <2>4 DEF LoopState
  <2>6. SocketState'
    BY <1>3, <1>9 DEF AttemptReconnect, boundVars, SocketState
  <2> QED BY <1>2, <1>9, <2>5, <2>6 DEF AttemptReconnect
<1>10. ASSUME NEW c \in Commands, Command(c) PROVE Goal
  <2>1. LoopState'
    BY <1>1, <1>10 DEF Command
  <2>2. SocketState'
    BY <1>3, <1>10 DEF Command, boundVars, SocketState
  <2>3. redisPending' \in Seq(Sent) /\ wire' \in Seq(Sent)
    <3>1. Append(redisPending, c) \in Seq(Sent) /\ Append(wire, c) \in Seq(Sent)
      BY DEF QueueState
    <3>2. /\ redisPending' = redisPending \/ redisPending' = Append(redisPending, c)
          /\ wire' = wire \/ wire' = Append(wire, c)
      BY <1>10 DEF Command
    <3> QED BY <3>1, <3>2 DEF QueueState
  <2>4. outcome' \in [Sent -> {"idle", "waiting", "failed", "done"}]
    BY <1>10 DEF Command, QueueState
  <2> QED BY <1>10, <2>1, <2>2, <2>3, <2>4 DEF Command, QueueState
<1>11. ASSUME OnData PROVE Goal
  <2>1. SocketState'
    BY <1>3, <1>11 DEF OnData, boundVars, SocketState
  <2> QED BY <1>11, <2>1, Delivered
<1>12. ASSUME AuthRefused PROVE Goal
  <2>1. LoopState' /\ QueueState' /\ connected' = FALSE
    BY <1>12, HandshakeOver DEF AuthRefused
  <2>2. redisClosed' \in BOOLEAN /\ connected' \in BOOLEAN
    BY <1>12, <2>1 DEF AuthRefused, SocketState
  <2>3. drops' \in 0 .. MaxDrops /\ connects' \in 0 .. MaxConnects
    BY <1>12 DEF AuthRefused, SocketState, RedisConstants
  <2> QED BY <2>1, <2>2, <2>3 DEF SocketState
<1>13. ASSUME CommandTimeout PROVE Goal
  <2>1. CASE Head(redisPending) = Auth /\ phase = "auth"
    <3>1. LoopState' /\ QueueState' /\ connected' = FALSE
      BY <1>13, <2>1, HandshakeOver DEF CommandTimeout
    <3>2. SocketState'
      BY <1>3, <1>13, <3>1 DEF CommandTimeout, boundVars
    <3> QED BY <3>1, <3>2
  <2>2. CASE ~(Head(redisPending) = Auth /\ phase = "auth")
    <3>1. /\ outcome' = [outcome EXCEPT ![Head(redisPending)] = "failed"]
          /\ redisPending' = Tail(redisPending) /\ redisPending # <<>>
          /\ UNCHANGED <<connected, attempt, phase, wire, buffer, reconnectVars, reply>>
      BY <1>13, <2>2 DEF CommandTimeout
    <3>2. redisPending' \in Seq(Sent)
      BY <3>1 DEF QueueState
    <3>3. QueueState'
      BY <3>1, <3>2 DEF QueueState
    <3>4. SocketState'
      BY <1>3, <1>13, <3>1 DEF CommandTimeout, boundVars, SocketState
    <3> QED BY <1>1, <3>1, <3>3, <3>4
  <2> QED BY <2>1, <2>2
<1>14. ASSUME QuitBegins PROVE Goal
  <2>1. LoopState'
    BY <1>14 DEF QuitBegins, LoopState, ReconnectFlagBacked
  <2>2. redisPending' \in Seq(Sent) /\ wire' \in Seq(Sent)
    <3>1. Append(redisPending, Quit) \in Seq(Sent) /\ Append(wire, Quit) \in Seq(Sent)
      BY DEF QueueState
    <3>2. /\ redisPending' = redisPending \/ redisPending' = Append(redisPending, Quit)
          /\ wire' = wire \/ wire' = Append(wire, Quit)
      BY <1>14 DEF QuitBegins
    <3> QED BY <3>1, <3>2 DEF QueueState
  <2>3. outcome' \in [Sent -> {"idle", "waiting", "failed", "done"}]
    BY <1>14 DEF QuitBegins, QueueState
  <2>4. QueueState'
    BY <1>14, <2>2, <2>3 DEF QuitBegins, QueueState
  <2>5. connected' \in BOOLEAN /\ redisClosed' \in BOOLEAN
    BY <1>14 DEF QuitBegins, SocketState
  <2>6. SocketState'
    BY <1>14, <2>5 DEF QuitBegins, boundVars, SocketState
  <2> QED BY <2>1, <2>4, <2>6
<1>15. ASSUME QuitEnds PROVE Goal
  <2>1. QueueState'
    BY <1>15, Rejected DEF QuitEnds, DropSocket, QueueState
  <2>2. SocketState'
    BY <1>3, <1>15 DEF QuitEnds, DropSocket, boundVars
  <2> QED BY <1>1, <1>15, <2>1, <2>2 DEF QuitEnds
<1>16. ASSUME UNCHANGED redisVars PROVE Goal
  BY <1>1, <1>2, <1>3, <1>16 DEF redisVars, reconnectVars, SocketState
<1> HIDE DEF Goal
<1>17. Goal
  BY <1>4, <1>5, <1>6, <1>7, <1>8, <1>9, <1>10, <1>11, <1>12, <1>13, <1>14, <1>15, <1>16
  DEF RedisNext
<1> QED BY <1>17 DEF Goal

LEMMA RedisInitial == RedisConstants /\ RedisInit => LoopState /\ QueueState /\ SocketState
<1> SUFFICES ASSUME RedisConstants, RedisInit PROVE LoopState /\ QueueState /\ SocketState
  OBVIOUS
<1>1. /\ connected \in BOOLEAN /\ redisClosed \in BOOLEAN /\ reconnecting \in BOOLEAN
      /\ timerArmed \in BOOLEAN /\ awaitsConnect \in BOOLEAN /\ ReconnectFlagBacked
  BY DEF RedisInit, ReconnectFlagBacked
<1>2. QueueState
  BY DEF RedisInit, QueueState
<1> QED
  BY <1>1, <1>2 DEF RedisInit, LoopState, SocketState, RedisConstants

\* The Redis client never keeps its reconnecting flag without a timer or a loop
\* behind it, which would silence every later socket failure: for any number of
\* commands, retries and drops.
THEOREM FlagBacked == RedisConstants => (RedisSpec => []RedisFlagBacked)
<1> SUFFICES ASSUME RedisConstants PROVE RedisSpec => []RedisFlagBacked
  OBVIOUS
<1> DEFINE RedisInv == LoopState /\ QueueState /\ SocketState
<1>1. RedisInit => RedisInv
  BY RedisInitial
<1>2. RedisInv /\ [RedisNext]_redisVars => RedisInv'
  BY RedisStep
<1>3. RedisInv => RedisFlagBacked
  BY RedisParts DEF RedisFlagBacked
<1> HIDE DEF RedisInv
<1> QED BY <1>1, <1>2, <1>3, PTL DEF RedisSpec

-----------------------------------------------------------------------------
(* The database pool. *)

\* A call that has answered takes no further step, and only a transaction is at
\* the statements of one.
AnsweredIsDone == \A o \in Ops : op[o].out # "none" => op[o].at = "done"

OwnStatements ==
    \A o \in Ops : op[o].at \in {"begin", "commit", "rollback"} => KindOf[o] = "transaction"

PoolInv ==
    /\ PoolTypeOK /\ ClientsAccountedFor /\ EffectsMatchAnswers
    /\ AnsweredIsDone /\ OwnStatements

One(b) == IF b THEN 1 ELSE 0

LEMMA PoolInitInv == PoolConstants /\ PoolInit => PoolInv
<1> SUFFICES ASSUME PoolConstants, PoolInit PROVE PoolInv
  OBVIOUS
<1>1. Start \in OpState /\ Start.at = "none" /\ Start.out = "none"
  BY DEF Start, OpState, Steps, PoolConstants
<1>2. \A o \in Ops : op[o] = Start
  BY DEF PoolInit
<1>3. PoolTypeOK
  BY <1>1 DEF PoolInit, PoolTypeOK, PoolConstants
<1>4. Holding = {} /\ Kept = {}
  BY <1>1, <1>2 DEF Holding, Kept, Borrowing
<1>5. ClientsAccountedFor
  BY <1>4, FS_EmptySet DEF PoolInit, ClientsAccountedFor
<1>6. EffectsMatchAnswers
  BY <1>1, <1>2 DEF PoolInit, EffectsMatchAnswers
<1> QED
  BY <1>1, <1>2, <1>3, <1>5, <1>6 DEF PoolInv, AnsweredIsDone, OwnStatements

LEMMA PoolFinite ==
    ASSUME PoolConstants
    PROVE  /\ IsFiniteSet(Holding) /\ IsFiniteSet(Kept)
           /\ Cardinality(Holding) \in Nat /\ Cardinality(Kept) \in Nat
           /\ Cardinality(Holding') \in Nat /\ Cardinality(Kept') \in Nat
<1>1. /\ Holding \subseteq Ops /\ Kept \subseteq Ops
      /\ Holding' \subseteq Ops /\ Kept' \subseteq Ops
  BY DEF Holding, Kept
<1> QED
  BY <1>1, FS_Subset, FS_CardinalityType DEF PoolConstants

LEMMA SetCounts ==
    ASSUME NEW S, IsFiniteSet(S), NEW x, NEW T, T \in {S, S \cup {x}, S \ {x}}
    PROVE  Cardinality(T) = Cardinality(S) - One(x \in S) + One(x \in T)
<1>1. Cardinality(S) \in Nat
  BY FS_CardinalityType
<1>2. CASE T = S
  BY <1>1, <1>2 DEF One
<1>3. CASE T = S \cup {x}
  <2>1. Cardinality(T) = IF x \in S THEN Cardinality(S) ELSE Cardinality(S) + 1
    BY <1>3, FS_AddElement
  <2> QED BY <1>1, <1>3, <2>1 DEF One
<1>4. CASE T = S \ {x}
  <2>1. Cardinality(T) = IF x \in S THEN Cardinality(S) - 1 ELSE Cardinality(S)
    BY <1>4, FS_RemoveElement
  <2> QED BY <1>1, <1>4, <2>1 DEF One
<1> QED BY <1>2, <1>3, <1>4

\* What one call's step does to the two sets of calls that hold a client.
LEMMA HoldersMove ==
    ASSUME PoolConstants, PoolInv, NEW o \in Ops, op[o].at # "done",
           NEW q \in OpState, op' = [op EXCEPT ![o] = q]
    PROVE  /\ Cardinality(Holding')
                = Cardinality(Holding) - One(op[o].at \in Borrowing) + One(q.at \in Borrowing)
           /\ Cardinality(Kept')
                = Cardinality(Kept) + One(KindOf[o] = "query" /\ q.out = "ok")
<1>1. op'[o] = q /\ \A p \in Ops \ {o} : op'[p] = op[p]
  BY DEF PoolInv, PoolTypeOK
<1>2. Holding' \in {Holding, Holding \cup {o}, Holding \ {o}}
  BY <1>1 DEF Holding
<1>3. /\ o \in Holding <=> op[o].at \in Borrowing
      /\ o \in Holding' <=> q.at \in Borrowing
  BY <1>1 DEF Holding
<1>4. o \notin Kept
  BY DEF Kept, PoolInv, AnsweredIsDone
<1>5. Kept' \in {Kept, Kept \cup {o}, Kept \ {o}}
  BY <1>1 DEF Kept
<1>6. o \in Kept' <=> KindOf[o] = "query" /\ q.out = "ok"
  BY <1>1 DEF Kept
<1>7. Cardinality(Holding')
        = Cardinality(Holding) - One(o \in Holding) + One(o \in Holding')
  BY <1>2, PoolFinite, SetCounts
<1>8. Cardinality(Kept') = Cardinality(Kept) - One(o \in Kept) + One(o \in Kept')
  BY <1>5, PoolFinite, SetCounts
<1> QED
  BY <1>3, <1>4, <1>6, <1>7, <1>8, PoolFinite DEF One

\* The writes of the call that took the step, and of no other.
EffectsStep(o, out) ==
    /\ {applied', ghost', unanswered'} \subseteq [Ops -> Nat]
    /\ \A p \in Ops \ {o} : /\ applied'[p] = applied[p] /\ ghost'[p] = ghost[p]
                            /\ unanswered'[p] = unanswered[p]
    /\ applied'[o] + ghost'[o] <= unanswered'[o] + One(out = "ok")
    /\ out = "ok" => applied'[o] > 0

LEMMA EffectsOfCall ==
    ASSUME PoolConstants, PoolInv, NEW o \in Ops, op[o].at # "done"
    PROVE  /\ UNCHANGED effectVars => \A out \in {"none", "error"} : EffectsStep(o, out)
           /\ applied' = [applied EXCEPT ![o] = @ + 1] /\ UNCHANGED <<ghost, unanswered>>
                => EffectsStep(o, "ok")
           /\ Unanswered(o) => \A out \in {"none", "error"} : EffectsStep(o, out)
<1>1. /\ applied \in [Ops -> Nat] /\ ghost \in [Ops -> Nat] /\ unanswered \in [Ops -> Nat]
      /\ op[o] \in OpState
  BY DEF PoolInv, PoolTypeOK
<1>2. op[o].out # "ok"
  BY DEF PoolInv, AnsweredIsDone
<1>3. applied[o] + ghost[o] <= unanswered[o]
  BY <1>1, <1>2 DEF PoolInv, EffectsMatchAnswers
<1>4. ASSUME UNCHANGED effectVars, NEW out \in {"none", "error"} PROVE EffectsStep(o, out)
  BY <1>1, <1>3, <1>4 DEF EffectsStep, effectVars, One
<1>5. ASSUME applied' = [applied EXCEPT ![o] = @ + 1], UNCHANGED <<ghost, unanswered>>
      PROVE  EffectsStep(o, "ok")
  BY <1>1, <1>3, <1>5 DEF EffectsStep, One
<1>6. ASSUME Unanswered(o), NEW out \in {"none", "error"} PROVE EffectsStep(o, out)
  BY <1>1, <1>3, <1>6 DEF EffectsStep, Unanswered, One
<1> QED BY <1>4, <1>5, <1>6

\* A step of one call.
LEMMA CallMoves ==
    ASSUME PoolConstants, PoolInv, NEW o \in Ops, op[o].at # "done",
           NEW q \in OpState, op' = [op EXCEPT ![o] = q],
           q.out # "none" => q.at = "done",
           q.at \in {"begin", "commit", "rollback"} => KindOf[o] = "transaction",
           total' \in 0 .. MaxClients, idle' \in Nat,
           total' - idle' = total - idle - One(op[o].at \in Borrowing)
                              + One(q.at \in Borrowing)
                              + One(KindOf[o] = "query" /\ q.out = "ok"),
           shut' = shut, dbFaults' \in 0 .. MaxDbFaults,
           EffectsStep(o, q.out)
    PROVE  PoolInv'
<1> USE DEF PoolInv
<1>1. op'[o] = q /\ \A p \in Ops \ {o} : op'[p] = op[p]
  BY DEF PoolTypeOK
<1>2. op' \in [Ops -> OpState]
  BY DEF PoolTypeOK
<1>3. AnsweredIsDone' /\ OwnStatements'
  BY <1>1 DEF AnsweredIsDone, OwnStatements
<1>4. EffectsMatchAnswers'
  BY <1>1 DEF EffectsMatchAnswers, EffectsStep, One
<1>5. /\ Cardinality(Holding) \in Nat /\ Cardinality(Kept) \in Nat
      /\ Cardinality(Holding') \in Nat /\ Cardinality(Kept') \in Nat
  BY PoolFinite
<1>6. /\ total' \in Nat /\ idle \in Nat /\ total \in Nat
      /\ total = idle + Cardinality(Holding) + Cardinality(Kept)
  BY DEF PoolTypeOK, PoolConstants, ClientsAccountedFor
<1>7. total' = idle' + Cardinality(Holding') + Cardinality(Kept')
  <2> HIDE DEF PoolInv
  <2> DEFINE a == One(op[o].at \in Borrowing)
             b == One(q.at \in Borrowing)
             k == One(KindOf[o] = "query" /\ q.out = "ok")
  <2>1. a \in Nat /\ b \in Nat /\ k \in Nat
    BY DEF One
  <2>2. /\ Cardinality(Holding') = Cardinality(Holding) - a + b
        /\ Cardinality(Kept') = Cardinality(Kept) + k
    BY HoldersMove
  <2>3. total' - idle' = total - idle - a + b + k
    OBVIOUS
  <2> HIDE DEF a, b, k
  <2> QED BY <1>5, <1>6, <2>1, <2>2, <2>3
<1>8. PoolTypeOK'
  BY <1>2, <1>5, <1>6, <1>7 DEF PoolTypeOK, EffectsStep
<1> QED
  BY <1>3, <1>4, <1>7, <1>8 DEF ClientsAccountedFor
\* The call's record after a step, by what the invariant reads of it.
Moves(o, at, out) ==
    \E q \in OpState : op' = [op EXCEPT ![o] = q] /\ q.at = at /\ q.out = out

LEMMA MovesOfCall ==
    ASSUME PoolConstants, PoolInv, NEW o \in Ops, op[o].at # "done"
    PROVE  /\ \A at \in Steps : Go(o, at) => Moves(o, at, "none")
           /\ \A out \in {"ok", "error"} : Done(o, out) => Moves(o, "done", out)
           /\ Reacquire(o) => Moves(o, "done", "error") \/ Moves(o, "connect", "none")
           /\ Retried(o) => Moves(o, "done", "error") \/ Moves(o, "sleep", "none")
           /\ Checked(o) => IF KindOf[o] = "transaction" THEN Moves(o, "begin", "none")
                                                         ELSE Moves(o, "run", "none")
<1> DEFINE St(at, n, acquires, out) ==
              [at |-> at, tries |-> n, acquires |-> acquires, out |-> out]
           r == op[o]
<1>1. op \in [Ops -> OpState] /\ r \in OpState /\ r.out = "none"
  BY DEF PoolInv, PoolTypeOK, AnsweredIsDone
<1>2. r = St(r.at, r.tries, r.acquires, "none")
  BY <1>1 DEF OpState
<1>3. /\ r.tries \in 0 .. DbRetries /\ r.acquires \in 0 .. DbRetries /\ DbRetries \in Nat
      /\ 0 \in 0 .. DbRetries
  BY <1>1 DEF OpState, PoolConstants
<1>4. ASSUME NEW at \in Steps, NEW n \in 0 .. DbRetries,
             NEW acquires \in 0 .. DbRetries, NEW out \in {"none", "ok", "error"},
             op' = [op EXCEPT ![o] = St(at, n, acquires, out)]
      PROVE  Moves(o, at, out)
  <2>1. St(at, n, acquires, out) \in OpState
    BY DEF OpState
  <2>2. St(at, n, acquires, out).at = at /\ St(at, n, acquires, out).out = out
    OBVIOUS
  <2> HIDE DEF St
  <2> QED BY <1>4, <2>1, <2>2 DEF Moves
<1>5. ASSUME NEW at \in Steps, Go(o, at) PROVE Moves(o, at, "none")
  <2>1. op' = [op EXCEPT ![o] = [r EXCEPT !.at = at]]
    BY <1>5 DEF Go
  <2>2. [r EXCEPT !.at = at] = St(at, r.tries, r.acquires, "none")
    BY <1>2
  <2> QED BY <1>3, <1>4, <2>1, <2>2
<1>6. ASSUME NEW out \in {"ok", "error"}, Done(o, out) PROVE Moves(o, "done", out)
  <2>1. op' = [op EXCEPT ![o] = St("done", r.tries, r.acquires, out)]
    BY <1>1, <1>2, <1>6 DEF Done, OpState
  <2> QED BY <1>3, <1>4, <2>1 DEF Steps
<1>7. ASSUME Reacquire(o)
      PROVE  Moves(o, "done", "error") \/ Moves(o, "connect", "none")
  <2>1. CASE Done(o, "error")
    BY <1>6, <2>1
  <2>2. CASE /\ r.acquires < DbRetries
             /\ op' = [op EXCEPT ![o].at = "connect", ![o].acquires = @ + 1]
    <3>1. op' = [op EXCEPT ![o] = St("connect", r.tries, r.acquires + 1, "none")]
      BY <1>1, <1>2, <2>2 DEF OpState
    <3>2. r.acquires + 1 \in 0 .. DbRetries
      BY <1>3, <2>2
    <3> HIDE DEF St
    <3> QED BY <1>3, <1>4, <3>1, <3>2 DEF Steps
  <2> QED BY <1>7, <2>1, <2>2 DEF Reacquire
<1>8. ASSUME Retried(o)
      PROVE  Moves(o, "done", "error") \/ Moves(o, "sleep", "none")
  <2>1. CASE r.tries = DbRetries
    BY <1>6, <1>8, <2>1 DEF Retried
  <2>2. CASE r.tries # DbRetries
    <3>1. op' = [op EXCEPT ![o] = St("sleep", r.tries + 1, r.acquires, "none")]
      BY <1>1, <1>2, <1>8, <2>2 DEF Retried, OpState
    <3>2. r.tries + 1 \in 0 .. DbRetries
      BY <1>3, <2>2
    <3> HIDE DEF St
    <3> QED BY <1>3, <1>4, <3>1, <3>2 DEF Steps
  <2> QED BY <2>1, <2>2
<1>9. ASSUME Checked(o)
      PROVE  IF KindOf[o] = "transaction" THEN Moves(o, "begin", "none")
                                          ELSE Moves(o, "run", "none")
  <2>1. ASSUME NEW at \in Steps, NEW z \in 0 .. DbRetries,
               op' = [op EXCEPT ![o].at = at, ![o].acquires = z]
        PROVE  Moves(o, at, "none")
    <3> DEFINE f == [op EXCEPT ![o] = [r EXCEPT !.at = at]]
    <3>1. op' = [f EXCEPT ![o] = [f[o] EXCEPT !.acquires = z]]
      BY <2>1
    <3>2. [r EXCEPT !.at = at] = St(at, r.tries, r.acquires, "none")
      BY <1>2
    <3>3. f[o] = St(at, r.tries, r.acquires, "none")
      BY <1>1, <3>2
    <3>4. [f[o] EXCEPT !.acquires = z] = St(at, r.tries, z, "none")
      BY <3>3
    <3> HIDE DEF St
    <3>5. op' = [op EXCEPT ![o] = St(at, r.tries, z, "none")]
      BY <1>1, <3>1, <3>4
    <3> QED BY <1>3, <1>4, <3>5
  <2>2. CASE KindOf[o] = "transaction"
    <3>1. op' = [op EXCEPT ![o].at = "begin", ![o].acquires = 0]
      BY <1>9, <2>2 DEF Checked
    <3> QED BY <1>3, <2>1, <2>2, <3>1 DEF Steps
  <2>3. CASE KindOf[o] # "transaction"
    <3>1. op' = [op EXCEPT ![o].at = "run", ![o].acquires = 0]
      BY <1>9, <2>3 DEF Checked
    <3> QED BY <1>3, <2>1, <2>3, <3>1 DEF Steps
  <2> QED BY <2>2, <2>3
<1> QED BY <1>5, <1>6, <1>7, <1>8, <1>9

\* A client that a call returns, or that is closed instead, leaves the clients in
\* use one fewer.
LEMMA ClientGivenBack ==
    ASSUME PoolConstants, PoolInv, NEW o \in Ops, op[o].at \in Borrowing,
           NEW broken, GiveBack(broken)
    PROVE  total' \in 0 .. MaxClients /\ idle' \in Nat /\ total' - idle' = total - idle - 1
<1>1. o \in Holding
  BY DEF Holding
<1>2. Cardinality(Holding) # 0
  BY <1>1, PoolFinite, FS_EmptySet
<1>3. /\ total \in 0 .. MaxClients /\ idle \in Nat /\ MaxClients \in Nat
      /\ total = idle + Cardinality(Holding) + Cardinality(Kept)
      /\ Cardinality(Holding) \in Nat /\ Cardinality(Kept) \in Nat
  BY PoolFinite DEF PoolInv, PoolTypeOK, ClientsAccountedFor, PoolConstants
<1> QED
  BY <1>2, <1>3 DEF GiveBack
\* CallMoves, for the record as MovesOfCall describes it.
LEMMA StepKeeps ==
    ASSUME PoolConstants, PoolInv, NEW o \in Ops, op[o].at # "done",
           NEW at, NEW out, Moves(o, at, out),
           out # "none" => at = "done",
           at \in {"begin", "commit", "rollback"} => KindOf[o] = "transaction",
           total' \in 0 .. MaxClients, idle' \in Nat,
           total' - idle' = total - idle - One(op[o].at \in Borrowing)
                              + One(at \in Borrowing) + One(KindOf[o] = "query" /\ out = "ok"),
           shut' = shut, dbFaults' \in 0 .. MaxDbFaults,
           EffectsStep(o, out)
    PROVE  PoolInv'
<1>1. PICK q \in OpState : op' = [op EXCEPT ![o] = q] /\ q.at = at /\ q.out = out
  BY DEF Moves
<1> QED BY <1>1, CallMoves

LEMMA PoolStep ==
    ASSUME PoolConstants, PoolInv, [PoolNext]_poolVars
    PROVE  PoolInv'
<1>1. /\ total \in 0 .. MaxClients /\ idle \in 0 .. total /\ idle \in Nat /\ total \in Nat
      /\ MaxClients \in Nat /\ MaxDbFaults \in Nat /\ dbFaults \in 0 .. MaxDbFaults
  BY DEF PoolInv, PoolTypeOK, PoolConstants
<1>2. Fault => dbFaults' \in 0 .. MaxDbFaults
  BY <1>1 DEF Fault
\* A step between two states without a client, and one between two with it.
<1>3. ASSUME NEW o \in Ops, op[o].at # "done", NEW at, NEW out, Moves(o, at, out),
             out # "none" => at = "done", out # "ok",
             at \in {"begin", "commit", "rollback"} => KindOf[o] = "transaction",
             op[o].at \in Borrowing <=> at \in Borrowing,
             UNCHANGED <<total, idle, shut>>, dbFaults' \in 0 .. MaxDbFaults,
             EffectsStep(o, out)
      PROVE  PoolInv'
  <2>1. total' - idle' = total - idle - One(op[o].at \in Borrowing)
                           + One(at \in Borrowing) + One(KindOf[o] = "query" /\ out = "ok")
    BY <1>1, <1>3 DEF One
  <2> QED BY <1>1, <1>3, <2>1, StepKeeps
\* A step that returns its client, in one way or the other.
<1>4. ASSUME NEW o \in Ops, op[o].at \in Borrowing, NEW at, NEW out, Moves(o, at, out),
             out # "none" => at = "done", at \notin Borrowing,
             NEW broken, GiveBack(broken), ~(KindOf[o] = "query" /\ out = "ok"),
             shut' = shut, dbFaults' \in 0 .. MaxDbFaults, EffectsStep(o, out)
      PROVE  PoolInv'
  <2>1. /\ total' \in 0 .. MaxClients /\ idle' \in Nat
        /\ total' - idle' = total - idle - 1
    BY <1>4, ClientGivenBack
  <2>2. total' - idle' = total - idle - One(op[o].at \in Borrowing)
                           + One(at \in Borrowing) + One(KindOf[o] = "query" /\ out = "ok")
    <3> DEFINE a == One(op[o].at \in Borrowing)
               b == One(at \in Borrowing)
               k == One(KindOf[o] = "query" /\ out = "ok")
    <3>1. a = 1 /\ b = 0 /\ k = 0
      BY <1>4 DEF One
    <3> HIDE DEF a, b, k
    <3>2. total - idle \in Int /\ total' - idle' \in Int
      BY <1>1, <2>1
    <3>3. total - idle - 1 = total - idle - 1 + 0 + 0
      BY <3>2
    <3>4. total' - idle' = total - idle - a + b + k
      BY <2>1, <3>1, <3>3
    <3> QED BY <3>4 DEF a, b, k
  <2>3. op[o].at # "done" /\ (at \in {"begin", "commit", "rollback"} => FALSE)
    BY <1>4 DEF Borrowing
  <2> QED BY <1>4, <2>1, <2>2, <2>3, StepKeeps
<1>5. ASSUME NEW o \in Ops, Called(o) \/ Awake(o) PROVE PoolInv'
  <2>1. op[o].at \in {"none", "sleep"} /\ Go(o, "connect") /\ "connect" \in Steps
    BY <1>5 DEF Called, Awake, Steps
  <2>2. Moves(o, "connect", "none")
    BY <2>1, MovesOfCall
  <2>3. UNCHANGED <<idle, total, shut, effectVars, dbFaults>>
    BY <1>5 DEF Called, Awake
  <2>4. EffectsStep(o, "none")
    BY <2>1, <2>3, EffectsOfCall
  <2> QED BY <1>1, <1>3, <2>1, <2>2, <2>3, <2>4 DEF Borrowing
<1>6. ASSUME NEW o \in Ops, Borrow(o) PROVE PoolInv'
  <2>1. op[o].at = "connect" /\ Go(o, "check") /\ "check" \in Steps
    BY <1>6 DEF Borrow, Steps
  <2>2. Moves(o, "check", "none")
    BY <2>1, MovesOfCall
  <2>3. UNCHANGED <<shut, effectVars, dbFaults>>
    BY <1>6 DEF Borrow
  <2>4. EffectsStep(o, "none")
    BY <2>1, <2>3, EffectsOfCall
  <2>5. total' \in 0 .. MaxClients /\ idle' \in Nat /\ total' - idle' = total - idle + 1
    BY <1>1, <1>6 DEF Borrow
  <2>6. total' - idle' = total - idle - One(op[o].at \in Borrowing)
                           + One("check" \in Borrowing) + One(KindOf[o] = "query" /\ "none" = "ok")
    BY <1>1, <2>1, <2>5 DEF One, Borrowing
  <2> QED BY <1>1, <2>1, <2>2, <2>3, <2>4, <2>5, <2>6, StepKeeps
<1>7. ASSUME NEW o \in Ops, ConnectTimeout(o) PROVE PoolInv'
  <2>1. op[o].at = "connect" /\ Done(o, "error")
    BY <1>7 DEF ConnectTimeout
  <2>2. Moves(o, "done", "error")
    BY <2>1, MovesOfCall
  <2>3. UNCHANGED <<idle, total, shut, effectVars, dbFaults>>
    BY <1>7 DEF ConnectTimeout
  <2>4. EffectsStep(o, "error")
    BY <2>1, <2>3, EffectsOfCall
  <2> QED BY <1>1, <1>3, <2>1, <2>2, <2>3, <2>4 DEF Borrowing
<1>8. ASSUME NEW o \in Ops, ConnectFails(o) PROVE PoolInv'
  <2>1. op[o].at = "connect" /\ Reacquire(o)
    BY <1>8 DEF ConnectFails
  <2>2. Moves(o, "done", "error") \/ Moves(o, "connect", "none")
    BY <2>1, MovesOfCall
  <2>3. UNCHANGED <<idle, total, shut, effectVars>> /\ dbFaults' \in 0 .. MaxDbFaults
    BY <1>2, <1>8 DEF ConnectFails
  <2>4. EffectsStep(o, "error") /\ EffectsStep(o, "none")
    BY <2>1, <2>3, EffectsOfCall
  <2> QED BY <1>1, <1>3, <2>1, <2>2, <2>3, <2>4 DEF Borrowing
<1>9. ASSUME NEW o \in Ops, Checked(o) PROVE PoolInv'
  <2>1. op[o].at = "check" /\ UNCHANGED <<idle, total, shut, effectVars, dbFaults>>
    BY <1>9 DEF Checked
  <2>2. \/ KindOf[o] = "transaction" /\ Moves(o, "begin", "none")
        \/ Moves(o, "run", "none")
    BY <1>9, <2>1, MovesOfCall
  <2>3. EffectsStep(o, "none")
    BY <2>1, EffectsOfCall
  <2> QED BY <1>1, <1>3, <2>1, <2>2, <2>3 DEF Borrowing
<1>10. ASSUME NEW o \in Ops, CheckFails(o) PROVE PoolInv'
  <2>1. op[o].at = "check" /\ Reacquire(o) /\ GiveBack(TRUE)
    BY <1>10 DEF CheckFails
  <2>2. Moves(o, "done", "error") \/ Moves(o, "connect", "none")
    BY <2>1, MovesOfCall
  <2>3. UNCHANGED <<shut, effectVars>> /\ dbFaults' \in 0 .. MaxDbFaults
    BY <1>2, <1>10 DEF CheckFails
  <2>4. EffectsStep(o, "error") /\ EffectsStep(o, "none")
    BY <2>1, <2>3, EffectsOfCall
  <2> QED BY <1>4, <2>1, <2>2, <2>3, <2>4 DEF Borrowing
<1>11. ASSUME NEW o \in Ops, Answered(o) PROVE PoolInv'
  <2>1. op[o].at = "run" /\ AfterSuccess(o) /\ Done(o, "ok")
    BY <1>11 DEF Answered
  <2>2. Moves(o, "done", "ok")
    BY <2>1, MovesOfCall
  <2>3. shut' = shut /\ dbFaults' = dbFaults
    BY <1>11 DEF Answered
  <2>4. EffectsStep(o, "ok")
    BY <1>11, <2>1, EffectsOfCall DEF Answered
  <2>5. CASE KindOf[o] = "tenant"
    BY <1>1, <1>4, <2>1, <2>2, <2>3, <2>4, <2>5 DEF Borrowing, AfterSuccess
  <2>6. CASE KindOf[o] # "tenant"
    <3>1. KindOf[o] = "query" /\ UNCHANGED <<idle, total>>
      BY <1>11, <2>1, <2>6 DEF AfterSuccess, Answered, PoolConstants
    <3>2. total' - idle' = total - idle - One(op[o].at \in Borrowing)
                             + One("done" \in Borrowing) + One(KindOf[o] = "query" /\ "ok" = "ok")
      BY <1>1, <2>1, <3>1 DEF One, Borrowing
    <3> QED BY <1>1, <2>1, <2>2, <2>3, <2>4, <3>1, <3>2, StepKeeps
  <2> QED BY <2>5, <2>6
<1>12. ASSUME NEW o \in Ops, Refused(o) PROVE PoolInv'
  <2>1. op[o].at = "run" /\ GiveBack(FALSE) /\ Done(o, "error")
    BY <1>12 DEF Refused
  <2>2. Moves(o, "done", "error")
    BY <2>1, MovesOfCall
  <2>3. UNCHANGED <<shut, effectVars>> /\ dbFaults' \in 0 .. MaxDbFaults
    BY <1>2, <1>12 DEF Refused
  <2>4. EffectsStep(o, "error")
    BY <2>1, <2>3, EffectsOfCall
  <2> QED BY <1>4, <2>1, <2>2, <2>3, <2>4 DEF Borrowing
<1>13. ASSUME NEW o \in Ops, Lost(o) PROVE PoolInv'
  <2>1. op[o].at = "run" /\ Unanswered(o) /\ GiveBack(TRUE) /\ Retried(o) /\ shut' = shut
    BY <1>13 DEF Lost
  <2>2. Moves(o, "done", "error") \/ Moves(o, "sleep", "none")
    BY <2>1, MovesOfCall
  <2>3. dbFaults' \in 0 .. MaxDbFaults
    BY <1>2, <2>1 DEF Unanswered
  <2>4. EffectsStep(o, "error") /\ EffectsStep(o, "none")
    BY <2>1, EffectsOfCall
  <2> QED BY <1>4, <2>1, <2>2, <2>3, <2>4 DEF Borrowing
<1>14. ASSUME NEW o \in Ops, Ghost(o) PROVE PoolInv'
  <2>1. /\ applied \in [Ops -> Nat] /\ ghost \in [Ops -> Nat] /\ unanswered \in [Ops -> Nat]
        /\ ghost[o] > 0 /\ ghost' = [ghost EXCEPT ![o] = @ - 1]
        /\ applied' = [applied EXCEPT ![o] = @ + 1] \/ applied' = applied
        /\ UNCHANGED <<op, idle, total, shut, unanswered, dbFaults>>
    BY <1>14 DEF Ghost, PoolInv, PoolTypeOK
  <2>2. applied' \in [Ops -> Nat] /\ ghost' \in [Ops -> Nat]
    BY <2>1
  <2>3. \A p \in Ops : /\ applied'[p] + ghost'[p] <= applied[p] + ghost[p]
                       /\ applied'[p] >= applied[p]
    BY <2>1
  <2>4. EffectsMatchAnswers'
    BY <2>1, <2>2, <2>3 DEF EffectsMatchAnswers, PoolInv
  <2>5. PoolTypeOK'
    BY <2>1, <2>2 DEF PoolInv, PoolTypeOK
  <2>6. Holding' = Holding /\ Kept' = Kept
    BY <2>1 DEF Holding, Kept
  <2> QED
    BY <2>1, <2>4, <2>5, <2>6 DEF PoolInv, ClientsAccountedFor, AnsweredIsDone, OwnStatements
<1>15. ASSUME NEW o \in Ops, Begun(o) \/ CallbackDone(o) PROVE PoolInv'
  <2>1. /\ op[o].at \in {"begin", "run"} /\ KindOf[o] = "transaction"
        /\ UNCHANGED <<idle, total, shut, effectVars, dbFaults>>
    BY <1>15 DEF Begun, CallbackDone, PoolInv, OwnStatements
  <2>2. Moves(o, "run", "none") \/ Moves(o, "commit", "none")
    BY <1>15, <2>1, MovesOfCall DEF Begun, CallbackDone, Steps
  <2>3. EffectsStep(o, "none")
    BY <2>1, EffectsOfCall
  <2> QED BY <1>1, <1>3, <2>1, <2>2, <2>3 DEF Borrowing
<1>16. ASSUME NEW o \in Ops, Committed(o) PROVE PoolInv'
  <2>1. op[o].at = "commit" /\ GiveBack(FALSE) /\ Done(o, "ok") /\ KindOf[o] = "transaction"
    BY <1>16 DEF Committed, PoolInv, OwnStatements
  <2>2. Moves(o, "done", "ok")
    BY <2>1, MovesOfCall
  <2>3. shut' = shut /\ dbFaults' = dbFaults
    BY <1>16 DEF Committed
  <2>4. EffectsStep(o, "ok")
    BY <1>16, <2>1, EffectsOfCall DEF Committed
  <2> QED BY <1>1, <1>4, <2>1, <2>2, <2>3, <2>4 DEF Borrowing
<1>17. ASSUME NEW o \in Ops, Aborts(o) \/ CommitLost(o) PROVE PoolInv'
  <2>1. /\ op[o].at \in {"begin", "run", "commit"} /\ KindOf[o] = "transaction"
        /\ UNCHANGED <<idle, total, shut>> /\ Go(o, "rollback")
        /\ UNCHANGED effectVars \/ Unanswered(o)
    BY <1>17 DEF Aborts, CommitLost, PoolInv, OwnStatements
  <2>2. Moves(o, "rollback", "none")
    BY <2>1, MovesOfCall DEF Steps
  <2>3. dbFaults' \in 0 .. MaxDbFaults
    BY <1>2, <1>17 DEF Aborts, CommitLost, Unanswered
  <2>4. EffectsStep(o, "none")
    BY <2>1, EffectsOfCall
  <2> QED BY <1>3, <2>1, <2>2, <2>3, <2>4 DEF Borrowing
<1>18. ASSUME NEW o \in Ops, RolledBack(o) PROVE PoolInv'
  <2>1. /\ op[o].at = "rollback" /\ Done(o, "error")
        /\ UNCHANGED <<shut, effectVars, dbFaults>>
    BY <1>18 DEF RolledBack
  <2>2. Moves(o, "done", "error")
    BY <2>1, MovesOfCall
  <2>3. EffectsStep(o, "error")
    BY <2>1, EffectsOfCall
  <2>4. PICK broken \in BOOLEAN : GiveBack(broken)
    BY <1>18 DEF RolledBack
  <2> QED BY <1>1, <1>4, <2>1, <2>2, <2>3, <2>4 DEF Borrowing
<1>19. ASSUME op' = op, UNCHANGED effectVars, dbFaults' = dbFaults,
              shut' \in {"no", "ending", "ended"},
              \/ total' = total /\ idle' = idle
              \/ total' = total - idle /\ idle' = 0
       PROVE  PoolInv'
  <2>1. Holding' = Holding /\ Kept' = Kept
    BY <1>19 DEF Holding, Kept
  <2>2. /\ total = idle + Cardinality(Holding) + Cardinality(Kept)
        /\ Cardinality(Holding) \in Nat /\ Cardinality(Kept) \in Nat
    BY PoolFinite DEF PoolInv, ClientsAccountedFor
  <2>3. total' = idle' + Cardinality(Holding) + Cardinality(Kept)
        /\ total' \in 0 .. MaxClients /\ idle' \in 0 .. total'
    BY <1>1, <1>19, <2>2
  <2>4. PoolTypeOK'
    BY <1>19, <2>3 DEF PoolInv, PoolTypeOK, effectVars
  <2>5. EffectsMatchAnswers'
    BY <1>19 DEF PoolInv, EffectsMatchAnswers, effectVars
  <2> QED
    BY <1>19, <2>1, <2>3, <2>4, <2>5
    DEF PoolInv, ClientsAccountedFor, AnsweredIsDone, OwnStatements
<1>20. ASSUME Shutdown \/ Ended PROVE PoolInv'
  BY <1>19, <1>20 DEF Shutdown, Ended
<1>21. ASSUME UNCHANGED poolVars PROVE PoolInv'
  <2>1. shut' \in {"no", "ending", "ended"}
    BY <1>21 DEF poolVars, PoolInv, PoolTypeOK
  <2> QED BY <1>19, <1>21, <2>1 DEF poolVars, effectVars
<1>22. ASSUME NEW o \in Ops, OpStep(o) PROVE PoolInv'
  BY <1>5, <1>6, <1>7, <1>9, <1>11, <1>15, <1>16, <1>18, <1>22 DEF OpStep
<1> QED
  BY <1>5, <1>8, <1>10, <1>12, <1>13, <1>14, <1>17, <1>20, <1>21, <1>22 DEF PoolNext

\* No failure, timeout, retry or shutdown loses a client or returns one twice,
\* and no write is repeated that was answered: for any number of calls, clients
\* and retries.
THEOREM PoolIsSound == PoolConstants => (PoolSpec => []PoolSound)
<1> SUFFICES ASSUME PoolConstants PROVE PoolSpec => []PoolSound
  OBVIOUS
<1>1. PoolInit => PoolInv
  BY PoolInitInv
<1>2. PoolInv /\ [PoolNext]_poolVars => PoolInv'
  BY PoolStep
<1>3. PoolInv => PoolSound
  BY DEF PoolInv, PoolSound
<1> QED BY <1>1, <1>2, <1>3, PTL DEF PoolSpec
=============================================================================
