----------------------------- MODULE MCServerLinks -----------------------------
(***************************************************************************)
(* The server's links to what it depends on, checked side by side in one   *)
(* run: the Redis connection, the circuit breaker before the ledger, the   *)
(* DID cache, the job queue (served by one worker, and by two) and the     *)
(* database pool.  The parts share no state here: a behaviour belongs to   *)
(* one of them, chosen at the start, and the others stay as created.       *)
(***************************************************************************)
EXTENDS RedisClient, CircuitBreaker, DidCache, JobQueue, DatabasePool

VARIABLES
  part,
  now2, rec2, score2, zset2, adding2, worker2, ran2, doubted2, faults2

pairVars == <<now2, rec2, score2, zset2, adding2, worker2, ran2, doubted2, faults2>>
linksVars == <<part, redisVars, breakerVars, cacheVars, jobVars, pairVars, poolVars>>

JobPriority == [j1 |-> 1, j2 |-> 3]
JobDelay == [j1 |-> 2, j2 |-> 0]
CallKind == [q |-> "query", p |-> "query", t |-> "tenant", x |-> "transaction"]

P == INSTANCE JobQueue WITH
       Jobs <- {"j1"}, Workers <- {"w1", "w2"}, Handled <- {"j1"},
       Priority <- [j1 |-> 1], Delay <- [j1 |-> 2],
       now <- now2, rec <- rec2, score <- score2, zset <- zset2, adding <- adding2,
       worker <- worker2, ran <- ran2, doubted <- doubted2, faults <- faults2

ASSUME LinkAssumption ==
  /\ RedisConstants /\ BreakerConstants /\ CacheConstants
  /\ JobConstants /\ P!JobConstants /\ PoolConstants

Init == /\ part \in {"redis", "breaker", "cache", "jobs", "pair", "pool"}
        /\ RedisInit /\ BreakerInit /\ CacheInit /\ JobInit /\ P!JobInit /\ PoolInit
        /\ part # "cache" => redisUp /\ \A d \in Dids : ledger[d] = 0

Redis == /\ part = "redis" /\ RedisNext
         /\ UNCHANGED <<part, breakerVars, cacheVars, jobVars, pairVars, poolVars>>
Breaker == /\ part = "breaker" /\ BreakerNext
           /\ UNCHANGED <<part, redisVars, cacheVars, jobVars, pairVars, poolVars>>
Cache == /\ part = "cache" /\ CacheNext
         /\ UNCHANGED <<part, redisVars, breakerVars, jobVars, pairVars, poolVars>>
Job == /\ part = "jobs" /\ JobNext
       /\ UNCHANGED <<part, redisVars, breakerVars, cacheVars, pairVars, poolVars>>
Pair == /\ part = "pair" /\ P!JobNext
        /\ UNCHANGED <<part, redisVars, breakerVars, cacheVars, jobVars, poolVars>>
Pool == /\ part = "pool" /\ PoolNext
        /\ UNCHANGED <<part, redisVars, breakerVars, cacheVars, jobVars, pairVars>>

Next == Redis \/ Breaker \/ Cache \/ Job \/ Pair \/ Pool

On(p, A) == part = p /\ A

\* Each part's own fairness, as its module states it
Fairness ==
  /\ WF_redisVars(On("redis", OpenSocket)) /\ WF_redisVars(On("redis", AttemptReconnect))
  /\ WF_redisVars(On("redis", CommandTimeout)) /\ WF_redisVars(On("redis", OpenFails))
  /\ SF_redisVars(On("redis", SocketReady)) /\ SF_redisVars(On("redis", OnData /\ phase = "auth"))
  /\ \A c \in Callers : /\ WF_breakerVars(On("breaker", Call(c)))
                                /\ WF_breakerVars(On("breaker", CommandOk(c)))
                                /\ WF_breakerVars(On("breaker", OrphanEnds(c)))
  /\ WF_breakerVars(On("breaker", Tick))
  /\ \A j \in Jobs : WF_jobVars(On("jobs", AddEnqueue(j)))
  /\ WF_jobVars(On("jobs", \E w \in Workers : WorkerStep(w)))
  /\ WF_poolVars(On("pool", Ended))
  /\ \A o \in Ops : WF_poolVars(On("pool", OpStep(o)))

Spec == Init /\ [][Next]_linksVars /\ Fairness

-----------------------------------------------------------------------------
\* job-queue.js: also with two workers on one job, no job is outside every set and
\* every hand while nothing fails, and a completed job has a handler run behind it.
PairKeepsJobs == P!JobsKept

\* redis-client.js, circuit-breaker.js, job-queue.js, db/pool.ts: every Redis command
\* is answered, timed out or rejected and a scheduled reconnect ends connected; the
\* breaker closes again once the ledger is back for good; one worker brings every
\* pending job to completed or failed; every database call ends, and so does the
\* shutdown unless query() has kept a client.
LinksSettle ==
  /\ HealsAfterRecovery
  /\ CommandsSettle /\ ReconnectSucceeds
  /\ JobsSettle
  /\ CallsSettle /\ ShutdownEnds
=============================================================================
