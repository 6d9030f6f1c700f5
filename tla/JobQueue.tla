------------------------------- MODULE JobQueue -------------------------------
(***************************************************************************)
(* The Redis job queue (server/src/job-queue.js).  A job is a record under *)
(* its own key and a member of the sorted sets pending, processing,        *)
(* completed and failed.  Producers and workers change them one Redis      *)
(* command at a time: a worker's remaining commands are its todo list, and *)
(* any other process may move between two of them.  A worker may die, a    *)
(* command may fail, a handler may outlive its timeout, a record may       *)
(* expire before the job is first taken.                                   *)
(*                                                                         *)
(* The client is any Redis client with command(name, args) and ping().     *)
(***************************************************************************)
EXTENDS Integers, Sequences, FiniteSets

CONSTANTS
  Jobs, Workers,       \* job ids, and iterations of _processJobsLoop
  Handled,             \* jobs whose type has a handler
  Priority, Delay,     \* job -> priority level, delayMs
  MaxAttempts, RetryBackoff,
  ScoreBase,           \* 1e10: the weight of one priority level in a score
  StartTime, MaxTime,  \* Date.now() at the start and at the end
  MaxFaults            \* bound: crashes, failed commands and expired records

SetNames == {"pending", "processing", "completed", "failed"}
None == "none"

\* Priority levels go up to 4, an attempt is allowed, times and backoffs are
\* numbers of milliseconds
JobConstants ==
  /\ None \notin Jobs
  /\ Priority \in [Jobs -> 0 .. 4] /\ Delay \in [Jobs -> Nat]
  /\ MaxAttempts \in Nat \ {0}
  /\ \A n \in 0 .. MaxAttempts : RetryBackoff * 2 ^ n \in Nat
  /\ ScoreBase \in Nat \ {0} /\ StartTime \in Nat \ {0}
  /\ MaxTime \in Nat /\ StartTime <= MaxTime /\ MaxFaults \in Nat

VARIABLES
  now,
  rec,        \* job -> [status, attempts]: the value of its key
  score,      \* job -> its score in pending, 0 before it is added
  zset,       \* set name -> members
  adding,     \* jobs stored by addJob and not yet enqueued
  worker,     \* worker -> its job, where it is, its commands to come
  ran,        \* history: jobs whose handler has returned a result
  doubted,    \* history: jobs put on a terminal list by a command reported failed
  faults

jobVars == <<now, rec, score, zset, adding, worker, ran, doubted, faults>>

NoRecord == [status |-> "absent", attempts |-> 0]
Free == [at |-> "loop", job |-> None, todo |-> <<>>, attempts |-> 0]

JobTypeOK ==
  /\ now \in StartTime .. MaxTime
  /\ rec \in [Jobs -> [status : {"absent", "queued", "processing", "delayed",
                                 "completed", "failed"},
                       attempts : Nat]]
  /\ score \in [Jobs -> Int]
  /\ zset \in [SetNames -> SUBSET Jobs]
  /\ adding \subseteq Jobs /\ ran \subseteq Jobs /\ doubted \subseteq Jobs
  /\ \A w \in Workers : /\ worker[w].at \in {"loop", "load", "run", "catch", "fail"}
                        /\ worker[w].job \in Jobs \cup {None}
  /\ faults \in 0 .. MaxFaults

JobInit ==
  /\ now = StartTime
  /\ rec = [j \in Jobs |-> NoRecord] /\ score = [j \in Jobs |-> 0]
  /\ zset = [s \in SetNames |-> {}]
  /\ adding = {} /\ ran = {} /\ doubted = {}
  /\ worker = [w \in Workers |-> Free]
  /\ faults = 0

-----------------------------------------------------------------------------
(* Redis commands a worker has yet to send *)
Set(st, n)    == [op |-> "SET", status |-> st, attempts |-> n]
ZRem(s)       == [op |-> "ZREM", set |-> s]
ZAdd(s, sc)   == [op |-> "ZADD", set |-> s, score |-> sc]

Score(j, at) == (4 - Priority[j]) * ScoreBase + at

\* Move a job out of processing, as the completed, retried and failed paths do
Settle(st, n, s, sc) == <<Set(st, n), ZRem("processing"), ZAdd(s, sc)>>

\* Exponential backoff, stored where _getNextJob will look for the time
RetryScore(j, n) == Score(j, now + (RetryBackoff * 2 ^ n) \div 2)

Retry(w, r) ==
  Settle("delayed", r.attempts, "pending", RetryScore(worker[w].job, r.attempts))

Goto(w, at, todo, n) ==
  worker' = [worker EXCEPT ![w] =
    [at |-> at, job |-> worker[w].job, todo |-> todo, attempts |-> n]]

Release(w) == worker' = [worker EXCEPT ![w] = Free]

\* addJob: SET the record, then ZADD pending
AddStore(j) ==
  /\ score[j] = 0
  /\ rec' = [rec EXCEPT ![j] = [status |-> "queued", attempts |-> 0]]
  /\ score' = [score EXCEPT ![j] = Score(j, now + Delay[j])]
  /\ adding' = adding \cup {j}
  /\ UNCHANGED <<now, zset, worker, ran, doubted, faults>>

AddEnqueue(j) ==
  /\ j \in adding /\ adding' = adding \ {j}
  /\ zset' = [zset EXCEPT !["pending"] = @ \cup {j}]
  /\ UNCHANGED <<now, rec, score, worker, ran, doubted, faults>>

\* The producer dies between the two commands
AddDies(j) ==
  /\ j \in adding /\ adding' = adding \ {j}
  /\ faults < MaxFaults /\ faults' = faults + 1
  /\ UNCHANGED <<now, rec, score, zset, worker, ran, doubted>>

Mut_Peek(w) ==
  /\ worker[w].at = "loop" /\ worker[w].todo = <<>> /\ zset["pending"] # {}
  /\ \E j \in zset["pending"] :
       /\ \A k \in zset["pending"] : score[j] <= score[k]
       /\ score[j] % ScoreBase <= now
       /\ worker' = [worker EXCEPT ![w] =
            [at |-> "load", job |-> j, attempts |-> 0,
             todo |-> <<ZAdd("processing", now)>>]]
  /\ UNCHANGED <<now, rec, score, zset, adding, ran, doubted, faults>>

\* _getNextJob reads the head of pending and takes it if it is due: the time is
\* recovered from the score modulo ScoreBase
Peek(w) ==
  /\ worker[w].at = "loop" /\ worker[w].todo = <<>> /\ zset["pending"] # {}
  /\ \E j \in zset["pending"] :
       /\ \A k \in zset["pending"] : score[j] <= score[k]
       /\ score[j] % ScoreBase <= now
       /\ worker' = [worker EXCEPT ![w] =
            [at |-> "load", job |-> j, attempts |-> 0,
             todo |-> <<ZRem("pending"), ZAdd("processing", now)>>]]
  /\ UNCHANGED <<now, rec, score, zset, adding, ran, doubted, faults>>

\* One Redis command of a worker
Send(w) ==
  /\ worker[w].todo # <<>>
  /\ LET c == Head(worker[w].todo)
         j == worker[w].job
     IN \/ /\ c.op = "SET"
           /\ rec' = [rec EXCEPT ![j] = [status |-> c.status, attempts |-> c.attempts]]
           /\ UNCHANGED <<zset, score>>
        \/ /\ c.op = "ZREM"
           /\ zset' = [zset EXCEPT ![c.set] = @ \ {j}]
           /\ UNCHANGED <<rec, score>>
        \/ /\ c.op = "ZADD"
           /\ zset' = [zset EXCEPT ![c.set] = @ \cup {j}]
           /\ score' = IF c.set = "pending" THEN [score EXCEPT ![j] = c.score] ELSE score
           /\ UNCHANGED rec
  /\ IF worker[w].at = "loop" /\ Len(worker[w].todo) = 1
       THEN Release(w)
       ELSE Goto(w, worker[w].at, Tail(worker[w].todo), worker[w].attempts)
  /\ UNCHANGED <<now, adding, ran, doubted, faults>>

Ready(w, at) == worker[w].at = at /\ worker[w].todo = <<>>

\* _processJob reads the record: expired data abandons the job where it is, a
\* missing handler fails it, else the attempt is counted and stored
Load(w) ==
  /\ Ready(w, "load")
  /\ LET j == worker[w].job
         n == rec[j].attempts + 1
     IN \/ rec[j] = NoRecord /\ Release(w)
        \/ rec[j] # NoRecord /\ j \notin Handled /\ Goto(w, "fail", <<>>, 0)
        \/ rec[j] # NoRecord /\ j \in Handled
           /\ Goto(w, "run", <<Set("processing", n)>>, n)
  /\ UNCHANGED <<now, rec, score, zset, adding, ran, doubted, faults>>

\* The handler resolves in time: the record in memory is written back
HandlerDone(w) ==
  /\ Ready(w, "run")
  /\ ran' = ran \cup {worker[w].job}
  /\ Goto(w, "loop", Settle("completed", worker[w].attempts, "completed", 0), 0)
  /\ UNCHANGED <<now, rec, score, zset, adding, doubted, faults>>

\* The handler rejects, or the timeout wins the race while the handler runs on;
\* its result, if any, is not looked at
HandlerFails(w) ==
  /\ Ready(w, "run")
  /\ Goto(w, "catch", <<>>, 0)
  /\ UNCHANGED <<now, rec, score, zset, adding, ran, doubted, faults>>

Mut_CatchForgets(w) ==
  /\ Ready(w, "catch")
  /\ LET r == rec[worker[w].job] IN
     \/ r = NoRecord /\ Release(w)
     \/ r # NoRecord /\ r.attempts < MaxAttempts
        /\ Goto(w, "loop", <<Set("delayed", r.attempts), ZRem("processing")>>, 0)
     \/ r # NoRecord /\ r.attempts >= MaxAttempts /\ Goto(w, "fail", <<>>, 0)
  /\ UNCHANGED <<now, rec, score, zset, adding, ran, doubted, faults>>

\* Mutant: a worker that finds its job settled by another one clears it away
Mut_CatchYields(w) ==
  /\ Ready(w, "catch")
  /\ LET r == rec[worker[w].job] IN
     \/ r = NoRecord /\ Release(w)
     \/ r.status \notin {"absent", "processing"}
        /\ Goto(w, "loop", <<ZRem("processing"), ZRem("pending")>>, 0)
     \/ r.status = "processing" /\ r.attempts < MaxAttempts /\ Goto(w, "loop", Retry(w, r), 0)
     \/ r.status = "processing" /\ r.attempts >= MaxAttempts /\ Goto(w, "fail", <<>>, 0)
  /\ UNCHANGED <<now, rec, score, zset, adding, ran, doubted, faults>>

\* The catch block: retry while attempts are left, by the record as it is now
Catch(w) ==
  /\ Ready(w, "catch")
  /\ LET r == rec[worker[w].job] IN
     \/ r = NoRecord /\ Release(w)
     \/ r # NoRecord /\ r.attempts < MaxAttempts
        /\ Goto(w, "loop", Retry(w, r), 0)
     \/ r # NoRecord /\ r.attempts >= MaxAttempts /\ Goto(w, "fail", <<>>, 0)
  /\ UNCHANGED <<now, rec, score, zset, adding, ran, doubted, faults>>

\* _moveJobTo(failed)
MoveToFailed(w) ==
  /\ Ready(w, "fail")
  /\ LET r == rec[worker[w].job] IN
     IF r = NoRecord THEN Release(w)
     ELSE Goto(w, "loop", Settle("failed", r.attempts, "failed", 0), 0)
  /\ UNCHANGED <<now, rec, score, zset, adding, ran, doubted, faults>>

\* Whether the worker's next command is sent inside the try of _processJob: all
\* but the claim and the catch block's own.  A job without a handler is failed
\* inside it, and never by the catch block, since no attempt of it is counted.
InTry(w) ==
  LET todo == worker[w].todo
      Ends(s) == todo # <<>> /\ todo[Len(todo)] = ZAdd(s, 0)
  IN \/ worker[w].at = "run"
     \/ worker[w].at = "load" /\ todo = <<>>
     \/ Ends("completed")
     \/ worker[w].job \notin Handled /\ (worker[w].at = "fail" \/ Ends("failed"))

\* A command is refused: inside the try it is a failed attempt, elsewhere the
\* loop logs it and looks for the next job
JobCommandFails(w) ==
  /\ worker[w].job # None /\ faults < MaxFaults /\ faults' = faults + 1
  /\ worker[w].todo # <<>> \/ worker[w].at \in {"load", "catch", "fail"}
  /\ IF InTry(w) THEN Goto(w, "catch", <<>>, 0) ELSE Release(w)
  /\ UNCHANGED <<now, rec, score, zset, adding, ran, doubted>>

\* The ZADD that ends the try takes effect and times out: the catch block retries
\* or fails a job that is already listed.  Any other command that takes effect
\* and fails is Send, then the failure of the command after it.
JobCommandLate(w) ==
  /\ Len(worker[w].todo) = 1 /\ worker[w].at = "loop" /\ InTry(w)
  /\ faults < MaxFaults /\ faults' = faults + 1
  /\ zset' = [zset EXCEPT ![Head(worker[w].todo).set] = @ \cup {worker[w].job}]
  /\ doubted' = doubted \cup {worker[w].job}
  /\ Goto(w, "catch", <<>>, 0)
  /\ UNCHANGED <<now, rec, score, adding, ran>>

\* The worker's process dies; nothing moves its job out of processing
WorkerDies(w) ==
  /\ worker[w].job # None /\ faults < MaxFaults /\ faults' = faults + 1
  /\ Release(w)
  /\ UNCHANGED <<now, rec, score, zset, adding, ran, doubted>>

\* The 24 h expiry of a record nobody has taken yet; later SETs carry none
RecordExpires(j) ==
  /\ rec[j].status = "queued" /\ j \notin adding /\ faults < MaxFaults /\ faults' = faults + 1
  /\ rec' = [rec EXCEPT ![j] = NoRecord]
  /\ UNCHANGED <<now, score, zset, adding, worker, ran, doubted>>

Clock ==
  /\ now < MaxTime /\ now' = now + 1
  /\ UNCHANGED <<rec, score, zset, adding, worker, ran, doubted, faults>>

WorkerStep(w) ==
  \/ Peek(w) \/ Send(w) \/ Load(w) \/ HandlerDone(w) \/ HandlerFails(w)
  \/ Catch(w) \/ MoveToFailed(w)

JobNext ==
  \/ \E j \in Jobs : AddStore(j) \/ AddEnqueue(j) \/ AddDies(j) \/ RecordExpires(j)
  \/ \E w \in Workers : WorkerStep(w) \/ JobCommandFails(w) \/ JobCommandLate(w) \/ WorkerDies(w)
  \/ Clock

\* Started producers and workers keep going
JobFairness ==
  /\ \A j \in Jobs : WF_jobVars(AddEnqueue(j))
  /\ \A w \in Workers : WF_jobVars(WorkerStep(w))

JobSpec == JobInit /\ [][JobNext]_jobVars /\ JobFairness

-----------------------------------------------------------------------------
Added(j) == score[j] # 0
Held(j) == j \in adding \/ \E w \in Workers : worker[w].job = j

\* Between any two commands of any worker, a job that was added is in one of
\* the four sets or in somebody's hands; only a fault can lose it
\* (job-queue.js:170-171, 230-231, 257-258, 304-305).
NothingForgotten ==
  faults = 0 => \A j \in Jobs :
    Added(j) => Held(j) \/ \E s \in SetNames : j \in zset[s]

\* A job listed as completed has a handler run behind it that returned, however
\* its claims, retries and timeouts overlapped (job-queue.js:217-235).
CompletedRan == zset["completed"] \subseteq ran

SingleWorker == \A v, w \in Workers : v = w

\* One worker never counts more attempts than a job is allowed.  Several can:
\* each reads a count before the others store theirs (job-queue.js:206, 247).
AttemptsBounded ==
  SingleWorker => \A j \in Jobs : rec[j].attempts <= MaxAttempts

\* job-queue.js: without faults no job is outside every set and every hand, a
\* completed job has a handler run behind it, and one worker keeps to the
\* attempts allowed.
JobsKept == JobTypeOK /\ NothingForgotten /\ CompletedRan /\ AttemptsBounded

\* Without faults every job that reaches pending comes to rest in completed or
\* failed: retries are bounded.  It needs a single worker: of two that claim one
\* job, the slower can put it back into processing for good
\* (job-queue.js:170-171, 247, 273).
JobsSettle ==
  \A j \in Jobs : j \in zset["pending"] ~>
    j \in zset["completed"] \cup zset["failed"] \/ faults > 0

\* Somebody will still look at the job.  Nobody looks at one left in processing.
Open(j) == Held(j) \/ j \in zset["pending"]

\* What JobContract calls the standing of a job
Standing(j) ==
  {x \in {"accepted", "open", "completed", "failed"} :
     CASE x = "accepted" -> Added(j) [] x = "open" -> Open(j) [] OTHER -> j \in zset[x]}

Contract == INSTANCE JobContract WITH
              standing <- [j \in Jobs |-> Standing(j)], returned <- ran,
              broken <- faults # 0

\* One worker, whatever commands fail, take effect unseen or are cut off by a crash,
\* gives producers what JobContract promises (job-queue.js:188-242, 293-311).
JobContractKept == Contract!JobContractSpec
=============================================================================
