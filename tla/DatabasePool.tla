----------------------------- MODULE DatabasePool -----------------------------
(***************************************************************************)
(* The server's PostgreSQL pool (server/src/db/pool.ts): query,            *)
(* tenantQuery and transaction, each of which borrows a client, checks it, *)
(* runs statements against a timeout and, but for transactions, retries    *)
(* when the connection was lost; and the shutdown.                         *)
(*                                                                         *)
(* The pool of pg and the database are external: a statement may be        *)
(* answered, refused, or go unanswered, and what went unanswered may have  *)
(* been executed, be executed later, or never.  Writes are counted.        *)
(***************************************************************************)
EXTENDS Naturals, FiniteSets

CONSTANTS
  Ops, KindOf,     \* calls, and call -> "query", "tenant" or "transaction"
  MaxClients,      \* max of the pool
  DbRetries,       \* maxRetries
  MaxDbFaults      \* bound: failures of connections and statements

\* What the constants may be
PoolConstants ==
  /\ IsFiniteSet(Ops) /\ KindOf \in [Ops -> {"query", "tenant", "transaction"}]
  /\ {MaxClients, DbRetries, MaxDbFaults} \subseteq Nat

VARIABLES
  op,          \* call -> [at, tries: of the statement, acquires: of the client, out]
  idle, total, \* clients of the pool
  shut,        \* "no", "ending" or "ended"
  applied,     \* call -> times its write took effect
  ghost,       \* call -> statements without an answer the server may still execute
  unanswered,  \* call -> its statements without an answer
  dbFaults

poolVars == <<op, idle, total, shut, applied, ghost, unanswered, dbFaults>>
effectVars == <<applied, ghost, unanswered>>

Steps == {"none", "connect", "check", "begin", "run", "commit", "rollback", "sleep", "done"}
Borrowing == {"check", "begin", "run", "commit", "rollback"}
Start == [at |-> "none", tries |-> 0, acquires |-> 0, out |-> "none"]

OpState == [at: Steps, tries: 0 .. DbRetries, acquires: 0 .. DbRetries,
            out: {"none", "ok", "error"}]

PoolTypeOK ==
  /\ op \in [Ops -> OpState]
  /\ total \in 0 .. MaxClients /\ idle \in 0 .. total
  /\ shut \in {"no", "ending", "ended"} /\ dbFaults \in 0 .. MaxDbFaults
  /\ {applied, ghost, unanswered} \subseteq [Ops -> Nat]

PoolInit ==
  /\ op = [o \in Ops |-> Start] /\ idle = 0 /\ total = 0 /\ shut = "no"
  /\ applied = [o \in Ops |-> 0] /\ ghost = [o \in Ops |-> 0]
  /\ unanswered = [o \in Ops |-> 0] /\ dbFaults = 0

-----------------------------------------------------------------------------
Go(o, at) == op' = [op EXCEPT ![o].at = at]
Done(o, out) == op' = [op EXCEPT ![o].at = "done", ![o].out = out]
Fault == dbFaults < MaxDbFaults /\ dbFaults' = dbFaults + 1

\* client.release(broken); a pool that is ending keeps no client
GiveBack(broken) ==
  IF broken \/ shut # "no" THEN total' = total - 1 /\ UNCHANGED idle
                           ELSE idle' = idle + 1 /\ UNCHANGED total

Called(o) ==
  /\ op[o].at = "none" /\ Go(o, "connect")
  /\ UNCHANGED <<idle, total, shut, effectVars, dbFaults>>

\* pool.connect hands out an idle client or opens one
Borrow(o) ==
  /\ op[o].at = "connect" /\ shut = "no" /\ Go(o, "check")
  /\ \/ idle > 0 /\ idle' = idle - 1 /\ UNCHANGED total
     \/ idle = 0 /\ total < MaxClients /\ total' = total + 1 /\ UNCHANGED idle
  /\ UNCHANGED <<shut, effectVars, dbFaults>>

\* The wait for a client ends with an error that has no code, as does a connect
\* or an attempt after the shutdown has begun: not retried
ConnectTimeout(o) ==
  /\ op[o].at = "connect" /\ (shut # "no" \/ (idle = 0 /\ total = MaxClients))
  /\ Done(o, "error")
  /\ UNCHANGED <<idle, total, shut, effectVars, dbFaults>>

\* acquireHealthyClient's next attempt, or the error thrown: the last one, or one that
\* is not retryable
Reacquire(o) ==
  \/ Done(o, "error")
  \/ /\ op[o].acquires < DbRetries
     /\ op' = [op EXCEPT ![o].at = "connect", ![o].acquires = @ + 1]

ConnectFails(o) ==
  /\ op[o].at = "connect" /\ shut = "no" /\ Fault /\ Reacquire(o)
  /\ UNCHANGED <<idle, total, shut, effectVars>>

Checked(o) ==
  /\ op[o].at = "check"
  /\ op' = [op EXCEPT ![o].at = IF KindOf[o] = "transaction" THEN "begin" ELSE "run",
                      ![o].acquires = 0]
  /\ UNCHANGED <<idle, total, shut, effectVars, dbFaults>>

CheckFails(o) ==
  /\ op[o].at = "check" /\ Fault /\ GiveBack(TRUE) /\ Reacquire(o)
  /\ UNCHANGED <<shut, effectVars>>

-----------------------------------------------------------------------------
(* query and tenantQuery *)

\* Only tenantQuery returns the client of a statement that succeeds
AfterSuccess(o) == IF KindOf[o] = "tenant" THEN GiveBack(FALSE) ELSE UNCHANGED <<idle, total>>

Answered(o) ==
  /\ op[o].at = "run" /\ KindOf[o] # "transaction"
  /\ applied' = [applied EXCEPT ![o] = @ + 1]
  /\ AfterSuccess(o) /\ Done(o, "ok")
  /\ UNCHANGED <<shut, ghost, unanswered, dbFaults>>

\* An error of the statement itself is not retried
Refused(o) ==
  /\ op[o].at = "run" /\ KindOf[o] # "transaction" /\ Fault
  /\ GiveBack(FALSE) /\ Done(o, "error")
  /\ UNCHANGED <<shut, effectVars>>

\* A statement goes unanswered: the connection is lost or the timeout fires
Unanswered(o) ==
  /\ Fault /\ unanswered' = [unanswered EXCEPT ![o] = @ + 1]
  /\ \/ applied' = [applied EXCEPT ![o] = @ + 1] /\ UNCHANGED ghost
     \/ ghost' = [ghost EXCEPT ![o] = @ + 1] /\ UNCHANGED applied
     \/ UNCHANGED <<applied, ghost>>

\* The next attempt, or the last error
Retried(o) ==
  IF op[o].tries = DbRetries THEN Done(o, "error")
    ELSE op' = [op EXCEPT ![o].at = "sleep", ![o].tries = @ + 1]

Lost(o) ==
  /\ op[o].at = "run" /\ KindOf[o] # "transaction"
  /\ Unanswered(o) /\ GiveBack(TRUE) /\ Retried(o)
  /\ UNCHANGED shut

Awake(o) ==
  /\ op[o].at = "sleep" /\ Go(o, "connect")
  /\ UNCHANGED <<idle, total, shut, effectVars, dbFaults>>

\* The server executes what it was left with, or drops it
Ghost(o) ==
  /\ ghost[o] > 0 /\ ghost' = [ghost EXCEPT ![o] = @ - 1]
  /\ \/ applied' = [applied EXCEPT ![o] = @ + 1]
     \/ UNCHANGED applied
  /\ UNCHANGED <<op, idle, total, shut, unanswered, dbFaults>>

-----------------------------------------------------------------------------
(* transaction: BEGIN and the tenant, the callback, COMMIT; an error of any of
   them sends ROLLBACK and returns the client, broken or not; nothing is retried *)

Begun(o) ==
  /\ op[o].at = "begin" /\ Go(o, "run")
  /\ UNCHANGED <<idle, total, shut, effectVars, dbFaults>>

CallbackDone(o) ==
  /\ op[o].at = "run" /\ KindOf[o] = "transaction" /\ Go(o, "commit")
  /\ UNCHANGED <<idle, total, shut, effectVars, dbFaults>>

Committed(o) ==
  /\ op[o].at = "commit"
  /\ applied' = [applied EXCEPT ![o] = @ + 1]
  /\ GiveBack(FALSE) /\ Done(o, "ok")
  /\ UNCHANGED <<shut, ghost, unanswered, dbFaults>>

\* BEGIN, the tenant's setting or the callback fails or times out, and no COMMIT is sent
\* any more; or COMMIT is refused.  What the callback's statements left in the
\* transaction goes with it, answered or not, so they are not told apart here.
Aborts(o) ==
  /\ \/ op[o].at \in {"begin", "commit"}
     \/ op[o].at = "run" /\ KindOf[o] = "transaction"
  /\ Fault /\ Go(o, "rollback")
  /\ UNCHANGED <<idle, total, shut, effectVars>>

\* COMMIT goes unanswered; the ROLLBACK behind it undoes nothing
CommitLost(o) ==
  /\ op[o].at = "commit" /\ Unanswered(o) /\ Go(o, "rollback")
  /\ UNCHANGED <<idle, total, shut>>

Mut_RolledBack(o) ==
  /\ op[o].at = "rollback"
  /\ \E broken \in BOOLEAN : GiveBack(broken)
  /\ applied' = [applied EXCEPT ![o] = @ + 1]
  /\ Done(o, "error")
  /\ UNCHANGED <<shut, ghost, unanswered, dbFaults>>

RolledBack(o) ==
  /\ op[o].at = "rollback"
  /\ \E broken \in BOOLEAN : GiveBack(broken)
  /\ Done(o, "error")
  /\ UNCHANGED <<shut, effectVars, dbFaults>>

-----------------------------------------------------------------------------
\* shutdown: idle clients are closed, end() waits for the others
Shutdown ==
  /\ shut = "no" /\ shut' = "ending" /\ total' = total - idle /\ idle' = 0
  /\ UNCHANGED <<op, effectVars, dbFaults>>

Ended ==
  /\ shut = "ending" /\ total = 0 /\ shut' = "ended"
  /\ UNCHANGED <<op, idle, total, effectVars, dbFaults>>

OpStep(o) ==
  \/ Borrow(o) \/ ConnectTimeout(o) \/ Checked(o) \/ Answered(o) \/ Awake(o)
  \/ Begun(o) \/ CallbackDone(o) \/ Committed(o) \/ RolledBack(o)

PoolNext ==
  \/ \E o \in Ops : \/ Called(o) \/ OpStep(o) \/ ConnectFails(o) \/ CheckFails(o) \/ Refused(o)
                    \/ Lost(o) \/ Ghost(o) \/ Aborts(o) \/ CommitLost(o)
  \/ Shutdown \/ Ended

\* Timeouts, keep-alives and the event loop move every call on
PoolFairness == WF_poolVars(Ended) /\ \A o \in Ops : WF_poolVars(OpStep(o))

PoolSpec == PoolInit /\ [][PoolNext]_poolVars /\ PoolFairness

-----------------------------------------------------------------------------
Holding == {o \in Ops : op[o].at \in Borrowing}
Kept == {o \in Ops : KindOf[o] = "query" /\ op[o].out = "ok"}

\* Every client is idle, in use, or kept by a query() that succeeded, the one path
\* without a release (pool.ts:445-452): no failure, retry, timeout or shutdown
\* leaks a client or returns one twice.
ClientsAccountedFor == total = idle + Cardinality(Holding) + Cardinality(Kept)

\* A write takes effect at most once more than it went unanswered, at least once
\* when its call resolves, and not at all when its call rejects without an
\* unanswered statement: the retry loops repeat nothing that was answered
\* (pool.ts:441-469, 519-546, 554-584).
EffectsMatchAnswers ==
  \A o \in Ops :
    /\ applied[o] + ghost[o] <= unanswered[o] + (IF op[o].out = "ok" THEN 1 ELSE 0)
    /\ op[o].out = "ok" => applied[o] > 0

\* What the pool promises while it runs.
PoolSound == PoolTypeOK /\ ClientsAccountedFor /\ EffectsMatchAnswers

\* Every call settles, also when the pool is exhausted for good or shut down under
\* it (pool.ts:395-429).
CallsSettle == \A o \in Ops : op[o].at = "connect" ~> op[o].at = "done"

\* shutdown() resolves unless a query() kept a client (pool.ts:610-623).
ShutdownEnds == shut = "ending" ~> (shut = "ended" \/ Kept # {})
=============================================================================
