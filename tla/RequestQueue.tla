----------------------------- MODULE RequestQueue -----------------------------
(***************************************************************************)
(* The SDK's RequestQueue: at most maxConcurrent RPC calls in flight,      *)
(* retries with a delay, and dispose.                                      *)
(*                                                                         *)
(* JavaScript runs one callback at a time, so a step is a callback: a call *)
(* of enqueue or dispose, the settling of fn's promise, the finally that   *)
(* frees the slot (a microtask of its own), a retry timer.  processQueue   *)
(* has no await and is part of the callback that calls it; its processing  *)
(* flag is never seen set from outside.                                    *)
(***************************************************************************)
EXTENDS Integers, Sequences, FiniteSets, SequencesExt

CONSTANTS
    Request,            \* calls of enqueue
    maxConcurrent,
    maxRetries

ASSUME RequestAssumption == IsFiniteSet(Request)
ASSUME LimitAssumption == maxConcurrent \in Nat /\ maxRetries \in Nat

VARIABLES
    queue,              \* waiting requests, in order
    activeRequests,     \* slots taken
    phase,              \* where each request is
    retries,            \* its retries so far
    freeing,            \* requests whose finally has not run yet
    disposed

vars == <<queue, activeRequests, phase, retries, freeing, disposed>>

Settled == {"resolved", "rejected"}
Phase == {"new", "queued", "running", "backoff"} \cup Settled

Init ==
    /\ queue = <<>>
    /\ activeRequests = 0
    /\ phase = [r \in Request |-> "new"]
    /\ retries = [r \in Request |-> 0]
    /\ freeing = {}
    /\ disposed = FALSE

-----------------------------------------------------------------------------
FreeSlots(active) == IF active >= maxConcurrent THEN 0 ELSE maxConcurrent - active

\* Starts requests from the front of q while there are slots.
processQueue(q, active, ph) ==
    LET started == IF Len(q) < FreeSlots(active) THEN Len(q) ELSE FreeSlots(active)
        first == ToSet(SubSeq(q, 1, started))
    IN  /\ queue' = SubSeq(q, started + 1, Len(q))
        /\ activeRequests' = active + started
        /\ phase' = [r \in Request |-> IF r \in first THEN "running" ELSE ph[r]]

Enqueue(r) ==
    /\ phase[r] = "new"
    /\ IF disposed
       THEN /\ phase' = [phase EXCEPT ![r] = "rejected"]
            /\ UNCHANGED <<queue, activeRequests>>
       ELSE processQueue(Append(queue, r), activeRequests,
                         [phase EXCEPT ![r] = "queued"])
    /\ UNCHANGED <<retries, freeing, disposed>>

Drained == <<>>

Dispose ==
    /\ ~disposed
    /\ disposed' = TRUE
    /\ queue' = Drained
    /\ phase' = [r \in Request |-> IF r \in ToSet(queue) THEN "rejected" ELSE phase[r]]
    /\ UNCHANGED <<activeRequests, retries, freeing>>

BudgetLeft(r) == retries[r] < maxRetries

Succeed(r) ==
    /\ phase[r] = "running"
    /\ phase' = [phase EXCEPT ![r] = "resolved"]
    /\ freeing' = freeing \cup {r}
    /\ UNCHANGED <<queue, activeRequests, retries, disposed>>

\* A 429 or a transient network error is retried while the budget lasts.
Fail(r, transient) ==
    /\ phase[r] = "running"
    /\ IF transient /\ BudgetLeft(r)
       THEN /\ phase' = [phase EXCEPT ![r] = "backoff"]
            /\ retries' = [retries EXCEPT ![r] = @ + 1]
       ELSE /\ phase' = [phase EXCEPT ![r] = "rejected"]
            /\ UNCHANGED retries
    /\ freeing' = freeing \cup {r}
    /\ UNCHANGED <<queue, activeRequests, disposed>>

\* Mutant: the freed slot is not offered to the queue.
Mut_SlotFreed ==
    activeRequests' = activeRequests - 1 /\ UNCHANGED <<queue, phase>>

SlotFreed == processQueue(queue, activeRequests - 1, phase)

Release(r) ==
    /\ r \in freeing
    /\ freeing' = freeing \ {r}
    /\ SlotFreed
    /\ UNCHANGED <<retries, disposed>>

Requeued(r) ==
    processQueue(<<r>> \o queue, activeRequests, [phase EXCEPT ![r] = "queued"])

\* Timers run after all pending microtasks, and whether disposed or not.
RetryTimer(r) ==
    /\ freeing = {}
    /\ phase[r] = "backoff"
    /\ Requeued(r)
    /\ UNCHANGED <<retries, freeing, disposed>>

Settle(r) == Succeed(r) \/ \E transient \in BOOLEAN : Fail(r, transient)

Next ==
    \/ Dispose
    \/ \E r \in Request : Enqueue(r) \/ Settle(r) \/ Release(r) \/ RetryTimer(r)

\* Assumes of the caller's fn that its promise settles in the end, and of the
\* event loop that it runs its microtasks and timers.  Nobody need ever call
\* enqueue or dispose.
Fairness ==
    \A r \in Request : WF_vars(Settle(r) \/ Release(r) \/ RetryTimer(r))

Spec == Init /\ [][Next]_vars /\ Fairness

-----------------------------------------------------------------------------
(* Properties. *)

\* The type of every field of the queue (request-queue.ts).
TypeOK ==
    /\ queue \in Seq(Request)
    /\ activeRequests \in Nat
    /\ phase \in [Request -> Phase]
    /\ retries \in [Request -> 0..maxRetries]
    /\ freeing \subseteq Request
    /\ disposed \in BOOLEAN

\* activeRequests counts the calls in flight and those whose finally is due,
\* and never exceeds maxConcurrent, through retries, failures and dispose.
SlotsAccountedFor ==
    /\ activeRequests =
         Cardinality({r \in Request : phase[r] = "running"}) + Cardinality(freeing)
    /\ activeRequests <= maxConcurrent

\* No lost wake-up: a request waits only while every slot is taken, whichever
\* callback put it in the queue or freed a slot.
WaitsOnlyForSlots == queue # <<>> => activeRequests = maxConcurrent

\* A request that is in the queue is there once and has no outcome yet: none
\* runs after dispose has rejected it.
QueuedOnce ==
    /\ \A i, j \in DOMAIN queue : queue[i] = queue[j] => i = j
    /\ \A r \in Request : phase[r] = "queued" <=> r \in ToSet(queue)

\* request-queue.ts: the slots in use are the requests running, a request waits only
\* while every slot is taken, and is queued at most once.
QueueSlotsExact == TypeOK /\ SlotsAccountedFor /\ WaitsOnlyForSlots /\ QueuedOnce

NoneOpen == \A r \in Request : phase[r] \in {"new"} \cup Settled

\* Every promise enqueue returns is resolved or rejected in the end.
EveryRequestSettles == []<>NoneOpen
=============================================================================
