--------------------------- MODULE WebhookDelivery ---------------------------
(***************************************************************************)
(* Webhook subscriptions and their deliveries (server/src/webhooks.js).    *)
(* Subscriptions live in one file that the admin routes read, change and   *)
(* rename back without a lock.  An event is turned into one task for every *)
(* subscription the file then holds; tasks wait in memory for one of the   *)
(* concurrent slots, are posted, logged, and re-enqueued by a timer until  *)
(* they succeed or run out of attempts.  drain empties the queue and the   *)
(* timers, not the posts already on their way.                             *)
(***************************************************************************)
EXTENDS Integers, Sequences, FiniteSets

CONSTANTS Hooks, Edits,   \* webhook ids; admin requests: [hook, kind]
          Events,         \* calls of trigger
          Concurrency, MaxRetries,
          MaxLogFailures  \* bound: appends to the delivery log that fail

ASSUME HooksAssumption ==
  /\ IsFiniteSet(Hooks) /\ Edits \subseteq [hook : Hooks, kind : {"create", "delete"}]
  /\ Concurrency \in Nat /\ MaxRetries \in Nat \ {0} /\ MaxLogFailures \in Nat

VARIABLES
  hooks,       \* webhooks.json
  edit,        \* admin request -> where it is, and the list it read
  overlapped,  \* history: the list an edit wrote was not the one it read
  trig,        \* event -> "due", the list trigger read, or "sent"
  sendq,       \* this.queue
  running,     \* tasks inside deliver(), with the outcome of their post
  timers,      \* tasks whose retry timer is armed
  fate,        \* delivery -> what became of it
  drained, logFailures

hookVars == <<hooks, edit, overlapped, trig, sendq, running, timers, fate,
              drained, logFailures>>

Deliveries == Events \X Hooks
Task(d, n) == [delivery |-> d, attempt |-> n]
Tasks == [delivery : Deliveries, attempt : 1 .. MaxRetries]
Fates == {"none", "open", "delivered", "exhausted", "unlogged", "dropped"}

HookTypeOK ==
  /\ hooks \subseteq Hooks
  /\ \A e \in Edits : edit[e].at \in {"due", "read", "done"}
  /\ overlapped \in BOOLEAN /\ drained \in BOOLEAN
  /\ \A i \in DOMAIN sendq : sendq[i] \in Tasks
  /\ timers \subseteq Tasks
  /\ \A x \in running : x.task \in Tasks /\ x.posted \in {"no", "ok", "failed"}
  /\ Cardinality(running) <= Concurrency
  /\ fate \in [Deliveries -> Fates]
  /\ logFailures \in 0 .. MaxLogFailures

HookInit ==
  /\ hooks \in SUBSET Hooks
  /\ edit = [e \in Edits |-> [at |-> "due", has |-> {}]]
  /\ overlapped = FALSE
  /\ trig = [v \in Events |-> [at |-> "due", has |-> {}]]
  /\ sendq = <<>> /\ running = {} /\ timers = {}
  /\ fate = [d \in Deliveries |-> "none"]
  /\ drained = FALSE /\ logFailures = 0

-----------------------------------------------------------------------------
(* The subscription file *)
EditReads(e) ==
  /\ edit[e].at = "due"
  /\ edit' = [edit EXCEPT ![e] = [at |-> "read", has |-> hooks]]
  /\ UNCHANGED <<hooks, overlapped, trig, sendq, running, timers, fate, drained, logFailures>>

\* push or filter, then writeWebhooks; deleting an unknown id writes nothing
EditWrites(e) ==
  /\ edit[e].at = "read"
  /\ hooks' = IF e.kind = "create" THEN edit[e].has \cup {e.hook}
              ELSE IF e.hook \in edit[e].has THEN edit[e].has \ {e.hook} ELSE hooks
  /\ overlapped' = (overlapped \/ hooks # edit[e].has)
  /\ edit' = [edit EXCEPT ![e].at = "done"]
  /\ UNCHANGED <<trig, sendq, running, timers, fate, drained, logFailures>>

-----------------------------------------------------------------------------
(* Deliveries *)
\* processQueue: the oldest tasks take the free slots
Start(q, run) ==
  LET free == Concurrency - Cardinality(run)
      n    == IF free > Len(q) THEN Len(q) ELSE free
  IN /\ sendq' = SubSeq(q, n + 1, Len(q))
     /\ running' = run \cup {[task |-> q[i], posted |-> "no"] : i \in 1 .. n}

TriggerReads(v) ==
  /\ trig[v].at = "due"
  /\ trig' = [trig EXCEPT ![v] = [at |-> "read", has |-> hooks]]
  /\ UNCHANGED <<hooks, edit, overlapped, sendq, running, timers, fate, drained, logFailures>>

\* One task per subscription, pushed in the file's order
TriggerEnqueues(v) ==
  /\ trig[v].at = "read"
  /\ trig' = [trig EXCEPT ![v].at = "sent"]
  /\ \E q \in [1 .. Cardinality(trig[v].has) -> trig[v].has] :
       /\ {q[i] : i \in DOMAIN q} = trig[v].has
       /\ Start(sendq \o [i \in DOMAIN q |-> Task(<<v, q[i]>>, 1)], running)
  /\ fate' = [d \in Deliveries |-> IF d[1] = v /\ d[2] \in trig[v].has
                                   THEN "open" ELSE fate[d]]
  /\ UNCHANGED <<hooks, edit, overlapped, timers, drained, logFailures>>

\* The response, a timeout (abort) or a network error
Post(x) ==
  /\ x.posted = "no"
  /\ \E p \in {"ok", "failed"} : running' = (running \ {x}) \cup {[x EXCEPT !.posted = p]}
  /\ UNCHANGED <<hooks, edit, overlapped, trig, sendq, timers, fate, drained, logFailures>>

Mut_Logged(x) ==
  /\ x.posted # "no"
  /\ Start(sendq, running \ {x})
  /\ timers' = IF x.task.attempt < MaxRetries
               THEN timers \cup {[x.task EXCEPT !.attempt = @ + 1]} ELSE timers
  /\ fate' = [fate EXCEPT ![x.task.delivery] =
                CASE x.posted = "ok" -> "delivered"
                  [] x.posted # "ok" /\ x.task.attempt = MaxRetries -> "exhausted"
                  [] OTHER -> @]
  /\ UNCHANGED <<hooks, edit, overlapped, trig, drained, logFailures>>

\* The attempt is logged; a failed one arms its retry; the slot is handed on
Logged(x) ==
  /\ x.posted # "no"
  /\ Start(sendq, running \ {x})
  /\ timers' = IF x.posted = "failed" /\ x.task.attempt < MaxRetries
               THEN timers \cup {[x.task EXCEPT !.attempt = @ + 1]} ELSE timers
  /\ fate' = [fate EXCEPT ![x.task.delivery] =
                CASE x.posted = "ok" -> "delivered"
                  [] x.posted # "ok" /\ x.task.attempt = MaxRetries -> "exhausted"
                  [] OTHER -> @]
  /\ UNCHANGED <<hooks, edit, overlapped, trig, drained, logFailures>>

\* appendWebhookLog rejects: deliver throws before it looks at the outcome, so
\* a failed post is never retried
LogFails(x) ==
  /\ x.posted # "no" /\ logFailures < MaxLogFailures
  /\ logFailures' = logFailures + 1
  /\ Start(sendq, running \ {x})
  /\ fate' = [fate EXCEPT ![x.task.delivery] =
                IF x.posted = "ok" THEN "delivered" ELSE "unlogged"]
  /\ UNCHANGED <<hooks, edit, overlapped, trig, timers, drained>>

RetryDue(t) ==
  /\ t \in timers
  /\ timers' = timers \ {t}
  /\ Start(Append(sendq, t), running)
  /\ UNCHANGED <<hooks, edit, overlapped, trig, fate, drained, logFailures>>

Drain ==
  /\ ~drained
  /\ drained' = TRUE
  /\ timers' = {} /\ sendq' = <<>>
  /\ fate' = [d \in Deliveries |->
       IF d \in {t.delivery : t \in timers} \cup {sendq[i].delivery : i \in DOMAIN sendq}
       THEN "dropped" ELSE fate[d]]
  /\ UNCHANGED <<hooks, edit, overlapped, trig, running, logFailures>>

Handle(x) == Post(x) \/ Logged(x) \/ LogFails(x)

Deliver == (\E x \in running : Handle(x)) \/ (\E t \in timers : RetryDue(t))

HookNext ==
  \/ \E e \in Edits : EditReads(e) \/ EditWrites(e)
  \/ \E v \in Events : TriggerReads(v) \/ TriggerEnqueues(v)
  \/ Deliver
  \/ Drain

\* A post ends (timeoutMs aborts it), a timer fires
HookFairness ==
  WF_hookVars(Deliver) /\ \A v \in Events : WF_hookVars(TriggerEnqueues(v))

HookSpec == HookInit /\ [][HookNext]_hookVars /\ HookFairness

-----------------------------------------------------------------------------
InFlight(d) ==
  Cardinality({i \in DOMAIN sendq : sendq[i].delivery = d})
    + Cardinality({x \in running : x.task.delivery = d})
    + Cardinality({t \in timers : t.delivery = d})

\* A delivery that is still open has exactly one task in the queue, in a slot or
\* on a timer, and a settled one has none: it is neither posted twice at a time,
\* nor forgotten, nor retried after it succeeded.
OneTaskPerOpenDelivery ==
  \A d \in Deliveries : InFlight(d) = IF fate[d] = "open" THEN 1 ELSE 0

\* Tasks wait only while every slot is taken: no finished post forgets to hand
\* its slot on.
NoIdleSlot == sendq # <<>> => Cardinality(running) = Concurrency

\* Every triggered delivery is settled: delivered, out of attempts, dropped by
\* drain, or given up when its attempt could not be logged.
DeliveriesSettle ==
  \A d \in Deliveries : fate[d] = "open" ~> fate[d] \notin {"none", "open"}

\* A subscription is in the file exactly if its last confirmed edit created it,
\* unless two edits of the file overlapped.
SubscriptionsKept ==
  \A e \in Edits :
    /\ ~overlapped /\ edit[e].at = "done"
    /\ \A f \in Edits : f # e /\ f.hook = e.hook => edit[f].at = "due"
    => (e.hook \in hooks <=> e.kind = "create")

\* An open delivery has exactly one task that will go on with it, no slot is idle while
\* a delivery waits, and a subscription is lost only to an edit that overlapped it
\* (webhooks.js:89-115, 188-233, 290-336).
DeliveriesTracked ==
  HookTypeOK /\ OneTaskPerOpenDelivery /\ NoIdleSlot /\ SubscriptionsKept
=============================================================================
