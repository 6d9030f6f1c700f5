------------------------------ MODULE SdkClient ------------------------------
(***************************************************************************)
(* An SDK client at work (sdk/src/base-client.ts, utils.ts and the client  *)
(* methods of SdkMethods): several calls of one client, signed by one      *)
(* account, run concurrently against RPC nodes that lose requests, lose    *)
(* answers and lag behind the ledger, while the client may be disposed of. *)
(*                                                                         *)
(* External: the Stellar network.  A node accepts a transaction that bears *)
(* the account's next sequence number and is the only one of its account   *)
(* in the pool; anything else is answered with a status other than PENDING *)
(* (DUPLICATE, ERROR, TRY_AGAIN_LATER).  A ledger applies, fails or drops  *)
(* the pooled transaction.                                                 *)
(***************************************************************************)
EXTENDS Integers, Sequences, FiniteSets, SdkMethods

CONSTANTS
  Calls,
  Offered,          \* call -> the methods it may be a call of
  NServers,         \* config.rpcUrl, in order
  MaxRetries,       \* retryWithBackoff
  QueueRetries,     \* maxRetries of enqueue: 3
  PollRetries,      \* pollTransactionStatus and the poll of submitSignedTransaction
  MaxLosses         \* bound: lost requests, lost answers, dropped transactions

Servers == 0 .. NServers - 1
Outcomes == {"none", "refused", "resolved", "contract", "network", "timeout",
             "disposed", "broken"}

VARIABLES
  call,       \* call -> steps to come, tries of the first one, runs by the request queue
              \* beside the first, sequence number, outcome
  current,    \* currentServerIndex
  clientDisposed,  \* disposed
  pool,       \* calls whose transaction waits for a ledger
  sequence,   \* the account's sequence number
  applied,    \* call -> how often its transaction took effect
  failed,     \* calls whose transaction was included and failed
  behind,     \* nodes that have not seen the latest ledger
  losses

sdkVars == <<call, current, clientDisposed, pool, sequence, applied, failed, behind, losses>>

\* Histories: writes, blind (the client cannot know whether its transaction was
\* taken), shown (a node showed its success), asked (servers tried by this run of the
\* failover), moved (current changed under the run), spent (it came to the end of the
\* list and gave up)
Idle == [state |-> "idle", steps |-> <<>>, raced |-> FALSE, tries |-> 0, polls |-> 0, reruns |-> 0,
         via |-> 0, seq |-> 0, out |-> "none", writes |-> FALSE, blind |-> FALSE,
         shown |-> FALSE, asked |-> {}, moved |-> FALSE, spent |-> FALSE]

Writing == {"send", "sendOnce", "submit"}
Steps == Writing \cup {"account", "prepare", "prepareOnce", "poll", "confirm", "read", "ask",
                      "resolve", "quiet", "schema", "probe"}

\* How the methods of SdkMethods put their requests in order: a method writes once, with
\* a sequence number it read before; a send is followed by its poll and a submit ends
\* the method; nothing that may resolve the call comes before the write
WritesInOrder(steps) ==
  \A i, k \in 1 .. Len(steps) :
    /\ steps[i] \in {"send", "sendOnce"} => i < Len(steps) /\ steps[i + 1] = "poll"
    /\ steps[i] = "submit" => i = Len(steps)
    /\ i < k /\ steps[k] \in Writing => steps[i] \notin Writing \cup {"poll", "ask", "probe"}
    /\ i < k /\ steps[i] \in Writing => steps[k] # "account"

ASSUME SdkAssumption ==
  /\ IsFiniteSet(Calls) /\ NServers \in Nat \ {0}
  /\ MaxRetries \in Nat /\ QueueRetries \in Nat /\ PollRetries \in Nat \ {0} /\ MaxLosses \in Nat
  /\ \A c \in Calls : \A m \in Offered[c] :
       m.raced \in BOOLEAN /\ m.steps \in Seq(Steps) /\ m.steps # <<>> /\ WritesInOrder(m.steps)

SdkTypeOK ==
  /\ \A c \in Calls :
       /\ call[c].state \in {"idle", "running", "ended"} /\ call[c].out \in Outcomes
       /\ call[c].tries \in 0 .. MaxRetries + NServers /\ call[c].polls \in 0 .. PollRetries
       /\ call[c].reruns \in 0 .. QueueRetries
       /\ call[c].via \in Servers /\ call[c].asked \subseteq Servers
       /\ call[c].state = "ended" => call[c].out # "none"
  /\ current \in Servers /\ clientDisposed \in BOOLEAN
  /\ pool \subseteq Calls /\ Cardinality(pool) <= 1 /\ failed \subseteq Calls
  /\ applied \in [Calls -> 0 .. Cardinality(Calls)] /\ behind \subseteq Servers
  /\ losses \in 0 .. MaxLosses

SdkInit ==
  /\ call = [c \in Calls |-> Idle]
  /\ current = 0 /\ clientDisposed = FALSE
  /\ pool = {} /\ sequence = 0 /\ applied = [c \in Calls |-> 0] /\ failed = {}
  /\ behind = {} /\ losses = 0

-----------------------------------------------------------------------------
Network == <<pool, sequence, applied, failed, behind>>

At(c, steps) ==
  call[c].state = "running" /\ call[c].steps # <<>> /\ Head(call[c].steps) \in steps

Lose == losses < MaxLosses /\ losses' = losses + 1

\* A call that its timer has already rejected keeps that outcome
Ended(c, out) ==
  [call[c] EXCEPT !.state = "ended", !.steps = <<>>, !.raced = FALSE,
                  !.tries = 0, !.polls = 0, !.reruns = 0, !.via = 0,
                  !.out = IF @ = "none" THEN out ELSE @]

\* The step is done: go on with the next one or resolve
Passed(c) ==
  IF Len(call[c].steps) = 1 THEN Ended(c, "resolved")
  ELSE [call[c] EXCEPT !.steps = Tail(@), !.tries = 0, !.polls = 0, !.reruns = 0]

Become(c, new) == call' = [call EXCEPT ![c] = new]

\* What a node shows of a transaction, and of the account
Shown(s, c) ==
  CASE s \notin behind /\ applied[c] > 0 -> "SUCCESS"
    [] s \notin behind /\ applied[c] = 0 /\ c \in failed -> "FAILED"
    [] OTHER -> "NOT_FOUND"

SequenceAt(s) == IF s \in behind THEN sequence - 1 ELSE sequence

\* sendTransaction reaches a node
Accepted(c) == pool = {} /\ call[c].seq = sequence + 1
Pooled(c) == pool' = IF Accepted(c) THEN {c} ELSE pool

-----------------------------------------------------------------------------
Start(c, m) ==
  /\ call[c].state = "idle"
  /\ call' = [call EXCEPT ![c] = [Idle EXCEPT !.state = "running", !.steps = m.steps,
                                              !.raced = m.raced,
       !.writes = \E i \in DOMAIN m.steps : m.steps[i] \in Writing]]
  /\ UNCHANGED <<current, clientDisposed, losses, Network>>

\* validateStellarAddress and the argument checks throw before any request
Refuse(c) ==
  /\ call[c].state = "idle" /\ \E m \in Offered[c] : m.guarded
  /\ call' = [call EXCEPT ![c] = [Idle EXCEPT !.state = "ended", !.out = "refused"]]
  /\ UNCHANGED <<current, clientDisposed, losses, Network>>

\* The failover of this call was entered
Begun(c) == call[c].asked # {} \/ call[c].reruns > 0

\* The server getter throws once the client is disposed of; a poll that has its
\* server already goes on.  executeWithFailover looks only at its start.
ServerGetter(c) ==
  /\ clientDisposed
  /\ \/ At(c, {"account", "prepare", "prepareOnce", "send", "sendOnce", "confirm",
               "read", "ask", "resolve", "quiet"})
     \/ At(c, {"probe", "submit"}) /\ ~Begun(c)
  /\ Become(c, CASE At(c, {"quiet"}) -> Passed(c)
                 [] At(c, {"probe"}) -> Ended(c, "resolved")
                 [] OTHER -> Ended(c, "disposed"))
  /\ UNCHANGED <<current, clientDisposed, losses, Network>>

GetAccount(c) ==
  /\ At(c, {"account"}) /\ ~clientDisposed
  /\ Become(c, [Passed(c) EXCEPT !.seq = SequenceAt(current) + 1])
  /\ UNCHANGED <<current, clientDisposed, losses, Network>>

\* A simulation: prepareTransaction and the reads.  The contract's refusal ends
\* the call, except where the code answers it with a value or retries it.
Simulate(c) ==
  /\ At(c, {"prepare", "prepareOnce", "read", "ask", "resolve", "quiet", "schema"})
  /\ At(c, {"schema"}) \/ ~clientDisposed
  /\ \/ Become(c, Passed(c))
     \/ At(c, {"prepare", "prepareOnce", "read", "resolve", "schema"})
        /\ Become(c, Ended(c, "contract"))
     \/ At(c, {"ask"}) /\ Become(c, Ended(c, "resolved"))
     \/ At(c, {"resolve"}) /\ call[c].tries < MaxRetries
        /\ Become(c, [call[c] EXCEPT !.tries = @ + 1])
  /\ UNCHANGED <<current, clientDisposed, losses, Network>>

\* The tries a step has before a transient error is final
Tries(c) ==
  IF At(c, {"prepare", "send", "read", "ask", "resolve", "quiet"}) THEN MaxRetries ELSE 0

Mut_AfterLoss(c, transient) ==
  IF At(c, {"send"}) THEN [call[c] EXCEPT !.steps = <<"account", "prepare">> \o @]
  ELSE IF transient /\ call[c].tries < Tries(c) THEN [call[c] EXCEPT !.tries = @ + 1]
  ELSE IF At(c, {"quiet"}) THEN Passed(c)
  ELSE Ended(c, "network")

\* retryWithBackoff: try again while tries are left, if the error reads like a
\* transient one (a 502, ETIMEDOUT or ENOTFOUND does not)
AfterLoss(c, transient) ==
  IF transient /\ call[c].tries < Tries(c) THEN [call[c] EXCEPT !.tries = @ + 1]
  ELSE IF At(c, {"quiet"}) THEN Passed(c)
  ELSE Ended(c, "network")

RequestLost(c) ==
  /\ At(c, {"account", "prepare", "prepareOnce", "send", "sendOnce", "confirm", "read",
            "ask", "resolve", "quiet"})
  /\ ~clientDisposed /\ Lose
  /\ \E transient \in BOOLEAN : Become(c, AfterLoss(c, transient))
  /\ UNCHANGED <<current, clientDisposed, Network>>

\* After a PENDING the poll takes the server at once, or throws if disposed of
Polling(c) ==
  IF clientDisposed THEN Ended(c, "disposed") ELSE [Passed(c) EXCEPT !.via = current]

Send(c) ==
  /\ At(c, {"send", "sendOnce"}) /\ ~clientDisposed
  /\ Pooled(c)
  /\ Become(c, IF Accepted(c) THEN Polling(c) ELSE Ended(c, "contract"))
  /\ UNCHANGED <<current, clientDisposed, losses, sequence, applied, failed, behind>>

\* The node has the transaction, the client never hears of it
SendAnswerLost(c) ==
  /\ At(c, {"send", "sendOnce"}) /\ ~clientDisposed /\ Lose
  /\ Pooled(c)
  /\ \E transient \in BOOLEAN :
       Become(c, [AfterLoss(c, transient) EXCEPT !.blind = @ \/ Accepted(c)])
  /\ UNCHANGED <<current, clientDisposed, sequence, applied, failed, behind>>

AfterPoll(c, status) ==
  CASE status = "SUCCESS" -> [Passed(c) EXCEPT !.shown = TRUE]
    [] status = "FAILED" -> Ended(c, "contract")
    [] status = "NOT_FOUND" /\ call[c].polls + 1 < PollRetries -> [call[c] EXCEPT !.polls = @ + 1]
    [] OTHER -> Ended(c, "timeout")

\* pollTransactionStatus: getTransaction is not retried
Poll(c) ==
  /\ At(c, {"poll"})
  /\ \/ Become(c, AfterPoll(c, Shown(call[c].via, c))) /\ UNCHANGED losses
     \/ Lose /\ Become(c, Ended(c, "network"))
  /\ UNCHANGED <<current, clientDisposed, Network>>

\* The returned value is read from the server that is current now; scValToNative
\* throws when that node does not know the transaction
Confirm(c) ==
  /\ At(c, {"confirm"}) /\ ~clientDisposed
  /\ Become(c, IF Shown(current, c) = "SUCCESS" THEN Passed(c) ELSE Ended(c, "broken"))
  /\ UNCHANGED <<current, clientDisposed, losses, Network>>

\* issueCredential's timer: the call rejects, its requests go on
TimerFires(c) ==
  /\ call[c].state = "running" /\ call[c].raced /\ call[c].out = "none"
  /\ call' = [call EXCEPT ![c].out = "timeout"]
  /\ UNCHANGED <<current, clientDisposed, losses, Network>>

-----------------------------------------------------------------------------
(* executeWithFailover, which the request queue runs: with no more calls than the
   queue has slots, none waits for one *)

\* The index is read again at every attempt
Target(c) == (current + call[c].tries) % NServers

\* The server of the attempt that is under way, or is to come
Serving(c) == IF call[c].polls > 0 THEN call[c].via ELSE Target(c)

\* An attempt throws.  The loop goes on to the next server if the error is in its list
\* (ECONNRESET, ETIMEDOUT, ECONNREFUSED, ENOTFOUND, fetch failed, 502, 503, 504); what
\* it throws itself, the request queue answers with another run if it is in the
\* queue's list (429, ECONNRESET, ETIMEDOUT, 503); isInitialized answers false.
FailOver(c, over, again, out) ==
  IF over /\ call[c].tries + 1 < NServers
    THEN [call[c] EXCEPT !.tries = @ + 1, !.polls = 0, !.asked = @ \cup {Serving(c)}]
  ELSE IF again /\ call[c].reruns < QueueRetries
    THEN [call[c] EXCEPT !.tries = 0, !.polls = 0, !.reruns = @ + 1, !.asked = {}, !.moved = FALSE]
  ELSE [Ended(c, IF At(c, {"probe"}) THEN "resolved" ELSE out)
          EXCEPT !.spent = over, !.asked = @ \cup {Serving(c)}]

\* A run that has made an attempt counts on the index
Counting(d) == At(d, {"probe", "submit"}) /\ (call[d].tries > 0 \/ call[d].polls > 0)

\* A success makes the server that answered the current one
Switch(c, s) ==
  /\ current' = s
  /\ call' = [d \in Calls |->
       IF d = c THEN Passed(c)
       ELSE [call[d] EXCEPT !.moved = @ \/ (Counting(d) /\ s # current)]]

Ask(c) == [call[c] EXCEPT !.via = Target(c), !.asked = @ \cup {Target(c)}]

\* A run goes on in a client that is disposed of, and a retry of the queue begins in it
Attempting(c) == call[c].polls = 0 /\ (clientDisposed => Begun(c))

\* isInitialized: any failure but a transport error is an answer
Probe(c) ==
  /\ At(c, {"probe"}) /\ Attempting(c)
  /\ \/ Switch(c, Target(c)) /\ UNCHANGED losses
     \/ /\ Lose /\ UNCHANGED current
        /\ \E over, again \in BOOLEAN : Become(c, FailOver(c, over, again, "network"))
  /\ UNCHANGED <<clientDisposed, Network>>

\* submitSignedTransaction: send to this attempt's server ...
SubmitSend(c) ==
  /\ At(c, {"submit"}) /\ Attempting(c)
  /\ \/ /\ Pooled(c) /\ UNCHANGED losses
        /\ Become(c, IF Accepted(c) THEN [Ask(c) EXCEPT !.polls = 1] ELSE Ended(c, "contract"))
     \/ /\ Pooled(c) /\ Lose
        /\ \E over, again \in BOOLEAN :
             Become(c, [FailOver(c, over, again, "network") EXCEPT !.blind = @ \/ Accepted(c)])
     \/ /\ Lose /\ UNCHANGED pool
        /\ \E over, again \in BOOLEAN : Become(c, FailOver(c, over, again, "network"))
  /\ UNCHANGED <<current, clientDisposed, sequence, applied, failed, behind>>

\* ... and poll it.  A transport error while polling is thrown from the attempt as
\* well, and so is the timeout, whose message may hold 502, 503, 504 or 429 in the hash.
SubmitPoll(c) ==
  /\ At(c, {"submit"}) /\ call[c].polls > 0
  /\ LET status == Shown(call[c].via, c) IN
     \/ status = "SUCCESS" /\ Switch(c, call[c].via) /\ UNCHANGED losses
     \/ /\ status = "FAILED" /\ Become(c, Ended(c, "contract"))
        /\ UNCHANGED <<current, losses>>
     \/ /\ status = "NOT_FOUND" /\ call[c].polls < PollRetries
        /\ Become(c, [call[c] EXCEPT !.polls = @ + 1]) /\ UNCHANGED <<current, losses>>
     \/ /\ status = "NOT_FOUND" /\ call[c].polls = PollRetries
        /\ \E over, again \in BOOLEAN :
             Become(c, [FailOver(c, over, again, "timeout") EXCEPT !.blind = TRUE])
        /\ UNCHANGED <<current, losses>>
     \/ /\ Lose /\ UNCHANGED current
        /\ \E over, again \in BOOLEAN :
             Become(c, [FailOver(c, over, again, "network") EXCEPT !.blind = TRUE])
  /\ UNCHANGED <<clientDisposed, Network>>

-----------------------------------------------------------------------------
(* External: the network, and the owner of the client *)

LedgerCloses ==
  /\ pool # {} /\ behind = {} /\ pool' = {} /\ sequence' = sequence + 1
  /\ \/ applied' = [c \in Calls |-> IF c \in pool THEN applied[c] + 1 ELSE applied[c]]
        /\ UNCHANGED failed
     \/ failed' = failed \cup pool /\ UNCHANGED applied
  /\ behind' \in SUBSET Servers
  /\ UNCHANGED <<call, current, clientDisposed, losses>>

TransactionDropped ==
  /\ pool # {} /\ pool' = {} /\ Lose
  /\ UNCHANGED <<call, current, clientDisposed, sequence, applied, failed, behind>>

CatchUp ==
  /\ behind # {} /\ \E s \in behind : behind' = behind \ {s}
  /\ UNCHANGED <<call, current, clientDisposed, pool, sequence, applied, failed, losses>>

DisposeClient ==
  /\ ~clientDisposed /\ clientDisposed' = TRUE
  /\ UNCHANGED <<call, current, losses, Network>>

Answer(c) ==
  \/ ServerGetter(c) \/ GetAccount(c) \/ Simulate(c) \/ Send(c) \/ Poll(c) \/ Confirm(c)
  \/ Probe(c) \/ SubmitSend(c) \/ SubmitPoll(c)

SdkNext ==
  \/ \E c \in Calls : \/ \E m \in Offered[c] : Start(c, m)
                      \/ Refuse(c) \/ Answer(c) \/ RequestLost(c) \/ SendAnswerLost(c)
                      \/ TimerFires(c)
  \/ LedgerCloses \/ TransactionDropped \/ CatchUp \/ DisposeClient

\* Every awaited request ends in an answer or an error
SdkFairness == \A c \in Calls : WF_sdkVars(Answer(c))

SdkSpec == SdkInit /\ [][SdkNext]_sdkVars /\ SdkFairness

-----------------------------------------------------------------------------
\* However often a send is retried after a lost answer or repeated on the next
\* server, a call takes effect on the ledger at most once: every retry carries the
\* one signed transaction and its sequence number (utils.ts:21-31,
\* base-client.ts:432-457).
AppliedAtMostOnce == \A c \in Calls : applied[c] <= 1

\* A write that resolves has taken effect, whatever nodes it asked and however
\* many of them lag (utils.ts:60-80, base-client.ts:444-452).
ResolvedTookEffect ==
  \A c \in Calls : call[c].out = "resolved" /\ call[c].writes => applied[c] = 1

\* A write reported as failed by the contract or the node is not on the ledger and
\* not on its way there - unless an answer to its send or poll was lost and the
\* repeated send was refused as a duplicate, or a read that follows the confirmed
\* write failed (credentials.ts:566-568, 650-652; base-client.ts:433-439).
FalseFailureOnlyIfBlind ==
  \A c \in Calls :
    call[c].out = "contract" /\ (applied[c] > 0 \/ c \in pool) => call[c].blind \/ call[c].shown

\* A run of the failover that goes through its list gives up only after it has asked
\* every server, unless another call's success moved the index it counts from
\* (base-client.ts:316-343).  An error that is not in the list ends it at once, an
\* HTTP 500 and a socket that hung up among them.
AllServersAsked ==
  \A c \in Calls : call[c].spent => call[c].asked = Servers \/ call[c].moved

\* A transaction takes effect at most once, retries and failover included; a write that
\* resolves took effect, and one that took effect is reported failed only when the client
\* could not know; a failover comes to the end of its list only after it has asked every
\* server (base-client.ts, request-queue.ts, utils.ts and the client methods).
CallsTakeEffectOnce ==
  /\ SdkTypeOK
  /\ AppliedAtMostOnce /\ ResolvedTookEffect /\ FalseFailureOnlyIfBlind
  /\ AllServersAsked

NoneRunning == \A c \in Calls : call[c].state # "running"

\* Every call settles: retries, polls and the failover are bounded
\* (utils.ts:21-31, 55-80; base-client.ts:316).
CallsSettle == []<>NoneRunning
=============================================================================
