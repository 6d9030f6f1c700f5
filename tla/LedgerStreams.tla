----------------------------- MODULE LedgerStreams -----------------------------
(***************************************************************************)
(* The three ways the server forwards contract events to a client: the SSE *)
(* stream (server/src/sse.js), the poll of the WebSocket hub (pollOnce of  *)
(* server/src/websocket.js) and the long-poll endpoint                     *)
(* (server/src/long-poll.js), which answers once and leaves the cursor     *)
(* with the client.  All of them ask the node for one page of events from  *)
(* a ledger on (getEvents of server/src/soroban.js) and move that ledger   *)
(* past every event they read.                                             *)
(***************************************************************************)
EXTENDS Integers, Sequences, Selections

CONSTANTS
  LedgerOf,       \* event number -> its ledger, in order
  Unreadable,     \* events normalizeContractEvent skips
  Unmatched,      \* events the client's filter leaves out
  Unledgered,     \* events the node gives without a ledger: read as ledger 0
  PageLimit,      \* limit: 200
  MaxFailures     \* bound: failed polls and lost answers

VARIABLES
  transport,   \* "sse", "hub" or "longpoll"
  head,        \* ledgers closed so far
  open,        \* the request is open: not closed, not answered
  nextLedger,  \* cursor of the handler
  page,        \* what the poll that is under way will be given; Idle without one
  cursor,      \* long poll: lastEventId the client holds
  sent,        \* events written to the client, in order, but for the next
  bare,        \* event without a ledger -> times it was written, at most 2 counted
  cut,         \* history: ledgers inside which a full page has ended
  failures

streamVars == <<transport, head, open, nextLedger, page, cursor, sent, bare, cut, failures>>

Event == DOMAIN LedgerOf
Last == LedgerOf[Len(LedgerOf)]
Idle == <<0>>

ASSUME StreamAssumption ==
  /\ LedgerOf \in Seq(Nat \ {0}) /\ LedgerOf # <<>>
  /\ \A d, e \in Event : d <= e => LedgerOf[d] <= LedgerOf[e]
  /\ Unledgered \subseteq Event /\ PageLimit \in Nat \ {0} /\ MaxFailures \in Nat

StreamTypeOK ==
  /\ transport \in {"sse", "hub", "longpoll"} /\ open \in BOOLEAN
  /\ head \in 0 .. Last /\ nextLedger \in 0 .. Last + 1 /\ cursor \in 0 .. Last + 1
  /\ page = Idle \/ page \in Seq(Event)
  /\ sent \in Seq(Event) /\ bare \in [Unledgered -> 0 .. 2] /\ cut \subseteq 1 .. Last /\ failures \in 0 .. MaxFailures

StreamInit ==
  /\ transport \in {"sse", "hub", "longpoll"} /\ open = TRUE
  /\ head = 0 /\ nextLedger = 0 /\ cursor = 0
  /\ page = Idle /\ sent = <<>> /\ bare = [e \in Unledgered |-> 0] /\ cut = {} /\ failures = 0

-----------------------------------------------------------------------------
LedgerCloses ==
  /\ head < Last /\ head' = head + 1
  /\ UNCHANGED <<transport, open, nextLedger, page, cursor, sent, bare, failures, cut>>

\* The node's answer: the first events of the closed ledgers from the cursor on
PageFrom(from) ==
  LET seen == Filtered([e \in Event |-> e], {e \in Event : LedgerOf[e] \in from .. head})
  IN SubSeq(seen, 1, IF Len(seen) < PageLimit THEN Len(seen) ELSE PageLimit)

\* A tick of the poll timer: overlapping polls are skipped
Poll ==
  /\ open /\ page = Idle
  /\ page' = PageFrom(nextLedger)
  /\ UNCHANGED <<transport, head, open, nextLedger, cursor, sent, bare, failures, cut>>

Skipped == Unreadable \cup Unmatched
Forwarded(p) == Filtered(p, {i \in DOMAIN p : p[i] \notin Skipped \cup Unledgered})
Bare(p) == {p[i] : i \in DOMAIN p} \cap (Unledgered \ Skipped)

\* The events of a page that bring a ledger with them
Dated(p) == Filtered(p, {i \in DOMAIN p : p[i] \notin Unreadable \cup Unledgered})

Mut_AdvancedToHead(p) == head + 1

\* The cursor after a page: one past the ledger of its last event that has one; an
\* event without one moves only a cursor that is 0
Advanced(p) ==
  LET r == Dated(p)
  IN IF r # <<>> /\ LedgerOf[r[Len(r)]] >= nextLedger THEN LedgerOf[r[Len(r)]] + 1
     ELSE IF nextLedger = 0 /\ \E i \in DOMAIN p : p[i] \in Unledgered \ Unreadable THEN 1
     ELSE nextLedger

\* What is written to the client of a page
Write(p) ==
  /\ sent' = sent \o Forwarded(p)
  /\ bare' = [e \in Unledgered |-> IF e \in Bare(p) /\ bare[e] < 2 THEN bare[e] + 1 ELSE bare[e]]

Cuts(p) == IF Len(p) = PageLimit THEN cut \cup {LedgerOf[p[Len(p)]]} ELSE cut

\* The loop over a page on an SSE stream or in the hub; an SSE stream closed in
\* the meantime reads nothing of it, and a closed hub reaches nobody
Forward ==
  /\ page # Idle /\ transport \in {"sse", "hub"} /\ page' = Idle /\ cut' = Cuts(page)
  /\ IF open
       THEN nextLedger' = Advanced(page) /\ Write(page)
       ELSE UNCHANGED <<nextLedger, sent, bare>>
  /\ UNCHANGED <<transport, head, open, cursor, failures>>

\* The long poll answers with the first page that has a match; a client that has
\* gone, or was answered by the deadline, gets nothing of it
Answer ==
  /\ page # Idle /\ transport = "longpoll" /\ page' = Idle /\ cut' = Cuts(page)
  /\ nextLedger' = Advanced(page)
  /\ IF open /\ (Forwarded(page) # <<>> \/ Bare(page) # {})
       THEN /\ open' = FALSE
            /\ \/ cursor' = nextLedger' /\ Write(page) /\ UNCHANGED failures
               \/ failures < MaxFailures /\ failures' = failures + 1   \* lost on its way
                  /\ UNCHANGED <<cursor, sent, bare>>
       ELSE UNCHANGED <<open, cursor, sent, bare, failures>>
  /\ UNCHANGED <<transport, head>>

\* The deadline answers without events
Deadline ==
  /\ transport = "longpoll" /\ open /\ open' = FALSE
  /\ cursor' = nextLedger
  /\ UNCHANGED <<transport, head, nextLedger, page, sent, bare, failures, cut>>

PollFails ==
  /\ page # Idle /\ failures < MaxFailures /\ failures' = failures + 1
  /\ page' = Idle
  /\ UNCHANGED <<transport, head, open, nextLedger, cursor, sent, bare, cut>>

\* The client leaves, or the hub is shut down
Close ==
  /\ open /\ failures < MaxFailures /\ failures' = failures + 1 /\ open' = FALSE
  /\ UNCHANGED <<transport, head, nextLedger, page, cursor, sent, bare, cut>>

\* A long-poll client comes back with the cursor it holds; a poll of the earlier
\* request that is still under way ends in that request, and the new one polls at
\* once
AskAgain ==
  /\ transport = "longpoll" /\ ~open /\ open' = TRUE
  /\ nextLedger' = cursor /\ page' = PageFrom(cursor)
  /\ UNCHANGED <<transport, head, cursor, sent, bare, failures, cut>>

StreamNext ==
  \/ LedgerCloses \/ Poll \/ Forward \/ Answer \/ Deadline \/ PollFails \/ Close \/ AskAgain

\* The poll timers fire and the node answers; a client that long-polls goes on.
\* The deadline leaves time for a poll.
StreamFairness ==
  /\ WF_streamVars(Poll) /\ SF_streamVars(Forward) /\ SF_streamVars(open /\ Answer)
  /\ WF_streamVars(AskAgain) /\ WF_streamVars(LedgerCloses)

StreamSpec == StreamInit /\ [][StreamNext]_streamVars /\ StreamFairness

-----------------------------------------------------------------------------
\* No transport sends a client an event that has a ledger twice or out of order,
\* through failed polls, answers lost on their way and resumed long polls
\* (long-poll.js:38-40).  One without a ledger is sent again by every poll that
\* finds nothing later.
SentInOrderOnce == \A i, j \in DOMAIN sent : i < j => sent[i] < sent[j]

Reached == IF transport = "longpoll" THEN cursor ELSE nextLedger
Wanted == Event \ Skipped
WasSent(e) == (e \in Unledgered /\ bare[e] > 0) \/ \E i \in DOMAIN sent : sent[i] = e

\* The cursor passes an event the client should get only where a full page ended
\* inside the event's ledger: ledger + 1 skips the rest of it (sse.js:146,
\* websocket.js:599, long-poll.js:80).
PassedOnlyAtCut ==
  \A e \in Wanted : LedgerOf[e] < Reached => WasSent(e) \/ LedgerOf[e] \in cut

\* sse.js, long-poll.js, websocket.js: a client is sent the events that have a ledger
\* in order and once, and one is passed over only when a full page ended inside its
\* ledger.
EventsSentInOrder == StreamTypeOK /\ SentInOrderOnce /\ PassedOnlyAtCut

\* "a client resumes without re-receiving events or losing any that arrived between
\* calls" (long-poll.js:38-40): the cursor a long-poll client holds is past nothing
\* it has not received.
NoneLostBetweenCalls ==
  transport = "longpoll" => \A e \in Wanted : LedgerOf[e] < cursor => WasSent(e)

\* A full page none of whose events moves the cursor, which every poll reads again
Clogged == LET p == PageFrom(Reached) IN Len(p) = PageLimit /\ Dated(p) = <<>>

\* Every event reaches a client that stays, is passed at such a cut, or lies behind
\* such a page.
EventsArrive ==
  head = Last ~> \/ ~open /\ transport # "longpoll"
                 \/ Clogged
                 \/ \A e \in Wanted : WasSent(e) \/ LedgerOf[e] \in cut
=============================================================================
