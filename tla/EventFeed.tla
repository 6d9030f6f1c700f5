------------------------------ MODULE EventFeed ------------------------------
(***************************************************************************)
(* Following contract events (sdk/src/events.ts).  subscribeToEvents runs  *)
(* one poll at a time and gives up after MAX_RECONNECT_RETRIES failures in *)
(* a row; SorobanEventListener polls on an interval, so a slow poll is     *)
(* overtaken by the next one.  Both ask for events from a ledger on, at    *)
(* most a page, drop the ones they remember and move the ledger past the   *)
(* newest one they delivered.                                              *)
(*                                                                         *)
(* External: the RPC node, which shows whole ledgers in order, and the     *)
(* application's handler, which may throw.                                 *)
(***************************************************************************)
EXTENDS Integers, Sequences, FiniteSets, SequencesExt, Selections

CONSTANTS
  LedgerOf,             \* the events of the contract: event number -> its ledger
  Polls,                \* bound: polls of a listener that may overlap
  Corruptible,          \* events that may be unreadable
  PageLimit,            \* limit: 100
  MaxSeen,              \* MAX_SEEN_IDS
  MaxReconnects,        \* MAX_RECONNECT_RETRIES
  MaxFeedFaults,        \* bound: failed polls and throwing handlers
  MaxStarts             \* bound: calls of start

Events == DOMAIN LedgerOf

ASSUME FeedAssumption ==
  /\ LedgerOf \in Seq(Nat \ {0}) /\ Corruptible \subseteq Events
  /\ \A d, e \in Events : d <= e => LedgerOf[d] <= LedgerOf[e]
  /\ PageLimit \in Nat \ {0} /\ MaxSeen \in Nat \ {0} /\ MaxReconnects \in Nat
  /\ MaxFeedFaults \in Nat /\ MaxStarts \in Nat \ {0}

VARIABLES
  kind,         \* which of the two is running
  unreadable,   \* events parseRawEvent turns into null
  chain,        \* events shown by the node
  poll,         \* poll -> idle, asked (with its start ledger), answered (with its page)
  lastLedger, seen, stopped, reconnects, starts, feedFaults,
  handled,      \* history: events passed to the handler, in order
  evicted,      \* history: events dropped from seen
  cut,          \* history: ledgers of which a page held only a part
  thrown,       \* history: events of a batch whose handler threw
  late          \* history: batches a subscription delivered after unsubscribe

feedVars == <<kind, unreadable, chain, poll, lastLedger, seen, stopped, reconnects,
              starts, feedFaults, handled, evicted, cut, thrown, late>>

NoPoll == [state |-> "idle", from |-> 0, page |-> <<>>]

FeedTypeOK ==
  /\ kind \in {"subscribe", "listener"} /\ unreadable \subseteq Events
  /\ chain \in 0 .. Len(LedgerOf)
  /\ \A p \in Polls : /\ poll[p].state \in {"idle", "asked", "answered"}
                      /\ poll[p].page \in Seq(Events) /\ Len(poll[p].page) <= PageLimit
  /\ lastLedger \in Nat /\ Len(seen) <= MaxSeen /\ IsInjective(seen)
  /\ stopped \in BOOLEAN /\ reconnects \in 0 .. MaxReconnects + 1
  /\ starts \in 1 .. MaxStarts /\ feedFaults \in 0 .. MaxFeedFaults
  /\ evicted \cup thrown \subseteq Events /\ late \in Nat

FeedInit ==
  /\ kind \in {"subscribe", "listener"} /\ unreadable \in SUBSET Corruptible
  /\ chain = 0 /\ poll = [p \in Polls |-> NoPoll]
  /\ lastLedger = 0 /\ seen = <<>> /\ stopped = FALSE /\ reconnects = 0 /\ starts = 1
  /\ feedFaults = 0 /\ handled = <<>> /\ evicted = {} /\ cut = {} /\ thrown = {} /\ late = 0

-----------------------------------------------------------------------------
(* External: a ledger closes and shows all its events *)
Close ==
  /\ chain < Len(LedgerOf)
  /\ \E n \in chain + 1 .. Len(LedgerOf) :
       /\ LedgerOf[n] = LedgerOf[chain + 1]
       /\ n < Len(LedgerOf) => LedgerOf[n + 1] # LedgerOf[n]
       /\ chain' = n
  /\ UNCHANGED <<kind, unreadable, poll, lastLedger, seen, stopped, reconnects, starts,
                 feedFaults, handled, evicted, cut, thrown, late>>

\* External: the page of events the node returns for a start ledger
From(ledger) == Filtered([e \in 1 .. chain |-> e], {e \in 1 .. chain : LedgerOf[e] >= ledger})
Page(ledger) == SubSeq(From(ledger), 1, IF Len(From(ledger)) < PageLimit
                                          THEN Len(From(ledger)) ELSE PageLimit)

-----------------------------------------------------------------------------
\* The subscription arms its timer when a poll has ended; the listener's interval
\* fires whether or not the last poll has
StartPoll(p) ==
  /\ poll[p].state = "idle" /\ ~stopped
  /\ kind = "subscribe" => \A q \in Polls : poll[q].state = "idle"
  /\ poll' = [poll EXCEPT ![p] = [state |-> "asked", from |-> lastLedger, page |-> <<>>]]
  /\ UNCHANGED <<kind, unreadable, chain, lastLedger, seen, stopped, reconnects, starts,
                 feedFaults, handled, evicted, cut, thrown, late>>

Serve(p) ==
  /\ poll[p].state = "asked"
  /\ poll' = [poll EXCEPT ![p].state = "answered", ![p].page = Page(poll[p].from)]
  /\ UNCHANGED <<kind, unreadable, chain, lastLedger, seen, stopped, reconnects, starts,
                 feedFaults, handled, evicted, cut, thrown, late>>

\* A failed request: the subscription counts it and gives up, the listener logs it
Failed ==
  IF kind = "listener" \/ stopped THEN UNCHANGED <<reconnects, stopped>>
  ELSE /\ reconnects' = reconnects + 1
       /\ stopped' = (reconnects + 1 > MaxReconnects)

PollFails(p) ==
  /\ poll[p].state = "asked" /\ feedFaults < MaxFeedFaults /\ feedFaults' = feedFaults + 1
  /\ poll' = [poll EXCEPT ![p] = NoPoll]
  /\ Failed
  /\ UNCHANGED <<kind, unreadable, chain, lastLedger, seen, starts, handled, evicted,
                 cut, thrown, late>>

Mut_Fresh(page) == Filtered(page, {i \in DOMAIN page : page[i] \notin unreadable})

\* parseRawEvent and the filter on remembered ids
Fresh(page) ==
  Filtered(page, {i \in DOMAIN page : page[i] \notin unreadable /\ ~Contains(seen, page[i])})

\* BoundedSeenSet.add for a batch: the oldest ids make room
Remember(batch) ==
  LET all == seen \o batch
      drop == IF Len(all) > MaxSeen THEN Len(all) - MaxSeen ELSE 0
  IN /\ seen' = SubSeq(all, drop + 1, Len(all))
     /\ evicted' = evicted \cup ToSet(SubSeq(all, 1, drop))

\* The next poll starts after the newest delivered ledger
Advance(batch) == lastLedger' = LedgerOf[Last(batch)] + 1

\* A page that ends inside a ledger
NoteCut(page) ==
  LET n == Last(page) IN
  cut' = IF n < chain /\ LedgerOf[n + 1] = LedgerOf[n] THEN cut \cup {LedgerOf[n]} ELSE cut

\* The answer arrives and the handler takes all of it
Deliver(p) ==
  LET batch == Fresh(poll[p].page) IN
  /\ poll[p].state = "answered"
  /\ poll' = [poll EXCEPT ![p] = NoPoll]
  /\ reconnects' = IF kind = "subscribe" THEN 0 ELSE reconnects
  /\ IF batch = <<>> THEN UNCHANGED <<lastLedger, seen, handled, evicted, cut, late>>
     ELSE /\ Remember(batch) /\ Advance(batch) /\ NoteCut(poll[p].page)
          /\ handled' = handled \o batch
          /\ late' = IF stopped /\ kind = "subscribe" THEN late + 1 ELSE late
  /\ UNCHANGED <<kind, unreadable, chain, stopped, starts, feedFaults, thrown>>

\* The handler throws at the n-th event.  The subscription has remembered the events
\* up to it; the listener has remembered the whole batch.
HandlerThrows(p) ==
  LET batch == Fresh(poll[p].page) IN
  /\ poll[p].state = "answered" /\ batch # <<>>
  /\ feedFaults < MaxFeedFaults /\ feedFaults' = feedFaults + 1
  /\ poll' = [poll EXCEPT ![p] = NoPoll]
  /\ \E n \in DOMAIN batch :
       LET taken == IF kind = "subscribe" THEN SubSeq(batch, 1, n) ELSE batch IN
       /\ Remember(taken)
       /\ handled' = handled \o taken /\ thrown' = thrown \cup ToSet(taken)
  /\ late' = IF stopped /\ kind = "subscribe" THEN late + 1 ELSE late
  /\ Failed
  /\ UNCHANGED <<kind, unreadable, chain, lastLedger, starts, cut>>

\* unsubscribe() and stop(): a request in flight is not recalled
Stop ==
  /\ ~stopped /\ stopped' = TRUE
  /\ UNCHANGED <<kind, unreadable, chain, poll, lastLedger, seen, reconnects, starts,
                 feedFaults, handled, evicted, cut, thrown, late>>

\* A stopped listener is started again, with what it remembers
Restart ==
  /\ kind = "listener" /\ stopped /\ starts < MaxStarts
  /\ starts' = starts + 1 /\ stopped' = FALSE
  /\ UNCHANGED <<kind, unreadable, chain, poll, lastLedger, seen, reconnects, feedFaults,
                 handled, evicted, cut, thrown, late>>

FeedStep(p) == StartPoll(p) \/ Serve(p) \/ Deliver(p)

FeedNext ==
  \/ \E p \in Polls : FeedStep(p) \/ PollFails(p) \/ HandlerThrows(p)
  \/ Close \/ Stop \/ Restart

\* Timers fire and requests are answered
FeedFairness == \A p \in Polls : WF_feedVars(FeedStep(p))

FeedSpec == FeedInit /\ [][FeedNext]_feedVars /\ FeedFairness

-----------------------------------------------------------------------------
\* No event reaches the handler twice, and one reaches it after a later one only where
\* a page ended inside its ledger, although polls overlap and answers arrive late, as
\* long as the dedup set has dropped nothing ("Duplicate events across poll cycles are
\* suppressed", events.ts:151, 116-137).  A poll that was overtaken may still deliver
\* the rest of such a ledger.
InOrderOnce ==
  evicted = {} =>
    \A i, j \in DOMAIN handled : i < j =>
      /\ handled[i] # handled[j]
      /\ handled[i] < handled[j] \/ LedgerOf[handled[j]] \in cut

\* The start ledger moves past an event that was never handled only where a page
\* ended inside that event's ledger, or the event cannot be read
\* (events.ts:211-230, 309-320).
SkippedOnlyAtCut ==
  \A e \in 1 .. chain :
    LedgerOf[e] < lastLedger /\ ~Contains(handled, e) => LedgerOf[e] \in cut \/ e \in unreadable

\* Once stopped, a subscription delivers at most the batch it had already asked for
\* (events.ts:194, 240-252).
OneBatchAfterStop == late <= 1

\* The handler is given each event once and in order but for cut ledgers, one is
\* skipped only where a full page ended inside its ledger, and after unsubscribe at
\* most the batch under way is delivered (events.ts).
FeedDeliversOnce == FeedTypeOK /\ InOrderOnce /\ SkippedOnlyAtCut /\ OneBatchAfterStop

\* The head of the feed is a full page with nothing to deliver, so every poll returns it
\* again and the start ledger never moves: no event of it can be read, or those that
\* can are remembered although a handler's throw kept the start ledger from passing them
Clogged ==
  LET page == ToSet(Page(lastLedger)) IN
  /\ Cardinality(page) = PageLimit
  /\ \/ page \subseteq unreadable
     \/ page \subseteq unreadable \cup ToSet(seen) /\ page \cap thrown # {}

AllHandled ==
  \/ Clogged \/ stopped
  \/ \A e \in 1 .. chain :
       Contains(handled, e) \/ LedgerOf[e] < lastLedger \/ e \in unreadable

\* Every event is eventually handled, unless it is skipped or unreadable, the
\* subscription has ended, or the feed is stuck for good at a full page of unreadable
\* events or of events one of which the handler threw at (events.ts:188-243, 288-325).
EventuallyHandled == []<>AllHandled
=============================================================================
