--------------------------- MODULE AnalyticsIndexer ---------------------------
(***************************************************************************)
(* The analytics service (analytics/src/indexer.ts, store.ts, server.ts).  *)
(* A tick drains the pages of two streams, contract events and             *)
(* transactions, looks countries up, and saves records and cursors in one  *)
(* file; POST /api/verifications saves too, in the middle of a tick.  A    *)
(* cursor the node no longer keeps is given up for the oldest ledger it    *)
(* reports.  trackVerificationTxs and resolveDidCountry are on.            *)
(*                                                                         *)
(* External: the RPC node, which keeps a window of ledgers, and the        *)
(* process, which may die.  An answer is handled when the node gives it:   *)
(* nothing but the tick reads or moves the cursors in between.             *)
(***************************************************************************)
EXTENDS Integers, Sequences, FiniteSets, SequencesExt

CONSTANTS
  LedgerOf,           \* stream -> the ledgers of its items, in order
  Ignored,            \* stream -> items that leave no record
  Created, Updated,   \* event -> the controller it created or updated
  PageLimit,          \* EVENT_PAGE_LIMIT, TX_PAGE_LIMIT
  LookupLimit,        \* COUNTRY_LOOKUPS_PER_TICK
  StartLedger,        \* config.startLedger, 0 when it is not set
  Lookback,           \* config.lookbackLedgers
  Retention,          \* external: ledgers the node keeps
  MaxLedger, MaxRpcFaults, MaxDeaths, MaxReports     \* bounds

Streams == {"event", "tx"}
Items(s) == DOMAIN LedgerOf[s]
Controllers == {Created[e] : e \in DOMAIN Created}

VARIABLES
  head,         \* external: the newest ledger
  data,         \* store.data: cursors, start ledgers, records, reports, countries; and
                \* as history, by stream, the ledger the stream was last begun at, and
                \* the reports accepted before the store was last begun empty
  disk,         \* what the renamed file holds
  seen,         \* store.seen, by stream
  dirty, changed,
  summary,      \* server.ts: the records the dashboard was last told of
  tick,         \* where the tick waits: timer, stream, start ledger, lookups to do
  countryQueue, \* this.countryQueue
  closing,      \* a signal was handled
  accepted,     \* history: reports answered with 202
  unlooked,     \* history: controllers whose lookup failed or was forgotten
  rpcFaults, deaths

indexVars == <<head, data, disk, seen, dirty, changed, summary, tick, countryQueue,
               closing, accepted, unlooked, rpcFaults, deaths>>

NoCursor == [after |-> -1, at |-> 0]
Unset == -1
Empty == [cursor |-> [s \in Streams |-> NoCursor], start |-> [s \in Streams |-> 0],
          got |-> [s \in Streams |-> <<>>], reports |-> 0,
          country |-> [c \in Controllers |-> Unset],
          begin |-> [s \in Streams |-> 0], lost |-> 0]
Records(d) == <<d.got, d.reports, d.country>>
Waiting == [at |-> "timer", s |-> "event", from |-> 0, todo |-> <<>>]

IndexTypeOK ==
  /\ head \in 1 .. MaxLedger
  /\ \A d \in {data, disk} : \A s \in Streams :
       /\ d.cursor[s].after \in -1 .. Len(LedgerOf[s]) /\ d.cursor[s].at \in 0 .. MaxLedger
       /\ d.start[s] \in 0 .. MaxLedger + 1 /\ ToSet(d.got[s]) \subseteq Items(s)
  /\ dirty \in BOOLEAN /\ changed \in BOOLEAN /\ closing \in BOOLEAN
  /\ tick.at \in {"timer", "latest", "page", "lookup", "halted"} /\ tick.s \in Streams
  /\ countryQueue \in Seq(Controllers)

IndexInit ==
  /\ head = 1 /\ data = Empty /\ disk = Empty /\ seen = [s \in Streams |-> {}]
  /\ dirty = FALSE /\ changed = FALSE /\ summary = Records(Empty) /\ tick = Waiting
  /\ countryQueue = <<>> /\ closing = FALSE /\ accepted = 0
  /\ unlooked = {} /\ rpcFaults = 0 /\ deaths = 0

-----------------------------------------------------------------------------
(* External: the node *)
Oldest == IF head > Retention THEN head - Retention + 1 ELSE 1

LedgerCloses ==
  /\ head < MaxLedger /\ head' = head + 1
  /\ UNCHANGED <<data, disk, seen, dirty, changed, summary, tick, countryQueue, closing,
                 accepted, unlooked, rpcFaults, deaths>>

InRange(s) ==
  IF data.cursor[s] # NoCursor THEN data.cursor[s].at >= Oldest
  ELSE tick.from \in Oldest .. head

\* The items after the cursor, or from the start ledger on, at most a page
Answer(s) ==
  LET due(i) == /\ LedgerOf[s][i] <= head
                /\ IF data.cursor[s] # NoCursor THEN i > data.cursor[s].after
                   ELSE LedgerOf[s][i] >= tick.from
      all == SelectSeq([i \in Items(s) |-> i], due)
  IN SubSeq(all, 1, IF Len(all) < PageLimit THEN Len(all) ELSE PageLimit)

\* The metadata of a controller as resolve_did shows it: the updates made so far
Metadata(c) == Cardinality({e \in DOMAIN Updated :
                              Updated[e] = c /\ LedgerOf["event"][e] <= head})

-----------------------------------------------------------------------------
(* store.ts *)
\* flush: all of the state in one rename, and `change` only for new records
Flush(d, isDirty, isChanged) ==
  IF ~isDirty THEN /\ dirty' = FALSE /\ changed' = isChanged /\ UNCHANGED <<disk, summary>>
  ELSE /\ disk' = d /\ dirty' = FALSE /\ changed' = FALSE
       /\ summary' = IF isChanged THEN Records(d) ELSE summary

Keep(isDirty, isChanged) == /\ dirty' = isDirty /\ changed' = isChanged
                            /\ UNCHANGED <<disk, summary>>

Mut_Load(d) == data' = d /\ seen' = [s \in Streams |-> {}]

\* The constructor takes what load() answers and rebuilds the set of known ids
Load(d) == data' = d /\ seen' = [s \in Streams |-> ToSet(d.got[s])]

\* A file that cannot be read or parsed is answered with an empty store, which the next
\* flush writes over it
Unread == [Empty EXCEPT !.lost = accepted]

-----------------------------------------------------------------------------
(* The tick *)
\* The head of the loop of pollEvents and pollTransactions
Poll(s, d) ==
  LET from == IF d.start[s] # 0 THEN d.start[s] ELSE StartLedger IN
  [Waiting EXCEPT !.s = s, !.from = from,
     !.at = IF d.cursor[s] = NoCursor /\ from = 0 THEN "latest" ELSE "page"]

Timer ==
  /\ tick.at = "timer" /\ tick' = Poll("event", data)
  /\ UNCHANGED <<head, data, disk, seen, dirty, changed, summary, countryQueue, closing,
                 accepted, unlooked, rpcFaults, deaths>>

\* initialLedger
InitialLedger ==
  LET from == IF head - Lookback > 1 THEN head - Lookback ELSE 1 IN
  /\ tick.at = "latest" /\ tick' = [tick EXCEPT !.at = "page", !.from = from]
  /\ UNCHANGED <<head, data, disk, seen, dirty, changed, summary, countryQueue, closing,
                 accepted, unlooked, rpcFaults, deaths>>

\* resolveCountries: the queue first, then the created controllers without a country
Unresolved(d) ==
  LET created == SelectSeq(d.got["event"], LAMBDA e : e \in DOMAIN Created
                                              /\ d.country[Created[e]] = Unset)
  IN [i \in DOMAIN created |-> Created[created[i]]]
Pending(queue, d) ==
  LET all == queue \o Unresolved(d)
      once == SelectSeq([i \in DOMAIN all |-> i],
                        LAMBDA i : \A j \in 1 .. i - 1 : all[j] # all[i])
      n == IF Len(once) < LookupLimit THEN Len(once) ELSE LookupLimit
  IN [i \in 1 .. n |-> all[once[i]]]

\* The end of a tick, whether it ran through or threw: save, then arm the timer
EndTick(d, isDirty, isChanged) == tick' = Waiting /\ Flush(d, isDirty, isChanged)

\* What follows the last page of a stream
StreamDone(s, d, queue, isDirty, isChanged) ==
  LET todo == Pending(queue, d) IN
  IF s = "event" THEN /\ tick' = Poll("tx", d) /\ countryQueue' = queue
                      /\ Keep(isDirty, isChanged)
  ELSE /\ countryQueue' = SelectSeq(queue, LAMBDA c : ~Contains(todo, c))
       /\ IF todo = <<>> THEN EndTick(d, isDirty, isChanged)
          ELSE /\ tick' = [Waiting EXCEPT !.at = "lookup", !.todo = todo]
               /\ Keep(isDirty, isChanged)

\* handleEvent and the loop over transactions: what is not known yet is recorded
Recorded(s, page) ==
  SelectSeq(page, LAMBDA i : i \notin Ignored[s] /\ i \notin seen[s])

\* The cursor after a page; a stream of events without one moves its start ledger
Moved(s, page) ==
  LET d == data
      c == d.cursor[s] IN
  IF page # <<>>
  THEN [d EXCEPT !.cursor[s] = [after |-> Last(page), at |-> LedgerOf[s][Last(page)]]]
  ELSE IF c # NoCursor THEN d
  ELSE IF s = "event" THEN [d EXCEPT !.start[s] = head]
  ELSE [d EXCEPT !.cursor[s] =   \* External: getTransactions always returns a cursor
          [after |-> Cardinality({i \in Items(s) : LedgerOf[s][i] < tick.from}),
           at |-> tick.from]]

\* A page arrives: records and cursor change together, and a full page asks for more
PageArrives(s) ==
  LET page == Answer(s)
      new == Recorded(s, page)
      d == [Moved(s, page) EXCEPT !.got[s] = @ \o new,
                                  !.begin[s] = IF @ = 0 THEN tick.from ELSE @]
      updated == IF s = "tx" THEN <<>>
                 ELSE SelectSeq(page, LAMBDA i : i \in DOMAIN Updated \ Ignored[s])
      queue == countryQueue \o [i \in DOMAIN updated |-> Updated[updated[i]]]
      isChanged == changed \/ new # <<>>
  IN /\ tick.at = "page" /\ tick.s = s /\ InRange(s)
     /\ data' = d /\ seen' = [seen EXCEPT ![s] = @ \cup ToSet(new)]
     /\ IF Len(page) < PageLimit THEN StreamDone(s, d, queue, TRUE, isChanged)
        ELSE tick' = Poll(s, d) /\ countryQueue' = queue /\ Keep(TRUE, isChanged)
     /\ UNCHANGED <<head, closing, accepted, unlooked, rpcFaults, deaths>>

\* recoverFromRangeError, when the node names its range: ask again from the ledger
\* after its oldest
Restarted(s) ==
  [data EXCEPT !.cursor[s] = NoCursor, !.start[s] = Oldest + 1, !.begin[s] = Oldest + 1]

\* A node that lags refuses what another has shown
Refused(s) == \/ ~InRange(s) /\ UNCHANGED rpcFaults
              \/ rpcFaults < MaxRpcFaults /\ rpcFaults' = rpcFaults + 1

RangeError(s) ==
  /\ tick.at = "page" /\ tick.s = s /\ Refused(s)
  /\ data' = Restarted(s) /\ tick' = Poll(s, Restarted(s)) /\ Keep(TRUE, changed)
  /\ UNCHANGED <<head, seen, countryQueue, closing, accepted, unlooked, deaths>>

\* and when it does not: the cursor is dropped and the tick ends; the next one begins
\* the stream anew
BlindRangeError(s) ==
  LET d == [data EXCEPT !.cursor[s] = NoCursor, !.start[s] = 0, !.begin[s] = 0] IN
  /\ tick.at = "page" /\ tick.s = s /\ Refused(s)
  /\ data' = d /\ EndTick(d, TRUE, changed)
  /\ UNCHANGED <<head, seen, countryQueue, closing, accepted, unlooked, deaths>>

RpcFails ==
  /\ tick.at \in {"latest", "page"}
  /\ rpcFaults < MaxRpcFaults /\ rpcFaults' = rpcFaults + 1
  /\ EndTick(data, dirty, changed)
  /\ UNCHANGED <<head, data, seen, countryQueue, closing, accepted, unlooked, deaths>>

\* One resolve_did: a simulation that fails is skipped, and not queued again
Lookup(found) ==
  LET c == Head(tick.todo)
      d == IF found THEN [data EXCEPT !.country[c] = Metadata(c)] ELSE data
      rest == Tail(tick.todo)
  IN /\ tick.at = "lookup" /\ data' = d
     /\ unlooked' = IF found THEN unlooked \ {c} ELSE unlooked \cup {c}
     /\ IF rest = <<>> THEN EndTick(d, dirty \/ found, changed \/ found)
        ELSE tick' = [tick EXCEPT !.todo = rest] /\ Keep(dirty \/ found, changed \/ found)
     /\ UNCHANGED <<head, seen, countryQueue, closing, accepted, deaths>>
LookupOk == Lookup(TRUE) /\ UNCHANGED rpcFaults
LookupFails == /\ rpcFaults < MaxRpcFaults /\ rpcFaults' = rpcFaults + 1
               /\ Lookup(FALSE)

-----------------------------------------------------------------------------
(* server.ts *)
\* POST /api/verifications: recorded and saved before the 202
Report ==
  LET d == [data EXCEPT !.reports = @ + 1] IN
  /\ accepted < MaxReports /\ accepted' = accepted + 1
  /\ data' = d /\ Flush(d, TRUE, TRUE)
  /\ UNCHANGED <<head, seen, tick, countryQueue, closing, unlooked, rpcFaults, deaths>>

\* Every 25 s the summary is computed anew
Roll ==
  /\ summary # Records(data) /\ summary' = Records(data)
  /\ UNCHANGED <<head, data, disk, seen, dirty, changed, tick, countryQueue, closing,
                 accepted, unlooked, rpcFaults, deaths>>

\* SIGINT, SIGTERM: stop() clears the timer, and a tick that is running arms it again
Signal ==
  /\ ~closing /\ deaths < MaxDeaths /\ closing' = TRUE
  /\ tick' = IF tick.at = "timer" THEN [tick EXCEPT !.at = "halted"] ELSE tick
  /\ Flush(data, dirty, changed)
  /\ UNCHANGED <<head, data, seen, countryQueue, accepted, unlooked, rpcFaults, deaths>>

\* The process exits or dies, by a failed write too, and is started again
Restart == \E d \in {disk, Unread} :
  /\ deaths < MaxDeaths /\ deaths' = deaths + 1
  /\ Load(d) /\ dirty' = FALSE /\ changed' = FALSE /\ summary' = Records(d)
  /\ tick' = Waiting /\ countryQueue' = <<>> /\ closing' = FALSE
  /\ unlooked' = unlooked \cup ToSet(countryQueue) \cup ToSet(tick.todo)
                 \cup {c \in Controllers : data.country[c] # d.country[c]}
  /\ UNCHANGED <<head, disk, accepted, rpcFaults>>

TickStep ==
  \/ Timer \/ InitialLedger \/ LookupOk
  \/ \E s \in Streams : PageArrives(s) \/ (~InRange(s) /\ RangeError(s))

IndexNext ==
  \/ TickStep \/ LedgerCloses \/ RpcFails \/ LookupFails \/ Report \/ Roll \/ Signal
  \/ Restart
  \/ \E s \in Streams : RangeError(s) \/ BlindRangeError(s)

\* The timer fires and the node answers; the service runs beside a chain that goes on
IndexFairness == WF_indexVars(TickStep) /\ WF_indexVars(LedgerCloses)

IndexSpec == IndexInit /\ [][IndexNext]_indexVars /\ IndexFairness

-----------------------------------------------------------------------------
\* No item is counted twice, in memory or in the file, although pages are read again
\* after a range error and after a crash (store.ts:90-96, 107-113).
RecordedOnce == \A d \in {data, disk}, s \in Streams : IsInjective(d.got[s])

Passed(d, s) ==
  {i \in Items(s) \ Ignored[s] :
     IF d.cursor[s] # NoCursor THEN i <= d.cursor[s].after ELSE LedgerOf[s][i] < d.start[s]}
Missed(d, s) == {i \in Items(s) \ Ignored[s] : ~Contains(d.got[s], i)}
\* Neither the cursors in memory nor those in the file are past an item that has no
\* record, whenever the process dies, but for the ledgers before the one the stream was
\* last begun at: a store's first request, the ledger after the oldest one a range error
\* named, or the first request after one that named none
\* (indexer.ts:116-143, 152-165; analytics/README.md:27, "so a restart resumes from the
\* last cursor").
PassedOnlyIfAged ==
  \A d \in {data, disk}, s \in Streams :
    \A i \in Passed(d, s) \cap Missed(d, s) : LedgerOf[s][i] < d.begin[s]

\* What indexer.ts:148-150 and analytics/README.md:27 say of a service that was down for
\* too long, "it resumes at the oldest ledger the RPC still has": an item of a stream
\* that was begun is passed without a record only when the node has it no more.
ResumesAtOldest ==
  [][\A s \in Streams : data.begin[s] # 0 =>
       \A i \in (Passed(data', s) \cap Missed(data', s)) \ Passed(data, s) :
         LedgerOf[s][i] < data.begin[s] \/ LedgerOf[s][i] < Oldest]_indexVars

\* A report answered with 202 is in the file until the service starts without being able
\* to read it and saves again (server.ts:89-98, store.ts:98-105, 138-145).
ReportsKept == disk.reports + disk.lost = accepted

\* With nothing left to save, the dashboard has been told of every record
\* (store.ts:139-150, server.ts:28-32).
SummaryCurrent == ~dirty => summary = Records(data)

\* A country that is known is as new as the last recorded update of its DID, unless
\* that update waits for its lookup, its lookup failed or the queue died with the
\* process (indexer.ts:185-187, 311-340).
CountryFollowsUpdates ==
  \A c \in Controllers :
    \/ Contains(countryQueue, c) \/ Contains(tick.todo, c) \/ c \in unlooked
    \/ data.country[c] = Unset
    \/ data.country[c] >= Cardinality({e \in ToSet(data.got["event"]) :
                                         e \in DOMAIN Updated /\ Updated[e] = c})

UpToDate ==
  closing \/ \A s \in Streams : \A i \in Missed(disk, s) :
               LedgerOf[s][i] > head \/ LedgerOf[s][i] < disk.begin[s]

\* Everything the node shows is in the file in the end, unless the service is shutting
\* down or the stream was begun anew after its ledger (indexer.ts:73-98).
IndexCatchesUp == []<>UpToDate
=============================================================================
