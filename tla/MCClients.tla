------------------------------- MODULE MCClients -------------------------------
(***************************************************************************)
(* What uses the ledger or the server from outside, checked side by side   *)
(* in one run: the SDK's request queue, its contract clients, its event    *)
(* feeds, the offline write queue of the mobile app, and the analytics     *)
(* indexer.  The parts share no state here: a behaviour belongs to one of  *)
(* them and the others stay as created.                                    *)
(***************************************************************************)
EXTENDS RequestQueue, SdkClient, MobileOffline, EventFeed, TLC

CONSTANTS r1, r2, r3, r4

VARIABLES
  part,
  head, data, disk, known, dirty, changed, summary, tick, countryQueue, closing,
  accepted, unlooked, rpcFaults, deaths

\* One call of any method beside one of two
OfferedMethods == [c1 |-> WriteMethods \cup ReadMethods,
                   c2 |-> {renewCredential, credentialsInitialized}]

\* Two polls that overlap can deliver the second event of ledger 2 after ledger 3
EventLedgers == <<1, 2, 2, 3, 3>>

X == INSTANCE AnalyticsIndexer WITH
       seen <- known, LedgerOf <- [event |-> <<1, 2, 2>>, tx |-> <<1, 2>>],
       Ignored <- [event |-> {}, tx |-> {1}],
       Created <- 1 :> "a" @@ 2 :> "b", Updated <- 3 :> "a", PageLimit <- 2,
       LookupLimit <- 1, StartLedger <- 0, Lookback <- 1, Retention <- 2,
       MaxLedger <- 3, MaxRpcFaults <- 1, MaxDeaths <- 1, MaxReports <- 1

indexVars == <<head, data, disk, known, dirty, changed, summary, tick, countryQueue,
               closing, accepted, unlooked, rpcFaults, deaths>>
clientVars == <<part, vars, sdkVars, feedVars, offlineVars, indexVars>>

ClientsInit ==
  /\ part \in {"queue", "sdk", "feed", "offline", "index"}
  /\ Init /\ SdkInit /\ FeedInit /\ OfflineInit /\ X!IndexInit
  /\ part = "feed" \/ (kind = "subscribe" /\ unreadable = {})
  /\ part = "offline" \/ online

On(p, A) == part = p /\ A

Queue ==
  part = "queue" /\ Next /\ UNCHANGED <<part, sdkVars, feedVars, offlineVars, indexVars>>
Sdk ==
  part = "sdk" /\ SdkNext /\ UNCHANGED <<part, vars, feedVars, offlineVars, indexVars>>
Feed ==
  part = "feed" /\ FeedNext /\ UNCHANGED <<part, vars, sdkVars, offlineVars, indexVars>>
Mobile ==
  part = "offline" /\ OfflineNext /\ UNCHANGED <<part, vars, sdkVars, feedVars, indexVars>>
Index ==
  part = "index" /\ X!IndexNext /\ UNCHANGED <<part, vars, sdkVars, feedVars, offlineVars>>

ClientsNext == Queue \/ Sdk \/ Feed \/ Mobile \/ Index

\* Each part's own fairness, as its module states it
ClientsFairness ==
  /\ \A r \in Request : WF_vars(On("queue", Settle(r) \/ Release(r) \/ RetryTimer(r)))
  /\ \A c \in Calls : WF_sdkVars(On("sdk", Answer(c)))
  /\ \A p \in Polls : WF_feedVars(On("feed", FeedStep(p)))
  /\ WF_offlineVars(On("offline", SyncStep))
  /\ \A m \in Mutations :
       WF_offlineVars(On("offline", EnqueueWrites(m) \/ DequeueWrites(m)))
  /\ WF_indexVars(On("index", X!TickStep)) /\ WF_indexVars(On("index", X!LedgerCloses))

ClientsSpec == ClientsInit /\ [][ClientsNext]_clientVars /\ ClientsFairness

-----------------------------------------------------------------------------
\* analytics/src/indexer.ts:148-150: an indexer that fell out of the node's window goes on
\* with the oldest ledger the node reports (the code goes on with the one after it, 157).
ResumesAtOldest == X!ResumesAtOldest

\* analytics/src/indexer.ts, store.ts, server.ts: an item is counted once, the cursors
\* in memory and in the file are past no item without a record but for what is older
\* than where the stream was last begun, a report that was accepted is in the file, the
\* dashboard has been told of what was saved, and a country follows the updates of its
\* DID.
IndexKept ==
  /\ X!IndexTypeOK
  /\ X!RecordedOnce /\ X!PassedOnlyIfAged /\ X!ReportsKept /\ X!SummaryCurrent
  /\ X!CountryFollowsUpdates

\* request-queue.ts, base-client.ts, events.ts, offline.ts, indexer.ts: every request
\* and every call ends, what the node shows reaches the handler of a feed that runs,
\* every queued mutation is settled if syncs keep starting, and what the node shows is in
\* the index's file in the end (EveryRequestSettles, CallsSettle, EventuallyHandled,
\* QueueDrains and IndexCatchesUp as one formula: a behaviour moves one part only).
ClientsSettle ==
  []<>(part = "offline" => sync.at = "asking") =>
    []<>(/\ NoneOpen /\ NoneRunning /\ AllHandled /\ QueueDrained
         /\ part = "index" => X!UpToDate)
=============================================================================
